------------------------- MODULE ChainReplayProofs -------------------------
(***************************************************************************)
(* What a replay does, for every file, every options and every key         *)
(* function.                                                               *)
(***************************************************************************)
EXTENDS ChainReplay, TLAPS

-----------------------------------------------------------------------------
(* Facts about lines.                                                      *)

\* A file: any number of lines.  (Not only those of the constant Line, so that what is
\* proved here can be used of files that come into being in the course of a behaviour.)
IsFile(f) ==
  /\ f.lines \in Seq({f.lines[i] : i \in DOMAIN f.lines})
  /\ \A i \in DOMAIN f.lines : IsLine(f.lines[i])

\* The lines of a file are counted from 1.
LEMMA FileShape ==
  ASSUME NEW f, IsFile(f)
  PROVE  Len(f.lines) \in Nat /\ DOMAIN f.lines = 1 .. Len(f.lines)
<1>1. f.lines \in Seq({f.lines[i] : i \in DOMAIN f.lines})
  BY DEF IsFile
<1> QED
  BY <1>1

\* The files that a run of VerifyReader begins with are files.
LEMMA FilesAreFiles == ASSUME NEW f \in File PROVE IsFile(f)
<1>1. f.lines \in Seq(Line)
  BY DEF File
<1>2. Len(f.lines) \in Nat /\ DOMAIN f.lines = 1 .. Len(f.lines)
  BY <1>1
<1>3. \A i \in DOMAIN f.lines : f.lines[i] \in Line
  BY <1>1
<1> DEFINE L == f.lines
           T == {L[i] : i \in DOMAIN L}
<1>4. L \in [1 .. Len(L) -> T]
  <2>1. L = [i \in 1 .. Len(L) |-> L[i]]
    BY <1>1
  <2> QED
    BY <1>2, <2>1
<1>5. L \in Seq(T)
  <2>1. Len(L) \in Nat
    BY <1>2
  <2> HIDE DEF T, L
  <2> QED
    BY <1>4, <2>1
<1>6. \A i \in DOMAIN L : IsLine(L[i])
  BY <1>3, LineAssumption
<1> QED
  BY <1>5, <1>6 DEF IsFile

\* A number read from a file is one of the unsigned integers.
LEMMA ParsedNumber == ASSUME NEW n \in Int PROVE ParseUint(n) \in Uint
  BY WAssumption DEF ParseUint, Uint

\* A line is governed by at most one start line.
LEMMA GovernsUnique ==
  ASSUME NEW L, NEW i \in Nat, NEW s, NEW t, Governs(L, s, i), Governs(L, t, i)
  PROVE  s = t
<1>1. s \in Int /\ t \in Int /\ s <= i /\ t <= i /\ IsStart(L, s) /\ IsStart(L, t)
  BY DEF Governs
<1>2. ~(s < t)
  BY <1>1 DEF Governs
<1>3. ~(t < s)
  BY <1>1 DEF Governs
<1> QED
  BY <1>1, <1>2, <1>3

\* A line is preceded by at most one signed line.
LEMMA PrecedesUnique ==
  ASSUME NEW L, NEW i \in Nat, NEW p, NEW q, Precedes(L, p, i), Precedes(L, q, i)
  PROVE  p = q
<1>1. p \in Int /\ q \in Int /\ p <= i - 1 /\ q <= i - 1 /\ Signed(L, p) /\ Signed(L, q)
  BY DEF Precedes
<1>2. ~(p < q)
  BY <1>1 DEF Precedes
<1>3. ~(q < p)
  BY <1>1 DEF Precedes
<1> QED
  BY <1>1, <1>2, <1>3

-----------------------------------------------------------------------------
(* Types.                                                                  *)

TypeInv == IsFile(file) /\ TypeOK

\* No segment is a segment that starts nowhere.
LEMMA NoSegmentType == IsSegment(NoSegment) /\ NoSegment.at = 0
  BY WAssumption DEF IsSegment, NoSegment, Uint

\* A start line's segment.
LEMMA NewSegmentType ==
  ASSUME NEW l, IsLine(l), NEW at \in Nat, NEW first \in Nat
  PROVE  IsSegment(NewSegment(l, at, first))
<1>1. l.text.v \in {"", "2"} /\ l.text.seq \in Int
  BY DEF IsLine, IsText
<1>2. ParseUint(l.text.seq) \in Uint
  BY <1>1, ParsedNumber
<1> QED
  BY <1>1, <1>2 DEF IsSegment, NewSegment

\* A segment stays one when lines are added to it.
LEMMA AdvancedType ==
  ASSUME NEW c, IsSegment(c), NEW final, NEW count \in Nat, NEW last \in Nat
  PROVE  /\ IsSegment(Advanced(c, final, count, last))
         /\ Advanced(c, final, count, last).at = c.at
  BY DEF IsSegment, Advanced

\* A segment stays one when it is closed.
LEMMA ClosedType ==
  ASSUME NEW c, IsSegment(c), NEW last \in Nat
  PROVE  IsSegment(Closed(c, last)) /\ Closed(c, last).at = c.at
<1>1. c.count \in Nat
  BY DEF IsSegment
<1> QED
  BY <1>1, AdvancedType DEF Closed

\* What a step that reads a line has in hand.
LEMMA ReadTypes ==
  ASSUME TypeInv, NEW forms, Read(forms)
  PROVE  /\ pos \in Nat /\ pos \in 1 .. Len(file.lines)
         /\ pos' = pos + 1 /\ pos' \in 1 .. Len(file'.lines) + 1
         /\ lineNum \in 0 .. pos - 1
         /\ IsFile(file') /\ opt' \in Options
         /\ UNCHANGED input
         /\ IsLine(file.lines[pos])
<1>1. Len(file.lines) \in Nat
  BY FileShape DEF TypeInv
<1>2. pos \in Int /\ phase = "scan" /\ pos <= Len(file.lines) /\ pos' = pos + 1
      /\ UNCHANGED input
  BY <1>1 DEF TypeInv, TypeOK, Read
<1>3. pos \in 1 .. Len(file.lines)
  BY <1>1, <1>2 DEF TypeInv, TypeOK
<1>4. IsLine(file.lines[pos])
  BY <1>3, FileShape DEF TypeInv, IsFile
<1> QED
  BY <1>1, <1>2, <1>3, <1>4 DEF TypeInv, TypeOK, input

\* The outcome of a step that reports something.
LEMMA ReportTypes ==
  ASSUME TypeInv, pos \in Nat, lineNum' \in Nat,
         NEW reason \in Reasons,
         NEW closed, \A s \in closed : IsSegment(s),
         NEW c, IsSegment(c), NEW after, IsSegment(after),
         Report(reason, closed, c, after)
  PROVE  /\ phase' \in {"scan", "done"} /\ truncated' \in BOOLEAN
         /\ IsSegment(cur')
         /\ \A s \in segments' : IsSegment(s)
         /\ \A i \in issues' : IsIssue(i)
<1>1. \A i \in issues' : IsIssue(i)
  <2>1. IsIssue(Issue(lineNum', pos, reason))
    BY DEF Issue, IsIssue
  <2> QED
    BY <2>1 DEF TypeInv, TypeOK, Report
<1>2. CASE opt.stopOnFirst
  <2>1. IsSegment(Closed(c, lineNum'))
    BY ClosedType
  <2>2. Stop(closed, c)
    BY <1>2 DEF Report
  <2> QED
    BY <1>1, <2>1, <2>2, NoSegmentType DEF Stop, Present
<1>3. CASE ~opt.stopOnFirst
  <2>1. Continue(closed, after)
    BY <1>3 DEF Report
  <2> QED
    BY <1>1, <2>1 DEF Continue, TypeInv, TypeOK
<1> QED
  BY <1>2, <1>3

\* The outcome of a MAC check.
LEMMA CheckTypes ==
  ASSUME TypeInv, pos \in Nat, lineNum' \in Nat,
         NEW closed, \A s \in closed : IsSegment(s),
         NEW c, IsSegment(c), NEW k, NEW prev,
         CheckMAC(closed, c, k, prev)
  PROVE  /\ phase' \in {"scan", "done"} /\ truncated' \in BOOLEAN
         /\ IsSegment(cur')
         /\ \A s \in segments' : IsSegment(s)
         /\ \A i \in issues' : IsIssue(i)
         /\ \A d \in calls' : IsCall(d)
<1> DEFINE l       == file.lines[pos]
           want    == HMAC(k, l.text, prev)
           reached == IF Matches(l, want) THEN want ELSE Claimed(l, want)
           after   == Advanced(c, {reached}, c.count + 1, lineNum')
           call    == [chain |-> c.chain, seq |-> c.seq, at |-> pos,
                       line |-> c.count + 1, mac |-> reached]
<1>1. c.count \in Nat /\ c.seq \in Uint
  BY DEF IsSegment
<1>2. IsSegment(after)
  BY <1>1, AdvancedType
<1>3. IsCall(call)
  <2> HIDE DEF reached
  <2> QED
    BY <1>1 DEF IsCall
<1>4. calls' = calls \/ calls' = calls \cup {call}
  BY Zenon DEF CheckMAC
<1>5. \A d \in calls' : IsCall(d)
  BY <1>3, <1>4 DEF TypeInv, TypeOK
<1>6. CASE Matches(l, want)
  <2>1. Continue(closed, after) /\ issues' = issues
    BY <1>6, Zenon DEF CheckMAC
  <2> QED
    BY <1>2, <1>5, <2>1 DEF Continue, TypeInv, TypeOK
<1>7. CASE ~Matches(l, want)
  <2>1. Report("mismatch", closed, c, after)
    BY <1>7, Zenon DEF CheckMAC
  <2> HIDE DEF after
  <2> QED
    BY <1>2, <1>5, <2>1, ReportTypes DEF Reasons
<1> QED
  BY <1>6, <1>7

\* Every step keeps the types.
LEMMA TypeStep == TypeInv /\ [Next]_vars => TypeInv'
<1> SUFFICES ASSUME TypeInv, [Next]_vars PROVE TypeInv'
  OBVIOUS
<1> DEFINE line == file.lines[pos]
<1>1. CASE SkipBlank
  <2>1. Read({"blank"})
    BY <1>1 DEF SkipBlank
  <2> QED
    BY <1>1, <2>1, ReadTypes DEF SkipBlank, TypeInv, TypeOK
<1>2. CASE SkipUnsigned
  <2>1. Read({"nobrace", "nomac"})
    BY <1>2 DEF SkipUnsigned
  <2> QED
    BY <1>2, <2>1, ReadTypes DEF SkipUnsigned, TypeInv, TypeOK
<1>3. CASE RejectLine
  <2>1. PICK forms \in {{"nobrace", "nomac"}, {"badmac"}} : Read(forms)
    BY <1>3 DEF RejectLine
  <2>2. line.form \in Reasons
    BY <2>1 DEF Read, Reasons
  <2>3. lineNum' \in Nat /\ lineNum' \in 0 .. pos' - 1 /\ pos \in Nat
    BY <1>3, <2>1, ReadTypes DEF RejectLine
  <2>4. Report(line.form, segments, cur, cur) /\ calls' = calls
    BY <1>3 DEF RejectLine
  <2>5. \A s \in segments : IsSegment(s)
    BY DEF TypeInv, TypeOK
  <2>6. IsSegment(cur)
    BY DEF TypeInv, TypeOK
  <2> QED
    BY <2>1, <2>2, <2>3, <2>4, <2>5, <2>6, ReadTypes, ReportTypes DEF TypeInv, TypeOK
<1>4. CASE Orphan
  <2>1. Read({"signed"})
    BY <1>4 DEF Orphan
  <2>2. lineNum' \in Nat /\ lineNum' \in 0 .. pos' - 1 /\ pos \in Nat
    BY <1>4, <2>1, ReadTypes DEF Orphan
  <2>3. Report("orphan", segments, cur, cur) /\ calls' = calls
    BY <1>4 DEF Orphan
  <2>4. IsSegment(cur) /\ \A s \in segments : IsSegment(s)
    BY DEF TypeInv, TypeOK
  <2> QED
    BY <2>1, <2>2, <2>3, <2>4, ReadTypes, ReportTypes DEF TypeInv, TypeOK, Reasons
<1>5. CASE KeylessLine
  <2>1. Read({"signed"})
    BY <1>5 DEF KeylessLine
  <2> QED
    BY <1>5, <2>1, ReadTypes DEF KeylessLine, TypeInv, TypeOK
<1>6. CASE CheckLine
  <2>1. Read({"signed"})
    BY <1>6 DEF CheckLine
  <2>2. lineNum' \in Nat /\ lineNum' \in 0 .. pos' - 1 /\ pos \in Nat
    BY <1>6, <2>1, ReadTypes DEF CheckLine
  <2>3. CheckMAC(segments, cur, key, prevMAC)
    BY <1>6 DEF CheckLine
  <2>4. IsSegment(cur) /\ \A s \in segments : IsSegment(s)
    BY DEF TypeInv, TypeOK
  <2> QED
    BY <2>1, <2>2, <2>3, <2>4, ReadTypes, CheckTypes DEF TypeInv, TypeOK
<1>7. CASE StartSegment
  <2> DEFINE closed == segments \cup Present(Closed(cur, lineNum))
             c == NewSegment(line, pos, lineNum + 1)
             k == keyFor[<<c.chain, c.seq>>]
  <2>1. Read({"signed"})
    BY <1>7 DEF StartSegment
  <2>2. /\ lineNum \in Nat /\ lineNum' \in Nat /\ lineNum' \in 0 .. pos' - 1
        /\ pos \in Nat /\ IsLine(line)
    BY <1>7, <2>1, ReadTypes DEF StartSegment
  <2>3. IsSegment(cur) /\ \A s \in segments : IsSegment(s)
    BY DEF TypeInv, TypeOK
  <2>4. \A s \in closed : IsSegment(s)
    BY <2>2, <2>3, ClosedType DEF Present
  <2>5. IsSegment(c)
    BY <2>2, NewSegmentType
  <2>6. \/ Report("nokey", closed, c, c) /\ calls' = calls
        \/ CheckMAC(closed, c, k, Zero)
    BY <1>7, Zenon DEF StartSegment
  <2> HIDE DEF closed, c, k
  <2>7. /\ phase' \in {"scan", "done"} /\ truncated' \in BOOLEAN
        /\ IsSegment(cur')
        /\ \A s \in segments' : IsSegment(s)
        /\ \A i \in issues' : IsIssue(i)
        /\ \A d \in calls' : IsCall(d)
    <3>1. CASE Report("nokey", closed, c, c) /\ calls' = calls
      BY <2>2, <2>4, <2>5, <3>1, ReportTypes DEF Reasons, TypeInv, TypeOK
    <3>2. CASE CheckMAC(closed, c, k, Zero)
      BY <2>2, <2>4, <2>5, <3>2, CheckTypes
    <3> QED
      BY <2>6, <3>1, <3>2
  <2> QED
    BY <2>1, <2>2, <2>7, ReadTypes DEF TypeInv, TypeOK
<1>8. CASE EndOfInput
  <2>1. \A i \in issues' : IsIssue(i)
    <3>1. IsIssue(Issue(0, 0, "read error")) /\ IsIssue(Issue(0, 0, "no lines"))
      BY DEF IsIssue, Issue, Reasons
    <3>2. issues' \subseteq issues \cup {Issue(0, 0, "read error"), Issue(0, 0, "no lines")}
      BY <1>8 DEF EndOfInput
    <3> QED
      BY <3>1, <3>2 DEF TypeInv, TypeOK
  <2>2. /\ phase' \in {"scan", "done"} /\ truncated' \in BOOLEAN
        /\ IsSegment(cur')
        /\ \A s \in segments' : IsSegment(s)
    BY <1>8, NoSegmentType DEF EndOfInput, TypeInv, TypeOK, Present
  <2> QED
    BY <1>8, <2>1, <2>2 DEF EndOfInput, TypeInv, TypeOK
<1>9. CASE UNCHANGED vars
  BY <1>9 DEF vars, TypeInv, TypeOK
<1> QED
  BY <1>1, <1>2, <1>3, <1>4, <1>5, <1>6, <1>7, <1>8, <1>9
     DEF Next, ReplayStep, Returned

\* A replay that has just begun, of any file.
Fresh ==
  /\ IsFile(file) /\ opt \in Options
  /\ phase = "scan" /\ pos = 1 /\ lineNum = 0
  /\ prevMAC = Zero /\ key = {} /\ cur = NoSegment
  /\ segments = {} /\ issues = {} /\ calls = {} /\ truncated = FALSE

\* A run of VerifyReader begins so.
LEMMA InitIsFresh == Init => Fresh
  BY FilesAreFiles DEF Init, Fresh

\* A replay starts well formed.
LEMMA TypeInit == Fresh => TypeInv
  <1> SUFFICES ASSUME Fresh PROVE TypeInv
    OBVIOUS
  <1>1. IsFile(file) /\ Len(file.lines) \in Nat
    BY FileShape DEF Fresh
  <1>2. pos \in 1 .. Len(file.lines) + 1 /\ lineNum \in 0 .. pos - 1
    BY <1>1 DEF Fresh
  <1>3. /\ opt \in Options /\ phase \in {"scan", "done"} /\ truncated \in BOOLEAN
        /\ segments = {} /\ issues = {} /\ calls = {} /\ IsSegment(cur)
    BY NoSegmentType DEF Fresh
  <1> QED
    BY <1>1, <1>2, <1>3 DEF TypeInv, TypeOK

\* A replay is well formed in every state of every run: the fields of its
\* segments, issues and calls keep their types, and the line counter never runs
\* ahead of the lines that were read.
THEOREM TypeCorrect == Spec => []TypeOK
<1>1. TypeInv => TypeOK
  BY DEF TypeInv
<1> QED
  BY <1>1, InitIsFresh, TypeInit, TypeStep, PTL DEF Spec

-----------------------------------------------------------------------------
(* Where a line stands in its file.                                        *)

\* A line that starts no segment belongs to the segment of the line before.
LEMMA GovernsOn ==
  ASSUME NEW L, NEW i \in Nat, NEW s, Governs(L, s, i - 1), ~IsStart(L, i)
  PROVE  Governs(L, s, i)
  BY DEF Governs

\* A start line governs itself.
LEMMA GovernsSelf ==
  ASSUME NEW L, NEW i \in Nat \ {0}, IsStart(L, i)
  PROVE  Governs(L, i, i)
  BY DEF Governs

\* A start line that governs a line governs itself too.
LEMMA GovernsStart ==
  ASSUME NEW L, NEW i \in Nat, NEW s, Governs(L, s, i)
  PROVE  s \in Nat \ {0} /\ s <= i /\ IsStart(L, s) /\ Governs(L, s, s)
  BY DEF Governs

\* A line that is not signed leaves the last signed line where it was ...
LEMMA PrecedesOn ==
  ASSUME NEW L, NEW i \in Nat, NEW p, Precedes(L, p, i), ~Signed(L, i)
  PROVE  Precedes(L, p, i + 1)
  BY DEF Precedes

\* ... and one that is signed becomes it.
LEMMA PrecedesSelf ==
  ASSUME NEW L, NEW i \in Nat \ {0}, Signed(L, i)
  PROVE  Precedes(L, i, i + 1)
  BY DEF Precedes

-----------------------------------------------------------------------------
(* When a line is bad, by its kind.                                        *)

\* A line that is not signed is judged by its form.
LEMMA UnsignedBad ==
  ASSUME NEW L, NEW o, NEW kf, NEW i \in Nat, ~Signed(L, i)
  PROVE  Bad(L, o, kf, i) <=>
           \/ Unsigned(L, i) /\ ~o.allowUnsigned
           \/ L[i].form = "badmac"
  BY DEF Bad

\* A signed line that no start line governs is bad.
LEMMA OrphanBad ==
  ASSUME NEW L, NEW o, NEW kf, NEW i \in Nat, Signed(L, i),
         \A s \in 1 .. i : ~IsStart(L, s)
  PROVE  Bad(L, o, kf, i)
  BY DEF Bad, Governs

\* A signed line is judged in the one segment it belongs to.
LEMMA SignedBad ==
  ASSUME NEW L, NEW o, NEW kf, NEW i \in Nat, NEW s, Signed(L, i), Governs(L, s, i)
  PROVE  Bad(L, o, kf, i) <=>
           (IF KeyAt(L, kf, s) = {} THEN s = i ELSE ~Chained(L, kf, s, i))
<1>1. s \in 1 .. i
  BY DEF Governs
<1>2. \A t \in 1 .. i : Governs(L, t, i) => t = s
  BY GovernsUnique
<1>3. ~Unsigned(L, i) /\ L[i].form # "badmac"
  BY DEF Signed, Unsigned
<1> QED
  BY <1>1, <1>2, <1>3, Zenon DEF Bad

\* A start line is chained when its MAC follows from the zero bytes.
LEMMA StartChained ==
  ASSUME NEW L, NEW kf, NEW i
  PROVE  Chained(L, kf, i, i) <=>
           Matches(L[i], HMAC(KeyAt(L, kf, i), L[i].text, Zero))
  BY DEF Chained

\* Any other line is chained when its MAC follows from the last signed line's.
LEMMA LineChained ==
  ASSUME NEW L, NEW kf, NEW i \in Nat, NEW s \in Nat, NEW p \in s .. i - 1,
         Precedes(L, p, i)
  PROVE  Chained(L, kf, s, i) <=>
           Matches(L[i], HMAC(KeyAt(L, kf, s), L[i].text, L[p].mac))
<1>1. s # i
  OBVIOUS
<1>2. \A q \in s .. i - 1 : Precedes(L, q, i) => q = p
  BY PrecedesUnique
<1> QED
  BY <1>1, <1>2, Zenon DEF Chained

-----------------------------------------------------------------------------
(* What a step does to the report.                                         *)

\* An issue about a line flags that line and no other.
LEMMA Flagging ==
  ASSUME pos \in Nat \ {0}, NEW n, NEW reason,
         issues' = issues \cup {Issue(n, pos, reason)}
  PROVE  Flagged' = Flagged \cup {pos}
<1>1. Issue(n, pos, reason).at = pos
  BY DEF Issue
<1> QED
  BY <1>1 DEF Flagged

\* An issue about the file flags no line.
LEMMA FileIssues ==
  ASSUME EndOfInput
  PROVE  Flagged' = Flagged
<1>1. Issue(0, 0, "read error").at = 0 /\ Issue(0, 0, "no lines").at = 0
  BY DEF Issue
<1>2. \A i : i \in issues' <=> \/ i \in issues
                               \/ i = Issue(0, 0, "read error") /\ file.err
                               \/ i = Issue(0, 0, "no lines") /\ lineNum = 0
  BY DEF EndOfInput
<1> QED
  BY <1>1, <1>2 DEF Flagged

\* A finding about the line being read.
LEMMA ReportOutcome ==
  ASSUME pos \in Nat \ {0}, NEW reason, NEW closed, NEW c, NEW after,
         Report(reason, closed, c, after)
  PROVE  /\ issues' # {} /\ Flagged' = Flagged \cup {pos}
         /\ opt.stopOnFirst => phase' = "done"
         /\ ~opt.stopOnFirst => phase' = phase /\ cur' = after
<1>1. issues' = issues \cup {Issue(lineNum', pos, reason)}
  BY DEF Report
<1>2. issues' # {} /\ Flagged' = Flagged \cup {pos}
  BY <1>1, Flagging
<1> QED
  BY <1>2 DEF Report, Stop, Continue

\* A MAC check: what is on disk is what the chain goes on from.
LEMMA CheckOutcome ==
  ASSUME pos \in Nat \ {0}, NEW closed, NEW c, NEW k, NEW prev,
         CheckMAC(closed, c, k, prev)
  PROVE  LET l == file.lines[pos]
         IN  /\ key' = k
             /\ Matches(l, HMAC(k, l.text, prev)) =>
                  /\ issues' = issues /\ Flagged' = Flagged /\ phase' = phase
                  /\ cur'.at = c.at /\ prevMAC' = l.mac
             /\ ~Matches(l, HMAC(k, l.text, prev)) =>
                  /\ issues' # {} /\ Flagged' = Flagged \cup {pos}
                  /\ opt.stopOnFirst => phase' = "done"
                  /\ ~opt.stopOnFirst =>
                       /\ phase' = phase /\ cur'.at = c.at
                       /\ l.hex = "none" \/ prevMAC' = l.mac
<1> DEFINE l       == file.lines[pos]
           want    == HMAC(k, l.text, prev)
           reached == IF Matches(l, want) THEN want ELSE Claimed(l, want)
           after   == Advanced(c, {reached}, c.count + 1, lineNum')
<1>1. after.at = c.at
  BY DEF Advanced
<1>2. key' = k
  BY Zenon DEF CheckMAC
<1>3. CASE Matches(l, want)
  <2>1. Continue(closed, after) /\ issues' = issues /\ prevMAC' = want
    BY <1>3, Zenon DEF CheckMAC
  <2>2. l.mac = want
    BY <1>3, Zenon DEF Matches
  <2>3. Flagged' = Flagged
    BY <2>1, Zenon DEF Flagged
  <2> QED
    BY <1>1, <1>2, <1>3, <2>1, <2>2, <2>3, Zenon DEF Continue
<1>4. CASE ~Matches(l, want)
  <2>1. /\ Report("mismatch", closed, c, after)
        /\ ~opt.stopOnFirst => prevMAC' = Claimed(l, want)
    BY <1>4, Zenon DEF CheckMAC
  <2>2. l.hex = "none" \/ Claimed(l, want) = l.mac
    BY Zenon DEF Claimed
  <2> HIDE DEF l, want, after
  <2>3. /\ issues' # {} /\ Flagged' = Flagged \cup {pos}
        /\ opt.stopOnFirst => phase' = "done"
        /\ ~opt.stopOnFirst => phase' = phase /\ cur' = after
    BY <2>1, ReportOutcome
  <2> QED
    BY <1>1, <1>2, <1>4, <2>1, <2>2, <2>3, Zenon DEF l, want
<1> QED
  BY <1>3, <1>4, Zenon

-----------------------------------------------------------------------------
(* The state of the loop and the file it is reading.                       *)

\* Before line i the segment that started at line "at" is open (none when it is
\* 0), its key is k, and prev is what the last signed line states.
Open(L, kf, i, at, k, prev) ==
  IF at = 0
  THEN \A j \in 1 .. i - 1 : ~IsStart(L, j)
  ELSE /\ Governs(L, at, i - 1)
       /\ k = KeyAt(L, kf, at)
       /\ \E p \in at .. i - 1 :
            /\ Precedes(L, p, i)
            /\ k = {} \/ L[p].hex = "none" \/ prev = L[p].mac

OpenSegment == phase = "scan" => Open(file.lines, keyFor, pos, cur.at, key, prevMAC)

\* A line that is not signed changes nothing.
LEMMA OpenPasses ==
  ASSUME NEW L, NEW kf, NEW i \in Nat, NEW at \in Nat, NEW k, NEW prev,
         Open(L, kf, i, at, k, prev), ~Signed(L, i)
  PROVE  Open(L, kf, i + 1, at, k, prev)
<1>1. ~IsStart(L, i)
  BY DEF IsStart
<1>2. CASE at = 0
  BY <1>1, <1>2 DEF Open
<1>3. CASE at # 0
  <2>1. Governs(L, at, i)
    BY <1>1, <1>3, GovernsOn DEF Open
  <2>2. PICK p \in at .. i - 1 : /\ Precedes(L, p, i)
                                 /\ k = {} \/ L[p].hex = "none" \/ prev = L[p].mac
    BY <1>3 DEF Open
  <2>3. Precedes(L, p, i + 1)
    BY <2>2, PrecedesOn
  <2> QED
    BY <1>3, <2>1, <2>2, <2>3 DEF Open
<1> QED
  BY <1>2, <1>3

\* No line but a start line opens a segment.
LEMMA OpenStaysShut ==
  ASSUME NEW L, NEW kf, NEW i \in Nat, NEW k, NEW prev, NEW k2, NEW prev2,
         Open(L, kf, i, 0, k, prev), ~IsStart(L, i)
  PROVE  Open(L, kf, i + 1, 0, k2, prev2)
  BY DEF Open

\* A signed line of the open segment becomes the last one.
LEMMA OpenAdds ==
  ASSUME NEW L, NEW kf, NEW i \in Nat, NEW at \in Nat \ {0}, NEW k, NEW prev, NEW prev2,
         Open(L, kf, i, at, k, prev), Signed(L, i), ~IsStart(L, i),
         k = {} \/ L[i].hex = "none" \/ prev2 = L[i].mac
  PROVE  Open(L, kf, i + 1, at, k, prev2)
<1>1. Governs(L, at, i - 1) /\ k = KeyAt(L, kf, at) /\ at <= i - 1
  BY DEF Open, Governs
<1>2. Governs(L, at, i)
  BY <1>1, GovernsOn
<1>3. i \in Nat \ {0} /\ i \in at .. i
  BY <1>1
<1>4. Precedes(L, i, i + 1)
  BY <1>3, PrecedesSelf
<1> QED
  BY <1>1, <1>2, <1>3, <1>4 DEF Open

\* A start line opens its own.
LEMMA OpenStarts ==
  ASSUME NEW L, NEW kf, NEW i \in Nat \ {0}, NEW k, NEW prev, IsStart(L, i),
         k = KeyAt(L, kf, i), k = {} \/ L[i].hex = "none" \/ prev = L[i].mac
  PROVE  Open(L, kf, i + 1, i, k, prev)
<1>1. Governs(L, i, i)
  BY GovernsSelf
<1>2. Precedes(L, i, i + 1)
  BY PrecedesSelf DEF IsStart
<1> QED
  BY <1>1, <1>2 DEF Open

-----------------------------------------------------------------------------
(* What a step does with the line it reads.                                *)

\* Line i is good or bad as the report has it, or there is nothing to judge it by.
Judged(flagged) ==
  \/ /\ flagged
     /\ Bad(file.lines, opt, keyFor, pos) \/ AfterUndecodable(file.lines, pos)
  \/ /\ ~flagged
     /\ ~Bad(file.lines, opt, keyFor, pos) \/ AfterUndecodable(file.lines, pos)

\* A step passes over its line, or flags it and ends the loop under StopOnFirst.
Verdict ==
  \/ /\ Judged(FALSE)
     /\ issues' = issues /\ Flagged' = Flagged /\ phase' = phase
  \/ /\ Judged(TRUE)
     /\ issues' # {} /\ Flagged' = Flagged \cup {pos}
     /\ phase' = IF opt.stopOnFirst THEN "done" ELSE phase

\* The line is good in the full sense, and what it states can be decoded.
Good(L, o, kf, i) ==
  \/ L[i].form = "blank"
  \/ Unsigned(L, i) /\ o.allowUnsigned
  \/ \E s \in 1 .. i : /\ Governs(L, s, i) /\ KeyAt(L, kf, s) # {}
                       /\ Chained(L, kf, s, i) /\ L[i].hex = "lower"

CleanSoFar ==
  issues = {} => \A i \in 1 .. pos - 1 : Good(file.lines, opt, keyFor, i)

\* What a step that reads a line does, and what it leaves.
Reading ==
  /\ phase = "scan" /\ pos \in 1 .. Len(file.lines) /\ pos' = pos + 1
  /\ UNCHANGED input
  /\ Verdict
  /\ issues' = {} => Good(file.lines, opt, keyFor, pos)
  /\ OpenSegment'

\* A blank line leaves everything as it was, and is good.
LEMMA SkipBlankReads == ASSUME TypeInv, OpenSegment, SkipBlank PROVE Reading
<1> DEFINE L == file.lines
<1>1. /\ Read({"blank"}) /\ phase = "scan" /\ phase' = phase /\ issues' = issues
      /\ cur' = cur /\ key' = key /\ prevMAC' = prevMAC
  BY DEF SkipBlank, Read
<1>2. pos \in Nat /\ pos \in 1 .. Len(L) /\ pos' = pos + 1 /\ UNCHANGED input
  BY <1>1, ReadTypes
<1>3. L[pos].form = "blank"
  BY <1>1 DEF Read
<1>4. ~Signed(L, pos) /\ ~Unsigned(L, pos)
  BY <1>3 DEF Signed, Unsigned
<1>5. ~Bad(L, opt, keyFor, pos)
  BY <1>2, <1>3, <1>4, UnsignedBad
<1>6. Verdict
  BY <1>1, <1>5, Zenon DEF Verdict, Judged, Flagged
<1>7. cur.at \in Nat
  BY DEF TypeInv, TypeOK, IsSegment
<1>8. OpenSegment'
  BY <1>1, <1>2, <1>4, <1>7, OpenPasses DEF OpenSegment, input
<1> QED
  BY <1>1, <1>2, <1>3, <1>6, <1>8 DEF Reading, Good

\* An unsigned line that is allowed is good.
LEMMA SkipUnsignedReads == ASSUME TypeInv, OpenSegment, SkipUnsigned PROVE Reading
<1> DEFINE L == file.lines
<1>1. /\ Read({"nobrace", "nomac"}) /\ phase = "scan" /\ phase' = phase
      /\ issues' = issues /\ cur' = cur /\ key' = key /\ prevMAC' = prevMAC
      /\ opt.allowUnsigned
  BY DEF SkipUnsigned, Read
<1>2. pos \in Nat /\ pos \in 1 .. Len(L) /\ pos' = pos + 1 /\ UNCHANGED input
  BY <1>1, ReadTypes
<1>3. Unsigned(L, pos) /\ ~Signed(L, pos) /\ L[pos].form # "badmac"
  BY <1>1 DEF Read, Signed, Unsigned
<1>4. ~Bad(L, opt, keyFor, pos)
  BY <1>1, <1>2, <1>3, UnsignedBad
<1>5. Verdict
  BY <1>1, <1>4, Zenon DEF Verdict, Judged, Flagged
<1>6. cur.at \in Nat
  BY DEF TypeInv, TypeOK, IsSegment
<1>7. OpenSegment'
  BY <1>1, <1>2, <1>3, <1>6, OpenPasses DEF OpenSegment, input
<1> QED
  BY <1>1, <1>2, <1>3, <1>5, <1>7 DEF Reading, Good

\* A line that is rejected for its form is bad.
LEMMA RejectLineReads == ASSUME TypeInv, OpenSegment, RejectLine PROVE Reading
<1> DEFINE L == file.lines
<1>1. PICK forms : Read(forms)
  BY DEF RejectLine
<1>2. pos \in Nat \ {0} /\ pos \in 1 .. Len(L) /\ pos' = pos + 1 /\ UNCHANGED input
  BY <1>1, ReadTypes
<1>3. /\ phase = "scan" /\ key' = key /\ prevMAC' = prevMAC
      /\ Report(L[pos].form, segments, cur, cur)
      /\ (Unsigned(L, pos) /\ ~opt.allowUnsigned) \/ L[pos].form = "badmac"
      /\ ~Signed(L, pos)
  BY DEF RejectLine, Read, Signed, Unsigned
<1>4. /\ issues' # {} /\ Flagged' = Flagged \cup {pos}
      /\ opt.stopOnFirst => phase' = "done"
      /\ ~opt.stopOnFirst => phase' = phase /\ cur' = cur
  BY <1>2, <1>3, ReportOutcome
<1>5. Bad(L, opt, keyFor, pos)
  BY <1>2, <1>3, UnsignedBad
<1>6. Verdict
  BY <1>4, <1>5, Zenon DEF Verdict, Judged
<1>7. cur.at \in Nat
  BY DEF TypeInv, TypeOK, IsSegment
<1>8. OpenSegment'
  BY <1>2, <1>3, <1>4, <1>7, OpenPasses DEF OpenSegment, input
<1> QED
  BY <1>2, <1>3, <1>4, <1>6, <1>8 DEF Reading

\* A signed line is reported as an orphan when no start line governs it.
LEMMA OrphanReads == ASSUME TypeInv, OpenSegment, Orphan PROVE Reading
<1> DEFINE L == file.lines
<1>1. /\ Read({"signed"}) /\ phase = "scan" /\ cur.at = 0
      /\ Report("orphan", segments, cur, cur)
  BY DEF Orphan, Read
<1>2. pos \in Nat \ {0} /\ pos \in 1 .. Len(L) /\ pos' = pos + 1 /\ UNCHANGED input
  BY <1>1, ReadTypes
<1>3. Signed(L, pos) /\ ~IsStart(L, pos)
  BY DEF Orphan, Read, Signed, IsStart
<1>4. /\ issues' # {} /\ Flagged' = Flagged \cup {pos}
      /\ opt.stopOnFirst => phase' = "done"
      /\ ~opt.stopOnFirst => phase' = phase /\ cur' = cur
  BY <1>1, <1>2, ReportOutcome
<1>5. Open(L, keyFor, pos, 0, key, prevMAC)
  BY <1>1 DEF OpenSegment
<1>6. \A s \in 1 .. pos : ~IsStart(L, s)
  BY <1>2, <1>3, <1>5 DEF Open
<1>7. Bad(L, opt, keyFor, pos)
  BY <1>2, <1>3, <1>6, OrphanBad
<1>8. Verdict
  BY <1>4, <1>7, Zenon DEF Verdict, Judged
<1>9. OpenSegment'
  BY <1>1, <1>2, <1>3, <1>4, <1>5, OpenStaysShut DEF OpenSegment, input
<1> QED
  BY <1>1, <1>2, <1>4, <1>8, <1>9 DEF Reading

\* A line of a segment without a key is passed over, but a start line was
\* reported before it.
LEMMA KeylessLineReads ==
  ASSUME TypeInv, OpenSegment, CleanSoFar, KeylessLine PROVE Reading
<1> DEFINE L == file.lines
<1>1. /\ Read({"signed"}) /\ phase = "scan" /\ phase' = phase /\ issues' = issues
      /\ cur.at # 0 /\ key = {} /\ cur' = cur /\ key' = key /\ prevMAC' = prevMAC
  BY DEF KeylessLine, Read
<1>2. pos \in Nat \ {0} /\ pos \in 1 .. Len(L) /\ pos' = pos + 1 /\ UNCHANGED input
  BY <1>1, ReadTypes
<1>3. Signed(L, pos) /\ ~IsStart(L, pos)
  BY DEF KeylessLine, Read, Signed, IsStart
<1>4. Open(L, keyFor, pos, cur.at, key, prevMAC)
  BY <1>1 DEF OpenSegment
<1>5. cur.at \in Nat \ {0}
  BY <1>1 DEF TypeInv, TypeOK, IsSegment
<1>6. Governs(L, cur.at, pos - 1) /\ KeyAt(L, keyFor, cur.at) = {}
  BY <1>1, <1>4, <1>5 DEF Open
<1>7. Governs(L, cur.at, pos) /\ cur.at # pos
  <2>1. cur.at <= pos - 1
    BY <1>6 DEF Governs
  <2> QED
    BY <1>2, <1>3, <1>5, <1>6, <2>1, GovernsOn
<1>8. ~Bad(L, opt, keyFor, pos)
  BY <1>2, <1>3, <1>6, <1>7, SignedBad
<1>9. Verdict
  BY <1>1, <1>8, Zenon DEF Verdict, Judged, Flagged
<1>10. OpenSegment'
  BY <1>1, <1>2, <1>3, <1>4, <1>5, OpenAdds DEF OpenSegment, input
<1>11. issues' # {}
  <2> SUFFICES ASSUME issues = {} PROVE FALSE
    BY <1>1
  <2>1. cur.at \in 1 .. pos - 1 /\ IsStart(L, cur.at) /\ Governs(L, cur.at, cur.at)
    BY <1>2, <1>6, GovernsStart DEF Governs
  <2>2. Good(L, opt, keyFor, cur.at)
    BY <2>1 DEF CleanSoFar
  <2>3. PICK s \in 1 .. cur.at : Governs(L, s, cur.at) /\ KeyAt(L, keyFor, s) # {}
    BY <2>1, <2>2 DEF Good, IsStart, Signed, Unsigned
  <2>4. s = cur.at
    BY <1>5, <2>1, <2>3, GovernsUnique
  <2> QED
    BY <1>6, <2>3, <2>4
<1> QED
  BY <1>1, <1>2, <1>9, <1>10, <1>11 DEF Reading

\* A line is reported as a mismatch exactly when it is not chained to the
\* signed line before it.
LEMMA CheckLineReads ==
  ASSUME TypeInv, OpenSegment, CleanSoFar, CheckLine PROVE Reading
<1> DEFINE L == file.lines
           l == file.lines[pos]
           want == HMAC(key, l.text, prevMAC)
<1>1. /\ Read({"signed"}) /\ phase = "scan" /\ cur.at # 0 /\ key # {}
      /\ CheckMAC(segments, cur, key, prevMAC)
  BY DEF CheckLine, Read
<1>2. pos \in Nat \ {0} /\ pos \in 1 .. Len(L) /\ pos' = pos + 1 /\ UNCHANGED input
  BY <1>1, ReadTypes
<1>3. Signed(L, pos) /\ ~IsStart(L, pos)
  BY DEF CheckLine, Read, Signed, IsStart
<1>4. Open(L, keyFor, pos, cur.at, key, prevMAC)
  BY <1>1 DEF OpenSegment
<1>5. cur.at \in Nat \ {0}
  BY <1>1 DEF TypeInv, TypeOK, IsSegment
<1>6. Governs(L, cur.at, pos - 1) /\ key = KeyAt(L, keyFor, cur.at)
  BY <1>4, <1>5 DEF Open
<1>7. PICK p \in cur.at .. pos - 1 :
        Precedes(L, p, pos) /\ (L[p].hex = "none" \/ prevMAC = L[p].mac)
  BY <1>1, <1>4, <1>5 DEF Open
<1>8. Governs(L, cur.at, pos) /\ cur.at # pos
  BY <1>2, <1>3, <1>5, <1>6, <1>7, GovernsOn
<1>9. Bad(L, opt, keyFor, pos) <=> ~Chained(L, keyFor, cur.at, pos)
  BY <1>1, <1>2, <1>3, <1>6, <1>8, SignedBad
<1>10. Chained(L, keyFor, cur.at, pos) <=> Matches(l, HMAC(key, l.text, L[p].mac))
  BY <1>2, <1>5, <1>6, <1>7, LineChained
<1>11. L[p].hex = "none" => AfterUndecodable(L, pos)
  BY <1>2, <1>3, <1>5, <1>7 DEF AfterUndecodable
<1>12. Judged(~Matches(l, want))
  BY <1>7, <1>9, <1>10, <1>11 DEF Judged
<1>13. /\ key' = key
       /\ Matches(l, want) =>
            /\ issues' = issues /\ Flagged' = Flagged /\ phase' = phase
            /\ cur'.at = cur.at /\ prevMAC' = l.mac
       /\ ~Matches(l, want) =>
            /\ issues' # {} /\ Flagged' = Flagged \cup {pos}
            /\ opt.stopOnFirst => phase' = "done"
            /\ ~opt.stopOnFirst =>
                 /\ phase' = phase /\ cur'.at = cur.at
                 /\ l.hex = "none" \/ prevMAC' = l.mac
  BY <1>1, <1>2, CheckOutcome
<1>14. Verdict
  BY <1>12, <1>13, Zenon DEF Verdict, Judged
<1>15. issues' = {} => Good(L, opt, keyFor, pos)
  <2> SUFFICES ASSUME issues' = {} PROVE Good(L, opt, keyFor, pos)
    OBVIOUS
  <2>1. Matches(l, want) /\ issues = {}
    BY <1>13
  <2>2. p \in 1 .. pos - 1
    BY <1>2, <1>5, <1>7
  <2>3. Good(L, opt, keyFor, p)
    BY <2>1, <2>2 DEF CleanSoFar
  <2>4. L[p].hex = "lower"
    BY <1>7, <2>3 DEF Good, Precedes, Signed, Unsigned
  <2>5. Chained(L, keyFor, cur.at, pos)
    BY <1>7, <1>10, <2>1, <2>4
  <2>6. l.hex = "lower" /\ cur.at \in 1 .. pos
    BY <1>8, <2>1 DEF Matches, Governs
  <2> QED
    BY <1>1, <1>6, <1>8, <2>5, <2>6 DEF Good
<1>16. OpenSegment'
  <2> SUFFICES ASSUME phase' = "scan"
               PROVE  Open(L, keyFor, pos + 1, cur'.at, key', prevMAC')
    BY <1>2 DEF OpenSegment, input
  <2>1. cur'.at = cur.at /\ key' = key /\ (l.hex = "none" \/ prevMAC' = l.mac)
    BY <1>13
  <2> HIDE DEF want
  <2>2. Open(L, keyFor, pos + 1, cur.at, key, prevMAC')
    BY <1>2, <1>3, <1>4, <1>5, <2>1, OpenAdds
  <2> QED
    BY <2>1, <2>2
<1> QED
  BY <1>1, <1>2, <1>14, <1>15, <1>16 DEF Reading

\* A start line is judged by its own key and the zero MAC, whatever was open
\* before it.
LEMMA StartSegmentReads ==
  ASSUME TypeInv, OpenSegment, CleanSoFar, StartSegment PROVE Reading
<1> DEFINE L == file.lines
           l == file.lines[pos]
           closed == segments \cup Present(Closed(cur, lineNum))
           c == NewSegment(l, pos, lineNum + 1)
           k == KeyAt(L, keyFor, pos)
           want == HMAC(k, l.text, Zero)
<1>1. Read({"signed"}) /\ phase = "scan"
  BY DEF StartSegment, Read
<1>2. pos \in Nat \ {0} /\ pos \in 1 .. Len(L) /\ pos' = pos + 1 /\ UNCHANGED input
  BY <1>1, ReadTypes
<1>3. IsStart(L, pos) /\ Signed(L, pos)
  BY DEF StartSegment, Read, Signed, IsStart
<1>4. c.at = pos /\ keyFor[<<c.chain, c.seq>>] = k
  BY DEF NewSegment, KeyAt
<1>5. \/ /\ k = {} /\ key' = {} /\ Report("nokey", closed, c, c)
      \/ k # {} /\ CheckMAC(closed, c, k, Zero)
  BY <1>4, Zenon DEF StartSegment
<1>6. Governs(L, pos, pos)
  BY <1>2, <1>3, GovernsSelf
<1>7. Bad(L, opt, keyFor, pos) <=> (k = {} \/ ~Chained(L, keyFor, pos, pos))
  BY <1>2, <1>3, <1>6, SignedBad
<1>8. Chained(L, keyFor, pos, pos) <=> Matches(l, want)
  BY StartChained
<1> HIDE DEF closed, c
<1>9. CASE k = {}
  <2>1. /\ issues' # {} /\ Flagged' = Flagged \cup {pos}
        /\ opt.stopOnFirst => phase' = "done"
        /\ ~opt.stopOnFirst => phase' = phase /\ cur' = c
    BY <1>2, <1>5, <1>9, ReportOutcome
  <2>2. Verdict
    BY <1>7, <1>9, <2>1, Zenon DEF Verdict, Judged
  <2>3. Open(L, keyFor, pos + 1, pos, k, prevMAC')
    BY <1>2, <1>3, <1>9, OpenStarts
  <2>4. key' = k
    BY <1>5, <1>9
  <2>5. OpenSegment'
    BY <1>1, <1>2, <1>4, <2>1, <2>3, <2>4 DEF OpenSegment, input
  <2> QED
    BY <1>1, <1>2, <2>1, <2>2, <2>5 DEF Reading
<1>10. CASE k # {}
  <2>1. /\ key' = k
        /\ Matches(l, want) =>
             /\ issues' = issues /\ Flagged' = Flagged /\ phase' = phase
             /\ cur'.at = pos /\ prevMAC' = l.mac
        /\ ~Matches(l, want) =>
             /\ issues' # {} /\ Flagged' = Flagged \cup {pos}
             /\ opt.stopOnFirst => phase' = "done"
             /\ ~opt.stopOnFirst =>
                  /\ phase' = phase /\ cur'.at = pos
                  /\ l.hex = "none" \/ prevMAC' = l.mac
    BY <1>2, <1>4, <1>5, <1>10, CheckOutcome
  <2>2. Judged(~Matches(l, want))
    BY <1>7, <1>8, <1>10 DEF Judged
  <2>3. Verdict
    BY <2>1, <2>2, Zenon DEF Verdict, Judged
  <2>4. issues' = {} => Good(L, opt, keyFor, pos)
    <3> SUFFICES ASSUME issues' = {} PROVE Good(L, opt, keyFor, pos)
      OBVIOUS
    <3>1. Matches(l, want)
      BY <2>1
    <3>2. l.hex = "lower"
      BY <3>1 DEF Matches
    <3> QED
      BY <1>2, <1>6, <1>8, <1>10, <3>1, <3>2 DEF Good
  <2>5. OpenSegment'
    <3> SUFFICES ASSUME phase' = "scan"
                 PROVE  Open(L, keyFor, pos + 1, cur'.at, key', prevMAC')
      BY <1>2 DEF OpenSegment, input
    <3>1. cur'.at = pos /\ key' = k /\ (l.hex = "none" \/ prevMAC' = l.mac)
      BY <2>1
    <3> HIDE DEF k, want
    <3>2. Open(L, keyFor, pos + 1, pos, k, prevMAC')
      BY <1>2, <1>3, <3>1, OpenStarts DEF k
    <3> QED
      BY <3>1, <3>2
  <2> QED
    BY <1>1, <1>2, <2>3, <2>4, <2>5 DEF Reading
<1> QED
  BY <1>9, <1>10

-----------------------------------------------------------------------------
(* The inductive invariant.                                                *)

\* A replay that ends with nothing to report has read the whole file.
CleanEndsAtTheEnd ==
  (phase = "done" /\ issues = {}) => pos = Len(file.lines) + 1 /\ ~file.err

\* Only lines that were read are reported.
FlagsWhatWasRead == Flagged \subseteq 1 .. pos - 1

ReplayInv ==
  /\ TypeInv
  /\ OpenSegment
  /\ FlagsWhatWasRead
  /\ ReportsExactlyTheBadLines
  /\ CleanSoFar
  /\ CleanEndsAtTheEnd

\* Every step of a replay reads on, or comes to the end of the input.
LEMMA StepReads ==
  ReplayInv /\ ReplayStep => Reading \/ EndOfInput
  BY SkipBlankReads, SkipUnsignedReads, RejectLineReads, OrphanReads,
     KeylessLineReads, CheckLineReads, StartSegmentReads DEF ReplayInv, ReplayStep

\* The invariant holds before the first line.
LEMMA ReplayInit == Fresh => ReplayInv
<1> SUFFICES ASSUME Fresh PROVE ReplayInv
  OBVIOUS
<1>1. TypeInv
  BY TypeInit
<1>2. /\ pos = 1 /\ cur.at = 0 /\ issues = {} /\ phase = "scan"
  BY NoSegmentType DEF Fresh
<1>3. Flagged = {} /\ 1 .. pos - 1 = {}
  BY <1>2 DEF Flagged
<1>4. OpenSegment
  BY <1>2, <1>3 DEF OpenSegment, Open
<1> QED
  BY <1>1, <1>2, <1>3, <1>4
     DEF ReplayInv, FlagsWhatWasRead, ReportsExactlyTheBadLines, CleanSoFar,
         CleanEndsAtTheEnd

\* Reading a line keeps the report exact.
LEMMA ReadingReports ==
  ASSUME ReplayInv, Reading
  PROVE  FlagsWhatWasRead' /\ ReportsExactlyTheBadLines'
<1> DEFINE L == file.lines
<1>1. /\ pos \in Nat \ {0} /\ pos' = pos + 1
      /\ file' = file /\ opt' = opt /\ keyFor' = keyFor
  BY DEF Reading, ReplayInv, TypeInv, TypeOK, input
<1>2. Flagged \subseteq 1 .. pos - 1
  BY DEF ReplayInv, FlagsWhatWasRead
<1>3. Flagged' = Flagged \/ Flagged' = Flagged \cup {pos}
  BY DEF Reading, Verdict
<1>4. FlagsWhatWasRead'
  <2>1. 1 .. pos' - 1 = 1 .. pos /\ pos \in 1 .. pos
    BY <1>1
  <2>2. Flagged' \subseteq 1 .. pos
    <3> SUFFICES ASSUME NEW i \in Flagged' PROVE i \in 1 .. pos
      OBVIOUS
    <3>1. i \in 1 .. pos - 1 \/ i = pos
      BY <1>2, <1>3, Zenon
    <3> QED
      BY <1>1, <3>1
  <2> QED
    BY <2>1, <2>2 DEF FlagsWhatWasRead
<1>5. ASSUME NEW i \in 1 .. pos, ~AfterUndecodable(L, i)
      PROVE  i \in Flagged' <=> Bad(L, opt, keyFor, i)
  <2>1. CASE i = pos
    <3>1. pos \notin Flagged
      BY <1>1, <1>2
    <3> QED
      BY <1>5, <2>1, <3>1 DEF Reading, Verdict, Judged
  <2>2. CASE i # pos
    <3>1. i \in 1 .. pos - 1
      BY <1>1, <2>2
    <3>2. i \in Flagged <=> Bad(L, opt, keyFor, i)
      BY <1>5, <3>1 DEF ReplayInv, ReportsExactlyTheBadLines
    <3> QED
      BY <1>3, <2>2, <3>2
  <2> QED
    BY <2>1, <2>2
<1>6. ReportsExactlyTheBadLines'
  BY <1>1, <1>5 DEF ReportsExactlyTheBadLines
<1> QED
  BY <1>4, <1>6

\* Reading a line leaves a clean report only when every line so far is good.
LEMMA ReadingIsClean ==
  ASSUME ReplayInv, Reading
  PROVE  CleanSoFar' /\ CleanEndsAtTheEnd'
<1>1. /\ pos \in Nat \ {0} /\ pos' = pos + 1 /\ phase = "scan"
      /\ file' = file /\ opt' = opt /\ keyFor' = keyFor
  BY DEF Reading, ReplayInv, TypeInv, TypeOK, input
<1>2. issues' = {} => issues = {} /\ phase' = phase
  BY DEF Reading, Verdict
<1>3. ASSUME issues' = {}, NEW i \in 1 .. pos
      PROVE  Good(file.lines, opt, keyFor, i)
  <2>1. CASE i = pos
    BY <1>3, <2>1 DEF Reading
  <2>2. CASE i # pos
    BY <1>1, <1>2, <1>3, <2>2 DEF ReplayInv, CleanSoFar
  <2> QED
    BY <2>1, <2>2
<1>4. CleanSoFar'
  BY <1>1, <1>3 DEF CleanSoFar
<1>5. CleanEndsAtTheEnd'
  BY <1>1, <1>2 DEF CleanEndsAtTheEnd
<1> QED
  BY <1>4, <1>5

\* The end of the input adds nothing about any line.
LEMMA EndKeeps ==
  ASSUME ReplayInv, EndOfInput
  PROVE  /\ OpenSegment' /\ FlagsWhatWasRead' /\ ReportsExactlyTheBadLines'
         /\ CleanSoFar' /\ CleanEndsAtTheEnd'
<1>1. /\ phase' = "done" /\ pos' = pos /\ file' = file /\ opt' = opt /\ keyFor' = keyFor
      /\ pos > Len(file.lines)
  BY DEF EndOfInput
<1>2. Flagged' = Flagged
  BY FileIssues
<1>3. issues' = {} => issues = {} /\ ~file.err
  BY DEF EndOfInput
<1>4. pos = Len(file.lines) + 1
  BY <1>1, FileShape DEF ReplayInv, TypeInv, TypeOK
<1> QED
  BY <1>1, <1>2, <1>3, <1>4
     DEF ReplayInv, OpenSegment, FlagsWhatWasRead, ReportsExactlyTheBadLines,
         CleanSoFar, CleanEndsAtTheEnd

\* Every step keeps the invariant.
LEMMA ReplayStepKeeps == ReplayInv /\ [Next]_vars => ReplayInv'
<1> SUFFICES ASSUME ReplayInv, [Next]_vars PROVE ReplayInv'
  OBVIOUS
<1>1. TypeInv'
  BY TypeStep DEF ReplayInv
<1>2. CASE Reading
  BY <1>1, <1>2, ReadingReports, ReadingIsClean DEF ReplayInv, Reading
<1>3. CASE EndOfInput
  BY <1>1, <1>3, EndKeeps DEF ReplayInv
<1>4. CASE UNCHANGED vars
  <2>1. Flagged' = Flagged
    BY <1>4 DEF vars, Flagged
  <2> QED
    BY <1>1, <1>4, <2>1
       DEF vars, ReplayInv, OpenSegment, FlagsWhatWasRead, CleanSoFar,
           ReportsExactlyTheBadLines, CleanEndsAtTheEnd
<1> QED
  BY <1>2, <1>3, <1>4, StepReads DEF Next, Returned

-----------------------------------------------------------------------------
(* What a replay reports.                                                  *)

\* For every file, every set of keys and both options: of the lines read so far
\* a replay has reported those that the file itself shows to be bad, and no
\* other.  Going on from the value on disk, one altered line implicates itself.
THEOREM ReportIsExact == Spec => []ReportsExactlyTheBadLines
<1>1. ReplayInv => ReportsExactlyTheBadLines
  BY DEF ReplayInv
<1> QED
  BY <1>1, InitIsFresh, ReplayInit, ReplayStepKeeps, PTL DEF Spec

\* For every file: a replay that returns without an issue has chained every
\* line, under a key, from the start line of its segment on.
THEOREM CleanIsChained == Spec => []CleanMeansChained
<1>1. ReplayInv => CleanMeansChained
  <2> SUFFICES ASSUME ReplayInv, phase = "done", issues = {}
               PROVE  /\ ~file.err
                      /\ \A i \in 1 .. Len(file.lines) : Good(file.lines, opt, keyFor, i)
    BY DEF CleanMeansChained, Good
  <2>1. pos = Len(file.lines) + 1 /\ ~file.err /\ Len(file.lines) \in Nat
    BY FileShape DEF ReplayInv, CleanEndsAtTheEnd, TypeInv
  <2>2. pos - 1 = Len(file.lines)
    BY <2>1
  <2> QED
    BY <2>1, <2>2 DEF ReplayInv, CleanSoFar
<1> QED
  BY <1>1, InitIsFresh, ReplayInit, ReplayStepKeeps, PTL DEF Spec

\* The abstract judge and the replay mean the same by a bad line.
LEMMA SameJudgement ==
  ASSUME NEW L, NEW o, NEW kf, NEW i
  PROVE  /\ Judge!Bad(L, o, kf, i) <=> Bad(L, o, kf, i)
         /\ Judge!AfterUndecodable(L, i) <=> AfterUndecodable(L, i)
<1>1. /\ \A j : Judge!Signed(L, j) <=> Signed(L, j)
      /\ \A j : Judge!IsStart(L, j) <=> IsStart(L, j)
      /\ \A j : Judge!Unsigned(L, j) <=> Unsigned(L, j)
  BY Zenon DEF Judge!Signed, Signed, Judge!IsStart, IsStart, Judge!Unsigned, Unsigned
<1>2. /\ \A s, j : Judge!Governs(L, s, j) <=> Governs(L, s, j)
      /\ \A p, j : Judge!Precedes(L, p, j) <=> Precedes(L, p, j)
  BY <1>1, Zenon DEF Judge!Governs, Governs, Judge!Precedes, Precedes
<1>3. \A s : Judge!KeyAt(L, kf, s) = KeyAt(L, kf, s)
  BY Zenon DEF Judge!KeyAt, KeyAt, Judge!ParseUint, ParseUint
<1>4. \A s : Judge!Chained(L, kf, s, i) <=> Chained(L, kf, s, i)
  BY <1>2, <1>3, Zenon DEF Judge!Chained, Chained, Judge!Matches, Matches, Judge!HMAC,
                           HMAC, Judge!Zero, Zero
<1>5. Judge!AfterUndecodable(L, i) <=> AfterUndecodable(L, i)
  BY <1>1, <1>2, Zenon DEF Judge!AfterUndecodable, AfterUndecodable
<1>6. (\E s \in 1 .. i : Judge!Governs(L, s, i)) <=> (\E s \in 1 .. i : Governs(L, s, i))
  BY <1>2, Zenon
<1>7. \A s : /\ Judge!Signed(L, i) /\ Judge!Governs(L, s, i)
              /\ IF Judge!KeyAt(L, kf, s) = {} THEN s = i ELSE ~Judge!Chained(L, kf, s, i)
        <=> /\ Signed(L, i) /\ Governs(L, s, i)
            /\ IF KeyAt(L, kf, s) = {} THEN s = i ELSE ~Chained(L, kf, s, i)
  BY <1>1, <1>2, <1>3, <1>4
<1>8. Judge!Bad(L, o, kf, i) <=> Bad(L, o, kf, i)
  BY <1>1, <1>6, <1>7, SMT DEF Judge!Bad, Bad
<1> QED
  BY <1>5, <1>8

\* A replay takes no step that the memoryless judge of LineReport cannot take:
\* no line is judged by anything but itself, its start line and the signed line
\* before it, and no judgement is revised.  (That it judges every line in the
\* end is liveness, which the run Replay checks.)
THEOREM ReplayImplementsJudge == Spec => Judge!Init /\ [][Judge!Next]_(Judge!vars)
<1>1. Init => Judge!Init
  <2> SUFFICES ASSUME Init PROVE Judge!Init
    OBVIOUS
  <2>1. Flagged = {}
    BY DEF Init, Flagged
  <2> QED
    BY <2>1 DEF Init, Judge!Init
<1>2. ReplayInv /\ [Next]_vars => [Judge!Next]_(Judge!vars)
  <2> SUFFICES ASSUME ReplayInv, [Next]_vars PROVE [Judge!Next]_(Judge!vars)
    OBVIOUS
  <2>1. CASE Reading
    <3>1. Judge!Judge
      BY <2>1 DEF Reading, Judge!Judge, input
    <3>2. CASE /\ Judged(FALSE)
               /\ issues' = issues /\ Flagged' = Flagged /\ phase' = phase
      <4>1. Judge!Pass
        BY <3>1, <3>2, SameJudgement DEF Judge!Pass, Judged
      <4> QED
        BY <4>1 DEF Judge!Next
    <3>3. CASE /\ Judged(TRUE)
               /\ Flagged' = Flagged \cup {pos}
               /\ phase' = IF opt.stopOnFirst THEN "done" ELSE phase
      <4>1. Judge!Accuse
        BY <2>1, <3>1, <3>3, SameJudgement DEF Judge!Accuse, Judged, Reading
      <4> QED
        BY <4>1 DEF Judge!Next
    <3> QED
      BY <2>1, <3>2, <3>3 DEF Reading, Verdict
  <2>2. CASE EndOfInput
    <3>1. Flagged' = Flagged
      BY <2>2, FileIssues
    <3>2. Judge!Finish
      BY <2>2, <3>1 DEF EndOfInput, Judge!Finish
    <3> QED
      BY <3>2 DEF Judge!Next
  <2>3. CASE UNCHANGED vars
    BY <2>3 DEF vars, Judge!vars, Flagged
  <2> QED
    BY <2>1, <2>2, <2>3, StepReads DEF Next, Returned
<1> QED
  BY <1>1, <1>2, InitIsFresh, ReplayInit, ReplayStepKeeps, PTL DEF Spec

\* A replay only ever adds to its issues, its segments and its calls to OnLine.
THEOREM ReplayOnlyAdds == Spec => NothingIsRetracted
<1> DEFINE Grows == /\ issues \subseteq issues' /\ segments \subseteq segments'
                    /\ calls \subseteq calls'
<1>1. ASSUME NEW reason, NEW closed, NEW c, NEW after, segments \subseteq closed,
             Report(reason, closed, c, after)
      PROVE  issues \subseteq issues' /\ segments \subseteq segments'
  BY <1>1 DEF Report, Stop, Continue
<1>2. ASSUME NEW closed, NEW c, NEW k, NEW prev, segments \subseteq closed,
             CheckMAC(closed, c, k, prev)
      PROVE  Grows
  <2> DEFINE l     == file.lines[pos]
             want  == HMAC(k, l.text, prev)
             mac   == IF Matches(l, want) THEN want ELSE Claimed(l, want)
             after == Advanced(c, {mac}, c.count + 1, lineNum')
  <2>1. calls \subseteq calls'
    BY <1>2, Zenon DEF CheckMAC
  <2>2. \/ Continue(closed, after) /\ issues' = issues
        \/ Report("mismatch", closed, c, after)
    BY <1>2, Zenon DEF CheckMAC
  <2> HIDE DEF after
  <2> QED
    BY <1>1, <1>2, <2>1, <2>2 DEF Continue
<1>3. ReplayStep => Grows
  <2> SUFFICES ASSUME ReplayStep PROVE Grows
    OBVIOUS
  <2>1. CASE SkipBlank \/ SkipUnsigned \/ KeylessLine
    BY <2>1 DEF SkipBlank, SkipUnsigned, KeylessLine
  <2>2. CASE RejectLine
    BY <1>1, <2>2 DEF RejectLine
  <2>3. CASE Orphan
    BY <1>1, <2>3 DEF Orphan
  <2>4. CASE CheckLine
    BY <1>2, <2>4 DEF CheckLine
  <2>5. CASE StartSegment
    <3> DEFINE closed == segments \cup Present(Closed(cur, lineNum))
               c == NewSegment(file.lines[pos], pos, lineNum + 1)
    <3>1. \/ Report("nokey", closed, c, c) /\ calls' = calls
          \/ \E k : CheckMAC(closed, c, k, Zero)
      BY <2>5, Zenon DEF StartSegment
    <3>2. segments \subseteq closed
      OBVIOUS
    <3> HIDE DEF closed, c
    <3> QED
      BY <1>1, <1>2, <3>1, <3>2
  <2>6. CASE EndOfInput
    BY <2>6 DEF EndOfInput
  <2> QED
    BY <2>1, <2>2, <2>3, <2>4, <2>5, <2>6 DEF ReplayStep
<1>4. [Next]_vars => [phase = "scan" => Grows]_vars
  BY <1>3 DEF Next, Returned, vars
<1> QED
  BY <1>4, PTL DEF Spec, NothingIsRetracted
=============================================================================
