------------------------- MODULE ReplayAccountProofs -------------------------
(***************************************************************************)
(* What a replay keeps account of beside its issues: the segments it       *)
(* records, the lines it hands to OnLine, and whether it was cut short.    *)
(***************************************************************************)
EXTENDS ChainReplayProofs, FiniteSetTheorems

-----------------------------------------------------------------------------
(* The inductive invariant.                                                *)

\* Line i is a signed line of a segment that has a key.
Keyed(i) ==
  /\ Signed(file.lines, i)
  /\ \E s \in 1 .. i : Governs(file.lines, s, i) /\ KeyAt(file.lines, keyFor, s) # {}

\* The signed lines of the segment that starts at line s, up to line n.
LinesUpTo(s, n) ==
  {i \in s .. n : Signed(file.lines, i) /\ Governs(file.lines, s, i)}

KeyedLines == {i \in 1 .. pos - 1 : Keyed(i)}
HandedOver == IF truncated THEN KeyedLines \ Flagged ELSE KeyedLines

\* A replay under StopOnFirst ends with its first finding about a line.
StopsInTime ==
  /\ phase = "scan" => ~truncated /\ (opt.stopOnFirst => issues = {})
  /\ truncated => /\ opt.stopOnFirst /\ phase = "done"
                  /\ \E i \in issues : issues = {i} /\ i.at = pos - 1 /\ i.at # 0
  /\ (opt.stopOnFirst /\ ~truncated) => Flagged = {}

\* A call tells where its line stands in its segment, and what it states.
Tells(c) ==
  /\ \E s \in 1 .. c.at :
       /\ Governs(file.lines, s, c.at) /\ KeyAt(file.lines, keyFor, s) # {}
       /\ c.chain = file.lines[s].text.chain
       /\ c.line = Cardinality(LinesUpTo(s, c.at))
  /\ file.lines[c.at].hex = "none" \/ c.mac = file.lines[c.at].mac

CallsTell ==
  /\ {c.at : c \in calls} = HandedOver
  /\ IsFiniteSet(calls) /\ Cardinality(calls) = Cardinality(HandedOver)
  /\ \A c \in calls : Tells(c)

\* Segment c has been read up to line n.
Describes(c, n) ==
  KeyAt(file.lines, keyFor, c.at) # {} =>
    /\ c.count = Cardinality(LinesUpTo(c.at, n))
    /\ \E i \in LinesUpTo(c.at, n) :
         /\ \A j \in LinesUpTo(c.at, n) : j <= i
         /\ file.lines[i].hex = "none" \/ c.final = {file.lines[i].mac}

\* The open segment is described as far as it was read ...
OpenIsDescribed ==
  (phase = "scan" /\ cur.at # 0) =>
    /\ cur.chain = file.lines[cur.at].text.chain
    /\ Describes(cur, pos - 1)
    /\ cur.first <= lineNum /\ cur.last <= lineNum

\* ... and every closed one to its end; they follow one another in the file.
ClosedAreDescribed ==
  phase = "scan" =>
    /\ {s.at : s \in segments \cup Present(cur)} =
         {i \in 1 .. pos - 1 : IsStart(file.lines, i)}
    /\ \A s \in segments : /\ Describes(s, Len(file.lines))
                           /\ s.at < cur.at /\ s.last < cur.first
    /\ \A s, t \in segments : s.at < t.at => s.last < t.first

\* Segment c states what the start line of a segment of the file states.
Stems(c) ==
  /\ c.at \in DOMAIN file.lines
  /\ LET t == file.lines[c.at].text
     IN c.v = t.v /\ c.chain = t.chain /\ c.seq = ParseUint(t.seq) /\ c.prev = t.prev
  /\ c.source = file.source

\* Every segment stems from the file, and each from a start line of its own.
SegmentsStem ==
  ~truncated =>
    /\ IsFiniteSet(segments)
    /\ \A c \in segments \cup Present(cur) : Stems(c)
    /\ \A c, d \in segments : c.at = d.at => c = d

AccountInv ==
  /\ ReplayInv /\ StopsInTime /\ CallsTell /\ SegmentsStem
  /\ OpenIsDescribed /\ ClosedAreDescribed /\ SegmentsDescribeTheFile

-----------------------------------------------------------------------------
(* What a step that reads a line does to the account.                      *)

\* It finds nothing, or reports its line and, under StopOnFirst, returns.
Finding ==
  \/ issues' = issues /\ phase' = phase /\ truncated' = truncated
  \/ /\ \E reason : issues' = issues \cup {Issue(lineNum', pos, reason)}
     /\ IF opt.stopOnFirst THEN phase' = "done" /\ truncated' = TRUE
                           ELSE phase' = phase /\ truncated' = truncated

\* Its line starts nothing and lies in no segment that has a key.
PassesOver ==
  /\ ~Keyed(pos) /\ ~IsStart(file.lines, pos) /\ calls' = calls
  /\ lineNum' \in {lineNum, lineNum + 1}
  /\ phase' = "scan" => cur' = cur /\ segments' = segments

\* Its line is checked in segment c, and counted unless the replay returns.
Counts(closed, c) ==
  /\ Keyed(pos) /\ lineNum' = lineNum + 1
  /\ \/ phase' = "done" /\ truncated' = TRUE /\ calls' = calls /\ pos \in Flagged'
     \/ \E mac :
          /\ file.lines[pos].hex = "none" \/ mac = file.lines[pos].mac
          /\ calls' = calls \cup {[chain |-> c.chain, seq |-> c.seq, at |-> pos,
                                   line |-> c.count + 1, mac |-> mac]}
          /\ segments' = closed /\ cur' = Advanced(c, {mac}, c.count + 1, lineNum')
          /\ phase' = phase /\ truncated' = truncated

CountsOn ==
  /\ ~IsStart(file.lines, pos) /\ cur.at # 0 /\ Governs(file.lines, cur.at, pos)
  /\ Counts(segments, cur)

\* Its line starts a segment, of which it is the first line if there is a key.
Opens ==
  LET closed == segments \cup Present(Closed(cur, lineNum))
      c      == NewSegment(file.lines[pos], pos, lineNum + 1)
  IN /\ IsStart(file.lines, pos)
     /\ \/ Counts(closed, c)
        \/ /\ ~Keyed(pos) /\ lineNum' = lineNum + 1 /\ calls' = calls
           /\ phase' = "scan" => segments' = closed /\ cur' = c

Accounts ==
  /\ phase = "scan" /\ pos \in 1 .. Len(file.lines) /\ pos' = pos + 1
  /\ UNCHANGED input
  /\ Finding
  /\ PassesOver \/ CountsOn \/ Opens

\* Whether a line lies in a segment with a key is settled by the start line that
\* governs it.
LEMMA KeyedBy ==
  ASSUME NEW i \in Nat, NEW s, Governs(file.lines, s, i)
  PROVE  Keyed(i) <=> Signed(file.lines, i) /\ KeyAt(file.lines, keyFor, s) # {}
<1>1. s \in 1 .. i
  BY DEF Governs
<1>2. \A t \in 1 .. i : Governs(file.lines, t, i) => t = s
  BY GovernsUnique
<1> QED
  BY <1>1, <1>2, Zenon DEF Keyed

\* The open segment governs the line being read, if that starts no other.
LEMMA OpenGoverns ==
  ASSUME TypeInv, OpenSegment, phase = "scan", cur.at # 0, pos \in Nat \ {0},
         ~IsStart(file.lines, pos)
  PROVE  /\ cur.at \in 1 .. pos - 1 /\ Governs(file.lines, cur.at, pos)
         /\ key = KeyAt(file.lines, keyFor, cur.at)
<1>1. Open(file.lines, keyFor, pos, cur.at, key, prevMAC)
  BY DEF OpenSegment
<1>2. Governs(file.lines, cur.at, pos - 1) /\ key = KeyAt(file.lines, keyFor, cur.at)
  BY <1>1 DEF Open
<1>3. cur.at \in 1 .. pos - 1
  BY <1>2 DEF Governs
<1> QED
  BY <1>2, <1>3, GovernsOn

\* A report is a finding.
LEMMA ReportFinds ==
  ASSUME pos \in Nat \ {0}, NEW reason, NEW closed, NEW c, NEW after,
         Report(reason, closed, c, after)
  PROVE  /\ Finding /\ pos \in Flagged'
         /\ \/ phase' = "done" /\ truncated' = TRUE
            \/ /\ phase' = phase /\ truncated' = truncated
               /\ segments' = closed /\ cur' = after
<1>1. issues' = issues \cup {Issue(lineNum', pos, reason)}
  BY DEF Report
<1>2. pos \in Flagged'
  BY ReportOutcome
<1> QED
  BY <1>1, <1>2 DEF Report, Stop, Continue, Finding

\* A MAC check counts its line, or ends the replay.
LEMMA CheckCounts ==
  ASSUME pos \in Nat \ {0}, NEW closed, NEW c, NEW k, NEW prev,
         CheckMAC(closed, c, k, prev), Keyed(pos), lineNum' = lineNum + 1,
         phase = "scan"
  PROVE  Finding /\ Counts(closed, c)
<1> DEFINE l       == file.lines[pos]
           want    == HMAC(k, l.text, prev)
           reached == IF Matches(l, want) THEN want ELSE Claimed(l, want)
           after   == Advanced(c, {reached}, c.count + 1, lineNum')
           call    == [chain |-> c.chain, seq |-> c.seq, at |-> pos,
                       line |-> c.count + 1, mac |-> reached]
<1>1. l.hex = "none" \/ reached = l.mac
  BY Zenon DEF Matches, Claimed
<1>2. CASE Matches(l, want)
  <2>1. Continue(closed, after) /\ issues' = issues /\ calls' = calls \cup {call}
    BY <1>2, Zenon DEF CheckMAC
  <2> QED
    BY <1>1, <2>1, Zenon DEF Continue, Finding, Counts
<1>3. CASE ~Matches(l, want)
  <2>1. /\ Report("mismatch", closed, c, after)
        /\ IF opt.stopOnFirst THEN calls' = calls ELSE calls' = calls \cup {call}
    BY <1>3, Zenon DEF CheckMAC
  <2>2. Finding /\ pos \in Flagged'
    BY <2>1, ReportFinds
  <2>3. CASE opt.stopOnFirst
    <3>1. phase' = "done" /\ truncated' = TRUE /\ calls' = calls
      BY <2>1, <2>3, Zenon DEF Report, Stop
    <3> QED
      BY <2>2, <3>1, Zenon DEF Counts
  <2>4. CASE ~opt.stopOnFirst
    <3>1. Continue(closed, after) /\ calls' = calls \cup {call}
      BY <2>1, <2>4, Zenon DEF Report
    <3> QED
      BY <1>1, <2>2, <3>1, Zenon DEF Counts, Continue
  <2> QED
    BY <2>3, <2>4
<1> QED
  BY <1>2, <1>3

\* Every step that reads a line is one of these.
LEMMA StepAccounts ==
  ASSUME TypeInv, OpenSegment, ReplayStep PROVE Accounts \/ EndOfInput
<1> DEFINE L == file.lines
<1>1. ASSUME NEW forms, Read(forms)
      PROVE  /\ phase = "scan" /\ pos \in 1 .. Len(L) /\ pos' = pos + 1 /\ UNCHANGED input
             /\ pos \in Nat \ {0} /\ L[pos].form \in forms
  <2>1. phase = "scan" /\ L[pos].form \in forms
    BY <1>1 DEF Read
  <2> QED
    BY <1>1, <2>1, ReadTypes
<1>2. ~Signed(L, pos) => ~Keyed(pos) /\ ~IsStart(L, pos)
  BY Zenon DEF Keyed, IsStart
<1>3. CASE SkipBlank
  <2>1. /\ Read({"blank"})
        /\ UNCHANGED <<phase, lineNum, cur, segments, issues, calls, truncated>>
    BY <1>3 DEF SkipBlank
  <2>2. ~Signed(L, pos)
    BY <1>1, <2>1 DEF Signed
  <2> QED
    BY <1>1, <1>2, <2>1, <2>2 DEF Accounts, Finding, PassesOver
<1>4. CASE SkipUnsigned
  <2>1. /\ Read({"nobrace", "nomac"}) /\ lineNum' = lineNum + 1
        /\ UNCHANGED <<phase, cur, segments, issues, calls, truncated>>
    BY <1>4 DEF SkipUnsigned
  <2>2. ~Signed(L, pos)
    BY <1>1, <2>1 DEF Signed
  <2> QED
    BY <1>1, <1>2, <2>1, <2>2 DEF Accounts, Finding, PassesOver
<1>5. CASE RejectLine
  <2>1. PICK forms \in {{"nobrace", "nomac"}, {"badmac"}} : Read(forms)
    BY <1>5 DEF RejectLine
  <2>2. ~Signed(L, pos)
    BY <1>1, <2>1 DEF Signed
  <2>3. Report(L[pos].form, segments, cur, cur) /\ calls' = calls /\ lineNum' = lineNum + 1
    BY <1>5 DEF RejectLine
  <2>4. Finding /\ (phase' = "scan" => cur' = cur /\ segments' = segments)
    BY <1>1, <2>1, <2>3, ReportFinds
  <2> QED
    BY <1>1, <1>2, <2>1, <2>2, <2>3, <2>4 DEF Accounts, PassesOver
<1>6. CASE Orphan
  <2>1. /\ Read({"signed"}) /\ ~L[pos].text.start /\ cur.at = 0
        /\ Report("orphan", segments, cur, cur) /\ calls' = calls /\ lineNum' = lineNum + 1
    BY <1>6 DEF Orphan
  <2>2. phase = "scan" /\ pos \in Nat \ {0} /\ ~IsStart(L, pos)
    BY <1>1, <2>1 DEF IsStart
  <2>3. \A s \in 1 .. pos - 1 : ~IsStart(L, s)
    BY <2>1, <2>2 DEF OpenSegment, Open
  <2>4. ~Keyed(pos)
    BY <2>2, <2>3 DEF Keyed, Governs
  <2>5. Finding /\ (phase' = "scan" => cur' = cur /\ segments' = segments)
    BY <2>1, <2>2, ReportFinds
  <2> QED
    BY <1>1, <2>1, <2>2, <2>4, <2>5 DEF Accounts, PassesOver
<1>7. CASE KeylessLine
  <2>1. /\ Read({"signed"}) /\ ~L[pos].text.start /\ cur.at # 0 /\ key = {}
        /\ lineNum' = lineNum + 1
        /\ UNCHANGED <<phase, cur, segments, issues, calls, truncated>>
    BY <1>7 DEF KeylessLine
  <2>2. phase = "scan" /\ pos \in Nat \ {0} /\ ~IsStart(L, pos)
    BY <1>1, <2>1 DEF IsStart
  <2>3. ~Keyed(pos)
    BY <2>1, <2>2, OpenGoverns, KeyedBy
  <2> QED
    BY <1>1, <2>1, <2>2, <2>3 DEF Accounts, Finding, PassesOver
<1>8. CASE CheckLine
  <2>1. /\ Read({"signed"}) /\ ~L[pos].text.start /\ cur.at # 0 /\ key # {}
        /\ lineNum' = lineNum + 1 /\ CheckMAC(segments, cur, key, prevMAC)
    BY <1>8 DEF CheckLine
  <2>2. phase = "scan" /\ pos \in Nat \ {0} /\ ~IsStart(L, pos) /\ Signed(L, pos)
    BY <1>1, <2>1 DEF IsStart, Signed
  <2>3. Governs(L, cur.at, pos) /\ Keyed(pos)
    BY <2>1, <2>2, OpenGoverns, KeyedBy
  <2>4. Finding /\ Counts(segments, cur)
    BY <2>1, <2>2, <2>3, CheckCounts
  <2> QED
    BY <1>1, <2>1, <2>2, <2>3, <2>4 DEF Accounts, CountsOn
<1>9. CASE StartSegment
  <2> DEFINE closed == segments \cup Present(Closed(cur, lineNum))
             c == NewSegment(L[pos], pos, lineNum + 1)
             k == KeyAt(L, keyFor, pos)
  <2>1. /\ Read({"signed"}) /\ L[pos].text.start /\ lineNum' = lineNum + 1
    BY <1>9 DEF StartSegment
  <2>2. keyFor[<<c.chain, c.seq>>] = k
    BY DEF NewSegment, KeyAt
  <2>3. \/ k = {} /\ Report("nokey", closed, c, c) /\ calls' = calls
        \/ k # {} /\ CheckMAC(closed, c, k, Zero)
    BY <1>9, <2>2, Zenon DEF StartSegment
  <2>4. phase = "scan" /\ pos \in Nat \ {0} /\ IsStart(L, pos) /\ Signed(L, pos)
    BY <1>1, <2>1 DEF IsStart, Signed
  <2>5. Keyed(pos) <=> k # {}
    BY <2>4, GovernsSelf, KeyedBy
  <2>6. CASE k = {}
    <3>1. Report("nokey", closed, c, c) /\ calls' = calls
      BY <2>3, <2>6
    <3> HIDE DEF closed, c
    <3>2. Finding /\ (phase' = "scan" => segments' = closed /\ cur' = c)
      BY <2>4, <3>1, ReportFinds
    <3>3. Opens
      BY <2>1, <2>4, <2>5, <2>6, <3>1, <3>2, Zenon DEF Opens, closed, c
    <3> QED
      BY <1>1, <2>1, <3>2, <3>3 DEF Accounts
  <2>7. CASE k # {}
    <3>1. CheckMAC(closed, c, k, Zero)
      BY <2>3, <2>7
    <3> HIDE DEF closed, c, k
    <3>2. Finding /\ Counts(closed, c)
      BY <2>1, <2>4, <2>5, <2>7, <3>1, CheckCounts
    <3>3. Opens
      BY <2>4, <3>2, Zenon DEF Opens, closed, c
    <3> QED
      BY <1>1, <2>1, <3>2, <3>3 DEF Accounts
  <2> QED
    BY <2>6, <2>7
<1> QED
  BY <1>3, <1>4, <1>5, <1>6, <1>7, <1>8, <1>9 DEF ReplayStep

-----------------------------------------------------------------------------
(* The lines of a segment.                                                 *)

\* What is said of a file stays true while it is replayed.
LEMMA SameFile ==
  ASSUME UNCHANGED input
  PROVE  /\ \A i : Keyed(i)' <=> Keyed(i)
         /\ \A c : Tells(c)' <=> Tells(c)
         /\ \A c, n : Describes(c, n)' <=> Describes(c, n)
<1>1. file' = file /\ keyFor' = keyFor
  BY DEF input
<1>2. \A s, n : LinesUpTo(s, n)' = LinesUpTo(s, n)
  BY <1>1 DEF LinesUpTo
<1>3. \A i : Keyed(i)' <=> Keyed(i)
  BY <1>1 DEF Keyed
<1>4. \A c : Tells(c)' <=> Tells(c)
  BY <1>1, <1>2, Zenon DEF Tells
<1>5. \A c, n : Describes(c, n)' <=> Describes(c, n)
  BY <1>1, <1>2, Zenon DEF Describes
<1> QED
  BY <1>3, <1>4, <1>5

\* They are finitely many.
LEMMA LinesFinite ==
  ASSUME NEW s \in Nat, NEW n \in Nat
  PROVE  /\ IsFiniteSet(LinesUpTo(s, n)) /\ Cardinality(LinesUpTo(s, n)) \in Nat
<1>1. IsFiniteSet(s .. n)
  BY FS_Interval
<1>2. LinesUpTo(s, n) \in SUBSET (s .. n)
  BY DEF LinesUpTo
<1>3. IsFiniteSet(LinesUpTo(s, n))
  BY <1>1, <1>2, FS_Subset
<1> QED
  BY <1>3, FS_CardinalityType

\* A signed line that the segment's start line governs is one more.
LEMMA LinesAdd ==
  ASSUME NEW n \in Nat \ {0}, NEW s \in 1 .. n - 1,
         Governs(file.lines, s, n), Signed(file.lines, n)
  PROVE  /\ LinesUpTo(s, n) = LinesUpTo(s, n - 1) \cup {n}
         /\ Cardinality(LinesUpTo(s, n)) = Cardinality(LinesUpTo(s, n - 1)) + 1
<1>1. s .. n = (s .. n - 1) \cup {n} /\ n \notin s .. n - 1
  OBVIOUS
<1>2. LinesUpTo(s, n) = LinesUpTo(s, n - 1) \cup {n}
  BY <1>1, Zenon DEF LinesUpTo
<1>3. n \notin LinesUpTo(s, n - 1)
  BY DEF LinesUpTo
<1>4. s \in Nat /\ n - 1 \in Nat
  OBVIOUS
<1>5. IsFiniteSet(LinesUpTo(s, n - 1))
  BY <1>4, LinesFinite
<1> QED
  BY <1>2, <1>3, <1>5, FS_AddElement

\* Any other line adds nothing.
LEMMA LinesPass ==
  ASSUME NEW n \in Nat \ {0}, NEW s \in 1 .. n - 1,
         ~(Signed(file.lines, n) /\ Governs(file.lines, s, n))
  PROVE  LinesUpTo(s, n) = LinesUpTo(s, n - 1)
<1>1. s .. n = (s .. n - 1) \cup {n}
  OBVIOUS
<1> QED
  BY <1>1, Zenon DEF LinesUpTo

\* The start line is the first.
LEMMA LinesBegin ==
  ASSUME NEW n \in Nat \ {0}, IsStart(file.lines, n)
  PROVE  LinesUpTo(n, n) = {n} /\ Cardinality(LinesUpTo(n, n)) = 1
<1>1. Governs(file.lines, n, n) /\ Signed(file.lines, n)
  BY GovernsSelf DEF IsStart
<1>2. n .. n = {n}
  OBVIOUS
<1>3. LinesUpTo(n, n) = {n}
  BY <1>1, <1>2, Zenon DEF LinesUpTo
<1> QED
  BY <1>3, FS_Singleton

\* The next start line ends the segment.
LEMMA LinesEnd ==
  ASSUME NEW n \in Nat \ {0}, NEW s \in 1 .. n - 1, NEW m \in Nat, n <= m,
         IsStart(file.lines, n)
  PROVE  LinesUpTo(s, m) = LinesUpTo(s, n - 1)
<1>1. \A i \in n .. m : ~Governs(file.lines, s, i)
  BY DEF Governs
<1>2. s .. m = (s .. n - 1) \cup (n .. m)
  OBVIOUS
<1> QED
  BY <1>1, <1>2, Zenon DEF LinesUpTo

-----------------------------------------------------------------------------
(* Stopping.                                                               *)

\* Reading a line under StopOnFirst ends the replay at the first finding.
LEMMA AccountsStops ==
  ASSUME TypeInv, StopsInTime, Accounts PROVE StopsInTime'
<1>1. /\ phase = "scan" /\ pos \in Nat \ {0} /\ pos' = pos + 1 /\ opt' = opt
      /\ ~truncated /\ (opt.stopOnFirst => issues = {} /\ Flagged = {})
  BY DEF Accounts, TypeInv, TypeOK, StopsInTime, input
<1>2. CASE issues' = issues /\ phase' = phase /\ truncated' = truncated
  <2>1. Flagged' = Flagged
    BY <1>2 DEF Flagged
  <2> QED
    BY <1>1, <1>2, <2>1 DEF StopsInTime
<1>3. CASE ~(issues' = issues /\ phase' = phase /\ truncated' = truncated)
  <2>1. PICK reason : issues' = issues \cup {Issue(lineNum', pos, reason)}
    BY <1>3 DEF Accounts, Finding
  <2>2. IF opt.stopOnFirst THEN phase' = "done" /\ truncated' = TRUE
                           ELSE phase' = phase /\ truncated' = truncated
    BY <1>3 DEF Accounts, Finding
  <2>3. Issue(lineNum', pos, reason).at = pos' - 1 /\ pos # 0
    BY <1>1 DEF Issue
  <2> HIDE DEF Issue
  <2>4. CASE opt.stopOnFirst
    <3>1. issues' = {Issue(lineNum', pos, reason)}
      BY <1>1, <2>1, <2>4
    <3> QED
      BY <1>1, <2>2, <2>3, <2>4, <3>1 DEF StopsInTime
  <2>5. CASE ~opt.stopOnFirst
    BY <1>1, <2>2, <2>5 DEF StopsInTime
  <2> QED
    BY <2>4, <2>5
<1> QED
  BY <1>2, <1>3

\* What a stopped replay has flagged.
LEMMA StoppedFlags ==
  ASSUME StopsInTime, truncated PROVE Flagged = {pos - 1}
<1>1. PICK i \in issues : issues = {i} /\ i.at = pos - 1 /\ i.at # 0
  BY DEF StopsInTime
<1> QED
  BY <1>1 DEF Flagged

-----------------------------------------------------------------------------
(* The calls to OnLine.                                                    *)

\* The lines handed over so far, and the line being read.
LEMMA HandingOver ==
  ASSUME TypeInv, StopsInTime, StopsInTime', Accounts
  PROVE  /\ pos \notin HandedOver /\ IsFiniteSet(HandedOver)
         /\ HandedOver' = IF Keyed(pos) /\ ~truncated' THEN HandedOver \cup {pos}
                                                       ELSE HandedOver
<1>1. /\ phase = "scan" /\ pos \in Nat \ {0} /\ pos' = pos + 1 /\ ~truncated
      /\ UNCHANGED input
  BY DEF Accounts, TypeInv, TypeOK, StopsInTime
<1>2. HandedOver = {i \in 1 .. pos - 1 : Keyed(i)}
  BY <1>1, Zenon DEF HandedOver, KeyedLines
<1>3. pos \notin HandedOver
  BY <1>1, <1>2
<1>4. IsFiniteSet(HandedOver)
  <2>1. IsFiniteSet(1 .. pos - 1)
    BY <1>1, FS_Interval
  <2>2. HandedOver \in SUBSET (1 .. pos - 1)
    BY <1>2
  <2> QED
    BY <2>1, <2>2, FS_Subset
<1>5. KeyedLines' = IF Keyed(pos) THEN HandedOver \cup {pos} ELSE HandedOver
  <2>1. 1 .. pos' - 1 = (1 .. pos - 1) \cup {pos}
    BY <1>1
  <2>2. KeyedLines' = {i \in 1 .. pos' - 1 : Keyed(i)}
    BY <1>1, SameFile, Zenon DEF KeyedLines
  <2> QED
    BY <1>2, <2>1, <2>2, Zenon
<1>6. CASE truncated'
  <2>1. Flagged' = {pos}
    <3>1. PICK i \in issues' : issues' = {i} /\ i.at = pos' - 1 /\ i.at # 0
      BY <1>6 DEF StopsInTime
    <3> QED
      BY <1>1, <3>1 DEF Flagged
  <2>2. HandedOver' = KeyedLines' \ {pos}
    BY <1>6, <2>1 DEF HandedOver
  <2> QED
    BY <1>3, <1>4, <1>5, <1>6, <2>2
<1>7. CASE ~truncated'
  BY <1>3, <1>4, <1>5, <1>7 DEF HandedOver
<1> QED
  BY <1>6, <1>7

\* A line that is counted is handed over with its place in its segment.
LEMMA CountsHandsOver ==
  ASSUME TypeInv, StopsInTime, StopsInTime', CallsTell, Accounts,
         NEW closed, NEW c, Counts(closed, c), Governs(file.lines, c.at, pos),
         c.chain = file.lines[c.at].text.chain,
         c.count + 1 = Cardinality(LinesUpTo(c.at, pos))
  PROVE  CallsTell'
<1>1. /\ phase = "scan" /\ pos \in Nat \ {0} /\ ~truncated /\ UNCHANGED input
      /\ Keyed(pos)
  BY DEF Accounts, TypeInv, TypeOK, StopsInTime, Counts
<1>2. \A d \in calls : Tells(d)'
  BY <1>1, SameFile DEF CallsTell
<1>3. CASE truncated' = TRUE /\ calls' = calls
  <2>1. HandedOver' = HandedOver
    BY <1>3, HandingOver
  <2> QED
    BY <1>2, <1>3, <2>1 DEF CallsTell
<1>4. CASE ~(truncated' = TRUE /\ calls' = calls)
  <2>1. PICK mac :
          /\ file.lines[pos].hex = "none" \/ mac = file.lines[pos].mac
          /\ calls' = calls \cup {[chain |-> c.chain, seq |-> c.seq, at |-> pos,
                                   line |-> c.count + 1, mac |-> mac]}
          /\ truncated' = truncated
    BY <1>4, Zenon DEF Counts
  <2> DEFINE call == [chain |-> c.chain, seq |-> c.seq, at |-> pos,
                      line |-> c.count + 1, mac |-> mac]
  <2>2. call.at = pos /\ call.chain = c.chain /\ call.line = c.count + 1 /\ call.mac = mac
    OBVIOUS
  <2>3. calls' = calls \cup {call}
    BY <2>1
  <2> HIDE DEF call
  <2>4. HandedOver' = HandedOver \cup {pos}
    BY <1>1, <2>1, HandingOver
  <2>5. Tells(call)
    <3>1. c.at \in 1 .. pos /\ KeyAt(file.lines, keyFor, c.at) # {}
      BY <1>1, KeyedBy DEF Governs
    <3> QED
      BY <2>1, <2>2, <3>1, Zenon DEF Tells
  <2>6. \A d \in calls' : Tells(d)'
    BY <1>1, <1>2, <2>3, <2>5, SameFile
  <2>7. {d.at : d \in calls'} = HandedOver'
    BY <2>2, <2>3, <2>4 DEF CallsTell
  <2>8. call \notin calls /\ pos \notin HandedOver /\ IsFiniteSet(HandedOver)
    <3>1. pos \notin HandedOver /\ IsFiniteSet(HandedOver)
      BY HandingOver
    <3> QED
      BY <2>2, <3>1 DEF CallsTell
  <2>9. IsFiniteSet(calls') /\ Cardinality(calls') = Cardinality(HandedOver')
    <3>1. IsFiniteSet(calls) /\ Cardinality(calls) = Cardinality(HandedOver)
      BY DEF CallsTell
    <3>2. /\ IsFiniteSet(calls \cup {call})
          /\ Cardinality(calls \cup {call}) = Cardinality(calls) + 1
      BY <2>8, <3>1, FS_AddElement
    <3>3. Cardinality(HandedOver \cup {pos}) = Cardinality(HandedOver) + 1
      BY <2>8, FS_AddElement
    <3> QED
      BY <2>3, <2>4, <3>1, <3>2, <3>3, Zenon
  <2> QED
    BY <2>6, <2>7, <2>9 DEF CallsTell
<1> QED
  BY <1>3, <1>4

\* A line that lies in no segment with a key is not handed over.
LEMMA OthersAreNotHandedOver ==
  ASSUME TypeInv, StopsInTime, StopsInTime', CallsTell, Accounts,
         ~Keyed(pos), calls' = calls
  PROVE  CallsTell'
<1>1. UNCHANGED input
  BY DEF Accounts
<1>2. \A d \in calls : Tells(d)'
  BY <1>1, SameFile DEF CallsTell
<1>3. HandedOver' = HandedOver
  BY HandingOver
<1> QED
  BY <1>2, <1>3 DEF CallsTell

\* What has been counted when a line is read in the open segment.
LEMMA CountsOnFrom ==
  ASSUME TypeInv, OpenSegment, StopsInTime, OpenIsDescribed, Accounts, CountsOn
  PROVE  /\ cur.at \in 1 .. pos - 1 /\ Signed(file.lines, pos)
         /\ KeyAt(file.lines, keyFor, cur.at) # {}
         /\ cur.chain = file.lines[cur.at].text.chain
         /\ cur.count + 1 = Cardinality(LinesUpTo(cur.at, pos))
<1>1. /\ phase = "scan" /\ pos \in Nat \ {0} /\ cur.at # 0 /\ Keyed(pos)
      /\ Governs(file.lines, cur.at, pos) /\ ~IsStart(file.lines, pos)
  BY DEF Accounts, TypeInv, TypeOK, CountsOn, Counts
<1>2. Signed(file.lines, pos) /\ KeyAt(file.lines, keyFor, cur.at) # {}
  BY <1>1, KeyedBy
<1>3. cur.at \in 1 .. pos - 1
  BY <1>1, OpenGoverns
<1>4. /\ cur.chain = file.lines[cur.at].text.chain
      /\ cur.count = Cardinality(LinesUpTo(cur.at, pos - 1))
  BY <1>1, <1>2 DEF OpenIsDescribed, Describes
<1>5. Cardinality(LinesUpTo(cur.at, pos)) = Cardinality(LinesUpTo(cur.at, pos - 1)) + 1
  BY <1>1, <1>2, <1>3, LinesAdd
<1> QED
  BY <1>2, <1>3, <1>4, <1>5

\* What a start line counts from.
LEMMA OpensFrom ==
  ASSUME TypeInv, Accounts, Opens
  PROVE  LET c == NewSegment(file.lines[pos], pos, lineNum + 1)
         IN  /\ c.at = pos /\ Governs(file.lines, pos, pos)
             /\ c.chain = file.lines[pos].text.chain
             /\ c.count + 1 = Cardinality(LinesUpTo(pos, pos))
             /\ c.first = lineNum + 1 /\ c.last = 0
<1>1. pos \in Nat \ {0} /\ IsStart(file.lines, pos)
  BY DEF Accounts, TypeInv, TypeOK, Opens
<1>2. Governs(file.lines, pos, pos) /\ Cardinality(LinesUpTo(pos, pos)) = 1
  BY <1>1, GovernsSelf, LinesBegin
<1> QED
  BY <1>2 DEF NewSegment

\* Every line read is accounted for by the calls.
LEMMA AccountsCalls ==
  ASSUME TypeInv, OpenSegment, StopsInTime, StopsInTime', OpenIsDescribed, CallsTell, Accounts
  PROVE  CallsTell'
<1>1. CASE PassesOver
  BY <1>1, OthersAreNotHandedOver DEF PassesOver
<1>2. CASE CountsOn
  <2>1. Counts(segments, cur) /\ Governs(file.lines, cur.at, pos)
    BY <1>2 DEF CountsOn
  <2> QED
    BY <1>2, <2>1, CountsOnFrom, CountsHandsOver
<1>3. CASE Opens
  <2> DEFINE closed == segments \cup Present(Closed(cur, lineNum))
             c == NewSegment(file.lines[pos], pos, lineNum + 1)
  <2>1. /\ c.at = pos /\ Governs(file.lines, pos, pos)
        /\ c.chain = file.lines[pos].text.chain
        /\ c.count + 1 = Cardinality(LinesUpTo(pos, pos))
    BY <1>3, OpensFrom
  <2>2. Counts(closed, c) \/ (~Keyed(pos) /\ calls' = calls)
    BY <1>3, Zenon DEF Opens
  <2> HIDE DEF closed, c
  <2>3. CASE Counts(closed, c)
    BY <2>1, <2>3, CountsHandsOver
  <2>4. CASE ~Keyed(pos) /\ calls' = calls
    BY <2>4, OthersAreNotHandedOver
  <2> QED
    BY <2>2, <2>3, <2>4
<1> QED
  BY <1>1, <1>2, <1>3 DEF Accounts

-----------------------------------------------------------------------------
(* The segments.                                                           *)

\* A line that was read in a segment describes it one line further.
LEMMA DescribesOn ==
  ASSUME NEW d, NEW mac, pos \in Nat \ {0},
         Governs(file.lines, d.at, pos), Signed(file.lines, pos),
         d.count = Cardinality(LinesUpTo(d.at, pos)), d.final = {mac},
         file.lines[pos].hex = "none" \/ mac = file.lines[pos].mac
  PROVE  Describes(d, pos)
<1>1. pos \in LinesUpTo(d.at, pos) /\ \A j \in LinesUpTo(d.at, pos) : j <= pos
  BY DEF LinesUpTo, Governs
<1> QED
  BY <1>1, Zenon DEF Describes

\* A segment is described by what was read of it when nothing was added since.
LEMMA DescribesSame ==
  ASSUME NEW c, NEW n, NEW m, Describes(c, n), LinesUpTo(c.at, m) = LinesUpTo(c.at, n)
  PROVE  Describes(c, m)
  BY Zenon DEF Describes

\* Closing a segment changes nothing but its last line number.
LEMMA DescribesClosed ==
  ASSUME NEW c, NEW n, NEW last, Describes(c, n)
  PROVE  /\ Describes(Closed(c, last), n)
         /\ Closed(c, last).at = c.at /\ Closed(c, last).first = c.first
         /\ Closed(c, last).last = last
<1> DEFINE d == Closed(c, last)
<1>1. /\ d.at = c.at /\ d.first = c.first /\ d.last = last
      /\ d.count = c.count /\ d.final = c.final
  BY DEF Closed, Advanced
<1> HIDE DEF d
<1>2. Describes(d, n)
  BY <1>1, Zenon DEF Describes
<1> QED
  BY <1>1, <1>2 DEF d

\* The open segment stays described.
LEMMA AccountsOpen ==
  ASSUME TypeInv, OpenSegment, StopsInTime, OpenIsDescribed, Accounts
  PROVE  OpenIsDescribed'
<1> SUFFICES ASSUME phase' = "scan", cur'.at # 0
             PROVE  /\ cur'.chain = file.lines[cur'.at].text.chain
                    /\ Describes(cur', pos)
                    /\ cur'.first <= lineNum' /\ cur'.last <= lineNum'
  <2>1. pos' - 1 = pos /\ UNCHANGED input
    BY DEF Accounts, TypeInv, TypeOK
  <2> QED
    BY <2>1, SameFile DEF OpenIsDescribed, input
<1>1. /\ phase = "scan" /\ pos \in Nat \ {0} /\ ~truncated /\ lineNum \in Nat
  BY DEF Accounts, TypeInv, TypeOK, StopsInTime
<1>2. CASE PassesOver
  <2>1. cur' = cur /\ lineNum' \in {lineNum, lineNum + 1} /\ ~Keyed(pos)
        /\ ~IsStart(file.lines, pos)
    BY <1>2 DEF PassesOver
  <2>2. /\ cur.at # 0 /\ cur.chain = file.lines[cur.at].text.chain
        /\ Describes(cur, pos - 1) /\ cur.first <= lineNum /\ cur.last <= lineNum
    BY <1>1, <2>1 DEF OpenIsDescribed
  <2>3. cur.at \in 1 .. pos - 1 /\ Governs(file.lines, cur.at, pos)
    BY <1>1, <2>1, <2>2, OpenGoverns
  <2>4. Describes(cur, pos)
    <3>1. CASE KeyAt(file.lines, keyFor, cur.at) = {}
      BY <3>1, Zenon DEF Describes
    <3>2. CASE KeyAt(file.lines, keyFor, cur.at) # {}
      <4>1. ~Signed(file.lines, pos)
        BY <1>1, <2>1, <2>3, <3>2, KeyedBy
      <4> QED
        BY <1>1, <2>2, <2>3, <4>1, LinesPass, DescribesSame
    <3> QED
      BY <3>1, <3>2
  <2>5. cur.first \in Nat /\ cur.last \in Nat
    BY DEF TypeInv, TypeOK, IsSegment
  <2> QED
    BY <1>1, <2>1, <2>2, <2>4, <2>5
<1>3. ASSUME NEW closed, NEW c, Counts(closed, c), Governs(file.lines, c.at, pos),
             Signed(file.lines, pos), c.chain = file.lines[c.at].text.chain,
             c.count + 1 = Cardinality(LinesUpTo(c.at, pos)),
             c.first <= lineNum + 1
      PROVE  /\ cur'.chain = file.lines[cur'.at].text.chain
             /\ Describes(cur', pos)
             /\ cur'.first <= lineNum' /\ cur'.last <= lineNum'
  <2>1. PICK mac :
          /\ file.lines[pos].hex = "none" \/ mac = file.lines[pos].mac
          /\ cur' = Advanced(c, {mac}, c.count + 1, lineNum') /\ lineNum' = lineNum + 1
    BY <1>3, Zenon DEF Counts
  <2>2. /\ cur'.at = c.at /\ cur'.chain = c.chain /\ cur'.count = c.count + 1
        /\ cur'.final = {mac} /\ cur'.first = c.first /\ cur'.last = lineNum'
    BY <2>1 DEF Advanced
  <2>3. Describes(cur', pos)
    BY <1>1, <1>3, <2>1, <2>2, DescribesOn
  <2> QED
    BY <1>1, <1>3, <2>1, <2>2, <2>3
<1>4. CASE CountsOn
  <2>1. Counts(segments, cur) /\ Governs(file.lines, cur.at, pos) /\ cur.at # 0
    BY <1>4 DEF CountsOn
  <2>2. cur.first <= lineNum + 1
    <3>1. cur.first \in Nat
      BY DEF TypeInv, TypeOK, IsSegment
    <3>2. cur.first <= lineNum
      BY <1>1, <2>1 DEF OpenIsDescribed
    <3> QED
      BY <1>1, <3>1, <3>2
  <2> QED
    BY <1>3, <1>4, <2>1, <2>2, CountsOnFrom
<1>5. CASE Opens
  <2> DEFINE closed == segments \cup Present(Closed(cur, lineNum))
             c == NewSegment(file.lines[pos], pos, lineNum + 1)
  <2>1. /\ c.at = pos /\ Governs(file.lines, pos, pos)
        /\ c.chain = file.lines[pos].text.chain
        /\ c.count + 1 = Cardinality(LinesUpTo(pos, pos))
        /\ c.first = lineNum + 1 /\ c.last = 0
    BY <1>5, OpensFrom
  <2>2. \/ Counts(closed, c)
        \/ ~Keyed(pos) /\ lineNum' = lineNum + 1 /\ cur' = c
    BY <1>5, Zenon DEF Opens
  <2>3. Signed(file.lines, pos)
    BY <1>5 DEF Opens, IsStart
  <2> HIDE DEF closed, c
  <2>4. c.first <= lineNum + 1
    BY <1>1, <2>1
  <2>5. CASE Counts(closed, c)
    BY <1>3, <2>1, <2>3, <2>4, <2>5
  <2>6. CASE ~Keyed(pos) /\ lineNum' = lineNum + 1 /\ cur' = c
    <3>1. KeyAt(file.lines, keyFor, pos) = {}
      BY <1>1, <2>1, <2>3, <2>6, KeyedBy
    <3>2. Describes(c, pos)
      BY <2>1, <3>1, Zenon DEF Describes
    <3> QED
      BY <1>1, <2>1, <2>6, <3>2
  <2> QED
    BY <2>2, <2>5, <2>6
<1> QED
  BY <1>2, <1>4, <1>5 DEF Accounts

\* The segments that are closed when a line has been read, and the open one.
LEMMA AccountsClosing ==
  ASSUME TypeInv, OpenSegment, StopsInTime, Accounts, phase' = "scan"
  PROVE  LET closed == segments \cup Present(Closed(cur, lineNum))
         IN  \/ /\ ~IsStart(file.lines, pos)
                /\ segments' = segments /\ cur'.at = cur.at /\ cur'.first = cur.first
             \/ /\ IsStart(file.lines, pos)
                /\ segments' = closed /\ cur'.at = pos /\ cur'.first = lineNum + 1
<1> DEFINE closed == segments \cup Present(Closed(cur, lineNum))
<1>1. phase = "scan" /\ ~truncated
  BY DEF Accounts, StopsInTime
<1>2. CASE PassesOver
  BY <1>2 DEF PassesOver
<1>3. ASSUME NEW sealed, NEW c, Counts(sealed, c)
      PROVE  segments' = sealed /\ cur'.at = c.at /\ cur'.first = c.first
  <2>1. PICK mac : /\ segments' = sealed
                   /\ cur' = Advanced(c, {mac}, c.count + 1, lineNum')
    BY <1>3, Zenon DEF Counts
  <2> QED
    BY <2>1 DEF Advanced
<1>4. CASE CountsOn
  BY <1>3, <1>4 DEF CountsOn
<1>5. CASE Opens
  <2> DEFINE c == NewSegment(file.lines[pos], pos, lineNum + 1)
  <2>1. c.at = pos /\ c.first = lineNum + 1
    BY <1>5, OpensFrom
  <2>2. \/ Counts(closed, c)
        \/ segments' = closed /\ cur' = c
    BY <1>5, Zenon DEF Opens
  <2>3. IsStart(file.lines, pos)
    BY <1>5, Zenon DEF Opens
  <2> HIDE DEF closed, c
  <2>4. segments' = closed /\ cur'.at = pos /\ cur'.first = lineNum + 1
    BY <1>3, <2>1, <2>2
  <2> QED
    BY <2>3, <2>4 DEF closed
<1> QED
  BY <1>2, <1>4, <1>5 DEF Accounts

\* A segment pointer adds its start line to a set of segments, unless it is nil.
LEMMA PresentStarts ==
  ASSUME NEW S, NEW c
  PROVE  {s.at : s \in S \cup Present(c)} = {s.at : s \in S} \cup ({c.at} \ {0})
  BY DEF Present

\* The numbers of a segment.
LEMMA SegmentNumbers ==
  ASSUME TypeInv, NEW s \in segments \cup {cur}
  PROVE  s.at \in Nat /\ s.first \in Nat /\ s.last \in Nat
<1>1. IsSegment(s)
  BY Zenon DEF TypeInv, TypeOK
<1> QED
  BY <1>1, Zenon DEF IsSegment

\* The open segment starts before the line being read.
LEMMA OpenStartsBefore ==
  ASSUME TypeInv, OpenSegment, phase = "scan", cur.at # 0
  PROVE  cur.at \in 1 .. pos - 1
<1>1. Governs(file.lines, cur.at, pos - 1)
  BY DEF OpenSegment, Open
<1> QED
  BY <1>1 DEF Governs

\* The open segment has been described to its end when a start line closes it.
LEMMA ClosingIsDescribed ==
  ASSUME TypeInv, OpenSegment, OpenIsDescribed, phase = "scan", cur.at # 0,
         pos \in 1 .. Len(file.lines), IsStart(file.lines, pos)
  PROVE  LET d == Closed(cur, lineNum)
         IN  /\ Describes(d, Len(file.lines))
             /\ d.at = cur.at /\ d.first = cur.first /\ d.last = lineNum
<1> DEFINE d == Closed(cur, lineNum)
<1>1. Describes(cur, pos - 1) /\ cur.at \in 1 .. pos - 1
  BY OpenStartsBefore DEF OpenIsDescribed
<1>2. pos \in Nat \ {0} /\ Len(file.lines) \in Nat /\ pos <= Len(file.lines)
  BY FileShape DEF TypeInv
<1>3. Describes(d, pos - 1) /\ d.at = cur.at /\ d.first = cur.first /\ d.last = lineNum
  BY <1>1, DescribesClosed
<1>4. LinesUpTo(cur.at, Len(file.lines)) = LinesUpTo(cur.at, pos - 1)
  BY <1>1, <1>2, LinesEnd
<1> HIDE DEF d
<1>5. Describes(d, Len(file.lines))
  BY <1>3, <1>4, DescribesSame
<1> QED
  BY <1>3, <1>5 DEF d

\* Every segment of the lines read so far is recorded or open.
LEMMA AccountsClosed ==
  ASSUME TypeInv, OpenSegment, StopsInTime, OpenIsDescribed, ClosedAreDescribed, Accounts
  PROVE  ClosedAreDescribed'
<1> DEFINE closed == segments \cup Present(Closed(cur, lineNum))
           starts == {i \in 1 .. pos - 1 : IsStart(file.lines, i)}
           N == Len(file.lines)
<1>1. /\ phase = "scan" /\ pos \in 1 .. N /\ pos \in Nat \ {0} /\ lineNum \in Nat
      /\ pos' - 1 = pos /\ UNCHANGED input
  BY DEF Accounts, TypeInv, TypeOK
<1> SUFFICES ASSUME phase' = "scan"
             PROVE  /\ {s.at : s \in segments' \cup Present(cur')} =
                         {i \in 1 .. pos : IsStart(file.lines, i)}
                    /\ \A s \in segments' : /\ Describes(s, N)
                                            /\ s.at < cur'.at /\ s.last < cur'.first
                    /\ \A s, t \in segments' : s.at < t.at => s.last < t.first
  BY <1>1, SameFile DEF ClosedAreDescribed, input
<1>2. /\ {s.at : s \in segments} \cup ({cur.at} \ {0}) = starts
      /\ \A s \in segments : Describes(s, N) /\ s.at < cur.at /\ s.last < cur.first
      /\ \A s, t \in segments : s.at < t.at => s.last < t.first
  BY <1>1, PresentStarts DEF ClosedAreDescribed
<1>3. {i \in 1 .. pos : IsStart(file.lines, i)} =
        starts \cup {i \in {pos} : IsStart(file.lines, i)}
  BY <1>1
<1>4. {s.at : s \in segments' \cup Present(cur')} =
        {s.at : s \in segments'} \cup ({cur'.at} \ {0})
  BY PresentStarts
<1>5. \/ /\ ~IsStart(file.lines, pos)
         /\ segments' = segments /\ cur'.at = cur.at /\ cur'.first = cur.first
      \/ /\ IsStart(file.lines, pos)
         /\ segments' = closed /\ cur'.at = pos /\ cur'.first = lineNum + 1
  BY AccountsClosing
<1> HIDE DEF starts, N, closed
<1>6. CASE ~IsStart(file.lines, pos)
  <2>1. {i \in 1 .. pos : IsStart(file.lines, i)} = starts
    BY <1>3, <1>6
  <2> QED
    BY <1>2, <1>4, <1>5, <1>6, <2>1
<1>7. CASE IsStart(file.lines, pos)
  <2> DEFINE d == Closed(cur, lineNum)
  <2>1. segments' = closed /\ cur'.at = pos /\ cur'.first = lineNum + 1
    BY <1>5, <1>7
  <2>2. {i \in 1 .. pos : IsStart(file.lines, i)} = starts \cup {pos}
    BY <1>3, <1>7
  <2>3. ASSUME NEW s \in segments
        PROVE  /\ Describes(s, N) /\ s.at < cur.at /\ s.at < pos /\ s.last < lineNum + 1
               /\ s.last < cur.first /\ cur.at # 0
    <3>1. s.at \in Nat /\ s.last \in Nat /\ cur.at \in Nat /\ cur.first \in Nat
      BY SegmentNumbers
    <3>2. Describes(s, N) /\ s.at < cur.at /\ s.last < cur.first
      BY <1>2
    <3>3. cur.at # 0
      BY <3>1, <3>2
    <3>4. cur.at \in 1 .. pos - 1 /\ cur.first <= lineNum
      BY <1>1, <3>3, OpenStartsBefore DEF OpenIsDescribed
    <3> QED
      BY <1>1, <3>1, <3>2, <3>3, <3>4
  <2>4. d.at = cur.at
    BY DEF Closed, Advanced
  <2>5. ASSUME cur.at # 0
        PROVE  /\ Describes(d, N) /\ d.at < pos /\ d.last < lineNum + 1
               /\ d.first = cur.first
    <3>1. Describes(d, N) /\ d.first = cur.first /\ d.last = lineNum
      BY <1>1, <1>7, <2>5, ClosingIsDescribed DEF N
    <3>2. cur.at \in 1 .. pos - 1
      BY <1>1, <2>5, OpenStartsBefore
    <3> QED
      BY <1>1, <2>4, <3>1, <3>2
  <2> HIDE DEF d
  <2>6. closed = segments \cup (IF cur.at = 0 THEN {} ELSE {d})
    BY <2>4, Zenon DEF closed, Present, d
  <2>7. {s.at : s \in closed} = starts
    BY <1>2, <2>4, <2>6
  <2>8. \A s \in closed : Describes(s, N) /\ s.at < pos /\ s.last < lineNum + 1
    BY <2>3, <2>5, <2>6
  <2>9. ASSUME NEW s \in closed, NEW t \in closed, s.at < t.at PROVE s.last < t.first
    <3>1. CASE s \in segments /\ t \in segments
      BY <1>2, <2>9, <3>1
    <3>2. CASE s \in segments /\ t = d
      BY <2>3, <2>5, <3>2
    <3>3. CASE s = d /\ t \in segments
      <4>1. t.at < cur.at /\ cur.at < t.at /\ cur.at \in Nat /\ t.at \in Nat
        BY <2>3, <2>4, <2>9, <3>3, SegmentNumbers
      <4> QED
        BY <4>1
    <3>4. CASE s = d /\ t = d
      <4>1. cur.at < cur.at /\ cur.at \in Nat
        BY <2>4, <2>9, <3>4, SegmentNumbers
      <4> QED
        BY <4>1
    <3> QED
      BY <2>6, <3>1, <3>2, <3>3, <3>4
  <2>10. {s.at : s \in segments' \cup Present(cur')} =
           {i \in 1 .. pos : IsStart(file.lines, i)}
    <3>1. {cur'.at} \ {0} = {pos}
      BY <1>1, <2>1
    <3> QED
      BY <1>4, <2>1, <2>2, <2>7, <3>1
  <2> QED
    BY <2>1, <2>8, <2>9, <2>10
<1> QED
  BY <1>6, <1>7

\* What a segment stems from does not change while the file is replayed.
LEMMA StemsSame ==
  ASSUME file' = file
  PROVE  \A c : Stems(c)' <=> Stems(c)
  BY DEF Stems

\* A segment that is read on still stems from its start line.
LEMMA StemsOn ==
  ASSUME NEW c, NEW d, Stems(c),
         d.v = c.v, d.chain = c.chain, d.seq = c.seq, d.prev = c.prev,
         d.source = c.source, d.at = c.at
  PROVE  Stems(d)
  BY DEF Stems

\* What the open segment becomes stems from the same line, or it is a new one.
LEMMA StemsStep ==
  ASSUME TypeInv, Accounts, phase' = "scan", SegmentsStem, ~truncated
  PROVE  \/ segments' = segments /\ cur'.at = cur.at /\ (cur.at # 0 => Stems(cur'))
         \/ /\ segments' = segments \cup Present(Closed(cur, lineNum))
            /\ cur'.at = pos /\ Stems(cur') /\ IsStart(file.lines, pos)
<1>1. pos \in DOMAIN file.lines
  BY FileShape DEF Accounts, TypeInv
<1>2. cur.at # 0 => Stems(cur)
  BY DEF SegmentsStem, Present
<1>3. ASSUME NEW c, NEW final, NEW count, NEW last, Stems(c)
      PROVE  Stems(Advanced(c, final, count, last)) /\ Advanced(c, final, count, last).at = c.at
  <2> DEFINE d == Advanced(c, final, count, last)
  <2>1. /\ d.v = c.v /\ d.chain = c.chain /\ d.seq = c.seq /\ d.prev = c.prev
        /\ d.source = c.source /\ d.at = c.at
    BY DEF Advanced
  <2> HIDE DEF d
  <2>2. Stems(d)
    BY <1>3, <2>1, StemsOn
  <2> QED
    BY <2>1, <2>2 DEF d
<1>4. CASE PassesOver
  BY <1>2, <1>4 DEF PassesOver
<1>5. CASE CountsOn
  <2>1. PICK mac : segments' = segments /\ cur' = Advanced(cur, {mac}, cur.count + 1, lineNum')
    BY <1>5, Zenon DEF CountsOn, Counts
  <2> QED
    BY <1>2, <1>3, <1>5, <2>1 DEF CountsOn
<1>6. CASE Opens
  <2> DEFINE closed == segments \cup Present(Closed(cur, lineNum))
             c == NewSegment(file.lines[pos], pos, lineNum + 1)
  <2>1. c.at = pos /\ Stems(c)
    <3>1. /\ c.v = file.lines[pos].text.v /\ c.chain = file.lines[pos].text.chain
          /\ c.seq = ParseUint(file.lines[pos].text.seq)
          /\ c.prev = file.lines[pos].text.prev /\ c.source = file.source /\ c.at = pos
      BY DEF NewSegment
    <3> HIDE DEF c
    <3> QED
      BY <1>1, <3>1 DEF Stems
  <2> HIDE DEF c, closed
  <2>2. \/ segments' = closed /\ cur' = c
        \/ \E mac : segments' = closed /\ cur' = Advanced(c, {mac}, c.count + 1, lineNum')
    BY <1>6, Zenon DEF Opens, Counts, c, closed
  <2>3. cur'.at = pos /\ Stems(cur') /\ segments' = closed
    <3>1. CASE segments' = closed /\ cur' = c
      BY <2>1, <3>1
    <3>2. CASE \E mac : segments' = closed /\ cur' = Advanced(c, {mac}, c.count + 1, lineNum')
      <4>1. PICK mac : segments' = closed /\ cur' = Advanced(c, {mac}, c.count + 1, lineNum')
        BY <3>2
      <4>2. Stems(Advanced(c, {mac}, c.count + 1, lineNum'))
        BY <1>3, <2>1
      <4>3. Advanced(c, {mac}, c.count + 1, lineNum').at = pos
        BY <1>3, <2>1
      <4> QED
        BY <4>1, <4>2, <4>3
    <3> QED
      BY <2>2, <3>1, <3>2
  <2>4. IsStart(file.lines, pos)
    BY <1>6, Zenon DEF Opens
  <2> QED
    BY <2>3, <2>4 DEF closed
<1> QED
  BY <1>4, <1>5, <1>6 DEF Accounts

\* A segment pointer adds one segment at most.
LEMMA PresentFinite ==
  ASSUME NEW S, IsFiniteSet(S), NEW c
  PROVE  IsFiniteSet(S \cup Present(c))
<1>1. IsFiniteSet(S \cup {c})
  BY FS_AddElement
<1> QED
  BY <1>1, Zenon DEF Present

\* Closing a segment keeps the recorded ones apart.
LEMMA ClosingStems ==
  ASSUME TypeInv, phase = "scan", ClosedAreDescribed, SegmentsStem, ~truncated,
         NEW d, d.at = cur.at, cur.at # 0 => Stems(d)
  PROVE  LET closed == segments \cup Present(d)
         IN  /\ IsFiniteSet(closed)
             /\ \A c \in closed : Stems(c)
             /\ \A b, c \in closed : b.at = c.at => b = c
<1> DEFINE closed == segments \cup Present(d)
<1>1. IsFiniteSet(closed)
  BY PresentFinite DEF SegmentsStem
<1>2. \A c \in closed : c \in segments \/ (c = d /\ cur.at # 0)
  BY DEF Present
<1>3. \A c \in segments : Stems(c)
  BY DEF SegmentsStem
<1>4. \A c \in segments : c.at < cur.at /\ c.at \in Nat /\ cur.at \in Nat
  BY SegmentNumbers DEF ClosedAreDescribed
<1>5. \A c \in segments : c.at # cur.at
  BY <1>4
<1>6. \A b, c \in segments : b.at = c.at => b = c
  BY DEF SegmentsStem
<1> HIDE DEF closed
<1>7. ASSUME NEW b \in closed, NEW c \in closed, b.at = c.at PROVE b = c
  BY <1>2, <1>5, <1>6, <1>7
<1>8. \A c \in closed : Stems(c)
  BY <1>2, <1>3
<1> QED
  BY <1>1, <1>7, <1>8 DEF closed

\* Reading a line keeps the segments where they stem from.
LEMMA AccountsStem ==
  ASSUME TypeInv, OpenSegment, ClosedAreDescribed, StopsInTime, SegmentsStem, Accounts
  PROVE  SegmentsStem'
<1>1. phase = "scan" /\ ~truncated /\ file' = file /\ pos \in Nat \ {0}
  BY DEF Accounts, StopsInTime, input, TypeInv, TypeOK
<1> SUFFICES ASSUME ~truncated'
             PROVE  /\ IsFiniteSet(segments')
                    /\ \A c \in segments' : Stems(c)
                    /\ cur'.at # 0 => Stems(cur')
                    /\ \A c, d \in segments' : c.at = d.at => c = d
  <2>1. \A c : Stems(c)' <=> Stems(c)
    BY <1>1, StemsSame
  <2>2. \A c \in Present(cur)' : c = cur' /\ cur'.at # 0
    BY DEF Present
  <2> QED
    BY <2>1, <2>2 DEF SegmentsStem
<1>2. phase' = "scan"
  BY <1>1 DEF Accounts, Finding
<1>3. CASE segments' = segments /\ cur'.at = cur.at /\ (cur.at # 0 => Stems(cur'))
  BY <1>1, <1>3 DEF SegmentsStem
<1>4. CASE /\ segments' = segments \cup Present(Closed(cur, lineNum))
           /\ cur'.at = pos /\ Stems(cur')
  <2> DEFINE d == Closed(cur, lineNum)
  <2>1. d.at = cur.at /\ (cur.at # 0 => Stems(d))
    <3>1. /\ d.v = cur.v /\ d.chain = cur.chain /\ d.seq = cur.seq /\ d.prev = cur.prev
          /\ d.source = cur.source /\ d.at = cur.at
      BY DEF Closed, Advanced
    <3>2. cur.at # 0 => Stems(cur)
      BY <1>1 DEF SegmentsStem, Present
    <3> HIDE DEF d
    <3> QED
      BY <3>1, <3>2, StemsOn
  <2> HIDE DEF d
  <2>2. segments' = segments \cup Present(d)
    BY <1>4 DEF d
  <2> QED
    BY <1>1, <1>4, <2>1, <2>2, ClosingStems
<1> QED
  BY <1>1, <1>2, <1>3, <1>4, StemsStep

\* So does the end of the input.
LEMMA EndStems ==
  ASSUME TypeInv, ClosedAreDescribed, SegmentsStem, EndOfInput
  PROVE  SegmentsStem'
<1>1. /\ phase = "scan" /\ file' = file /\ truncated' = truncated
      /\ segments' = segments \cup Present(cur) /\ cur' = NoSegment
  BY Zenon DEF EndOfInput
<1>2. Present(cur)' = {}
  BY <1>1, NoSegmentType DEF Present
<1> SUFFICES ASSUME ~truncated
             PROVE  /\ IsFiniteSet(segments')
                    /\ \A c \in segments' : Stems(c)
                    /\ \A c, d \in segments' : c.at = d.at => c = d
  <2>1. \A c : Stems(c)' <=> Stems(c)
    BY <1>1, StemsSame
  <2> QED
    BY <1>1, <1>2, <2>1 DEF SegmentsStem
<1>3. cur.at # 0 => Stems(cur)
  BY DEF SegmentsStem, Present
<1> QED
  BY <1>1, <1>3, ClosingStems

\* What a text that is to be a number is read as is the nearest number there is.
LEMMA ParsedIsNearest == ASSUME NEW n \in Int PROVE Nearest(ParseUint(n), n)
  BY WAssumption DEF Nearest, ParseUint, Uint

\* At the end of the input the account is complete.
LEMMA EndDescribes ==
  ASSUME TypeInv, OpenSegment, OpenIsDescribed, ClosedAreDescribed, EndOfInput, SegmentsStem'
  PROVE  SegmentsDescribeTheFile'
<1> DEFINE N == Len(file.lines)
<1>1. /\ phase = "scan" /\ pos - 1 = N /\ file' = file /\ keyFor' = keyFor
      /\ segments' = segments \cup Present(cur) /\ DOMAIN file.lines = 1 .. N
      /\ pos \in Nat \ {0}
  <2>1. N \in Nat /\ DOMAIN file.lines = 1 .. N
    BY FileShape DEF TypeInv
  <2>2. pos \in 1 .. N + 1 /\ pos > N
    BY DEF EndOfInput, TypeInv, TypeOK
  <2>3. pos - 1 = N /\ pos \in Nat \ {0}
    BY <2>1, <2>2
  <2> QED
    BY <2>1, <2>3, Zenon DEF EndOfInput
<1>2. \A s : LinesOf(s) = LinesUpTo(s, N)
  BY Zenon DEF LinesOf, LinesUpTo
<1>3. {s.at : s \in segments'} = {i \in DOMAIN file.lines : IsStart(file.lines, i)}
  BY <1>1 DEF ClosedAreDescribed
<1>4. \A s \in segments' : s \in segments \/ (s = cur /\ cur.at # 0)
  BY <1>1 DEF Present
<1>5. ASSUME NEW s \in segments' PROVE Describes(s, N)
  <2>1. CASE s \in segments
    BY <1>1, <2>1 DEF ClosedAreDescribed
  <2>2. CASE s = cur /\ cur.at # 0
    BY <1>1, <2>2 DEF OpenIsDescribed
  <2> QED
    BY <1>4, <2>1, <2>2
<1>6. ASSUME NEW s \in segments', NEW t \in segments', s.at < t.at PROVE s.last < t.first
  <2>1. CASE s \in segments /\ t \in segments
    BY <1>1, <1>6, <2>1 DEF ClosedAreDescribed
  <2>2. CASE s \in segments /\ t = cur
    BY <1>1, <2>2 DEF ClosedAreDescribed
  <2>3. CASE s = cur
    <3>1. cur.at \in Nat /\ t.at \in Nat /\ t.at <= cur.at
      <4>1. CASE t = cur
        BY <4>1, SegmentNumbers
      <4>2. CASE t \in segments
        BY <1>1, <4>2, SegmentNumbers DEF ClosedAreDescribed
      <4> QED
        BY <1>4, <4>1, <4>2
    <3> QED
      BY <1>6, <2>3, <3>1
  <2> QED
    BY <1>4, <2>1, <2>2, <2>3
<1>7. ASSUME NEW s \in segments', KeyAt(file.lines, keyFor, s.at) # {}
      PROVE  /\ s.count = Cardinality(LinesOf(s.at))
             /\ \E i \in LinesOf(s.at) :
                  /\ \A j \in LinesOf(s.at) : j <= i
                  /\ file.lines[i].hex = "none" \/ s.final = {file.lines[i].mac}
  BY <1>2, <1>5, <1>7, Zenon DEF Describes
<1>8. \A s : LinesOf(s)' = LinesOf(s)
  BY <1>1 DEF LinesOf
<1>9. ASSUME ~truncated', NEW s \in segments' PROVE Nearest(s.seq, file.lines[s.at].text.seq)
  <2>1. s.at \in DOMAIN file.lines /\ s.seq = ParseUint(file.lines[s.at].text.seq)
    BY <1>1, <1>9 DEF SegmentsStem, Stems
  <2>2. file.lines[s.at].text.seq \in Int
    BY <2>1 DEF TypeInv, IsFile, IsLine, IsText
  <2> QED
    BY <2>1, <2>2, ParsedIsNearest
<1> HIDE DEF N
<1> QED
  BY <1>1, <1>3, <1>6, <1>7, <1>8, <1>9, Zenon DEF SegmentsDescribeTheFile

\* What a replay has when it begins.
LEMMA AccountInit == Fresh => AccountInv
<1> SUFFICES ASSUME Fresh PROVE AccountInv
  OBVIOUS
<1>1. ReplayInv
  BY ReplayInit
<1>2. /\ phase = "scan" /\ pos = 1 /\ cur = NoSegment /\ segments = {} /\ issues = {}
      /\ calls = {} /\ truncated = FALSE
  BY DEF Fresh
<1>3. Flagged = {} /\ cur.at = 0
  BY <1>2, NoSegmentType DEF Flagged
<1>4. StopsInTime
  BY <1>2, <1>3 DEF StopsInTime
<1>5. HandedOver = {}
  BY <1>2 DEF HandedOver, KeyedLines
<1>6. CallsTell
  BY <1>2, <1>5, FS_EmptySet DEF CallsTell
<1>7. OpenIsDescribed
  BY <1>3 DEF OpenIsDescribed
<1>8. ClosedAreDescribed
  <2>1. Present(cur) = {}
    BY <1>3 DEF Present
  <2> QED
    BY <1>2, <2>1 DEF ClosedAreDescribed
<1>9. SegmentsDescribeTheFile
  BY <1>2, Zenon DEF SegmentsDescribeTheFile
<1>10. SegmentsStem
  BY <1>2, <1>3, FS_EmptySet DEF SegmentsStem, Present
<1> QED
  BY <1>1, <1>4, <1>6, <1>7, <1>8, <1>9, <1>10 DEF AccountInv

\* Every step keeps the account.
LEMMA AccountStep == AccountInv /\ [Next]_vars => AccountInv'
<1> SUFFICES ASSUME AccountInv, [Next]_vars PROVE AccountInv'
  OBVIOUS
<1>1. /\ ReplayInv /\ StopsInTime /\ CallsTell /\ OpenIsDescribed /\ ClosedAreDescribed
      /\ SegmentsDescribeTheFile /\ SegmentsStem /\ TypeInv /\ OpenSegment
  BY DEF AccountInv, ReplayInv
<1>2. ReplayInv'
  BY <1>1, ReplayStepKeeps
<1>3. CASE Accounts
  <2>1. StopsInTime'
    BY <1>1, <1>3, AccountsStops
  <2>2. CallsTell' /\ OpenIsDescribed' /\ ClosedAreDescribed'
    BY <1>1, <1>3, <2>1, AccountsCalls, AccountsOpen, AccountsClosed
  <2>3. SegmentsDescribeTheFile'
    <3>1. ~(phase' = "done" /\ ~truncated')
      BY <1>1, <1>3 DEF Accounts, Finding
    <3> QED
      BY <3>1, Zenon DEF SegmentsDescribeTheFile
  <2>4. SegmentsStem'
    BY <1>1, <1>3, AccountsStem
  <2> QED
    BY <1>2, <2>1, <2>2, <2>3, <2>4 DEF AccountInv
<1>4. CASE EndOfInput
  <2>1. /\ phase = "scan" /\ phase' = "done" /\ pos' = pos /\ calls' = calls
        /\ truncated' = truncated /\ UNCHANGED input
    BY <1>4 DEF EndOfInput, input
  <2>2. Flagged' = Flagged
    BY <1>4, FileIssues
  <2>3. StopsInTime'
    BY <1>1, <2>1, <2>2 DEF StopsInTime, input
  <2>4. KeyedLines' = KeyedLines
    BY <2>1, SameFile, Zenon DEF KeyedLines
  <2>5. CallsTell'
    BY <1>1, <2>1, <2>2, <2>4, SameFile DEF CallsTell, HandedOver
  <2>6. OpenIsDescribed' /\ ClosedAreDescribed'
    BY <2>1 DEF OpenIsDescribed, ClosedAreDescribed
  <2>7. SegmentsStem'
    BY <1>1, <1>4, EndStems
  <2>8. SegmentsDescribeTheFile'
    BY <1>1, <1>4, <2>7, EndDescribes
  <2> QED
    BY <1>2, <2>3, <2>5, <2>6, <2>7, <2>8 DEF AccountInv
<1>5. CASE UNCHANGED vars
  <2>1. /\ UNCHANGED input
        /\ UNCHANGED <<phase, pos, lineNum, cur, segments, issues, calls, truncated>>
    BY <1>5 DEF vars, input
  <2>2. Flagged' = Flagged /\ KeyedLines' = KeyedLines
    BY <2>1, SameFile, Zenon DEF Flagged, KeyedLines
  <2>3. StopsInTime'
    BY <1>1, <2>1, <2>2 DEF StopsInTime, input
  <2>4. CallsTell'
    BY <1>1, <2>1, <2>2, SameFile DEF CallsTell, HandedOver
  <2>5. OpenIsDescribed' /\ ClosedAreDescribed'
    BY <1>1, <2>1, SameFile DEF OpenIsDescribed, ClosedAreDescribed, input
  <2>6. SegmentsDescribeTheFile'
    BY <1>1, <2>1 DEF SegmentsDescribeTheFile, LinesOf, input
  <2>7. SegmentsStem'
    BY <1>1, <2>1 DEF SegmentsStem, Stems, input
  <2> QED
    BY <1>2, <2>3, <2>4, <2>5, <2>6, <2>7 DEF AccountInv
<1> QED
  BY <1>1, <1>3, <1>4, <1>5, StepAccounts DEF Next, Returned

\* The account is right in every state of a replay.
LEMMA AccountInvariant == Spec => []AccountInv
  BY InitIsFresh, AccountInit, AccountStep, PTL DEF Spec

-----------------------------------------------------------------------------
(* What a replay accounts for.                                             *)

\* For every file that is not cut short: every segment is recorded, with the
\* number of its lines and the value that its last line states, and the
\* segments follow one another as they do in the file.
THEOREM SegmentsAreDescribed == Spec => []SegmentsDescribeTheFile
<1>1. AccountInv => SegmentsDescribeTheFile
  BY DEF AccountInv
<1> QED
  BY <1>1, AccountInvariant, PTL

\* For every file: a replay says it was cut short exactly when StopOnFirst met
\* a finding about a line, and then that is all it has found.
THEOREM TruncatedIsOneFinding == Spec => []TruncatedMeansOneFinding
<1>1. AccountInv => TruncatedMeansOneFinding
  <2> SUFFICES ASSUME StopsInTime PROVE TruncatedMeansOneFinding
    BY DEF AccountInv
  <2>1. ASSUME truncated
        PROVE  /\ opt.stopOnFirst /\ phase = "done"
               /\ Cardinality(issues) = 1 /\ Flagged = {pos - 1}
    BY <2>1, StoppedFlags, FS_Singleton DEF StopsInTime
  <2>2. (opt.stopOnFirst /\ ~truncated) => Flagged = {}
    BY DEF StopsInTime
  <2> QED
    BY <2>1, <2>2 DEF TruncatedMeansOneFinding
<1> QED
  BY <1>1, AccountInvariant, PTL

\* For every file: OnLine is told every signed line of the segments that have a
\* key, counted from 1 at the start line of its segment, with the MAC on disk.
THEOREM OnLineCounts == Spec => []OnLineCountsFromTheStart
<1>1. ASSUME AccountInv PROVE OnLineCountsFromTheStart
  <2> DEFINE told == HandedOver
  <2>1. StopsInTime /\ CallsTell /\ pos \in Nat \ {0}
    BY <1>1 DEF AccountInv, ReplayInv, TypeInv, TypeOK
  <2>2. told = {i \in 1 .. pos - 1 : Keyed(i) /\ (truncated => i # pos - 1)}
    <3>1. truncated => Flagged = {pos - 1}
      BY <2>1, StoppedFlags
    <3> QED
      BY <3>1 DEF HandedOver, KeyedLines
  <2>3. ASSUME NEW j \in told, NEW s, Governs(file.lines, s, j),
               KeyAt(file.lines, keyFor, s) # {}
        PROVE  LinesUpTo(s, j) = {i \in told : s <= i /\ i <= j}
    <3>1. j \in 1 .. pos - 1 /\ (truncated => j # pos - 1) /\ s \in 1 .. j
      BY <2>2, <2>3 DEF Governs
    <3>2. ASSUME NEW i \in LinesUpTo(s, j) PROVE i \in told /\ s <= i /\ i <= j
      <4>1. i \in s .. j /\ Signed(file.lines, i) /\ Governs(file.lines, s, i)
        BY DEF LinesUpTo
      <4>2. i \in 1 .. pos - 1 /\ (truncated => i # pos - 1)
        BY <2>1, <3>1, <4>1
      <4>3. Keyed(i)
        BY <2>3, <4>1, <4>2, KeyedBy
      <4> QED
        BY <2>2, <3>1, <4>1, <4>2, <4>3
    <3>3. ASSUME NEW i \in told, s <= i, i <= j PROVE i \in LinesUpTo(s, j)
      <4>1. i \in s .. j /\ Signed(file.lines, i)
        BY <2>2, <3>1, <3>3 DEF Keyed
      <4>2. Governs(file.lines, s, i)
        BY <2>3, <3>1, <4>1 DEF Governs
      <4> QED
        BY <4>1, <4>2 DEF LinesUpTo
    <3> QED
      BY <3>2, <3>3
  <2> HIDE DEF told
  <2>4. {c.at : c \in calls} = told /\ Cardinality(calls) = Cardinality(told)
    BY <2>1 DEF CallsTell, told
  <2>5. ASSUME NEW c \in calls
        PROVE  /\ \E s \in 1 .. c.at :
                    /\ Governs(file.lines, s, c.at)
                    /\ c.chain = file.lines[s].text.chain
                    /\ c.line = Cardinality({i \in told : s <= i /\ i <= c.at})
               /\ file.lines[c.at].hex = "none" \/ c.mac = file.lines[c.at].mac
    BY <2>1, <2>3, <2>4 DEF CallsTell, Tells
  <2> QED
    BY <2>4, <2>5, Zenon DEF OnLineCountsFromTheStart, told, HandedOver, KeyedLines, Keyed
<1> QED
  BY <1>1, AccountInvariant, PTL
=============================================================================
