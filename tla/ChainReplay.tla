---------------------------- MODULE ChainReplay ----------------------------
(***************************************************************************)
(* chain.VerifyReader: the replay of every chain segment in one file.  One *)
(* action per outcome of the loop body, one for the end of the input.      *)
(***************************************************************************)
EXTENDS ChainFormat, FiniteSets

CONSTANT Line   \* the lines a file may hold

\* What the scanner delivers of a file: its lines, and then the end of the
\* input or a failure (sc.Err).
File == [source : STRING, lines : Seq(Line), err : BOOLEAN]

Options == [allowUnsigned : BOOLEAN, stopOnFirst : BOOLEAN]

ASSUME LineAssumption == \A l \in Line : IsLine(l)

VARIABLES
  file,       \* the file being replayed
  opt,        \* Options
  keyFor,     \* KeyFunc, from a chain id and a file number
  phase,      \* "scan" in the loop, "done" when the result is returned
  pos,        \* the line the scanner delivers next
  lineNum,    \* lineNum, and res.LineCount
  prevMAC,    \* prevMAC
  key,        \* key, {} when nil
  cur,        \* cur, NoSegment when nil
  segments,   \* res.Segments
  issues,     \* res.Issues
  calls,      \* the calls made to opt.OnLine so far, with the physical line
  truncated   \* res.Truncated

input == <<file, opt, keyFor>>
vars == <<file, opt, keyFor, phase, pos, lineNum, prevMAC, key, cur, segments,
          issues, calls, truncated>>

\* Mutant: the start line is counted when the segment is made, and again when its
\* MAC is checked.
NewSegmentCounted(l, at, first) ==
  [v |-> l.text.v, chain |-> l.text.chain, seq |-> ParseUint(l.text.seq),
   prev |-> l.text.prev, final |-> {}, count |-> 1, first |-> first, last |-> 0,
   source |-> file.source, at |-> at]

\* "at" is the physical line of the start line: it is never read by the code,
\* which knows FirstLine ("first") only.
NewSegment(l, at, first) ==
  [v |-> l.text.v, chain |-> l.text.chain, seq |-> ParseUint(l.text.seq),
   prev |-> l.text.prev, final |-> {}, count |-> 0, first |-> first, last |-> 0,
   source |-> file.source, at |-> at]

NoSegment == [v |-> "", chain |-> "", seq |-> 0, prev |-> {}, final |-> {},
              count |-> 0, first |-> 0, last |-> 0, source |-> "", at |-> 0]

\* Mutant: the closing MAC is recorded once and for all.
AdvancedOnce(c, final, count, last) ==
  [v |-> c.v, chain |-> c.chain, seq |-> c.seq, prev |-> c.prev,
   final |-> IF c.final = {} THEN final ELSE c.final, count |-> count,
   first |-> c.first, last |-> last, source |-> c.source, at |-> c.at]

\* Segment c, read on to line number "last".
Advanced(c, final, count, last) ==
  [v |-> c.v, chain |-> c.chain, seq |-> c.seq, prev |-> c.prev,
   final |-> final, count |-> count, first |-> c.first, last |-> last,
   source |-> c.source, at |-> c.at]

\* Segment c, closed at line number "last".
Closed(c, last) == Advanced(c, c.final, c.count, last)

\* The segment pointer as a set of segments: nothing when it is nil.
Present(c) == IF c.at = 0 THEN {} ELSE {c}

\* "at" is again the physical line, 0 for an issue about the file.
Issue(line, at, reason) ==
  [source |-> file.source, line |-> line, at |-> at, reason |-> reason]

-----------------------------------------------------------------------------
\* VerifyReader is called on another file.
Begin(f) ==
  /\ file' = f
  /\ phase' = "scan" /\ pos' = 1 /\ lineNum' = 0
  /\ prevMAC' = Zero /\ key' = {} /\ cur' = NoSegment
  /\ segments' = {} /\ issues' = {} /\ calls' = {} /\ truncated' = FALSE
  /\ UNCHANGED <<opt, keyFor>>

Read(forms) ==
  /\ phase = "scan" /\ pos <= Len(file.lines)
  /\ file.lines[pos].form \in forms
  /\ pos' = pos + 1
  /\ UNCHANGED input

\* The loop goes on with these segments closed and this one open.
Continue(closed, c) ==
  /\ segments' = closed /\ cur' = c
  /\ UNCHANGED <<phase, truncated>>

\* Mutant: an early stop is not recorded.
StopUnmarked(closed, c) ==
  /\ UNCHANGED truncated /\ phase' = "done"
  /\ segments' = closed \cup Present(Closed(c, lineNum'))
  /\ cur' = NoSegment

\* Mutant: only the partial segment is recorded.
StopForgetting(closed, c) ==
  /\ truncated' = TRUE /\ phase' = "done"
  /\ segments' = Present(Closed(c, lineNum'))
  /\ cur' = NoSegment

\* stop(): the open segment is recorded as far as it was read.
Stop(closed, c) ==
  /\ truncated' = TRUE /\ phase' = "done"
  /\ segments' = closed \cup Present(Closed(c, lineNum'))
  /\ cur' = NoSegment

\* add(), and stop() when it says so; "c" is the segment open at that point and
\* "after" the one the loop goes on with.
Report(reason, closed, c, after) ==
  /\ issues' = issues \cup {Issue(lineNum', pos, reason)}
  /\ IF opt.stopOnFirst THEN Stop(closed, c) ELSE Continue(closed, after)

SkipBlank ==
  /\ Read({"blank"})
  /\ UNCHANGED <<phase, lineNum, prevMAC, key, cur, segments, issues, calls,
                 truncated>>

\* AllowUnsigned: the line is counted and passed over.
SkipUnsigned ==
  /\ Read({"nobrace", "nomac"})
  /\ opt.allowUnsigned
  /\ lineNum' = lineNum + 1
  /\ UNCHANGED <<phase, prevMAC, key, cur, segments, issues, calls, truncated>>

\* Mutant: add counts the line once more.
RejectLineTwice ==
  /\ \/ Read({"nobrace", "nomac"}) /\ ~opt.allowUnsigned
     \/ Read({"badmac"})
  /\ lineNum' = lineNum + 2
  /\ Report(file.lines[pos].form, segments, cur, cur)
  /\ UNCHANGED <<prevMAC, key, calls>>

\* No closing brace, no MAC field, or a MAC field of the wrong length.
RejectLine ==
  /\ \/ Read({"nobrace", "nomac"}) /\ ~opt.allowUnsigned
     \/ Read({"badmac"})
  /\ lineNum' = lineNum + 1
  /\ Report(file.lines[pos].form, segments, cur, cur)
  /\ UNCHANGED <<prevMAC, key, calls>>

\* A signed line before any start line.
Orphan ==
  /\ Read({"signed"})
  /\ ~file.lines[pos].text.start
  /\ cur.at = 0
  /\ lineNum' = lineNum + 1
  /\ Report("orphan", segments, cur, cur)
  /\ UNCHANGED <<prevMAC, key, calls>>

\* Mutant: every line of the segment is reported.
KeylessLineReported ==
  /\ Read({"signed"})
  /\ ~file.lines[pos].text.start
  /\ cur.at # 0 /\ key = {}
  /\ lineNum' = lineNum + 1
  /\ Report("nokey", segments, cur, cur)
  /\ UNCHANGED <<prevMAC, key, calls>>

\* A line of a segment that no key was found for.
KeylessLine ==
  /\ Read({"signed"})
  /\ ~file.lines[pos].text.start
  /\ cur.at # 0 /\ key = {}
  /\ lineNum' = lineNum + 1
  /\ UNCHANGED <<phase, prevMAC, key, cur, segments, issues, calls, truncated>>

\* The MAC check of the line being read, in segment c whose key is k, after a
\* line whose MAC is prev.  A mismatch goes on from the value on disk.
CheckMAC(closed, c, k, prev) ==
  LET l       == file.lines[pos]
      want    == HMAC(k, l.text, prev)
      reached == IF Matches(l, want) THEN want ELSE Claimed(l, want)
      after   == Advanced(c, {reached}, c.count + 1, lineNum')
      advance == /\ prevMAC' = reached
                 /\ calls' = calls \cup {[chain |-> c.chain, seq |-> c.seq, at |-> pos,
                                          line |-> c.count + 1, mac |-> reached]}
  IN /\ key' = k
     /\ \/ /\ Matches(l, want)
           /\ Continue(closed, after)
           /\ advance
           /\ UNCHANGED issues
        \/ /\ ~Matches(l, want)
           /\ Report("mismatch", closed, c, after)
           /\ IF opt.stopOnFirst THEN prevMAC' = prev /\ UNCHANGED calls ELSE advance

CheckLine ==
  /\ Read({"signed"})
  /\ ~file.lines[pos].text.start
  /\ cur.at # 0 /\ key # {}
  /\ lineNum' = lineNum + 1
  /\ CheckMAC(segments, cur, key, prevMAC)

\* A start line closes the open segment, opens its own and asks for its key.
StartSegment ==
  /\ Read({"signed"})
  /\ file.lines[pos].text.start
  /\ lineNum' = lineNum + 1
  /\ LET closed == segments \cup Present(Closed(cur, lineNum))
         c      == NewSegment(file.lines[pos], pos, lineNum + 1)
         k      == keyFor[<<c.chain, c.seq>>]
     IN \/ /\ k = {}
           /\ Report("nokey", closed, c, c)
           /\ key' = {} /\ prevMAC' = Zero /\ UNCHANGED calls
        \/ /\ k # {}
           /\ CheckMAC(closed, c, k, Zero)

\* Mutant: sc.Err() is not looked at.
EndOfInputUnchecked ==
  /\ phase = "scan" /\ pos > Len(file.lines)
  /\ issues' = issues \cup (IF lineNum = 0 THEN {Issue(0, 0, "no lines")} ELSE {})
  /\ segments' = segments \cup Present(cur)
  /\ cur' = NoSegment /\ phase' = "done"
  /\ UNCHANGED <<file, opt, keyFor, pos, lineNum, prevMAC, key, calls, truncated>>

\* The scanner has no more lines, or has failed; the last segment keeps the
\* LastLine of its last replayed line.
EndOfInput ==
  /\ phase = "scan" /\ pos > Len(file.lines)
  /\ issues' = issues
       \cup (IF file.err THEN {Issue(0, 0, "read error")} ELSE {})
       \cup (IF lineNum = 0 THEN {Issue(0, 0, "no lines")} ELSE {})
  /\ segments' = segments \cup Present(cur)
  /\ cur' = NoSegment /\ phase' = "done"
  /\ UNCHANGED <<file, opt, keyFor, pos, lineNum, prevMAC, key, calls, truncated>>

ReplayStep == \/ SkipBlank \/ SkipUnsigned \/ RejectLine \/ Orphan
              \/ KeylessLine \/ CheckLine \/ StartSegment \/ EndOfInput

-----------------------------------------------------------------------------
Init ==
  /\ file \in File /\ opt \in Options
  /\ phase = "scan" /\ pos = 1 /\ lineNum = 0
  /\ prevMAC = Zero /\ key = {} /\ cur = NoSegment
  /\ segments = {} /\ issues = {} /\ calls = {} /\ truncated = FALSE

\* The replay has returned: nothing more happens.
Returned == phase = "done" /\ UNCHANGED vars

Next == ReplayStep \/ Returned

Spec == Init /\ [][Next]_vars
FairSpec == Spec /\ WF_vars(ReplayStep)

-----------------------------------------------------------------------------
(* Types.                                                                  *)
IsSegment(s) ==
  /\ s = [v |-> s.v, chain |-> s.chain, seq |-> s.seq, prev |-> s.prev,
          final |-> s.final, count |-> s.count, first |-> s.first,
          last |-> s.last, source |-> s.source, at |-> s.at]
  /\ s.v \in {"", "2"}
  /\ s.seq \in Uint
  /\ s.count \in Nat /\ s.first \in Nat /\ s.last \in Nat /\ s.at \in Nat

Reasons == {"nobrace", "nomac", "badmac", "orphan", "nokey", "mismatch",
            "read error", "no lines"}

IsIssue(i) ==
  /\ i = [source |-> i.source, line |-> i.line, at |-> i.at, reason |-> i.reason]
  /\ i.line \in Nat /\ i.at \in Nat
  /\ i.reason \in Reasons

IsCall(c) ==
  /\ c = [chain |-> c.chain, seq |-> c.seq, at |-> c.at, line |-> c.line,
          mac |-> c.mac]
  /\ c.seq \in Uint /\ c.at \in Nat /\ c.line \in Nat

\* The state of a replay is well formed at every step, and lineNum never runs
\* ahead of the lines read.
TypeOK ==
  /\ opt \in Options
  /\ phase \in {"scan", "done"}
  /\ pos \in 1 .. Len(file.lines) + 1
  /\ lineNum \in 0 .. pos - 1
  /\ IsSegment(cur)
  /\ \A s \in segments : IsSegment(s)
  /\ \A i \in issues : IsIssue(i)
  /\ \A c \in calls : IsCall(c)
  /\ truncated \in BOOLEAN

-----------------------------------------------------------------------------
(* Safety.                                                                 *)
Flagged == {i.at : i \in issues} \ {0}

\* Of the lines read so far exactly those are reported that the file itself
\* shows to be bad: an altered line implicates itself and no line after it
\* (the rule VerifyReader states at "Continue from what the FILE claims").
ReportsExactlyTheBadLines ==
  \A i \in 1 .. pos - 1 :
    ~AfterUndecodable(file.lines, i) =>
      (i \in Flagged <=> Bad(file.lines, opt, keyFor, i))

\* A replay that reports nothing has chained every line: each one that is not
\* blank (or, where that is allowed, unsigned) lies in a segment that has a
\* start line and a key, and carries the MAC the line before it calls for.
CleanMeansChained ==
  (phase = "done" /\ issues = {}) =>
    /\ ~file.err
    /\ \A i \in 1 .. Len(file.lines) :
         \/ file.lines[i].form = "blank"
         \/ Unsigned(file.lines, i) /\ opt.allowUnsigned
         \/ \E s \in 1 .. i : /\ Governs(file.lines, s, i)
                              /\ KeyAt(file.lines, keyFor, s) # {}
                              /\ Chained(file.lines, keyFor, s, i)

\* The signed lines of the segment that starts at line s.
LinesOf(s) == {i \in s .. Len(file.lines) :
                 Signed(file.lines, i) /\ Governs(file.lines, s, i)}

\* n is the number that a start line stands for which states t, if there is such a
\* number, and otherwise the one next to it: the largest for one that is out of range,
\* the smallest for a text that is no number.
Nearest(n, t) ==
  n \in Uint /\ \A m \in Uint : (m <= t => m <= n) /\ (t <= m => n <= m)

\* A replay that was not cut short records every segment of the file, and for
\* each one that has a key the number of its lines and, as its closing MAC, the
\* value its last line states: what LinkIssues compares with the successor's
\* claim is what is on disk.  A number that cannot be parsed is not wrapped around or
\* left over from the segment before, but read as the nearest there is.
SegmentsDescribeTheFile ==
  (phase = "done" /\ ~truncated) =>
    /\ {s.at : s \in segments} = {i \in DOMAIN file.lines : IsStart(file.lines, i)}
    /\ \A s \in segments : KeyAt(file.lines, keyFor, s.at) # {} =>
         /\ s.count = Cardinality(LinesOf(s.at))
         /\ \E i \in LinesOf(s.at) :
              /\ \A j \in LinesOf(s.at) : j <= i
              /\ file.lines[i].hex = "none" \/ s.final = {file.lines[i].mac}
    /\ \A s, t \in segments : s.at < t.at => s.last < t.first
    /\ \A s \in segments : Nearest(s.seq, file.lines[s.at].text.seq)

\* The calls to OnLine are what an anchor check relies on: the lines of each
\* segment are handed over in order, counted from 1 at the start line, with
\* the MAC that stands on disk, and none is left out.
OnLineCountsFromTheStart ==
  LET read == {i \in 1 .. pos - 1 :
                 /\ Signed(file.lines, i)
                 /\ \E s \in 1 .. i : /\ Governs(file.lines, s, i)
                                      /\ KeyAt(file.lines, keyFor, s) # {}}
      told == IF truncated THEN read \ Flagged ELSE read
  IN /\ {c.at : c \in calls} = told
     /\ \A c \in calls :
          /\ \E s \in 1 .. c.at :
               /\ Governs(file.lines, s, c.at)
               /\ c.chain = file.lines[s].text.chain
               /\ c.line = Cardinality({i \in told : s <= i /\ i <= c.at})
          /\ file.lines[c.at].hex = "none" \/ c.mac = file.lines[c.at].mac
     /\ Cardinality(calls) = Cardinality(told)

\* Truncated is set exactly when StopOnFirst met a finding about a line, and
\* that finding is the only one ("returns as soon as something is wrong").
TruncatedMeansOneFinding ==
  /\ truncated => /\ opt.stopOnFirst /\ phase = "done"
                  /\ Cardinality(issues) = 1 /\ Flagged = {pos - 1}
  /\ (opt.stopOnFirst /\ ~truncated) => Flagged = {}

\* Nothing that was found is taken back: while a file is replayed issues,
\* recorded segments and calls are only added to.
NothingIsRetracted ==
  [][phase = "scan" => /\ issues \subseteq issues'
                       /\ segments \subseteq segments'
                       /\ calls \subseteq calls']_vars

-----------------------------------------------------------------------------
\* The replay implements the memoryless judge of LineReport.
Judge == INSTANCE LineReport
           WITH stage <- IF phase = "scan" THEN "judging" ELSE "over",
                next <- pos, flagged <- Flagged

ImplementsLineReport == Judge!Spec
=============================================================================
