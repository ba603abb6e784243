----------------------------- MODULE LiveProofs -----------------------------
(***************************************************************************)
(* Theorems about Live: a log of any size that goes on being written while *)
(* it is audited is accused of nothing that was not about to happen, and   *)
(* what was there before is read.                                          *)
(***************************************************************************)
EXTENDS Live, CommandProofs, ProducerProofs

-----------------------------------------------------------------------------
(* The inductive invariant: the log and the question.                      *)

\* What the auditor's identity opens.
OwnKeys == ChainKeys(Identity, ChainIDs)

TornForms == {"nobrace", "nomac"}

\* A line is being written only in a file that is there.
LogInv ==
  /\ ProducerInv
  /\ Started => created
  /\ torn \in {"whole"} \cup TornForms
  /\ torn # "whole" => created

\* What was there when the command was started is still there.
AskedInv ==
  /\ IsSeq(asked) /\ Len(asked) \in 1 .. Len(files)
  /\ \A n \in 1 .. Len(asked) : Len(asked[n]) \in 1 .. Len(files[n])

\* The anchor was signed over lines that were there by then.
AnchorAsked ==
  /\ \E k \in DOMAIN anchors : anchor = anchors[k]
  /\ anchor.record.seq + 1 \in DOMAIN asked
  /\ anchor.record.lineCount \in 1 .. Len(asked[anchor.record.seq + 1])

OwnQuestion ==
  /\ command \in {"verify", "anchor"} /\ opt \in Options /\ target = Directory
  /\ keyArg = OwnIdentity /\ pubKey = OwnPublicKey
  /\ command = "anchor" => /\ opt = [allowUnsigned |-> FALSE, stopOnFirst |-> FALSE]
                           /\ AnchorAsked

-----------------------------------------------------------------------------
(* The directory as it was listed, and what was found in it.               *)

\* Each listed file is there, as it is by now, unless it was compressed away.
IsPath(p, n) ==
  /\ p = [log |-> p.log, dir |-> p.dir, lstat |-> p.lstat, open |-> p.open, file |-> p.file]
  /\ p.open <=> Names[n] \notin gone
  /\ p.file = [source |-> Names[n], lines |-> Shown(n), err |-> FALSE]

PathsInv ==
  /\ IsSeq(paths) /\ Len(paths) \in Len(asked) .. Count
  /\ \A n \in 1 .. Len(paths) : IsPath(paths[n], n)

\* c lines are all that file n had when the command was started, and all that a closed
\* file has.
Enough(n, c) ==
  /\ n <= Len(asked) => c >= Len(asked[n])
  /\ n < Len(paths) => c = Len(files[n])

\* Segment s is that of the first c lines of file n.
SegmentOf(s, n, c) ==
  /\ s.v = "2" /\ s.chain = ChainID /\ s.seq = n - 1 /\ s.prev = Predecessor(n - 1)
  /\ s.source = Names[n] /\ s.at = 1 /\ s.count = c /\ s.final = {files[n][c].mac}
  /\ n \in 1 .. Len(files) /\ c \in 1 .. Len(files[n])

\* What the pass over the files may say of a log that nobody has touched.
Excused(i) ==
  \/ i.reason = "cannot open" /\ i.source \in gone
  \/ /\ i.reason \in {"jump", "broken"}
     /\ \E n \in 2 .. Len(paths) : i.source = Names[n] /\ Names[n - 1] \in gone
  \/ /\ i.source = NewestListed
     /\ \/ i.reason = "no lines" /\ Len(paths) > Len(asked)
        \/ /\ i.reason \in {"nobrace", "nomac"}
           /\ Len(paths) = Len(asked) => i.at > Len(asked[Len(asked)])

\* Nothing can be said of the newest file, which was empty when it was read.
Empty(n) == n = Len(paths) /\ n > Len(asked)

\* The files before the next one have been read.
ResultInv ==
  /\ next \in 1 .. Len(paths) + 1 /\ IsResult(result)
  /\ IsFiniteSet(result.segments)
  /\ \A s, t \in result.segments : s.seq = t.seq => s = t
  /\ \A s \in result.segments :
       \E n \in 1 .. next - 1 : SegmentOf(s, n, s.count) /\ Enough(n, s.count)
  /\ \A n \in 1 .. next - 1 :
       Names[n] \in gone \/ Empty(n) \/ \E s \in result.segments : s.seq = n - 1
  /\ \A i \in result.issues : Excused(i)

-----------------------------------------------------------------------------
(* The replay of a file that grows.                                        *)

\* c lines of the next file have been read.
Opened(c) ==
  /\ segments = {} /\ truncated = FALSE
  /\ IF c = 0 THEN cur.at = 0
     ELSE /\ SegmentOf(cur, next, c)
          /\ key = DerivedKey(Identity, ChainID, next - 1)
          /\ prevMAC = files[next][c].mac
  /\ \A q \in calls : q.at \in 1 .. c

\* All of them whole, and there may be more to come.
InWhole(c) ==
  /\ file.lines = Shown(next) /\ c \in 0 .. Len(Whole(next))
  /\ pos = c + 1 /\ lineNum = c /\ issues = {}

\* The next one could be seen in part, and was taken for the last one.
PastTorn(c) ==
  /\ c \in Nat /\ Len(file.lines) = c + 1 /\ file.lines[c + 1].form \in TornForms
  /\ pos = c + 2 /\ lineNum = c + 1 /\ next = Len(paths) /\ Enough(next, c)
  /\ \A i \in issues : Excused(i)

\* The replay has returned.
Told ==
  /\ \A i \in issues : Excused(i)
  /\ \/ segments = {} /\ Empty(next)
     \/ \E s \in segments : segments = {s} /\ SegmentOf(s, next, s.count) /\ Enough(next, s.count)

GrowingFile ==
  /\ next <= Len(paths) /\ file.source = Names[next] /\ file.err = FALSE
  /\ file = [source |-> file.source, lines |-> file.lines, err |-> file.err]
  /\ phase \in {"scan", "done"}
  /\ phase = "scan" => \E c \in 0 .. lineNum : Opened(c) /\ (InWhole(c) \/ PastTorn(c))
  /\ phase = "done" => Told

\* The committed line was captured if it has been read, and no other one.
CaptureDone ==
  \/ next > anchor.record.seq + 1 /\ Names[anchor.record.seq + 1] \notin gone
  \/ /\ stage = "replay" /\ next = anchor.record.seq + 1
     /\ phase = "scan" => cur.count >= anchor.record.lineCount

CapturedInv ==
  IF command = "anchor"
  THEN /\ reached \subseteq {anchor.record.mac}
       /\ CaptureDone => reached # {}
  ELSE reached = {}

-----------------------------------------------------------------------------
\* The command under way.
AuditInv ==
  /\ AskedInv /\ OwnQuestion
  /\ stage \in {"list", "files", "replay", "returned", "error"}
  /\ stage = "list" => /\ paths = <<>> /\ next = 1 /\ result = NoResult /\ reached = {}
                       /\ gone = {} /\ keyFor \in {<<>>, OwnKeys} /\ exit = NoExit
                       /\ calls = {}
  /\ overlooked \subseteq gone
  /\ stage # "list" => /\ keyFor = OwnKeys /\ PathsInv /\ ResultInv /\ CapturedInv
                       /\ command = "anchor" => anchorOK
  /\ stage = "replay" => GrowingFile
  /\ stage = "returned" => next > Len(paths)
  /\ stage = "error" => \A n \in 1 .. Len(asked) : Names[n] \in gone
  /\ exit # NoExit => /\ stage \in {"returned", "error"}
                      /\ command = "anchor" => \/ Names[anchor.record.seq + 1] \in gone
                                               \/ verdict \in {"exact match", "prefix matches"}

\* Before it.
WaitInv ==
  /\ keyFor = <<>> /\ paths = <<>> /\ stage = "waiting" /\ next = 1 /\ result = NoResult
  /\ reached = {} /\ exit = NoExit /\ gone = {} /\ overlooked = {} /\ calls = {}
  /\ command = "verify" /\ target = Directory /\ keyArg = OwnIdentity /\ pubKey = OwnPublicKey

LiveInv ==
  /\ LogInv /\ entries = Listing
  /\ IF asked = <<>> THEN WaitInv ELSE AuditInv

-----------------------------------------------------------------------------
(* What is there of a log.                                                 *)

\* The numbers of the files.
LEMMA LogShape ==
  ASSUME LogInv
  PROVE  /\ seq \in Nat /\ seq \in Uint /\ seq <= MaxSeq /\ MaxSeq \in Nat
         /\ Len(files) \in Nat /\ Len(files) \in {seq, seq + 1} /\ IsSeq(files)
         /\ Count \in {seq, seq + 1} /\ Count \in Nat
         /\ Len(files) <= Count /\ Count <= MaxSeq + 1
<1>1. MaxSeq \in Nat /\ MaxSeq < W /\ W \in Nat
  <2>1. MaxSeq \in Uint
    BY ProducerAssumption, Zenon
  <2> QED
    BY <2>1, WAssumption DEF Uint
<1>2. seq \in 0 .. MaxSeq /\ Len(files) \in {seq, seq + 1} /\ (Started => created)
  BY DEF LogInv, ProducerInv, InStep
<1>3. IsSeq(files)
  BY FilesAreSeqs DEF LogInv
<1>4. Len(files) <= Count /\ Count \in {seq, seq + 1}
  BY <1>1, <1>2 DEF Count, Started
<1> QED
  BY <1>1, <1>2, <1>3, <1>4 DEF Uint

\* Nothing is a sequence of no elements.
LEMMA NothingIsSeq == IsSeq(<<>>) /\ Len(<<>>) = 0
<1>1. <<>> \in Seq({})
  OBVIOUS
<1> QED
  BY <1>1, SeqIsSeq

\* A file holds its whole lines, and perhaps a part of another one.
LEMMA ShownShape ==
  ASSUME LogInv, NEW n \in Nat \ {0}
  PROVE  /\ IsSeq(Whole(n)) /\ Len(Whole(n)) \in Nat /\ IsSeq(Shown(n))
         /\ n <= Len(files) => Whole(n) = files[n] /\ Len(files[n]) \in Nat \ {0}
         /\ n > Len(files) => Len(Whole(n)) = 0
         /\ \A i \in 1 .. Len(Whole(n)) : Shown(n)[i] = files[n][i]
         /\ \/ Len(Shown(n)) = Len(Whole(n))
            \/ /\ Len(Shown(n)) = Len(Whole(n)) + 1 /\ n = seq + 1 /\ torn # "whole"
               /\ Shown(n)[Len(Whole(n)) + 1] = TornLine
<1>1. /\ n <= Len(files) => Whole(n) = files[n]
      /\ ~(n <= Len(files)) => Whole(n) = <<>>
  BY DEF Whole
<1>2. Len(files) \in Nat
  BY LogShape
<1>3. /\ n <= Len(files) => Whole(n) = files[n] /\ IsSeq(files[n]) /\ Len(files[n]) \in Nat \ {0}
      /\ n > Len(files) => Whole(n) = <<>>
  BY <1>1, <1>2, FilesAreSeqs DEF LogInv
<1>4. IsSeq(Whole(n)) /\ Len(Whole(n)) \in Nat
  BY <1>2, <1>3, NothingIsSeq
<1>5. \A i \in 1 .. Len(Whole(n)) : Whole(n)[i] = files[n][i]
  BY <1>2, <1>3, NothingIsSeq
<1>6. CASE n = seq + 1 /\ torn # "whole"
  <2>1. Shown(n) = Append(Whole(n), TornLine)
    BY <1>6 DEF Shown
  <2>2. /\ IsSeq(Shown(n)) /\ Len(Shown(n)) = Len(Whole(n)) + 1
        /\ \A i \in 1 .. Len(Whole(n)) : Shown(n)[i] = Whole(n)[i]
        /\ Shown(n)[Len(Whole(n)) + 1] = TornLine
    BY <1>4, <2>1, AppendGrows
  <2> QED
    BY <1>2, <1>3, <1>4, <1>5, <1>6, <2>2, NothingIsSeq
<1>7. CASE ~(n = seq + 1 /\ torn # "whole")
  <2>1. Shown(n) = Whole(n)
    BY <1>7 DEF Shown
  <2> QED
    BY <1>2, <1>3, <1>4, <1>5, <2>1, NothingIsSeq
<1> QED
  BY <1>6, <1>7

\* A line that is being written shows a form that no whole line has.
LEMMA TornForm == ASSUME LogInv, torn # "whole" PROVE TornLine.form \in TornForms
  BY DEF LogInv, TornLine, TornForms

-----------------------------------------------------------------------------
(* The log goes on.                                                        *)

Writing == CreateFile \/ HalfWrite \/ Write \/ RotateFile \/ SignAnchor

\* What a step of the producer does to the log.
LEMMA WritingSteps ==
  ASSUME Writing
  PROVE  /\ [ProducerNext]_producerVars
         /\ UNCHANGED <<Auditor, gone, overlooked, asked>>
         /\ asked # <<>> => anchors' = anchors
<1>1. CASE CreateFile
  BY <1>1 DEF CreateFile, producerVars
<1>2. CASE HalfWrite
  BY <1>2 DEF HalfWrite, producerVars
<1>3. CASE Write
  <2>1. ProducerNext
    BY <1>3 DEF Write, ProducerNext
  <2>2. anchors' = anchors
    BY <1>3 DEF Write, StartFile, WriteLine
  <2> QED
    BY <1>3, <2>1, <2>2 DEF Write
<1>4. CASE RotateFile
  <2>1. ProducerNext
    BY <1>4 DEF RotateFile, ProducerNext
  <2>2. anchors' = anchors
    BY <1>4 DEF RotateFile, RotateStarted, Rotate
  <2> QED
    BY <1>4, <2>1, <2>2 DEF RotateFile, Auditor, allVars, vars, dirVars
<1>5. CASE SignAnchor
  <2>1. ProducerNext
    BY <1>5 DEF SignAnchor, ProducerNext
  <2> QED
    BY <1>5, <2>1 DEF SignAnchor, Auditor, allVars, vars, dirVars
<1> QED
  BY <1>1, <1>2, <1>3, <1>4, <1>5 DEF Writing

\* The log stays in order.
LEMMA WritingLog ==
  ASSUME LogInv, Writing
  PROVE  /\ LogInv' /\ Kept /\ seq \in Nat /\ seq' \in {seq, seq + 1} /\ Count' >= Count
<1>1. [ProducerNext]_producerVars /\ ProducerInv
  BY WritingSteps DEF LogInv
<1>2. ProducerInv' /\ Kept
  BY <1>1, ProducerStep, StepKeeps
<1>3. /\ Started => created
      /\ torn \in {"whole"} \cup TornForms
      /\ torn # "whole" => created
  BY DEF LogInv
<1>4. seq \in Nat /\ Len(files) \in Nat /\ Len(files) \in {seq, seq + 1}
  BY LogShape
<1>5. /\ Started' => created'
      /\ torn' \in {"whole"} \cup TornForms
      /\ torn' # "whole" => created'
      /\ seq' \in {seq, seq + 1} /\ Count' >= Count
  <2>1. CASE CreateFile
    <3>1. UNCHANGED <<seq, files, torn>> /\ created' = TRUE
      BY <2>1 DEF CreateFile, producerVars
    <3> QED
      BY <1>3, <1>4, <3>1 DEF Count
  <2>2. CASE HalfWrite
    <3>1. UNCHANGED <<seq, files, created>> /\ torn' \in {"nobrace", "nomac"} /\ created
      BY <2>2 DEF HalfWrite, producerVars
    <3> QED
      BY <1>3, <1>4, <3>1 DEF Count, TornForms
  <2>3. CASE Write
    <3>1. UNCHANGED <<seq, created>> /\ torn' = "whole" /\ created
      BY <2>3 DEF Write, StartFile, WriteLine
    <3> QED
      BY <1>3, <1>4, <3>1 DEF Count
  <2>4. CASE RotateFile
    <3>1. /\ torn = "whole" /\ torn' = torn /\ Started /\ seq' = seq + 1 /\ files' = files
          /\ created' = FALSE
      BY <2>4 DEF RotateFile, RotateStarted, Rotate
    <3>2. ~Started' /\ Count = seq + 1 /\ Count' = seq + 1
      BY <1>3, <1>4, <3>1 DEF Started, Count
    <3> QED
      BY <1>4, <3>1, <3>2
  <2>5. CASE SignAnchor
    <3>1. UNCHANGED <<seq, files, created, torn>>
      BY <2>5 DEF SignAnchor, AnchorStarted, Anchor
    <3> QED
      BY <1>3, <1>4, <3>1 DEF Count, Started
  <2> QED
    BY <2>1, <2>2, <2>3, <2>4, <2>5 DEF Writing
<1> QED
  BY <1>2, <1>4, <1>5 DEF LogInv

\* The directory shows what has been written, and so does a file that is being read
\* unless its end has been met.
LEMMA WritingShows ==
  ASSUME LogInv, Writing, entries = Listing
  PROVE  /\ entries' = Listing'
         /\ \/ DirectoryChanges
            \/ /\ UNCHANGED <<file, paths>>
               /\ \A n \in Nat : n <= Count => Shown(n)' = Shown(n)
<1>1. CASE CreateFile \/ HalfWrite \/ Write
  <2>1. DirectoryChanges
    BY <1>1 DEF CreateFile, HalfWrite, Write
  <2> QED
    BY <2>1, Zenon DEF DirectoryChanges
<1>2. CASE RotateFile \/ SignAnchor
  <2>1. seq \in Nat /\ Len(files) \in {seq, seq + 1} /\ Len(files) \in Nat
    BY LogShape
  <2>2. /\ torn = "whole" /\ torn' = "whole" /\ files' = files
        /\ UNCHANGED <<file, paths, entries>>
        /\ Count' = Count
    <3>1. CASE RotateFile
      <4>1. Started /\ seq' = seq + 1 /\ files' = files /\ created' = FALSE
        BY <3>1 DEF RotateFile, RotateStarted, Rotate
      <4>2. created
        BY <4>1 DEF LogInv
      <4> QED
        BY <2>1, <3>1, <4>1, <4>2 DEF RotateFile, Count, allVars, vars, dirVars
    <3>2. CASE SignAnchor
      BY <3>2 DEF SignAnchor, AnchorStarted, Anchor, Count, allVars, vars, dirVars
    <3> QED
      BY <1>2, <3>1, <3>2
  <2>3. ASSUME NEW n PROVE Shown(n)' = Shown(n)
    BY <2>2 DEF Shown, Whole
  <2>4. Listing' = Listing
    BY <2>2, <2>3, Zenon DEF Listing
  <2> QED
    BY <2>2, <2>3, <2>4
<1> QED
  BY <1>1, <1>2 DEF Writing

-----------------------------------------------------------------------------
(* What the auditor found is not overtaken.                                *)

\* Listed file p, which shows the lines x by now.
Grown(p, x) == [p EXCEPT !.file.lines = x]

\* A file that goes on is still what was listed.
LEMMA PathGrows ==
  ASSUME NEW p, NEW n, NEW q, NEW x, IsPath(p, n), q = Grown(p, x)
  PROVE  /\ q = [log |-> q.log, dir |-> q.dir, lstat |-> q.lstat, open |-> q.open, file |-> q.file]
         /\ q.open = p.open
         /\ q.file = [source |-> Names[n], lines |-> x, err |-> FALSE]
<1>1. /\ p = [log |-> p.log, dir |-> p.dir, lstat |-> p.lstat, open |-> p.open, file |-> p.file]
      /\ p.file = [source |-> Names[n], lines |-> Shown(n), err |-> FALSE]
  BY DEF IsPath
<1>2. PICK f : f = [p.file EXCEPT !.lines = x]
  OBVIOUS
<1>3. f = [source |-> Names[n], lines |-> x, err |-> FALSE]
  <2>1. PICK g : g = p.file
    OBVIOUS
  <2>2. f = [g EXCEPT !.lines = x] /\ g = [source |-> Names[n], lines |-> Shown(n), err |-> FALSE]
    BY <1>1, <1>2, <2>1, Zenon
  <2> QED
    BY <2>2
<1>4. q = [p EXCEPT !.file = f]
  BY <1>2 DEF Grown
<1>5. PICK a, b, d, e, g : p = [log |-> a, dir |-> b, lstat |-> d, open |-> e, file |-> g]
  BY <1>1, Zenon
<1>6. q = [log |-> a, dir |-> b, lstat |-> d, open |-> e, file |-> f]
  BY <1>4, <1>5
<1>7. q.open = p.open /\ q.file = f
  BY <1>5, <1>6
<1>8. q = [log |-> q.log, dir |-> q.dir, lstat |-> q.lstat, open |-> q.open, file |-> q.file]
  BY <1>6
<1> QED
  BY <1>3, <1>7, <1>8, Zenon

\* What was listed stays listed, and is seen as it is by now.
LEMMA WritingPaths ==
  ASSUME LogInv, Writing, entries = Listing, IsSeq(asked), PathsInv
  PROVE  PathsInv' /\ Len(paths') = Len(paths)
<1>1. /\ IsSeq(paths) /\ Len(paths) \in Len(asked) .. Count
      /\ \A n \in 1 .. Len(paths) : IsPath(paths[n], n)
  BY DEF PathsInv
<1>2. asked' = asked /\ gone' = gone /\ Count' >= Count /\ Count \in Nat /\ LogInv'
  BY WritingSteps, WritingLog, LogShape
<1>3. Count' \in Nat /\ Len(asked) \in Nat /\ Len(paths) \in Nat /\ DOMAIN paths = 1 .. Len(paths)
  <2>1. Count' \in Nat
    BY WritingLog DEF Count
  <2> QED
    BY <1>1, <2>1, SeqShape
<1>4. \/ DirectoryChanges
      \/ paths' = paths /\ \A n \in Nat : n <= Count => Shown(n)' = Shown(n)
  BY WritingShows
<1>5. IsSeq(paths') /\ Len(paths') = Len(paths)
  <2>1. CASE DirectoryChanges
    <3>1. paths' = [i \in DOMAIN paths |-> [paths[i] EXCEPT !.file.lines = Shown(i)']]
      BY <2>1 DEF DirectoryChanges
    <3>2. paths' = [i \in DOMAIN paths |-> paths'[i]]
      BY <3>1
    <3> QED
      BY <1>1, <3>2, SameDomain
  <2>2. CASE paths' = paths
    BY <1>1, <2>2
  <2> QED
    BY <1>4, <2>1, <2>2
<1>6. ASSUME NEW n \in 1 .. Len(paths)
      PROVE  IsPath(paths[n], n)'
  <2>1. IsPath(paths[n], n) /\ n \in Nat /\ n <= Count
    BY <1>1, <1>2, <1>3
  <2>2. CASE DirectoryChanges
    <3>1. paths'[n] = [paths[n] EXCEPT !.file.lines = Shown(n)']
      BY <1>3, <2>2 DEF DirectoryChanges
    <3>2. PICK p, q, x : p = paths[n] /\ q = paths'[n] /\ x = Shown(n)'
      OBVIOUS
    <3>3. IsPath(p, n) /\ q = Grown(p, x)
      BY <2>1, <3>1, <3>2, Zenon DEF Grown
    <3>4. /\ q = [log |-> q.log, dir |-> q.dir, lstat |-> q.lstat, open |-> q.open, file |-> q.file]
          /\ q.open = p.open
          /\ q.file = [source |-> Names[n], lines |-> x, err |-> FALSE]
      BY <3>3, PathGrows
    <3>5. q.open <=> Names[n] \notin gone'
      BY <1>2, <3>3, <3>4, Zenon DEF IsPath
    <3> QED
      BY <3>2, <3>4, <3>5, Zenon DEF IsPath
  <2>3. CASE paths' = paths /\ Shown(n)' = Shown(n)
    BY <1>2, <2>1, <2>3, Zenon DEF IsPath
  <2> QED
    BY <1>4, <2>1, <2>2, <2>3
<1>7. Len(paths') \in Len(asked') .. Count'
  BY <1>1, <1>2, <1>3, <1>5
<1> QED
  BY <1>5, <1>6, <1>7 DEF PathsInv

\* A segment that was read says what stands in its file.
LEMMA SegmentKept ==
  ASSUME LogInv, LogInv', Kept, NEW s, NEW n, NEW c, SegmentOf(s, n, c)
  PROVE  SegmentOf(s, n, c)'
<1>1. /\ s.v = "2" /\ s.chain = ChainID /\ s.seq = n - 1 /\ s.prev = Predecessor(n - 1)
      /\ s.source = Names[n] /\ s.at = 1 /\ s.count = c /\ s.final = {files[n][c].mac}
      /\ n \in 1 .. Len(files) /\ c \in 1 .. Len(files[n])
  BY DEF SegmentOf
<1>2. /\ seq \in Nat /\ Len(files) \in Nat /\ Len(files) \in {seq, seq + 1}
      /\ IsSeq(files[n]) /\ Len(files[n]) \in Nat
  BY <1>1, LogShape, FilesAreSeqs DEF LogInv
<1>3. n - 1 \in 0 .. Len(files) /\ n - 1 <= seq
  BY <1>1, <1>2
<1>4. Predecessor(n - 1)' = Predecessor(n - 1)
  BY <1>2, <1>3, PredecessorStays
<1>5. /\ Len(files') >= Len(files) /\ Len(files'[n]) >= Len(files[n])
      /\ IsSeq(files') /\ IsSeq(files'[n]) /\ files'[n][c] = files[n][c]
  <2>1. n \in 1 .. Len(files) /\ c \in 1 .. Len(files[n])
    BY <1>1
  <2>2. /\ IsSeq(files'[n]) /\ Len(files'[n]) >= Len(files[n]) /\ Len(files') >= Len(files)
        /\ \A i \in 1 .. Len(files[n]) : files'[n][i] = files[n][i]
    BY <2>1, Zenon DEF Kept
  <2>3. IsSeq(files')
    BY Zenon DEF LogInv, ProducerInv, FilesWritten
  <2> QED
    BY <2>1, <2>2, <2>3
<1>6. n \in 1 .. Len(files') /\ c \in 1 .. Len(files'[n])
  <2>1. Len(files') \in Nat /\ Len(files'[n]) \in Nat
    BY <1>5, SeqShape
  <2> QED
    BY <1>1, <1>2, <1>5, <2>1
<1>7. /\ s.prev = Predecessor(n - 1)' /\ s.final = {files'[n][c].mac}
  BY <1>1, <1>4, <1>5, Zenon
<1> QED
  BY <1>1, <1>6, <1>7, Zenon DEF SegmentOf

\* The command does not move: the log goes on, or a listed file goes away.
Meanwhile ==
  /\ LogInv' /\ Kept /\ Count' >= Count /\ entries' = Listing'
  /\ UNCHANGED <<Auditor, asked>>
  /\ gone \subseteq gone' /\ (paths = <<>> => gone' = gone /\ overlooked' = overlooked)
  /\ overlooked \subseteq gone => overlooked' \subseteq gone'
  /\ asked # <<>> => anchors' = anchors
  /\ PathsInv /\ IsSeq(asked) => PathsInv'
  /\ Len(paths') = Len(paths) /\ (paths = <<>> => paths' = <<>>)
  /\ \/ /\ file' = file
        /\ stage = "replay" /\ phase = "scan" /\ next <= Count /\ ~AtEnd
             => Shown(next)' = Shown(next)
     \/ /\ phase = "scan" /\ ~AtEnd
        /\ file' = [source |-> file.source, lines |-> Shown(next)', err |-> file.err]

\* The producer leaves the auditor alone.
LEMMA WritingMeanwhile ==
  ASSUME LiveInv, Writing, next \in Nat,
         stage = "replay" => \E s, l, e : file = [source |-> s, lines |-> l, err |-> e]
  PROVE  Meanwhile
<1>1. LogInv /\ entries = Listing
  BY DEF LiveInv
<1>2. LogInv' /\ Kept /\ Count' >= Count
  BY <1>1, WritingLog
<1>3. UNCHANGED <<Auditor, gone, overlooked, asked>> /\ (asked # <<>> => anchors' = anchors)
  BY WritingSteps
<1>4. PathsInv /\ IsSeq(asked) => PathsInv'
  BY <1>1, WritingPaths
<1>5. /\ entries' = Listing'
      /\ \/ DirectoryChanges
         \/ /\ UNCHANGED <<file, paths>>
            /\ \A n \in Nat : n <= Count => Shown(n)' = Shown(n)
  BY <1>1, WritingShows
<1>6. CASE DirectoryChanges
  <2>1. paths' = [i \in DOMAIN paths |-> paths'[i]]
    BY <1>6 DEF DirectoryChanges
  <2>2. IsSeq(paths)
    <3>1. CASE asked = <<>>
      BY <1>1, <3>1, NothingIsSeq DEF LiveInv, WaitInv
    <3>2. CASE asked # <<>>
      <4>1. AuditInv
        BY <3>2 DEF LiveInv
      <4>2. CASE stage = "list"
        BY <4>1, <4>2, NothingIsSeq DEF AuditInv
      <4>3. CASE stage # "list"
        BY <4>1, <4>3 DEF AuditInv, PathsInv
      <4> QED
        BY <4>2, <4>3
    <3> QED
      BY <3>1, <3>2
  <2>3. Len(paths') = Len(paths)
    BY <2>1, <2>2, SameDomain
  <2>4. paths = <<>> => paths' = <<>>
    <3> SUFFICES ASSUME paths = <<>> PROVE paths' = <<>>
      OBVIOUS
    <3>1. IsSeq(paths') /\ Len(paths') = 0
      BY <2>1, <2>2, <2>3, SameDomain, NothingIsSeq
    <3> QED
      BY <3>1
  <2>5. \/ file' = file /\ ~(stage = "replay" /\ phase = "scan" /\ ~AtEnd)
        \/ /\ stage = "replay" /\ phase = "scan" /\ ~AtEnd
           /\ file' = [file EXCEPT !.lines = Shown(next)']
    BY <1>6 DEF DirectoryChanges
  <2>6. \/ file' = file /\ ~(stage = "replay" /\ phase = "scan" /\ ~AtEnd)
        \/ /\ phase = "scan" /\ ~AtEnd
           /\ file' = [source |-> file.source, lines |-> Shown(next)', err |-> file.err]
    <3>1. CASE stage = "replay" /\ phase = "scan" /\ ~AtEnd
      <4>1. PICK x : x = Shown(next)'
        OBVIOUS
      <4>2. PICK f, g : f = file /\ g = file'
        OBVIOUS
      <4>3. g = [f EXCEPT !.lines = x]
        BY <2>5, <3>1, <4>1, <4>2
      <4>4. \E s, l, e : f = [source |-> s, lines |-> l, err |-> e]
        BY <3>1, <4>2
      <4>5. g = [source |-> f.source, lines |-> x, err |-> f.err]
        BY <4>3, <4>4
      <4> QED
        BY <3>1, <4>1, <4>2, <4>5
    <3>2. CASE ~(stage = "replay" /\ phase = "scan" /\ ~AtEnd)
      BY <2>5, <3>2
    <3> QED
      BY <3>1, <3>2
  <2> HIDE DEF DirectoryChanges
  <2> QED
    BY <1>2, <1>3, <1>4, <1>5, <2>3, <2>4, <2>6, Zenon DEF Meanwhile
<1>7. CASE UNCHANGED <<file, paths>> /\ \A n \in Nat : n <= Count => Shown(n)' = Shown(n)
  <2>1. next <= Count => Shown(next)' = Shown(next)
    <3>1. PICK n : n = next
      OBVIOUS
    <3>2. next' = n
      BY <1>3, <3>1 DEF Auditor
    <3>3. n <= Count => Shown(n)' = Shown(n)
      BY <1>7, <3>1
    <3>4. (Shown(next))' = (Shown(n))'
      BY <3>2 DEF Shown, Whole
    <3> QED
      BY <3>1, <3>3, <3>4
  <2> QED
    BY <1>2, <1>3, <1>4, <1>5, <1>7, <2>1, Zenon DEF Meanwhile
<1> QED
  BY <1>5, <1>6, <1>7

\* A file that is compressed is one of those that wait.
LEMMA CompressMeanwhile ==
  ASSUME LiveInv, Compress
  PROVE  Meanwhile
<1>1. LogInv /\ entries = Listing /\ paths # <<>>
  <2>1. PICK i \in DOMAIN paths : TRUE
    BY DEF Compress
  <2>2. CASE paths = <<>>
    <3>1. DOMAIN paths = {}
      BY <2>2, NothingIsSeq, SeqShape
    <3> QED
      BY <2>1, <3>1
  <2> QED
    BY <2>2 DEF LiveInv
<1>2. asked # <<>> /\ AuditInv /\ stage # "list"
  <2>1. asked # <<>>
    BY <1>1 DEF LiveInv, WaitInv
  <2>2. AuditInv
    BY <2>1 DEF LiveInv
  <2> QED
    BY <1>1, <2>1, <2>2 DEF AuditInv
<1>3. PathsInv /\ IsSeq(paths) /\ Len(paths) \in Len(asked) .. Count
      /\ \A n \in 1 .. Len(paths) : IsPath(paths[n], n)
  BY <1>2 DEF AuditInv, PathsInv
<1>4. Len(paths) \in Nat /\ DOMAIN paths = 1 .. Len(paths) /\ Len(asked) \in Nat
  BY <1>2, <1>3, SeqShape DEF AuditInv, AskedInv
<1>5. /\ Count \in Nat /\ Count <= MaxSeq + 1 /\ MaxSeq \in Nat /\ seq \in Nat
      /\ Len(files) \in Nat
  BY <1>1, LogShape
<1>6. UNCHANGED <<file, seq, files, torn, created, entries, anchors, asked>>
      /\ UNCHANGED producerVars /\ UNCHANGED Auditor
  BY DEF Compress, producerVars, Auditor, vars
<1>7. /\ Count' = Count
      /\ \A n : Shown(n)' = Shown(n)
  <2>1. Count' = Count
    BY <1>6 DEF Count
  <2>2. TornLine' = TornLine
    BY <1>6, Zenon DEF TornLine
  <2>3. ASSUME NEW n PROVE Shown(n)' = Shown(n)
    BY <1>6, <2>2 DEF Shown, Whole
  <2> QED
    BY <2>1, <2>3
<1>8. Listing' = Listing
  BY <1>7, Zenon DEF Listing
<1>9. LogInv'
  <2>1. ProducerInv'
    BY <1>1, <1>6, ProducerStep DEF LogInv
  <2> QED
    BY <1>1, <1>6, <2>1 DEF LogInv, Started
<1>10. Kept
  BY <1>1, <1>6, StepKeeps DEF LogInv
<1>11. PICK i \in 1 .. Len(paths) : /\ paths' = [paths EXCEPT ![i].open = FALSE]
                                    /\ gone' = gone \cup {paths[i].file.source}
                                    /\ \/ overlooked' = overlooked
                                       \/ overlooked' = overlooked \cup {paths[i].file.source}
  BY <1>4 DEF Compress
<1>12. IsSeq(paths') /\ Len(paths') = Len(paths)
  <2>1. paths' = [n \in DOMAIN paths |-> paths'[n]]
    <3>1. PICK p : p = paths
      OBVIOUS
    <3>2. PICK q : q = paths'
      OBVIOUS
    <3>3. p = [n \in 1 .. Len(paths) |-> p[n]]
      BY <1>3, <3>1, SeqShape
    <3>4. q = [p EXCEPT ![i].open = FALSE]
      BY <1>11, <3>1, <3>2
    <3>5. q = [n \in DOMAIN p |-> q[n]]
      BY <3>3, <3>4
    <3> QED
      BY <3>1, <3>2, <3>5
  <2> QED
    BY <1>3, <2>1, SameDomain
<1>13. paths[i].file.source = Names[i]
  <2>1. paths[i].file = [source |-> Names[i], lines |-> Shown(i), err |-> FALSE]
    BY <1>3 DEF IsPath
  <2> QED
    BY <2>1
<1>14. ASSUME NEW n \in 1 .. Len(paths)
       PROVE  IsPath(paths[n], n)'
  <2>1. IsPath(paths[n], n)
    BY <1>3
  <2>2. CASE n # i
    <3>1. paths'[n] = paths[n]
      BY <1>4, <1>11, <2>2
    <3>2. Names[n] # Names[i]
      <4>1. n \in 1 .. MaxSeq + 1 /\ i \in 1 .. MaxSeq + 1
        BY <1>3, <1>4, <1>5
      <4> QED
        BY <2>2, <4>1, LiveAssumption, Zenon
    <3>3. Names[n] \notin gone' <=> Names[n] \notin gone
      BY <1>11, <1>13, <3>2
    <3> QED
      BY <1>7, <2>1, <3>1, <3>3, Zenon DEF IsPath
  <2>3. CASE n = i
    <3>1. PICK p : p = paths[n]
      OBVIOUS
    <3>2. PICK q : q = paths'[n]
      OBVIOUS
    <3>3. q = [p EXCEPT !.open = FALSE]
      BY <1>4, <1>11, <2>3, <3>1, <3>2
    <3>4. /\ p = [log |-> p.log, dir |-> p.dir, lstat |-> p.lstat, open |-> p.open, file |-> p.file]
          /\ p.file = [source |-> Names[n], lines |-> Shown(n), err |-> FALSE]
      BY <2>1, <3>1, Zenon DEF IsPath
    <3>5. PICK a, b, d, e, g : p = [log |-> a, dir |-> b, lstat |-> d, open |-> e, file |-> g]
      BY <3>4, Zenon
    <3>6. q = [log |-> a, dir |-> b, lstat |-> d, open |-> FALSE, file |-> g] /\ p.file = g
      BY <3>3, <3>5
    <3>7. /\ q = [log |-> q.log, dir |-> q.dir, lstat |-> q.lstat, open |-> q.open, file |-> q.file]
          /\ q.open = FALSE /\ q.file = p.file
      BY <3>6
    <3>8. Names[n] \in gone'
      BY <1>11, <1>13, <2>3
    <3>9. q.file = [source |-> Names[n], lines |-> Shown(n)', err |-> FALSE]
      BY <1>7, <3>4, <3>7, Zenon
    <3> QED
      BY <3>2, <3>7, <3>8, <3>9, Zenon DEF IsPath
  <2> QED
    BY <2>2, <2>3
<1>15. PathsInv'
  <2>1. Len(paths') \in Len(asked') .. Count'
    BY <1>3, <1>6, <1>7, <1>12
  <2> QED
    BY <1>12, <1>14, <2>1 DEF PathsInv
<1>16. entries' = Listing' /\ gone \subseteq gone' /\ (asked # <<>> => anchors' = anchors)
       /\ (overlooked \subseteq gone => overlooked' \subseteq gone')
  BY <1>1, <1>6, <1>8, <1>11
<1>17. UNCHANGED <<Auditor, asked>>
  BY <1>6
<1>18. Shown(next)' = Shown(next) /\ Count' >= Count
  <2>1. next' = next
    BY <1>6 DEF Auditor
  <2>2. TornLine' = TornLine
    BY <1>6, Zenon DEF TornLine
  <2>3. (Shown(next))' = Shown(next)
    BY <1>6, <2>1, <2>2 DEF Shown, Whole
  <2> QED
    BY <1>5, <1>7, <2>3
<1> QED
  BY <1>1, <1>6, <1>9, <1>10, <1>12, <1>15, <1>16, <1>17, <1>18, Zenon DEF Meanwhile

-----------------------------------------------------------------------------
(* Nothing of it changes what is known.                                    *)

\* What is enough of a file stays enough.
LEMMA EnoughKept ==
  ASSUME LogInv, LogInv', Kept, Meanwhile, PathsInv,
         NEW n \in 1 .. Len(files), NEW c, Enough(n, c)
  PROVE  Enough(n, c)'
<1>1. asked' = asked /\ Len(paths') = Len(paths)
  BY DEF Meanwhile
<1>2. Len(paths) \in Nat /\ Len(paths) <= Count
  BY LogShape, SeqShape DEF PathsInv
<1>3. n < Len(paths) => files'[n] = files[n]
  <2>1. n < Len(paths) => n <= seq
    BY <1>2, LogShape
  <2> QED
    BY <2>1, Zenon DEF Kept
<1> QED
  BY <1>1, <1>3 DEF Enough

\* What was excused stays excused.
LEMMA ExcusedKept ==
  ASSUME Meanwhile, NEW i, Excused(i)
  PROVE  Excused(i)'
<1>1. asked' = asked /\ Len(paths') = Len(paths) /\ gone \subseteq gone'
  BY DEF Meanwhile
<1>2. NewestListed' = NewestListed
  BY <1>1 DEF NewestListed
<1>3. CASE i.reason = "cannot open" /\ i.source \in gone
  BY <1>1, <1>3 DEF Excused
<1>4. CASE /\ i.reason \in {"jump", "broken"}
           /\ \E n \in 2 .. Len(paths) : i.source = Names[n] /\ Names[n - 1] \in gone
  BY <1>1, <1>4 DEF Excused
<1>5. CASE /\ i.source = NewestListed
           /\ \/ i.reason = "no lines" /\ Len(paths) > Len(asked)
              \/ /\ i.reason \in {"nobrace", "nomac"}
                 /\ Len(paths) = Len(asked) => i.at > Len(asked[Len(asked)])
  BY <1>1, <1>2, <1>5 DEF Excused
<1> QED
  BY <1>3, <1>4, <1>5 DEF Excused

\* What has been found is still so.
LEMMA ResultKept ==
  ASSUME LogInv, Meanwhile, PathsInv, ResultInv
  PROVE  ResultInv'
<1>1. /\ asked' = asked /\ Len(paths') = Len(paths) /\ gone \subseteq gone'
      /\ next' = next /\ result' = result /\ LogInv' /\ Kept
  BY DEF Meanwhile, Auditor
<1>2. ASSUME NEW s \in result.segments
      PROVE  \E n \in 1 .. next - 1 : (SegmentOf(s, n, s.count) /\ Enough(n, s.count))'
  <2>1. PICK n \in 1 .. next - 1 : SegmentOf(s, n, s.count) /\ Enough(n, s.count)
    BY DEF ResultInv
  <2>2. n \in 1 .. Len(files)
    BY <2>1 DEF SegmentOf
  <2>3. SegmentOf(s, n, s.count)'
    BY <1>1, <2>1, SegmentKept
  <2>4. Enough(n, s.count)'
    BY <1>1, <2>1, <2>2, EnoughKept
  <2> QED
    BY <2>1, <2>3, <2>4
<1>3. ASSUME NEW n \in 1 .. next - 1
      PROVE  Names[n] \in gone' \/ Empty(n)' \/ \E s \in result.segments : s.seq = n - 1
  BY <1>1 DEF ResultInv, Empty
<1>4. \A i \in result.issues : Excused(i)'
  BY ExcusedKept DEF ResultInv
<1>5. /\ next \in 1 .. Len(paths) + 1 /\ IsFiniteSet(result.segments) /\ IsResult(result)
      /\ \A s, t \in result.segments : s.seq = t.seq => s = t
  BY DEF ResultInv
<1> QED
  BY <1>1, <1>2, <1>3, <1>4, <1>5 DEF ResultInv

\* A line that stands whole in a file has no torn form.
LEMMA WholeForm ==
  ASSUME LogInv, NEW n \in Nat \ {0}, NEW c \in 1 .. Len(Whole(n))
  PROVE  /\ n \in 1 .. Len(files) /\ c \in 1 .. Len(files[n]) /\ Shown(n)[c] = files[n][c]
         /\ Follows(files[n], n - 1, c) /\ Written(files[n], n - 1, Predecessor(n - 1))
<1>1. /\ n <= Len(files) => Whole(n) = files[n] /\ Len(files[n]) \in Nat \ {0}
      /\ n > Len(files) => Len(Whole(n)) = 0
      /\ Len(Whole(n)) \in Nat
      /\ \A i \in 1 .. Len(Whole(n)) : Shown(n)[i] = files[n][i]
  BY ShownShape
<1>2. Len(files) \in Nat
  BY LogShape
<1>3. n \in 1 .. Len(files) /\ c \in 1 .. Len(files[n]) /\ Shown(n)[c] = files[n][c]
  BY <1>1, <1>2
<1>4. n - 1 \in 0 .. Len(files) - 1
  BY <1>2, <1>3
<1>5. Written(files[n - 1 + 1], n - 1, Predecessor(n - 1))
  BY <1>4, Zenon DEF LogInv, ProducerInv, FilesWritten
<1>6. n - 1 + 1 = n
  OBVIOUS
<1>7. Written(files[n], n - 1, Predecessor(n - 1))
  BY <1>5, <1>6
<1>8. Follows(files[n], n - 1, c)
  BY <1>3, <1>7 DEF Written
<1> QED
  BY <1>3, <1>7, <1>8

\* Files grow.
LEMMA WholeGrows ==
  ASSUME LogInv, LogInv', Kept, NEW n \in Nat \ {0}
  PROVE  Len(Whole(n)') \in Nat /\ Len(Whole(n)') >= Len(Whole(n))
<1>1. Len(files) \in Nat /\ IsSeq(files')
  BY LogShape, Zenon DEF LogInv, ProducerInv, FilesWritten
<1>2. Len(files') \in Nat
  BY <1>1, SeqShape
<1>3. CASE n <= Len(files)
  <2>1. n \in 1 .. Len(files)
    BY <1>1, <1>3
  <2>2. /\ Len(files') >= Len(files) /\ IsSeq(files[n]) /\ IsSeq(files'[n])
        /\ Len(files'[n]) >= Len(files[n])
    BY <2>1, Zenon DEF Kept
  <2>3. Whole(n) = files[n] /\ Whole(n)' = files'[n]
    BY <1>1, <1>2, <1>3, <2>2 DEF Whole
  <2> QED
    BY <2>2, <2>3, SeqShape
<1>4. CASE n > Len(files)
  <2>1. Len(Whole(n)) = 0
    BY <1>4, ShownShape
  <2>2. Len(Whole(n)') \in Nat
    <3>1. CASE n <= Len(files')
      <4>1. n - 1 \in 0 .. Len(files') - 1
        BY <1>2, <3>1
      <4>2. IsSeq(files'[n - 1 + 1])
        BY <4>1, Zenon DEF LogInv, ProducerInv, FilesWritten, Written
      <4>3. n - 1 + 1 = n
        OBVIOUS
      <4>4. IsSeq(files'[n]) /\ Whole(n)' = files'[n]
        BY <3>1, <4>2, <4>3 DEF Whole
      <4> QED
        BY <4>4, SeqShape
    <3>2. CASE ~(n <= Len(files'))
      BY <3>2, NothingIsSeq DEF Whole
    <3> QED
      BY <3>1, <3>2
  <2> QED
    BY <2>1, <2>2
<1> QED
  BY <1>1, <1>3, <1>4

\* The end of the input was met at a torn line only.
LEMMA AtEndIsTorn ==
  ASSUME LogInv, next \in Nat \ {0}, NEW c, InWhole(c)
  PROVE  ~AtEnd
<1>1. file.lines = Shown(next) /\ c \in 0 .. Len(Whole(next)) /\ pos = c + 1
  BY DEF InWhole
<1>2. /\ IsSeq(Shown(next)) /\ Len(Whole(next)) \in Nat
      /\ \/ Len(Shown(next)) = Len(Whole(next))
         \/ Len(Shown(next)) = Len(Whole(next)) + 1
  BY ShownShape
<1> SUFFICES ASSUME AtEnd PROVE FALSE
  OBVIOUS
<1>3. pos > Len(file.lines) /\ file.lines # <<>>
      /\ file.lines[Len(file.lines)].form \in {"nobrace", "nomac"}
  BY DEF AtEnd
<1>4. Len(Shown(next)) = Len(Whole(next)) /\ c = Len(Whole(next))
  BY <1>1, <1>2, <1>3
<1>5. CASE c = 0
  BY <1>1, <1>2, <1>3, <1>4, <1>5
<1>6. CASE c # 0
  <2>1. c \in 1 .. Len(Whole(next))
    BY <1>1, <1>2, <1>6
  <2>2. Shown(next)[c] = files[next][c] /\ Follows(files[next], next - 1, c)
    BY <2>1, WholeForm
  <2>3. files[next][c].form = "signed"
    BY <2>2, Zenon DEF Follows
  <2>4. file.lines[Len(file.lines)] = files[next][c]
    BY <1>1, <1>4, <2>2
  <2> QED
    BY <1>3, <2>3, <2>4
<1> QED
  BY <1>5, <1>6

\* What was read of a file that grows still stands in it.
LEMMA GrowingKept ==
  ASSUME LogInv, Meanwhile, PathsInv, next \in Nat \ {0}, stage = "replay", GrowingFile
  PROVE  GrowingFile'
<1>1. /\ LogInv' /\ Kept /\ Len(paths') = Len(paths)
      /\ UNCHANGED <<next, phase, pos, lineNum, prevMAC, key, cur, segments, issues, calls,
                     truncated, asked>>
  BY DEF Meanwhile, Auditor
<1>2. Len(paths) \in Nat /\ Len(paths) <= Count
  BY LogShape, SeqShape DEF PathsInv
<1>3. /\ next <= Len(paths) /\ file.source = Names[next] /\ file.err = FALSE
      /\ file = [source |-> file.source, lines |-> file.lines, err |-> file.err]
      /\ phase \in {"scan", "done"}
  BY DEF GrowingFile
<1>4. \/ file' = file
      \/ phase = "scan" /\ ~AtEnd
  BY DEF Meanwhile

<1>5. PICK fl : fl = file'
  OBVIOUS
<1>6. /\ file'.source = file.source /\ file'.err = FALSE
      /\ file' = [source |-> file'.source, lines |-> file'.lines, err |-> file'.err]
  <2>1. CASE file' = file
    BY <1>3, <2>1
  <2>2. CASE file' = [source |-> file.source, lines |-> Shown(next)', err |-> file.err]
    <3>1. PICK x, y : x = Shown(next)' /\ y = file.source
      OBVIOUS
    <3>2. fl = [source |-> y, lines |-> x, err |-> FALSE]
      BY <1>3, <1>5, <2>2, <3>1
    <3>3. fl = [source |-> fl.source, lines |-> fl.lines, err |-> fl.err] /\ fl.source = y
          /\ fl.err = FALSE
      BY <3>2
    <3> QED
      BY <1>5, <3>1, <3>3
  <2> QED
    BY <2>1, <2>2 DEF Meanwhile
<1>7. ASSUME NEW c \in 0 .. lineNum, phase = "scan", Opened(c), InWhole(c) \/ PastTorn(c)
      PROVE  Opened(c)' /\ (InWhole(c)' \/ PastTorn(c)')
  <2>1. Opened(c)'
    <3>1. segments = {} /\ truncated = FALSE /\ \A q \in calls : q.at \in 1 .. c
      BY <1>7 DEF Opened
    <3>2. CASE c = 0
      <4>1. cur.at = 0
        BY <1>7, <3>2 DEF Opened
      <4> QED
        BY <1>1, <3>1, <3>2, <4>1 DEF Opened
    <3>3. CASE c # 0
      <4>1. /\ SegmentOf(cur, next, c)
            /\ key = DerivedKey(Identity, ChainID, next - 1)
            /\ prevMAC = files[next][c].mac
        BY <1>7, <3>3 DEF Opened
      <4>2. next \in 1 .. Len(files) /\ c \in 1 .. Len(files[next])
        BY <4>1 DEF SegmentOf
      <4>3. files'[next][c] = files[next][c]
        BY <1>1, <4>2, Zenon DEF Kept
      <4>4. PICK s, n : s = cur /\ n = next
        OBVIOUS
      <4>5. SegmentOf(s, n, c)'
        BY <1>1, <4>1, <4>4, SegmentKept
      <4>6. SegmentOf(cur, next, c)'
        BY <1>1, <4>4, <4>5, Zenon DEF SegmentOf
      <4>7. /\ key' = DerivedKey(Identity, ChainID, next' - 1)
            /\ prevMAC' = files'[next'][c].mac
        BY <1>1, <4>1, <4>3
      <4> QED
        BY <1>1, <3>1, <3>3, <4>6, <4>7 DEF Opened
    <3> QED
      BY <3>2, <3>3
  <2>2. CASE InWhole(c)
    <3>1. file.lines = Shown(next) /\ c \in 0 .. Len(Whole(next))
          /\ pos = c + 1 /\ lineNum = c /\ issues = {}
      BY <2>2 DEF InWhole
    <3>2. ~AtEnd
      BY <2>2, AtEndIsTorn
    <3>3. file'.lines = Shown(next)'
      <4>1. next <= Count
        BY <1>2, <1>3, LogShape
      <4>2. \/ file' = file /\ Shown(next)' = Shown(next)
            \/ file' = [source |-> file.source, lines |-> Shown(next)', err |-> file.err]
        BY <1>7, <3>2, <4>1, Zenon DEF Meanwhile
      <4>3. CASE file' = file /\ Shown(next)' = Shown(next)
        BY <3>1, <4>3
      <4>4. CASE file' = [source |-> file.source, lines |-> Shown(next)', err |-> file.err]
        <5>1. PICK x, y, z : x = Shown(next)' /\ y = file.source /\ z = file.err
          OBVIOUS
        <5>2. fl = [source |-> y, lines |-> x, err |-> z]
          BY <1>5, <4>4, <5>1
        <5>3. fl.lines = x
          BY <5>2
        <5> QED
          BY <1>5, <5>1, <5>3
      <4> QED
        BY <4>2, <4>3, <4>4
    <3>4. c \in 0 .. Len(Whole(next)')
      <4>1. PICK n \in Nat \ {0} : n = next
        OBVIOUS
      <4>2. Len(Whole(n)') \in Nat /\ Len(Whole(n)') >= Len(Whole(n))
        BY <1>1, WholeGrows
      <4>3. Len(Whole(n)) \in Nat
        BY ShownShape
      <4>4. (Whole(next))' = (Whole(n))' /\ c \in 0 .. Len(Whole(n))
        BY <1>1, <3>1, <4>1 DEF Whole
      <4> QED
        BY <4>2, <4>3, <4>4
    <3>5. InWhole(c)'
      BY <1>1, <3>1, <3>3, <3>4, Zenon DEF InWhole
    <3> QED
      BY <2>1, <3>5
  <2>3. CASE PastTorn(c)
    <3>1. /\ c \in Nat /\ Len(file.lines) = c + 1 /\ file.lines[c + 1].form \in TornForms
          /\ pos = c + 2 /\ lineNum = c + 1 /\ next = Len(paths) /\ Enough(next, c)
          /\ \A i \in issues : Excused(i)
      BY <2>3 DEF PastTorn
    <3>2. AtEnd
      <4>1. file.lines # <<>>
        BY <3>1, NothingIsSeq
      <4> QED
        BY <3>1, <4>1 DEF AtEnd, TornForms
    <3>3. file' = file
      BY <1>4, <3>2
    <3>4. \A i \in issues' : Excused(i)'
      BY <1>1, <3>1, ExcusedKept
    <3>5. Enough(next, c)'
      BY <1>1, <1>2, <3>1 DEF Enough
    <3>6. PastTorn(c)'
      BY <1>1, <3>1, <3>3, <3>4, <3>5, Zenon DEF PastTorn
    <3> QED
      BY <2>1, <3>6
  <2> QED
    BY <1>7, <2>1, <2>2, <2>3
<1>8. phase' = "scan" => \E c \in 0 .. lineNum' : Opened(c)' /\ (InWhole(c)' \/ PastTorn(c)')
  <2> SUFFICES ASSUME phase = "scan"
               PROVE  \E c \in 0 .. lineNum : Opened(c)' /\ (InWhole(c)' \/ PastTorn(c)')
    BY <1>1
  <2>1. PICK c \in 0 .. lineNum : Opened(c) /\ (InWhole(c) \/ PastTorn(c))
    BY DEF GrowingFile
  <2> QED
    BY <1>7, <2>1
<1>9. phase' = "done" => Told'
  <2> SUFFICES ASSUME phase = "done" PROVE Told'
    BY <1>1
  <2>1. Told
    BY DEF GrowingFile
  <2>2. \A i \in issues' : Excused(i)'
    BY <1>1, <2>1, ExcusedKept DEF Told
  <2>3. CASE segments = {} /\ Empty(next)
    <3>1. Empty(next)'
      BY <1>1, <2>3 DEF Empty
    <3> QED
      BY <1>1, <2>2, <2>3, <3>1 DEF Told
  <2>4. CASE \E s \in segments : segments = {s} /\ SegmentOf(s, next, s.count)
                                 /\ Enough(next, s.count)
    <3>1. PICK s \in segments : segments = {s} /\ SegmentOf(s, next, s.count)
                                /\ Enough(next, s.count)
      BY <2>4
    <3>2. PICK n : n = next
      OBVIOUS
    <3>3. n \in 1 .. Len(files)
      BY <3>1, <3>2 DEF SegmentOf
    <3>4. SegmentOf(s, n, s.count)'
      BY <1>1, <3>1, <3>2, SegmentKept
    <3>5. Enough(n, s.count)'
      BY <1>1, <3>1, <3>2, <3>3, EnoughKept
    <3>6. SegmentOf(s, next, s.count)' /\ Enough(next, s.count)'
      BY <1>1, <3>2, <3>4, <3>5, Zenon DEF SegmentOf, Enough
    <3> QED
      BY <1>1, <2>2, <3>1, <3>6 DEF Told
  <2> QED
    BY <2>1, <2>3, <2>4 DEF Told
<1> QED
  BY <1>1, <1>3, <1>6, <1>8, <1>9 DEF GrowingFile

\* The committed line stays as it was.
LEMMA CapturedKept ==
  ASSUME Meanwhile, CapturedInv
  PROVE  CapturedInv'
<1>1. /\ UNCHANGED <<command, anchor, reached, next, stage, phase, cur>>
      /\ gone \subseteq gone'
  BY DEF Meanwhile, Auditor, commandVars
<1>2. CaptureDone' => CaptureDone
  BY <1>1 DEF CaptureDone
<1> QED
  BY <1>1, <1>2 DEF CapturedInv

\* What was there before is still there.
LEMMA AskedKept ==
  ASSUME LogInv, Meanwhile, AskedInv, OwnQuestion
  PROVE  AskedInv' /\ OwnQuestion'
<1>1. /\ UNCHANGED <<command, anchor, asked, opt, target, keyArg, pubKey>>
      /\ LogInv' /\ Kept /\ (asked # <<>> => anchors' = anchors)
  BY DEF Meanwhile, Auditor, commandVars
<1>2. /\ IsSeq(asked) /\ Len(asked) \in 1 .. Len(files)
      /\ \A n \in 1 .. Len(asked) : Len(asked[n]) \in 1 .. Len(files[n])
  BY DEF AskedInv
<1>3. IsSeq(files') /\ Len(files') >= Len(files) /\ Len(files) \in Nat
  <2>1. IsSeq(files')
    BY <1>1, Zenon DEF LogInv, ProducerInv, FilesWritten
  <2>2. Len(files') >= Len(files)
    BY <1>1, Zenon DEF Kept
  <2> QED
    BY <2>1, <2>2, LogShape
<1>4. Len(asked) \in 1 .. Len(files')
  BY <1>2, <1>3, SeqShape
<1>5. ASSUME NEW n \in 1 .. Len(asked)
      PROVE  Len(asked[n]) \in 1 .. Len(files'[n])
  <2>1. n \in 1 .. Len(files)
    BY <1>2, <1>3
  <2>2. IsSeq(files[n]) /\ IsSeq(files'[n]) /\ Len(files'[n]) >= Len(files[n])
    BY <1>1, <2>1, Zenon DEF Kept
  <2>3. Len(asked[n]) \in 1 .. Len(files[n])
    BY <1>2
  <2> QED
    BY <2>2, <2>3, SeqShape
<1>6. asked # <<>>
  BY <1>2, NothingIsSeq
<1>7. AnchorAsked => AnchorAsked'
  BY <1>1, <1>6 DEF AnchorAsked
<1> QED
  BY <1>1, <1>2, <1>4, <1>5, <1>7 DEF AskedInv, OwnQuestion

\* Nothing that happens meanwhile proves the auditor wrong.
LEMMA MeanwhileKeeps ==
  ASSUME LiveInv, Meanwhile
  PROVE  LiveInv'
<1>1. /\ LogInv /\ LogInv' /\ entries' = Listing'
      /\ asked' = asked /\ gone \subseteq gone' /\ Len(paths') = Len(paths)
      /\ UNCHANGED <<keyFor, stage, next, result, reached, exit, verdict, calls, command, target,
                     keyArg, pubKey, anchorOK, anchor, phase>>
  BY DEF Meanwhile, Auditor, commandVars, LiveInv
<1>2. CASE asked = <<>>
  <2>1. WaitInv
    BY <1>2 DEF LiveInv
  <2>2. paths' = <<>> /\ gone' = gone /\ overlooked' = overlooked
    BY <2>1 DEF Meanwhile, WaitInv
  <2>3. WaitInv'
    BY <1>1, <2>1, <2>2 DEF WaitInv
  <2> QED
    BY <1>1, <1>2, <2>3 DEF LiveInv
<1>3. CASE asked # <<>>
  <2>1. AuditInv
    BY <1>3 DEF LiveInv
  <2>2. AskedInv' /\ OwnQuestion' /\ IsSeq(asked)
    BY <1>1, <2>1, AskedKept DEF AuditInv, AskedInv
  <2>3. stage \in {"list", "files", "replay", "returned", "error"} /\ overlooked' \subseteq gone'
    BY <2>1 DEF AuditInv, Meanwhile
  <2>4. stage = "list" => /\ paths' = <<>> /\ next = 1 /\ result = NoResult /\ reached = {}
                          /\ gone' = {} /\ keyFor \in {<<>>, OwnKeys} /\ exit = NoExit
                          /\ calls = {}
    BY <2>1 DEF AuditInv, Meanwhile
  <2>5. stage # "list" => /\ keyFor = OwnKeys /\ PathsInv' /\ ResultInv' /\ CapturedInv'
                          /\ command = "anchor" => anchorOK
    <3> SUFFICES ASSUME stage # "list"
                 PROVE  /\ keyFor = OwnKeys /\ PathsInv' /\ ResultInv' /\ CapturedInv'
                        /\ command = "anchor" => anchorOK
      OBVIOUS
    <3>1. /\ keyFor = OwnKeys /\ PathsInv /\ ResultInv /\ CapturedInv
          /\ command = "anchor" => anchorOK
      BY <2>1 DEF AuditInv
    <3>2. PathsInv'
      BY <2>2, <3>1 DEF Meanwhile
    <3>3. ResultInv' /\ CapturedInv'
      BY <1>1, <3>1, ResultKept, CapturedKept
    <3> QED
      BY <3>1, <3>2, <3>3
  <2>6. stage = "replay" => GrowingFile'
    <3> SUFFICES ASSUME stage = "replay" PROVE GrowingFile'
      OBVIOUS
    <3>1. GrowingFile /\ PathsInv /\ next \in Nat \ {0}
      BY <2>1 DEF AuditInv, ResultInv
    <3> QED
      BY <1>1, <3>1, GrowingKept
  <2>7. stage = "returned" => next > Len(paths)
    BY <2>1 DEF AuditInv
  <2>10. stage = "error" => \A n \in 1 .. Len(asked) : Names[n] \in gone'
    BY <1>1, <2>1 DEF AuditInv
  <2>8. exit # NoExit => /\ stage \in {"returned", "error"}
                         /\ command = "anchor" =>
                              \/ Names[anchor.record.seq + 1] \in gone'
                              \/ verdict \in {"exact match", "prefix matches"}
    BY <1>1, <2>1 DEF AuditInv
  <2>9. AuditInv'
    BY <1>1, <2>2, <2>3, <2>4, <2>5, <2>6, <2>7, <2>8, <2>10 DEF AuditInv, OwnKeys
  <2> QED
    BY <1>1, <1>3, <2>9 DEF LiveInv
<1> QED
  BY <1>2, <1>3

\* The log goes on.
LEMMA WritingKeeps == ASSUME LiveInv, Writing PROVE LiveInv'
<1>1. next \in Nat
  <2>1. CASE asked = <<>>
    BY <2>1 DEF LiveInv, WaitInv
  <2>2. CASE asked # <<>>
    <3>1. AuditInv
      BY <2>2 DEF LiveInv
    <3>2. stage = "list" => next = 1
      BY <3>1 DEF AuditInv
    <3>3. stage # "list" => next \in Nat
      <4>1. stage # "list" => ResultInv
        BY <3>1 DEF AuditInv
      <4> QED
        BY <4>1 DEF ResultInv
    <3> QED
      BY <3>2, <3>3
  <2> QED
    BY <2>1, <2>2
<1>2. stage = "replay" => \E s, l, e : file = [source |-> s, lines |-> l, err |-> e]
  <2> SUFFICES ASSUME stage = "replay"
               PROVE  \E s, l, e : file = [source |-> s, lines |-> l, err |-> e]
    OBVIOUS
  <2>1. asked # <<>>
    BY DEF LiveInv, WaitInv
  <2>2. file = [source |-> file.source, lines |-> file.lines, err |-> file.err]
    BY <2>1 DEF LiveInv, AuditInv, GrowingFile
  <2> QED
    BY <2>2, Zenon
<1> QED
  BY <1>1, <1>2, WritingMeanwhile, MeanwhileKeeps

\* A file is compressed.
LEMMA CompressKeeps == ASSUME LiveInv, Compress PROVE LiveInv'
  BY CompressMeanwhile, MeanwhileKeeps

-----------------------------------------------------------------------------
(* The command is started.                                                 *)

\* An anchor commits to lines that are there when it is signed.
LEMMA AnchorIssued ==
  ASSUME LogInv, NEW k \in DOMAIN anchors
  PROVE  /\ IsAnchor(anchors[k]) /\ anchors[k].record.seq \in Nat
         /\ Commits(anchors[k].record) /\ anchors[k].record.lineCount \in Nat \ {0}
<1>1. /\ IsSeq(anchors)
      /\ \A j \in 1 .. Len(anchors) : /\ IsAnchor(anchors[j]) /\ anchors[j].record.seq \in Nat
                                      /\ Commits(anchors[j].record)
  BY Zenon DEF LogInv, ProducerInv, AnchorsIssued
<1>2. k \in 1 .. Len(anchors)
  BY <1>1, SeqShape
<1>3. IsAnchor(anchors[k]) /\ anchors[k].record.seq \in Nat /\ Commits(anchors[k].record)
  BY <1>1, <1>2
<1>4. anchors[k].record.lineCount \in Nat \ {0}
  <2>1. /\ anchors[k].record.seq + 1 \in 1 .. Len(files)
        /\ anchors[k].record.lineCount \in 1 .. Len(files[anchors[k].record.seq + 1])
    BY <1>3 DEF Commits
  <2>2. Len(files[anchors[k].record.seq + 1]) \in Nat
    BY <2>1, FilesAreSeqs DEF LogInv
  <2> QED
    BY <2>1, <2>2
<1> QED
  BY <1>3, <1>4

\* The question that is asked is one of the auditor's own.
LEMMA AskKeeps == ASSUME LiveInv, Ask PROVE LiveInv'
<1>1. /\ asked = <<>> /\ files # <<>> /\ asked' = files /\ stage' = "list"
      /\ \E q \in Questions :
           /\ command' = q.command /\ opt' = q.opt
           /\ IF q.command = "anchor" THEN anchor' \in ToSet(anchors)
              ELSE anchors = <<>> /\ UNCHANGED anchor
      /\ UNCHANGED <<keyFor, calls, entries, paths, next, result, target, keyArg, pubKey,
                     reached, exit, producerVars, created, torn, gone, overlooked>>
  BY DEF Ask
<1>2. UNCHANGED <<seq, files, anchors>>
  BY <1>1 DEF producerVars
<1>3. LogInv /\ entries = Listing /\ WaitInv
  BY <1>1 DEF LiveInv
<1>4. LogInv'
  <2>1. ProducerInv'
    BY <1>1, <1>3, ProducerStep DEF LogInv
  <2> QED
    BY <1>1, <1>2, <1>3, <2>1 DEF LogInv, Started
<1>5. entries' = Listing'
  <2>1. TornLine' = TornLine
    BY <1>1, Zenon DEF TornLine
  <2>2. Count' = Count
    BY <1>1, <1>2 DEF Count
  <2>3. ASSUME NEW n PROVE Shown(n)' = Shown(n)
    BY <1>1, <1>2, <2>1 DEF Shown, Whole
  <2>4. Listing' = Listing
    BY <2>2, <2>3, Zenon DEF Listing
  <2> QED
    BY <1>1, <1>3, <2>4
<1>6. /\ IsSeq(files) /\ Len(files) \in Nat
      /\ \A n \in 1 .. Len(files) : IsSeq(files[n]) /\ Len(files[n]) \in Nat \ {0}
  BY <1>3, FilesAreSeqs DEF LogInv
<1>7. Len(files) # 0
  BY <1>1, <1>6
<1>8. AskedInv' /\ asked' # <<>>
  BY <1>1, <1>2, <1>6, <1>7 DEF AskedInv
<1>9. OwnQuestion'
  <2>1. PICK q \in Questions :
           /\ command' = q.command /\ opt' = q.opt
           /\ IF q.command = "anchor" THEN anchor' \in ToSet(anchors)
              ELSE anchors = <<>> /\ UNCHANGED anchor
    BY <1>1
  <2>2. /\ q.command \in {"verify", "anchor"} /\ q.opt \in Options
        /\ q.command = "anchor" => q.opt = [allowUnsigned |-> FALSE, stopOnFirst |-> FALSE]
    BY LiveAssumption, Zenon
  <2>3. command' = "anchor" => AnchorAsked'
    <3> SUFFICES ASSUME command' = "anchor" PROVE AnchorAsked'
      OBVIOUS
    <3>1. PICK k \in DOMAIN anchors : anchor' = anchors[k]
      BY <2>1 DEF ToSet
    <3>2. Commits(anchors[k].record)
      BY <1>3, AnchorIssued
    <3>3. DOMAIN files = 1 .. Len(files)
      BY <1>6, SeqShape
    <3> QED
      BY <1>1, <1>2, <3>1, <3>2, <3>3 DEF Commits, AnchorAsked
  <2>4. target' = Directory /\ keyArg' = OwnIdentity /\ pubKey' = OwnPublicKey
    BY <1>1, <1>3, Zenon DEF WaitInv
  <2> QED
    BY <2>1, <2>2, <2>3, <2>4, Zenon DEF OwnQuestion, OwnIdentity, OwnPublicKey
<1>10. /\ paths' = <<>> /\ next' = 1 /\ result' = NoResult /\ reached' = {}
       /\ gone' = {} /\ overlooked' = {} /\ keyFor' = <<>> /\ exit' = NoExit /\ calls' = {}
  BY <1>1, <1>3 DEF WaitInv
<1>11. AuditInv'
  BY <1>1, <1>8, <1>9, <1>10 DEF AuditInv
<1> QED
  BY <1>4, <1>5, <1>8, <1>11 DEF LiveInv

-----------------------------------------------------------------------------
(* The auditor's key and the anchor are in order.                          *)

\* The keys of the log have an identity behind them.
LEMMA OwnKeyOf ==
  ASSUME NEW n \in Uint
  PROVE  /\ <<ChainID, n>> \in DOMAIN OwnKeys
         /\ OwnKeys[<<ChainID, n>>] = DerivedKey(Identity, ChainID, n)
         /\ DerivedKey(Identity, ChainID, n) # {}
<1>1. ChainID \in ChainIDs
  BY LiveAssumption, Zenon
<1>2. ChainID # ""
  BY ProducerAssumption, Zenon
<1>3. DerivedKey(Identity, ChainID, n) = {<<Identity, ChainID, n>>}
  BY <1>2, Zenon DEF DerivedKey
<1> DEFINE d(c) == DerivedKey(Identity, c[1], c[2])
<1>4. OwnKeys = [c \in ChainIDs \X Uint |-> d(c)]
  BY DEF OwnKeys, ChainKeys
<1>5. <<ChainID, n>> \in ChainIDs \X Uint /\ d(<<ChainID, n>>) = DerivedKey(Identity, ChainID, n)
  BY <1>1
<1> HIDE DEF d
<1> QED
  BY <1>3, <1>4, <1>5

\* The identity opens them, and no other.
LEMMA OwnKeySource ==
  ASSUME keyArg = OwnIdentity, pubKey = OwnPublicKey
  PROVE  KeySource(keyArg, ChainIDs) = {OwnKeys} /\ LoadPublicKey(pubKey) = {Identity}
<1> DEFINE f == [parses |-> TRUE, sized |-> TRUE, private |-> Identity, public |-> Identity]
           p == [blank |-> FALSE, dir |-> TRUE, itself |-> {}, inside |-> {f}]
           t == [base64 |-> TRUE, sized |-> TRUE, key |-> Identity]
<1>1. OpenIdentity(p) = {Identity}
  <2>1. /\ f.parses /\ f.sized /\ f.public = f.private /\ f.private = Identity
        /\ p.dir /\ ~p.blank /\ p.inside = {f}
    OBVIOUS
  <2>2. ASSUME NEW P, NEW F, F.parses, F.sized, F.public = F.private, F.private = Identity,
               P.dir, ~P.blank, P.inside = {F}
        PROVE  OpenIdentity(P) = {Identity}
    <3>1. {g \in (IF P.dir THEN P.inside ELSE P.itself) :
             /\ ~P.blank /\ g.parses /\ g.sized
             /\ g.public = g.private} = {F}
      BY <2>2
    <3> QED
      BY <2>2, <3>1 DEF OpenIdentity
  <2> HIDE DEF f, p
  <2> QED
    BY <2>1, <2>2
<1>2. keyArg.identity = {p} /\ keyArg.keyFile = {}
  BY DEF OwnIdentity
<1>3. KeySource(keyArg, ChainIDs) = {OwnKeys}
  <2> HIDE DEF f, p
  <2>1. PICK a : a = keyArg
    OBVIOUS
  <2>2. a.identity = {p} /\ a.keyFile = {}
    BY <1>2, <2>1
  <2>3. UNION {OpenIdentity(q) : q \in a.identity} = {Identity}
    BY <1>1, <2>2
  <2>4. {n \in UNION a.keyFile : n.spells # "blank"} = {}
    BY <2>2
  <2>5. KeySource(a, ChainIDs) =
          {ChainKeys(id, ChainIDs) : id \in UNION {OpenIdentity(q) : q \in a.identity}}
          \cup {StaticKey(InterpretKeyMaterial(m), ChainIDs) :
                  m \in {n \in UNION a.keyFile : n.spells # "blank"}}
    BY <2>2 DEF KeySource
  <2>6. KeySource(a, ChainIDs) = {ChainKeys(Identity, ChainIDs)}
    BY <2>3, <2>4, <2>5
  <2> QED
    BY <2>1, <2>6 DEF OwnKeys
<1>4. LoadPublicKey(pubKey) = {Identity}
  <2>1. t.base64 /\ t.sized /\ t.key = Identity
    OBVIOUS
  <2>2. pubKey = {t}
    BY DEF OwnPublicKey
  <2> HIDE DEF t
  <2> QED
    BY <2>1, <2>2 DEF LoadPublicKey
<1> QED
  BY <1>3, <1>4

\* An anchor of the producer's is in order.
LEMMA OwnAnchor ==
  ASSUME LogInv, AnchorAsked, pubKey = OwnPublicKey, keyArg = OwnIdentity
  PROVE  /\ anchor # NoAnchor /\ IsAnchor(anchor) /\ Verify(Identity, anchor)
         /\ anchor.record.seq \in Nat /\ anchor.record.lineCount \in Nat \ {0}
         /\ anchor.record.chain = ChainID /\ Commits(anchor.record)
<1>1. PICK k \in DOMAIN anchors : anchor = anchors[k]
  BY DEF AnchorAsked
<1>2. /\ IsAnchor(anchor) /\ anchor.record.seq \in Nat
      /\ Commits(anchor.record) /\ anchor.record.lineCount \in Nat \ {0}
  BY <1>1, AnchorIssued
<1>3. Verify(Identity, anchor)
  BY <1>2, IssuedVerifies
<1>4. anchor.record.chain = ChainID
  <2>1. anchor.record = [keyFp |-> Fingerprint(Identity), chain |-> ChainID,
             seq |-> anchor.record.seq, lineCount |-> anchor.record.lineCount,
             mac |-> anchor.record.mac, final |-> anchor.record.final,
             anchorSeq |-> anchor.record.anchorSeq, prevAnchor |-> anchor.record.prevAnchor]
    BY <1>2 DEF IsAnchor
  <2> QED
    BY <2>1
<1>5. anchor # NoAnchor
  <2>1. NoAnchor.record.lineCount = 0
    BY DEF NoAnchor
  <2> QED
    BY <1>2, <2>1
<1> QED
  BY <1>2, <1>3, <1>4, <1>5

-----------------------------------------------------------------------------
(* The auditor's steps.                                                    *)

\* The log and the question stay what they are.
Still == UNCHANGED <<seq, files, torn, created, gone, overlooked, asked, anchors, entries,
                     command, opt, target, keyArg, pubKey, anchor>>

\* No step of the auditor touches them.
LEMMA AuditingStill ==
  ASSUME LiveInv, Auditing
  PROVE  /\ Still /\ LogInv /\ LogInv' /\ AuditInv /\ asked # <<>> /\ entries = Listing
         /\ AskedInv' /\ OwnQuestion'
<1>1. /\ asked # <<>> /\ (PassOver \/ NothingFound \/ CommandStep)
      /\ UNCHANGED <<producerVars, created, torn, gone, overlooked, asked>>
  BY DEF Auditing
<1>2. UNCHANGED <<seq, files, anchors>>
  BY <1>1 DEF producerVars
<1>3. LogInv /\ AuditInv /\ entries = Listing
  BY <1>1 DEF LiveInv
<1>4. UNCHANGED <<entries, command, opt, target, keyArg, pubKey, anchor>>
  <2>1. \A code, v : Finish(code, v) =>
          UNCHANGED <<entries, command, opt, target, keyArg, pubKey, anchor>>
    BY DEF Finish, allVars, vars, dirVars
  <2>2. CASE BadArguments
    BY <2>1, <2>2, Zenon DEF BadArguments
  <2>3. CASE CheckAnchor
    <3>1. \/ \E code, v : Finish(code, v)
          \/ UNCHANGED <<allVars, command, target, keyArg, pubKey, anchor>>
      BY <2>3, Zenon DEF CheckAnchor
    <3> QED
      BY <2>1, <3>1 DEF allVars, vars, dirVars
  <2>4. CASE NoKey
    BY <2>1, <2>4, Zenon DEF NoKey
  <2>5. CASE GetKey
    BY <2>5 DEF GetKey, dirVars, commandVars
  <2>6. CASE OpenTarget
    BY <1>3, <2>6 DEF OpenTarget, AuditInv, OwnQuestion
  <2>7. CASE FileReturns
    BY <1>3, <2>7 DEF FileReturns, AuditInv, OwnQuestion
  <2>8. CASE Verifying
    <3>1. UNCHANGED <<command, target, keyArg, pubKey, anchor>>
      BY <2>8 DEF Verifying
    <3>2. UNCHANGED <<entries, opt>>
      <4>1. CASE ListDir
        BY <4>1 DEF ListDir, vars
      <4>2. CASE OpenFails
        BY <4>2 DEF OpenFails, vars
      <4>3. CASE OpenFile
        BY <4>3 DEF OpenFile, Begin
      <4>4. CASE LinkUp
        BY <4>4 DEF LinkUp, vars
      <4>5. CASE ReplayFile
        <5>1. entries' = entries
          BY <4>5 DEF ReplayFile, dirVars
        <5>2. opt' = opt
          BY <4>5 DEF ReplayFile, ReplayStep, SkipBlank, SkipUnsigned, RejectLine, Orphan,
                      KeylessLine, CheckLine, StartSegment, EndOfInput, Read, input
        <5> QED
          BY <5>1, <5>2
      <4>6. CASE Accumulate
        BY <4>6 DEF Accumulate, vars
      <4> QED
        BY <2>8, <4>1, <4>2, <4>3, <4>4, <4>5, <4>6 DEF Verifying
    <3> QED
      BY <3>1, <3>2
  <2>9. CASE NothingThere
    BY <2>1, <2>9, Zenon DEF NothingThere
  <2>10. CASE ReportVerify
    BY <2>1, <2>10, Zenon DEF ReportVerify
  <2>11. CASE ReportAnchor
    BY <2>1, <2>11, Zenon DEF ReportAnchor
  <2>12. CASE PassOver \/ NothingFound
    BY <2>12 DEF PassOver, NothingFound, vars, commandVars
  <2> QED
    BY <1>1, <2>2, <2>3, <2>4, <2>5, <2>6, <2>7, <2>8, <2>9, <2>10, <2>11, <2>12 DEF CommandStep
<1>5. Still
  BY <1>1, <1>2, <1>4 DEF Still
<1>6. LogInv'
  <2>1. ProducerInv'
    BY <1>1, <1>3, ProducerStep DEF LogInv
  <2> QED
    BY <1>1, <1>2, <1>3, <2>1 DEF LogInv, Started
<1>7. AskedInv' /\ OwnQuestion'
  <2>1. AskedInv /\ OwnQuestion
    BY <1>3 DEF AuditInv
  <2>2. AskedInv'
    BY <1>5, <2>1 DEF Still, AskedInv
  <2>3. AnchorAsked => AnchorAsked'
    BY <1>5 DEF Still, AnchorAsked
  <2>4. OwnIdentity' = OwnIdentity /\ OwnPublicKey' = OwnPublicKey
    BY DEF OwnIdentity, OwnPublicKey
  <2> QED
    BY <1>5, <2>1, <2>2, <2>3, <2>4, Zenon DEF Still, OwnQuestion
<1> QED
  BY <1>1, <1>3, <1>5, <1>6, <1>7

\* And so what can be seen stays, too.
LEMMA StillSame ==
  ASSUME Still
  PROVE  /\ \A n : Shown(n)' = Shown(n) /\ Whole(n)' = Whole(n)
         /\ Count' = Count /\ Listing' = Listing
         /\ \A s, n, c : SegmentOf(s, n, c)' <=> SegmentOf(s, n, c)
         /\ paths' = paths =>
              /\ \A n, c : Enough(n, c)' <=> Enough(n, c)
              /\ \A i : Excused(i)' <=> Excused(i)
              /\ \A n : Empty(n)' <=> Empty(n)
              /\ PathsInv => PathsInv'
<1>1. UNCHANGED <<seq, files, torn, created, gone, asked>>
  BY DEF Still
<1>2. Count' = Count
  BY <1>1 DEF Count
<1>3. TornLine' = TornLine
  BY <1>1, Zenon DEF TornLine
<1>4. ASSUME NEW n PROVE Shown(n)' = Shown(n) /\ Whole(n)' = Whole(n)
  BY <1>1, <1>3 DEF Shown, Whole
<1>5. Listing' = Listing
  <2>1. ASSUME NEW n PROVE Shown(n)' = Shown(n)
    BY <1>4
  <2> QED
    BY <1>2, <2>1, Zenon DEF Listing
<1>6. ASSUME NEW s, NEW n, NEW c PROVE SegmentOf(s, n, c)' <=> SegmentOf(s, n, c)
  BY <1>1, Zenon DEF SegmentOf, Predecessor, Closing
<1>7. ASSUME paths' = paths
      PROVE  /\ \A n, c : Enough(n, c)' <=> Enough(n, c)
             /\ \A i : Excused(i)' <=> Excused(i)
             /\ \A n : Empty(n)' <=> Empty(n)
             /\ PathsInv => PathsInv'
  <2>1. \A n, c : Enough(n, c)' <=> Enough(n, c)
    BY <1>1, <1>7, Zenon DEF Enough
  <2>2. \A i : Excused(i)' <=> Excused(i)
    BY <1>1, <1>7, Zenon DEF Excused, NewestListed
  <2>3. \A n : Empty(n)' <=> Empty(n)
    BY <1>1, <1>7, Zenon DEF Empty
  <2>4. PathsInv => PathsInv'
    BY <1>1, <1>2, <1>4, <1>7, Zenon DEF PathsInv, IsPath
  <2> QED
    BY <2>1, <2>2, <2>3, <2>4
<1> QED
  BY <1>2, <1>4, <1>5, <1>6, <1>7

-----------------------------------------------------------------------------
(* The files are listed.                                                   *)

\* What a directory entry for a log file says.
LEMMA LogEntrySays ==
  ASSUME NEW source, NEW lines
  PROVE  LET e == LogEntry(source, lines)
         IN /\ IsLogFile(e) /\ e.open = TRUE
            /\ e = [log |-> e.log, dir |-> e.dir, lstat |-> e.lstat, open |-> e.open,
                    file |-> e.file]
            /\ e.file = [source |-> source, lines |-> lines, err |-> FALSE]
  BY DEF LogEntry, IsLogFile

\* The entries are the files in their order, and the symlink.
LEMMA ListingShows ==
  ASSUME entries = Listing, Count \in Nat, Count # 0
  PROVE  /\ DOMAIN entries = 1 .. Count + 1
         /\ \A n \in 1 .. Count : entries[n] = LogEntry(Names[n], Shown(n))
         /\ ~IsLogFile(entries[Count + 1])
<1>1. PICK k \in Nat : k = Count /\ k # 0
  OBVIOUS
<1> DEFINE own  == [n \in 1 .. k |-> LogEntry(Names[n], Shown(n))]
           link == [LogEntry("live", Shown(k)) EXCEPT !.lstat = "symlink"]
           S    == {own[n] : n \in 1 .. k} \cup {link}
<1>2. entries = own \o <<link>>
  BY <1>1, Zenon DEF Listing
<1>3. ~IsLogFile(link)
  BY DEF LogEntry, IsLogFile
<1>4. own \in Seq({own[i] : i \in DOMAIN own}) /\ Len(own) = k /\ DOMAIN own = 1 .. k
  BY FunctionIsSeq
<1>5. \A n \in 1 .. k : own[n] = LogEntry(Names[n], Shown(n))
  OBVIOUS
<1> HIDE DEF own, link
<1>6. own \in Seq(S) /\ <<link>> \in Seq(S)
  BY <1>4
<1> HIDE DEF S
<1>7. /\ entries \in Seq(S) /\ Len(entries) = k + 1
      /\ \A n \in 1 .. k : entries[n] = own[n]
      /\ entries[k + 1] = link
  BY <1>2, <1>4, <1>6
<1>8. DOMAIN entries = 1 .. k + 1
  BY <1>7
<1> QED
  BY <1>1, <1>3, <1>5, <1>7, <1>8

\* They are found, every one of them and in this order.
LEMMA LogsAreTheFiles ==
  ASSUME entries = Listing, Count \in Nat, Count # 0
  PROVE  /\ Logs = 1 .. Count /\ Cardinality(Logs) = Count
         /\ \A k \in 1 .. Count : Nth(k) = k
<1>1. PICK c \in Nat : c = Count /\ c # 0
  OBVIOUS
<1>2. /\ DOMAIN entries = 1 .. c + 1
      /\ \A n \in 1 .. c : IsLogFile(entries[n])
      /\ ~IsLogFile(entries[c + 1])
  <2>1. /\ DOMAIN entries = 1 .. c + 1
        /\ \A n \in 1 .. c : entries[n] = LogEntry(Names[n], Shown(n))
        /\ ~IsLogFile(entries[c + 1])
    BY <1>1, ListingShows
  <2>2. \A source, lines : IsLogFile(LogEntry(source, lines))
    BY LogEntrySays
  <2> HIDE DEF IsLogFile
  <2>3. \A n \in 1 .. c : IsLogFile(entries[n])
    BY <2>1, <2>2, Zenon
  <2> QED
    BY <2>1, <2>3
<1>3. Logs = 1 .. c
  BY <1>2 DEF Logs
<1>4. ASSUME NEW n \in Nat PROVE Cardinality(1 .. n) = n
  BY FS_Interval
<1>5. ASSUME NEW k \in 1 .. c PROVE Nth(k) = k
  <2>1. ASSUME NEW i \in Logs PROVE Cardinality({j \in Logs : j <= i}) = i
    <3>1. {j \in Logs : j <= i} = 1 .. i /\ i \in Nat
      BY <1>3, <2>1
    <3> QED
      BY <1>4, <3>1
  <2>2. \A i \in Logs : Cardinality({j \in Logs : j <= i}) = k <=> i = k
    BY <2>1
  <2>3. k \in Logs
    BY <1>3
  <2> QED
    BY <2>2, <2>3 DEF Nth
<1> QED
  BY <1>1, <1>3, <1>4, <1>5


\* The command goes over to the files, with nothing captured.
LEMMA ListingKeeps ==
  ASSUME LiveInv, Auditing, Verifying, ListDir
  PROVE  LiveInv'
<1>1. /\ Still /\ LogInv /\ LogInv' /\ AuditInv /\ asked # <<>> /\ entries = Listing
      /\ AskedInv' /\ OwnQuestion'
  BY AuditingStill
<1>2. /\ stage = "list" /\ paths' = [k \in 1 .. Cardinality(Logs) |-> entries[Nth(k)]]
      /\ stage' = (IF Logs = {} THEN "error" ELSE "files")
      /\ UNCHANGED <<keyFor, calls, next, result>>
  BY DEF ListDir, vars
<1>3. /\ next = 1 /\ result = NoResult /\ reached = {} /\ gone = {} /\ exit = NoExit
  BY <1>1, <1>2 DEF AuditInv
<1>4. /\ Ready /\ Capture /\ UNCHANGED <<anchorOK, exit>>
  BY DEF Verifying
<1>5. keyFor = OwnKeys /\ (command = "anchor" => anchorOK)
  <2>1. keyFor \in {<<>>, OwnKeys}
    BY <1>1, <1>2 DEF AuditInv
  <2>2. keyFor # <<>>
    <3>1. DOMAIN <<>> = {}
      BY NothingIsSeq, SeqShape
    <3>2. DOMAIN keyFor # {}
      BY <1>4 DEF Ready, HaveKey
    <3> QED
      BY <3>1, <3>2
  <2> QED
    BY <1>4, <2>1, <2>2 DEF Ready, AnchorChecked
<1>6. Count \in Nat /\ Count # 0 /\ Len(asked) \in 1 .. Count
  <2>1. Len(asked) \in 1 .. Len(files)
    BY <1>1 DEF AuditInv, AskedInv
  <2> QED
    BY <1>1, <2>1, LogShape
<1>7. /\ stage' = "files" /\ IsSeq(paths') /\ Len(paths') = Count
      /\ \A n \in 1 .. Count : paths'[n] = LogEntry(Names[n], Shown(n))
  <2>1. PICK c \in Nat : c = Count /\ c # 0
    BY <1>6
  <2>2. /\ Logs = 1 .. c /\ Cardinality(Logs) = c /\ \A k \in 1 .. c : Nth(k) = k
        /\ \A n \in 1 .. c : entries[n] = LogEntry(Names[n], Shown(n))
    BY <1>1, <2>1, LogsAreTheFiles, ListingShows
  <2>3. stage' = "files" /\ paths' = [k \in 1 .. c |-> entries[k]]
    BY <1>2, <2>1, <2>2
  <2>4. paths' = [k \in 1 .. c |-> paths'[k]]
    BY <2>3
  <2>5. IsSeq(paths') /\ Len(paths') = c
    BY <2>4, FunctionIsSeq DEF IsSeq
  <2> QED
    BY <2>1, <2>2, <2>3, <2>5
<1>8. PathsInv'
  <2>1. ASSUME NEW n \in 1 .. Count PROVE IsPath(paths[n], n)'
    <3>1. PICK p : p = paths'[n]
      OBVIOUS
    <3>2. p = LogEntry(Names[n], Shown(n))
      BY <1>7, <3>1
    <3>3. /\ p.open = TRUE
          /\ p = [log |-> p.log, dir |-> p.dir, lstat |-> p.lstat, open |-> p.open,
                  file |-> p.file]
          /\ p.file = [source |-> Names[n], lines |-> Shown(n), err |-> FALSE]
      BY <3>2, LogEntrySays
    <3>4. Names[n] \notin gone' /\ Shown(n)' = Shown(n)
      BY <1>1, <1>3, StillSame DEF Still
    <3> QED
      BY <3>1, <3>3, <3>4, Zenon DEF IsPath
  <2>2. Len(paths') \in Len(asked') .. Count' /\ Len(paths') = Count
    BY <1>1, <1>6, <1>7, StillSame DEF Still
  <2> QED
    BY <1>7, <2>1, <2>2 DEF PathsInv
<1>9. ResultInv'
  <2>1. next' = 1 /\ result' = NoResult /\ Len(paths') \in Nat
    BY <1>2, <1>3, <1>6, <1>7
  <2>2. result'.segments = {} /\ result'.issues = {} /\ IsResult(result')
    BY <2>1 DEF NoResult, IsResult
  <2>3. IsFiniteSet(result'.segments)
    BY <2>2, FS_EmptySet
  <2>4. next' \in 1 .. Len(paths') + 1 /\ 1 .. next' - 1 = {}
    BY <2>1
  <2> QED
    BY <2>2, <2>3, <2>4 DEF ResultInv
<1>10. CapturedInv' /\ reached' = {}
  <2>1. reached' = {}
    BY <1>2, <1>3, <1>4, NoCallNoCapture
  <2>2. command' = "anchor" => ~CaptureDone'
    <3> SUFFICES ASSUME command' = "anchor" PROVE ~CaptureDone'
      OBVIOUS
    <3>1. AnchorAsked' /\ pubKey' = OwnPublicKey /\ keyArg' = OwnIdentity
      BY <1>1, Zenon DEF OwnQuestion
    <3>2. AnchorAsked /\ pubKey = OwnPublicKey /\ keyArg = OwnIdentity
      BY <1>1, Zenon DEF Still, AuditInv, OwnQuestion
    <3>3. anchor'.record.seq \in Nat
      BY <1>1, <3>2, OwnAnchor DEF Still
    <3>4. next' = 1 /\ stage' = "files"
      BY <1>2, <1>3, <1>7
    <3> QED
      BY <3>3, <3>4 DEF CaptureDone
  <2> QED
    BY <2>1, <2>2 DEF CapturedInv
<1>11. AuditInv'
  BY <1>1, <1>2, <1>3, <1>4, <1>5, <1>7, <1>8, <1>9, <1>10 DEF AuditInv, Still, OwnKeys
<1>12. entries' = Listing' /\ asked' # <<>>
  BY <1>1, StillSame DEF Still
<1> QED
  BY <1>1, <1>11, <1>12 DEF LiveInv

-----------------------------------------------------------------------------
(* Before the pass and after it.                                           *)

\* It is enough to look at the auditor.
LEMMA AuditIsEnough ==
  ASSUME LiveInv, Auditing, AuditInv'
  PROVE  LiveInv'
<1>1. Still /\ LogInv' /\ asked # <<>> /\ entries = Listing
  BY AuditingStill
<1>2. entries' = Listing' /\ asked' # <<>>
  BY <1>1, StillSame DEF Still
<1> QED
  BY <1>1, <1>2 DEF LiveInv

\* What was found and captured does not depend on what the command asks for next.
LEMMA PassStays ==
  ASSUME Still, UNCHANGED <<allVars, reached>>
  PROVE  /\ PathsInv => PathsInv'
         /\ ResultInv => ResultInv'
         /\ CapturedInv => CapturedInv'
         /\ GrowingFile => GrowingFile'
<1>1. /\ UNCHANGED <<vars, paths, stage, next, result, reached>>
      /\ UNCHANGED <<command, anchor, gone, files, asked>>
  BY DEF allVars, dirVars, Still
<1>2. UNCHANGED <<file, phase, pos, lineNum, prevMAC, key, cur, segments, issues, calls, truncated>>
  BY <1>1 DEF vars
<1>3. /\ \A n : Shown(n)' = Shown(n) /\ Whole(n)' = Whole(n)
      /\ \A s, n, c : SegmentOf(s, n, c)' <=> SegmentOf(s, n, c)
      /\ \A n, c : Enough(n, c)' <=> Enough(n, c)
      /\ \A i : Excused(i)' <=> Excused(i)
      /\ \A n : Empty(n)' <=> Empty(n)
      /\ PathsInv => PathsInv'
  BY <1>1, StillSame
<1>4. ResultInv => ResultInv'
  BY <1>1, <1>3, Zenon DEF ResultInv
<1>5. CapturedInv => CapturedInv'
  <2>1. CaptureDone' <=> CaptureDone
    BY <1>1, <1>2, Zenon DEF CaptureDone
  <2> QED
    BY <1>1, <2>1, Zenon DEF CapturedInv
<1>6. GrowingFile => GrowingFile'
  <2>1. (Shown(next))' = Shown(next) /\ (Whole(next))' = Whole(next)
    <3>1. TornLine' = TornLine /\ UNCHANGED <<next, seq, torn, files>>
      BY <1>1, Zenon DEF TornLine, Still
    <3> QED
      BY <3>1 DEF Shown, Whole
  <2>2. Told => Told'
    <3>1. \A s, c : SegmentOf(s, next, c)' <=> SegmentOf(s, next, c)
      BY <1>1, <1>3, Zenon DEF SegmentOf, Predecessor, Closing
    <3>2. Empty(next)' <=> Empty(next)
      BY <1>1, Zenon DEF Empty
    <3>3. \A c : Enough(next, c)' <=> Enough(next, c)
      BY <1>1, Zenon DEF Enough
    <3> QED
      BY <1>1, <1>2, <1>3, <3>1, <3>2, <3>3, Zenon DEF Told
  <2>3. ASSUME NEW c PROVE Opened(c) => Opened(c)'
    <3>1. SegmentOf(cur, next, c)' <=> SegmentOf(cur, next, c)
      BY <1>1, <1>2, Zenon DEF SegmentOf, Predecessor, Closing
    <3> QED
      BY <1>1, <1>2, <3>1, Zenon DEF Opened
  <2>4. ASSUME NEW c PROVE InWhole(c) => InWhole(c)'
    BY <1>1, <1>2, <2>1, Zenon DEF InWhole
  <2>5. ASSUME NEW c PROVE PastTorn(c) => PastTorn(c)'
    <3>1. Enough(next, c)' <=> Enough(next, c)
      BY <1>1, Zenon DEF Enough
    <3> QED
      BY <1>1, <1>2, <1>3, <3>1, Zenon DEF PastTorn
  <2> QED
    BY <1>1, <1>2, <2>2, <2>3, <2>4, <2>5, Zenon DEF GrowingFile
<1> QED
  BY <1>3, <1>4, <1>5, <1>6

\* The producer's anchor passes, and so does the auditor's key.
LEMMA PreparingKeeps ==
  ASSUME LiveInv, Auditing, BadArguments \/ CheckAnchor \/ NoKey \/ GetKey
  PROVE  LiveInv'
<1>1. /\ Still /\ LogInv /\ AuditInv /\ AskedInv' /\ OwnQuestion'
  BY AuditingStill
<1>2. KeySource(keyArg, ChainIDs) = {OwnKeys} /\ LoadPublicKey(pubKey) = {Identity}
  <2>1. keyArg = OwnIdentity /\ pubKey = OwnPublicKey
    BY <1>1 DEF AuditInv, OwnQuestion
  <2> QED
    BY <2>1, OwnKeySource
<1>3. command = "anchor" => anchor # NoAnchor /\ Verify(Identity, anchor)
  <2>1. command = "anchor" => AnchorAsked /\ pubKey = OwnPublicKey /\ keyArg = OwnIdentity
    BY <1>1 DEF AuditInv, OwnQuestion
  <2> QED
    BY <1>1, <2>1, OwnAnchor
<1>4. ~BadArguments
  BY <1>2, <1>3 DEF BadArguments
<1>5. ~NoKey
  BY <1>2 DEF NoKey
<1>6. CASE CheckAnchor
  <2>1. /\ stage = "list" /\ command = "anchor" /\ anchorOK' = TRUE
        /\ UNCHANGED <<allVars, command, target, keyArg, pubKey, anchor, reached, verdict, exit>>
    BY <1>2, <1>3, <1>6 DEF CheckAnchor
  <2>2. /\ paths = <<>> /\ next = 1 /\ result = NoResult /\ reached = {}
        /\ gone = {} /\ overlooked \subseteq gone /\ keyFor \in {<<>>, OwnKeys}
        /\ exit = NoExit /\ calls = {}
    BY <1>1, <2>1 DEF AuditInv
  <2>3. UNCHANGED <<paths, next, result, keyFor, calls, stage, gone, overlooked, reached, exit>>
    BY <1>1, <2>1 DEF Still, allVars, vars, dirVars
  <2>4. AuditInv'
    BY <1>1, <2>1, <2>2, <2>3 DEF AuditInv, OwnKeys
  <2> QED
    BY <2>4, AuditIsEnough
<1>7. CASE GetKey
  <2>1. /\ keyFor' = OwnKeys /\ ~HaveKey
        /\ UNCHANGED <<calls, dirVars, commandVars>>
    BY <1>2, <1>7 DEF GetKey
  <2>2. stage = "list"
    <3>1. seq \in Uint
      BY <1>1, LogShape
    <3>2. keyFor # OwnKeys
      BY <2>1, <3>1, OwnKeyOf DEF HaveKey
    <3> QED
      BY <1>1, <3>2 DEF AuditInv
  <2>3. /\ paths = <<>> /\ next = 1 /\ result = NoResult /\ reached = {}
        /\ gone = {} /\ overlooked \subseteq gone /\ exit = NoExit /\ calls = {}
    BY <1>1, <2>2 DEF AuditInv
  <2>4. UNCHANGED <<paths, next, result, stage, gone, overlooked, reached, exit, calls>>
    BY <1>1, <2>1 DEF Still, dirVars, commandVars
  <2>5. AuditInv'
    BY <1>1, <2>1, <2>2, <2>3, <2>4 DEF AuditInv, OwnKeys
  <2> QED
    BY <2>5, AuditIsEnough
<1> QED
  BY <1>4, <1>5, <1>6, <1>7

\* The command says what it has found.
LEMMA ReportingKeeps ==
  ASSUME LiveInv, Auditing, NothingThere \/ ReportVerify \/ ReportAnchor
  PROVE  LiveInv'
<1>1. /\ Still /\ LogInv /\ AuditInv /\ AskedInv' /\ OwnQuestion'
  BY AuditingStill
<1>2. ASSUME NothingThere
      PROVE  Finish(2, "cannot read") /\ stage = "error"
             /\ (command = "anchor" => Names[anchor.record.seq + 1] \in gone)
  <2>1. Finish(2, "cannot read") /\ stage = "error"
    BY <1>2 DEF NothingThere
  <2>2. \A n \in 1 .. Len(asked) : Names[n] \in gone
    BY <1>1, <2>1 DEF AuditInv
  <2>3. command = "anchor" => anchor.record.seq + 1 \in 1 .. Len(asked)
    BY <1>1, SeqShape DEF AuditInv, AskedInv, OwnQuestion, AnchorAsked
  <2> QED
    BY <2>1, <2>2, <2>3
<1>3. ASSUME NEW code, NEW v, Finish(code, v), stage \in {"returned", "error"},
             command = "anchor" => \/ Names[anchor.record.seq + 1] \in gone
                                   \/ v \in {"exact match", "prefix matches"}
      PROVE  LiveInv'
  <2>1. UNCHANGED <<allVars, anchorOK, reached>> /\ verdict' = v
    BY <1>3 DEF Finish
  <2>2. UNCHANGED <<keyFor, stage, next, paths>>
    BY <2>1 DEF allVars, vars, dirVars
  <2>3. PathsInv' /\ ResultInv' /\ CapturedInv'
    BY <1>1, <1>3, <2>1, PassStays DEF AuditInv
  <2>4. /\ keyFor = OwnKeys /\ (command = "anchor" => anchorOK)
        /\ stage = "returned" => next > Len(paths)
        /\ stage = "error" => \A n \in 1 .. Len(asked) : Names[n] \in gone
        /\ overlooked \subseteq gone
    BY <1>1, <1>3 DEF AuditInv
  <2>5. UNCHANGED <<gone, overlooked, asked, command, anchor>>
    BY <1>1 DEF Still
  <2>6. AuditInv'
    BY <1>1, <1>3, <2>1, <2>2, <2>3, <2>4, <2>5 DEF AuditInv, OwnKeys
  <2> QED
    BY <2>6, AuditIsEnough
<1>4. CASE ReportVerify
  <2>1. command = "verify" /\ stage = "returned" /\ \E code, v : Finish(code, v)
    BY <1>4, Zenon DEF ReportVerify
  <2> QED
    BY <1>3, <2>1
<1>5. CASE ReportAnchor
  <2>1. command = "anchor" /\ stage = "returned"
    BY <1>5 DEF ReportAnchor
  <2>2. AnchorAsked /\ pubKey = OwnPublicKey /\ keyArg = OwnIdentity /\ AskedInv
    BY <1>1, <2>1 DEF AuditInv, OwnQuestion
  <2>3. /\ reached \subseteq {anchor.record.mac}
        /\ CaptureDone => reached # {}
    BY <1>1, <2>1 DEF AuditInv, CapturedInv
  <2>4. CASE reached = {}
    <3>1. anchor.record.seq + 1 \in 1 .. Len(asked)
      BY <2>2, SeqShape DEF AnchorAsked, AskedInv
    <3>2. Len(asked) <= Len(paths) /\ Len(paths) \in Nat /\ next > Len(paths)
      <4>1. PathsInv /\ next > Len(paths) /\ IsSeq(asked)
        BY <1>1, <2>1, <2>2 DEF AuditInv, AskedInv
      <4>2. Len(paths) \in Len(asked) .. Count /\ IsSeq(paths)
        BY <4>1 DEF PathsInv
      <4>3. Len(asked) \in Nat /\ Len(paths) \in Nat /\ Count \in Nat
        BY <1>1, <4>1, <4>2, SeqShape, LogShape
      <4> QED
        BY <4>1, <4>2, <4>3
    <3>3. next > anchor.record.seq + 1
      <4>1. next \in Nat
        <5>1. ResultInv
          BY <1>1, <2>1 DEF AuditInv
        <5> QED
          BY <3>2, <5>1 DEF ResultInv
      <4>2. Len(asked) \in Nat
        BY <2>2, SeqShape DEF AskedInv
      <4> QED
        BY <3>1, <3>2, <4>1, <4>2
    <3>4. Names[anchor.record.seq + 1] \in gone
      BY <2>3, <2>4, <3>3 DEF CaptureDone
    <3>5. \E code, v : Finish(code, v)
      BY <1>5, Zenon DEF ReportAnchor
    <3> QED
      BY <1>3, <2>1, <3>4, <3>5
  <2>5. CASE reached # {}
    <3>1. reached = {anchor.record.mac}
      BY <2>3, <2>5
    <3>2. \E code : \E v \in {"exact match", "prefix matches"} : Finish(code, v)
      <4>1. \/ Finish(1, "prefix matches") \/ Finish(0, "exact match")
        BY <1>5, <3>1, Zenon DEF ReportAnchor
      <4> QED
        BY <4>1
    <3> QED
      BY <1>3, <2>1, <3>2
  <2> QED
    BY <2>4, <2>5
<1> QED
  BY <1>2, <1>3, <1>4, <1>5

-----------------------------------------------------------------------------
(* The files are read one after the other.                                 *)

\* While it reads them the command is running, on the files that were listed.
LEMMA ReadingFacts ==
  ASSUME LiveInv, Auditing, stage \in {"files", "replay"}
  PROVE  /\ PathsInv /\ ResultInv /\ CapturedInv /\ keyFor = OwnKeys /\ exit = NoExit
         /\ command = "anchor" => anchorOK
         /\ next \in Nat \ {0} /\ next <= Len(paths) + 1 /\ Len(paths) \in Nat
         /\ Len(asked) \in Nat \ {0} /\ Len(asked) <= Len(paths)
         /\ Len(paths) <= Count /\ Count <= seq + 1 /\ seq \in Nat
         /\ Len(asked) <= Len(files) /\ Len(files) \in Nat
<1>1. AuditInv /\ LogInv
  BY AuditingStill
<1>2. /\ PathsInv /\ ResultInv /\ CapturedInv /\ keyFor = OwnKeys
      /\ command = "anchor" => anchorOK
      /\ exit = NoExit
  BY <1>1 DEF AuditInv
<1>3. Count \in Nat /\ Count \in {seq, seq + 1} /\ seq \in Nat /\ Len(files) \in Nat
  BY <1>1, LogShape
<1>4. IsSeq(asked) /\ Len(asked) \in 1 .. Len(files)
  BY <1>1 DEF AuditInv, AskedInv
<1>5. Len(paths) \in Len(asked) .. Count
  BY <1>2 DEF PathsInv
<1>6. next \in 1 .. Len(paths) + 1
  BY <1>2 DEF ResultInv
<1> QED
  BY <1>2, <1>3, <1>4, <1>5, <1>6

\* What the step of the pass left of the invariant makes it whole again.
LEMMA PassIsEnough ==
  ASSUME LiveInv, Auditing, Verifying \/ PassOver, stage \in {"files", "replay"},
         stage' \in {"files", "replay", "returned"}, keyFor' = keyFor, paths' = paths,
         ResultInv', CapturedInv', stage' = "replay" => GrowingFile',
         stage' = "returned" => next' > Len(paths')
  PROVE  LiveInv'
<1>1. Still /\ AskedInv' /\ OwnQuestion'
  BY AuditingStill
<1>2. /\ PathsInv /\ keyFor = OwnKeys /\ exit = NoExit
      /\ command = "anchor" => anchorOK
  BY ReadingFacts
<1>3. PathsInv'
  BY <1>1, <1>2, StillSame
<1>4. UNCHANGED <<anchorOK, exit, command>>
  BY DEF Verifying, PassOver, commandVars
<1>5. overlooked' \subseteq gone'
  BY <1>1, AuditingStill DEF Still, AuditInv
<1>6. AuditInv'
  BY <1>1, <1>2, <1>3, <1>4, <1>5 DEF AuditInv, OwnKeys
<1> QED
  BY <1>6, AuditIsEnough

\* What the files before the next one say stays.
LEMMA BeforeStays ==
  ASSUME Still, paths' = paths, ResultInv
  PROVE  /\ IsFiniteSet(result.segments)
         /\ \A s, t \in result.segments : s.seq = t.seq => s = t
         /\ \A s \in result.segments :
              \E n \in 1 .. next - 1 : SegmentOf(s, n, s.count)' /\ Enough(n, s.count)'
         /\ \A n \in 1 .. next - 1 :
              Names[n] \in gone' \/ Empty(n)' \/ \E s \in result.segments : s.seq = n - 1
         /\ \A i \in result.issues : Excused(i)'
<1>1. /\ \A s, n, c : SegmentOf(s, n, c)' <=> SegmentOf(s, n, c)
      /\ \A n, c : Enough(n, c)' <=> Enough(n, c)
      /\ \A i : Excused(i)' <=> Excused(i)
      /\ \A n : Empty(n)' <=> Empty(n)
      /\ gone' = gone
  BY StillSame DEF Still
<1>2. /\ next \in 1 .. Len(paths) + 1
      /\ IsFiniteSet(result.segments)
      /\ \A s, t \in result.segments : s.seq = t.seq => s = t
      /\ \A s \in result.segments :
           \E n \in 1 .. next - 1 : SegmentOf(s, n, s.count) /\ Enough(n, s.count)
      /\ \A n \in 1 .. next - 1 :
           Names[n] \in gone \/ Empty(n) \/ \E s \in result.segments : s.seq = n - 1
      /\ \A i \in result.issues : Excused(i)
  BY DEF ResultInv
<1> QED
  BY <1>1, <1>2, Zenon

\* A file that is gone is the one it was listed as.
LEMMA OverlookedIsGone ==
  ASSUME AuditInv, PathsInv, NEW i \in 1 .. Len(paths), IsOverlooked(i)
  PROVE  Names[i] \in gone
<1>1. paths[i].file = [source |-> Names[i], lines |-> Shown(i), err |-> FALSE]
  BY DEF PathsInv, IsPath
<1>2. paths[i].file.source = Names[i]
  BY <1>1
<1> QED
  BY <1>2 DEF IsOverlooked, AuditInv

\* A file that Lstat did not find is passed over.
LEMMA PassOverKeepsLive ==
  ASSUME LiveInv, Auditing, PassOver
  PROVE  LiveInv'
<1>1. /\ stage = "files" /\ next \in DOMAIN paths /\ IsOverlooked(next)
      /\ next' = next + 1
      /\ UNCHANGED <<keyFor, paths, stage, result, reached>>
  BY DEF PassOver, NextIsOverlooked, vars, commandVars
<1>2. /\ PathsInv /\ ResultInv /\ CapturedInv /\ next \in Nat \ {0} /\ Len(paths) \in Nat
      /\ next \in 1 .. Len(paths)
  <2>1. /\ PathsInv /\ ResultInv /\ CapturedInv /\ next \in Nat \ {0} /\ Len(paths) \in Nat
    BY <1>1, ReadingFacts
  <2> QED
    BY <1>1, <2>1, SeqShape DEF PathsInv
<1>3. Still /\ AuditInv
  BY AuditingStill
<1>4. Names[next] \in gone /\ gone' = gone
  BY <1>1, <1>2, <1>3, OverlookedIsGone DEF Still
<1>5. ResultInv'
  <2>1. /\ IsFiniteSet(result.segments)
        /\ \A s, t \in result.segments : s.seq = t.seq => s = t
        /\ \A s \in result.segments :
             \E n \in 1 .. next - 1 : SegmentOf(s, n, s.count)' /\ Enough(n, s.count)'
        /\ \A n \in 1 .. next - 1 :
             Names[n] \in gone' \/ Empty(n)' \/ \E s \in result.segments : s.seq = n - 1
        /\ \A j \in result.issues : Excused(j)'
    BY <1>1, <1>2, <1>3, BeforeStays
  <2>2. /\ next' \in 1 .. Len(paths') + 1 /\ 1 .. next' - 1 = (1 .. next - 1) \cup {next}
        /\ IsResult(result)
    BY <1>1, <1>2 DEF ResultInv
  <2>3. \A n \in 1 .. next' - 1 :
          Names[n] \in gone' \/ Empty(n)' \/ \E s \in result.segments : s.seq = n - 1
    BY <1>4, <2>1, <2>2, Zenon
  <2>4. \A s \in result.segments :
          \E n \in 1 .. next' - 1 : SegmentOf(s, n, s.count)' /\ Enough(n, s.count)'
    BY <2>1, <2>2, Zenon
  <2>5. result' = result
    BY <1>1
  <2> QED
    BY <2>1, <2>2, <2>3, <2>4, <2>5, Zenon DEF ResultInv
<1>6. CapturedInv'
  <2>1. command' = command /\ anchor' = anchor
    BY <1>3 DEF Still
  <2>2. (command = "anchor" /\ CaptureDone') => CaptureDone
    <3> SUFFICES ASSUME command = "anchor", CaptureDone' PROVE CaptureDone
      OBVIOUS
    <3>1. AnchorAsked /\ pubKey = OwnPublicKey /\ keyArg = OwnIdentity /\ LogInv
      BY AuditingStill DEF AuditInv, OwnQuestion
    <3>2. anchor.record.seq \in Nat
      BY <3>1, OwnAnchor
    <3>3. next' > anchor.record.seq + 1 /\ Names[anchor.record.seq + 1] \notin gone
      BY <1>1, <1>4, <2>1 DEF CaptureDone
    <3>4. next # anchor.record.seq + 1
      BY <1>4, <3>3
    <3> QED
      BY <1>1, <1>2, <3>2, <3>3, <3>4 DEF CaptureDone
  <2> QED
    BY <1>1, <1>2, <2>1, <2>2 DEF CapturedInv
<1> QED
  BY <1>1, <1>5, <1>6, PassIsEnough

\* When Lstat has found nothing, everything is gone.
LEMMA NothingFoundKeepsLive ==
  ASSUME LiveInv, Auditing, NothingFound
  PROVE  LiveInv'
<1>1. /\ stage = "files" /\ stage' = "error" /\ \A i \in DOMAIN paths : IsOverlooked(i)
      /\ UNCHANGED <<keyFor, paths, next, result, reached, exit, anchorOK>>
  BY DEF NothingFound, NextIsOverlooked, vars, commandVars
<1>2. /\ PathsInv /\ ResultInv /\ CapturedInv /\ keyFor = OwnKeys /\ exit = NoExit
      /\ command = "anchor" => anchorOK
      /\ Len(paths) \in Nat /\ Len(asked) \in Nat /\ Len(asked) <= Len(paths)
      /\ next \in Nat /\ next <= Len(paths) + 1
  BY <1>1, ReadingFacts
<1>3. Still /\ AuditInv /\ AskedInv' /\ OwnQuestion'
  BY AuditingStill
<1>4. gone' = gone /\ asked' = asked /\ overlooked' = overlooked
      /\ command' = command /\ anchor' = anchor
  BY <1>3 DEF Still
<1>5. \A n \in 1 .. Len(asked) : Names[n] \in gone
  <2>1. DOMAIN paths = 1 .. Len(paths)
    BY <1>2, SeqShape DEF PathsInv
  <2> QED
    BY <1>1, <1>2, <1>3, <2>1, OverlookedIsGone
<1>6. PathsInv' /\ ResultInv'
  <2>1. PathsInv'
    BY <1>1, <1>2, <1>3, StillSame
  <2>2. /\ IsFiniteSet(result.segments)
        /\ \A s, t \in result.segments : s.seq = t.seq => s = t
        /\ \A s \in result.segments :
             \E n \in 1 .. next - 1 : SegmentOf(s, n, s.count)' /\ Enough(n, s.count)'
        /\ \A n \in 1 .. next - 1 :
             Names[n] \in gone' \/ Empty(n)' \/ \E s \in result.segments : s.seq = n - 1
        /\ \A j \in result.issues : Excused(j)'
    BY <1>1, <1>2, <1>3, BeforeStays
  <2>3. result' = result /\ next' = next /\ paths' = paths
        /\ next \in 1 .. Len(paths) + 1 /\ IsResult(result)
    BY <1>1, <1>2 DEF ResultInv
  <2> QED
    BY <2>1, <2>2, <2>3, Zenon DEF ResultInv
<1>7. CapturedInv'
  <2>1. CaptureDone' => CaptureDone
    BY <1>1, <1>4 DEF CaptureDone
  <2> QED
    BY <1>1, <1>2, <1>4, <2>1 DEF CapturedInv
<1>8. AuditInv'
  BY <1>1, <1>2, <1>3, <1>4, <1>5, <1>6, <1>7 DEF AuditInv, OwnKeys
<1> QED
  BY <1>8, AuditIsEnough

\* A file that is not there is passed over.
LEMMA OpenFailsKeepsLive ==
  ASSUME LiveInv, Auditing, Verifying, OpenFails
  PROVE  LiveInv'
<1>1. /\ stage = "files" /\ next <= Len(paths) /\ ~paths[next].open
      /\ next' = next + 1
      /\ UNCHANGED <<keyFor, calls, paths, stage>>
  BY DEF OpenFails, vars
<1>2. /\ PathsInv /\ ResultInv /\ CapturedInv /\ next \in Nat \ {0} /\ Len(paths) \in Nat
  BY <1>1, ReadingFacts
<1>3. Still
  BY AuditingStill
<1>4. PICK i : i = [source |-> paths[next].file.source, line |-> 0, at |-> 0,
                   reason |-> "cannot open"]
  OBVIOUS
<1>5. /\ result'.segments = result.segments
      /\ result'.issues = result.issues \cup {i} /\ IsResult(result')
  <2>2. PICK r, r2 : r = result /\ r2 = result'
    OBVIOUS
  <2>3. r2 = [r EXCEPT !.issues = @ \cup {i}] /\ IsResult(r)
    BY <1>2, <1>4, <2>2 DEF OpenFails, ResultInv
  <2>4. r2.segments = r.segments /\ r2.issues = r.issues \cup {i} /\ IsResult(r2)
    BY <2>3 DEF IsResult
  <2> QED
    BY <2>2, <2>4
<1>6. Names[next] \in gone /\ paths[next].file.source = Names[next]
  <2>1. IsPath(paths[next], next)
    BY <1>1, <1>2 DEF PathsInv
  <2>2. paths[next].file = [source |-> Names[next], lines |-> Shown(next), err |-> FALSE]
    BY <2>1 DEF IsPath
  <2>3. Names[next] \in gone
    BY <1>1, <2>1 DEF IsPath
  <2> QED
    BY <2>2, <2>3
<1>7. Excused(i)'
  <2>1. gone' = gone /\ i.reason = "cannot open" /\ i.source = Names[next]
    BY <1>3, <1>6, <1>4 DEF Still
  <2> QED
    BY <1>6, <2>1, Zenon DEF Excused
<1>8. ResultInv'
  <2>1. /\ IsFiniteSet(result.segments)
        /\ \A s, t \in result.segments : s.seq = t.seq => s = t
        /\ \A s \in result.segments :
             \E n \in 1 .. next - 1 : SegmentOf(s, n, s.count)' /\ Enough(n, s.count)'
        /\ \A n \in 1 .. next - 1 :
             Names[n] \in gone' \/ Empty(n)' \/ \E s \in result.segments : s.seq = n - 1
        /\ \A j \in result.issues : Excused(j)'
    BY <1>1, <1>2, <1>3, BeforeStays
  <2>2. /\ next' \in 1 .. Len(paths') + 1 /\ 1 .. next' - 1 = (1 .. next - 1) \cup {next}
    BY <1>1, <1>2
  <2>3. \A j \in result'.issues : Excused(j)'
    BY <1>5, <1>7, <2>1, Zenon
  <2>4. Names[next] \in gone'
    BY <1>3, <1>6 DEF Still
  <2>5. \A n \in 1 .. next' - 1 :
          Names[n] \in gone' \/ Empty(n)' \/ \E s \in result'.segments : s.seq = n - 1
    BY <1>5, <2>1, <2>2, <2>4, Zenon
  <2>6. \A s \in result'.segments :
          \E n \in 1 .. next' - 1 : SegmentOf(s, n, s.count)' /\ Enough(n, s.count)'
    BY <1>5, <2>1, <2>2, Zenon
  <2> QED
    BY <1>5, <2>1, <2>2, <2>3, <2>5, <2>6, Zenon DEF ResultInv
<1>9. CapturedInv'
  <2>1. reached' = reached
    BY <1>1, NoCallNoCapture DEF Verifying
  <2>2. command' = command /\ anchor' = anchor /\ gone' = gone
    BY <1>3 DEF Still
  <2>3. (command = "anchor" /\ CaptureDone') => CaptureDone
    <3> SUFFICES ASSUME command = "anchor", CaptureDone' PROVE CaptureDone
      OBVIOUS
    <3>1. AnchorAsked /\ pubKey = OwnPublicKey /\ keyArg = OwnIdentity /\ LogInv
      BY AuditingStill DEF AuditInv, OwnQuestion
    <3>2. anchor.record.seq \in Nat
      BY <3>1, OwnAnchor
    <3>3. next' > anchor.record.seq + 1 /\ Names[anchor.record.seq + 1] \notin gone
      BY <1>1, <2>2 DEF CaptureDone
    <3>4. next # anchor.record.seq + 1
      BY <1>6, <3>3
    <3> QED
      BY <1>1, <1>2, <3>2, <3>3, <3>4 DEF CaptureDone
  <2> QED
    BY <1>2, <2>1, <2>2, <2>3 DEF CapturedInv
<1> QED
  BY <1>1, <1>8, <1>9, PassIsEnough

\* The next file is opened.
LEMMA OpenFileKeepsLive ==
  ASSUME LiveInv, Auditing, Verifying, OpenFile
  PROVE  LiveInv'
<1>1. /\ stage = "files" /\ next <= Len(paths) /\ Begin(paths[next].file)
      /\ stage' = "replay" /\ UNCHANGED <<paths, next, result>>
  BY DEF OpenFile
<1>2. /\ PathsInv /\ ResultInv /\ CapturedInv /\ next \in Nat \ {0} /\ Len(paths) \in Nat
  BY <1>1, ReadingFacts
<1>3. Still /\ LogInv
  BY AuditingStill
<1>4. /\ file' = paths[next].file /\ phase' = "scan" /\ pos' = 1 /\ lineNum' = 0
      /\ cur' = NoSegment /\ segments' = {} /\ issues' = {} /\ calls' = {} /\ truncated' = FALSE
      /\ keyFor' = keyFor
  BY <1>1 DEF Begin
<1>5. paths[next].file = [source |-> Names[next], lines |-> Shown(next), err |-> FALSE]
  <2>1. IsPath(paths[next], next)
    BY <1>1, <1>2 DEF PathsInv
  <2> QED
    BY <2>1, Zenon DEF IsPath
<1>6. GrowingFile'
  <2>1. PICK f, x : f = file' /\ x = Shown(next)
    OBVIOUS
  <2>2. /\ f = [source |-> Names[next], lines |-> x, err |-> FALSE]
    BY <1>4, <1>5, <2>1
  <2>3. f = [source |-> f.source, lines |-> f.lines, err |-> f.err] /\ f.source = Names[next]
        /\ f.lines = x /\ f.err = FALSE
    BY <2>2
  <2>4. (Shown(next))' = Shown(next) /\ (Whole(next))' = Whole(next)
    <3>1. PICK n : n = next
      OBVIOUS
    <3>2. Shown(n)' = Shown(n) /\ Whole(n)' = Whole(n)
      BY <1>3, StillSame
    <3>3. (Shown(next))' = Shown(n)' /\ (Whole(next))' = Whole(n)'
      BY <1>1, <3>1, Zenon DEF Shown, Whole
    <3> QED
      BY <3>1, <3>2, <3>3
  <2>5. Len(Whole(next)) \in Nat
    BY <1>2, <1>3, ShownShape
  <2>6. InWhole(0)'
    <3>1. file'.lines = (Shown(next))'
      BY <2>1, <2>3, <2>4
    <3>2. 0 \in 0 .. Len((Whole(next))')
      BY <2>4, <2>5
    <3> QED
      BY <1>4, <3>1, <3>2 DEF InWhole
  <2>7. Opened(0)'
    BY <1>4 DEF Opened, NoSegment
  <2>8. 0 \in 0 .. lineNum'
    BY <1>4
  <2> QED
    BY <1>1, <1>4, <2>1, <2>3, <2>6, <2>7, <2>8 DEF GrowingFile
<1>7. ResultInv'
  <2>1. /\ IsFiniteSet(result.segments)
        /\ \A s, t \in result.segments : s.seq = t.seq => s = t
        /\ \A s \in result.segments :
             \E n \in 1 .. next - 1 : SegmentOf(s, n, s.count)' /\ Enough(n, s.count)'
        /\ \A n \in 1 .. next - 1 :
             Names[n] \in gone' \/ Empty(n)' \/ \E s \in result.segments : s.seq = n - 1
        /\ \A j \in result.issues : Excused(j)'
    BY <1>1, <1>2, <1>3, BeforeStays
  <2> QED
    BY <1>1, <1>2, <2>1, Zenon DEF ResultInv
<1>8. CapturedInv'
  <2>1. reached' = reached
    BY <1>4, NoCallNoCapture DEF Verifying
  <2>2. command' = command /\ anchor' = anchor /\ gone' = gone
    BY <1>3 DEF Still
  <2>3. (command = "anchor" /\ CaptureDone') => CaptureDone
    <3> SUFFICES ASSUME command = "anchor", CaptureDone' PROVE CaptureDone
      OBVIOUS
    <3>1. AnchorAsked /\ pubKey = OwnPublicKey /\ keyArg = OwnIdentity /\ LogInv
      BY AuditingStill DEF AuditInv, OwnQuestion
    <3>2. anchor.record.lineCount \in Nat \ {0}
      BY <3>1, OwnAnchor
    <3>3. cur'.count = 0 /\ phase' = "scan"
      BY <1>4 DEF NoSegment
    <3>4. next' > anchor.record.seq + 1 /\ Names[anchor.record.seq + 1] \notin gone
      BY <2>2, <3>2, <3>3 DEF CaptureDone
    <3> QED
      BY <1>1, <3>4 DEF CaptureDone
  <2> QED
    BY <1>2, <2>1, <2>2, <2>3 DEF CapturedInv
<1> QED
  BY <1>1, <1>4, <1>6, <1>7, <1>8, PassIsEnough

\* What the replay of the next file says is added.
LEMMA AccumulateKeepsLive ==
  ASSUME LiveInv, Auditing, Verifying, Accumulate
  PROVE  LiveInv'
<1>1. /\ stage = "replay" /\ phase = "done" /\ stage' = "files" /\ next' = next + 1
      /\ result' = [files     |-> result.files + 1,
                    lines     |-> result.lines + lineNum,
                    segments  |-> result.segments \cup segments,
                    issues    |-> result.issues \cup issues,
                    truncated |-> result.truncated \/ truncated]
      /\ UNCHANGED <<paths, keyFor, calls>>
  BY DEF Accumulate, vars
<1>2. /\ PathsInv /\ ResultInv /\ CapturedInv /\ next \in Nat \ {0} /\ Len(paths) \in Nat
  BY <1>1, ReadingFacts
<1>3. Still /\ AuditInv
  BY AuditingStill
<1>4. Told /\ next <= Len(paths)
  BY <1>1, <1>3 DEF AuditInv, GrowingFile
<1>5. /\ result'.segments = result.segments \cup segments
      /\ result'.issues = result.issues \cup issues
      /\ IsResult(result')
  BY <1>1 DEF IsResult
<1>6. ResultInv'
  <2>1. /\ IsFiniteSet(result.segments)
        /\ \A s, t \in result.segments : s.seq = t.seq => s = t
        /\ \A s \in result.segments :
             \E n \in 1 .. next - 1 : SegmentOf(s, n, s.count)' /\ Enough(n, s.count)'
        /\ \A n \in 1 .. next - 1 :
             Names[n] \in gone' \/ Empty(n)' \/ \E s \in result.segments : s.seq = n - 1
        /\ \A j \in result.issues : Excused(j)'
    BY <1>1, <1>2, <1>3, BeforeStays
  <2>2. /\ next' \in 1 .. Len(paths') + 1 /\ 1 .. next' - 1 = (1 .. next - 1) \cup {next}
    BY <1>1, <1>2, <1>4
  <2>3. /\ \A s, n, c : SegmentOf(s, n, c)' <=> SegmentOf(s, n, c)
        /\ \A n, c : Enough(n, c)' <=> Enough(n, c)
        /\ \A i : Excused(i)' <=> Excused(i)
        /\ \A n : Empty(n)' <=> Empty(n)
    BY <1>1, <1>3, StillSame
  <2>4. \A j \in result'.issues : Excused(j)'
    BY <1>4, <1>5, <2>1, <2>3, Zenon DEF Told
  <2>5. PICK m : m = next
    OBVIOUS
  <2>6. \/ segments = {} /\ Empty(m)'
        \/ \E s : segments = {s} /\ s.seq = m - 1
                  /\ SegmentOf(s, m, s.count)' /\ Enough(m, s.count)'
    <3>1. CASE segments = {} /\ Empty(next)
      BY <2>3, <2>5, <3>1, Zenon
    <3>2. CASE \E s \in segments : segments = {s} /\ SegmentOf(s, next, s.count)
                                   /\ Enough(next, s.count)
      <4>1. PICK s : segments = {s} /\ SegmentOf(s, m, s.count) /\ Enough(m, s.count)
        BY <2>5, <3>2
      <4>2. s.seq = m - 1
        BY <4>1, Zenon DEF SegmentOf
      <4> QED
        BY <2>3, <4>1, <4>2, Zenon
    <3> QED
      BY <1>4, <3>1, <3>2 DEF Told
  <2>7. \A n \in 1 .. next' - 1 :
          Names[n] \in gone' \/ Empty(n)' \/ \E s \in result'.segments : s.seq = n - 1
    <3>1. Empty(m)' \/ \E s \in result'.segments : s.seq = m - 1
      BY <1>5, <2>6
    <3>2. \A n \in 1 .. next' - 1 : n = m \/ n \in 1 .. next - 1
      BY <2>2, <2>5
    <3> QED
      BY <1>5, <2>1, <3>1, <3>2, Zenon
  <2>8. \A s \in result'.segments :
          \E n \in 1 .. next' - 1 : SegmentOf(s, n, s.count)' /\ Enough(n, s.count)'
    <3>1. m \in 1 .. next' - 1 /\ \A n \in 1 .. next - 1 : n \in 1 .. next' - 1
      BY <1>2, <2>2, <2>5
    <3>2. \A s \in segments : SegmentOf(s, m, s.count)' /\ Enough(m, s.count)'
      BY <2>6, Zenon
    <3> QED
      BY <1>5, <2>1, <3>1, <3>2, Zenon
  <2>9. \A s, t \in result'.segments : s.seq = t.seq => s = t
    <3>1. \A s \in result.segments : \E n \in 1 .. next - 1 : s.seq = n - 1
      BY <2>1, Zenon DEF SegmentOf
    <3>2. \A s \in result.segments : s.seq # m - 1
      BY <1>2, <2>5, <3>1
    <3>3. \A s, t \in segments : s = t /\ s.seq = m - 1
      BY <2>6, Zenon
    <3> QED
      BY <1>5, <2>1, <3>2, <3>3, Zenon
  <2>10. IsFiniteSet(result'.segments)
    <3>1. IsFiniteSet(segments)
      BY <2>6, FS_EmptySet, FS_Singleton
    <3>2. IsFiniteSet(result.segments \cup segments)
      BY <2>1, <3>1, FS_Union, Zenon
    <3> QED
      BY <1>5, <3>2
  <2> QED
    BY <1>5, <2>2, <2>4, <2>7, <2>8, <2>9, <2>10, Zenon DEF ResultInv
<1>7. CapturedInv'
  <2>1. reached' = reached
    BY <1>1, NoCallNoCapture DEF Verifying
  <2>2. command' = command /\ anchor' = anchor /\ gone' = gone
    BY <1>3 DEF Still
  <2>3. (command = "anchor" /\ CaptureDone') => CaptureDone
    <3> SUFFICES ASSUME command = "anchor", CaptureDone' PROVE CaptureDone
      OBVIOUS
    <3>1. AnchorAsked /\ pubKey = OwnPublicKey /\ keyArg = OwnIdentity /\ LogInv
      BY AuditingStill DEF AuditInv, OwnQuestion
    <3>2. anchor.record.seq \in Nat
      BY <3>1, OwnAnchor
    <3>3. next' > anchor.record.seq + 1 /\ Names[anchor.record.seq + 1] \notin gone
      BY <1>1, <2>2 DEF CaptureDone
    <3> QED
      BY <1>1, <1>2, <3>2, <3>3 DEF CaptureDone
  <2> QED
    BY <1>2, <2>1, <2>2, <2>3 DEF CapturedInv
<1> QED
  BY <1>1, <1>6, <1>7, PassIsEnough

-----------------------------------------------------------------------------
(* The segments are linked.                                                *)

\* A file has a segment before it, or the one before it is gone.
LEMMA GapIsGone ==
  ASSUME ResultInv, Len(paths) \in Nat, next \in Nat,
         NEW n \in 2 .. next - 1,
         \A t \in result.segments : t.seq # n - 2
  PROVE  Names[n - 1] \in gone /\ n \in 2 .. Len(paths)
<1>1. next \in 1 .. Len(paths) + 1
  BY DEF ResultInv
<1>2. n - 1 \in 1 .. next - 1 /\ n - 1 - 1 = n - 2 /\ n \in 2 .. Len(paths)
  BY <1>1
<1>3. ~Empty(n - 1)
  BY <1>1, <1>2 DEF Empty
<1>4. \A t \in result.segments : t.seq # n - 1 - 1
  BY <1>2
<1>5. Names[n - 1] \in gone
  BY <1>2, <1>3, <1>4, Zenon DEF ResultInv
<1> QED
  BY <1>2, <1>5

\* What the linking finds is where a file is gone.
LEMMA LinkingExcused ==
  ASSUME LogInv, ResultInv, Len(paths) \in Nat, next \in Nat, seq \in Nat,
         Len(paths) <= seq + 1,
         NEW order \in Orders(result.segments), NEW i \in LinkIssues(order)
  PROVE  Excused(i)
<1> DEFINE S == result.segments
<1>1. ASSUME NEW s \in S
      PROVE  \E n \in 1 .. next - 1 : SegmentOf(s, n, s.count) /\ Enough(n, s.count)
  BY DEF ResultInv
<1>2. Linked(S) = S /\ \A s \in S : s.chain = ChainID
  BY <1>1 DEF Linked, SegmentOf
<1>3. PICK id \in DOMAIN order : i \in ChainIssues(order[id])
  BY DEF LinkIssues
<1>4. id \in Chains(S) /\ order[id] \in Arrangements(OfChain(S, id))
  BY <1>3 DEF Orders
<1>5. OfChain(S, id) = S
  <2>1. id = ChainID
    BY <1>2, <1>4 DEF Chains
  <2> QED
    BY <1>2, <2>1 DEF OfChain
<1>6. PICK arr : arr = order[id]
  OBVIOUS
<1>7. /\ Len(arr) \in Nat /\ DOMAIN arr = 1 .. Len(arr)
      /\ \A k \in 1 .. Len(arr) : arr[k] \in S
      /\ \A s \in S : \E k \in 1 .. Len(arr) : arr[k] = s
      /\ \A k, m \in 1 .. Len(arr) : arr[k] = arr[m] => k = m
      /\ Sorted(arr)
  <2>1. IsFiniteSet(S) /\ arr \in Arrangements(S)
    BY <1>4, <1>5, <1>6 DEF ResultInv
  <2>2. Sorted(arr)
    BY <2>1 DEF Arrangements
  <2> HIDE DEF S
  <2> QED
    BY <2>1, <2>2, OnePlaceEach, Zenon
<1>8. i \in ChainIssues(arr)
  BY <1>3, <1>6
<1>9. ~Headless(arr)
  <2> SUFFICES ASSUME Headless(arr) PROVE FALSE
    OBVIOUS
  <2>1. Len(arr) > 0 /\ arr[1].seq # 0 /\ arr[1].prev = {}
    BY DEF Headless
  <2>2. arr[1] \in S
    BY <1>7, <2>1
  <2>3. PICK n \in 1 .. next - 1 : SegmentOf(arr[1], n, arr[1].count)
    BY <1>1, <2>2
  <2>4. arr[1].seq = n - 1 /\ arr[1].prev = Predecessor(n - 1)
    BY <2>3, Zenon DEF SegmentOf
  <2>5. Predecessor(n - 1) = {Closing(files[n - 1])}
    BY <2>1, <2>4 DEF Predecessor
  <2> QED
    BY <2>1, <2>4, <2>5
<1>10. PICK k \in 2 .. Len(arr) :
          /\ \E x \in {"jump", "broken"} : \E miss : i = LinkIssue(arr[k], x, miss)
          /\ Jump(arr, k) \/ Broken(arr, k)
  <2>1. \/ i \in {LinkIssue(arr[k], "jump", Missing(arr, k)) : k \in {j \in 2 .. Len(arr) : Jump(arr, j)}}
        \/ i \in {LinkIssue(arr[k], "broken", 0) : k \in {j \in 2 .. Len(arr) : Broken(arr, j)}}
    BY <1>8, <1>9 DEF ChainIssues
  <2> QED
    BY <2>1
<1>11. k \in 1 .. Len(arr) /\ k - 1 \in 1 .. Len(arr) /\ k - 1 < k
  BY <1>7
<1>12. arr[k] \in S /\ arr[k - 1] \in S /\ arr[k] # arr[k - 1] /\ arr[k - 1].seq <= arr[k].seq
  BY <1>7, <1>11 DEF Sorted
<1>13. PICK n \in 1 .. next - 1, m \in 1 .. next - 1 :
          /\ SegmentOf(arr[k], n, arr[k].count) /\ Enough(n, arr[k].count)
          /\ SegmentOf(arr[k - 1], m, arr[k - 1].count) /\ Enough(m, arr[k - 1].count)
  BY <1>1, <1>12
<1>14. /\ arr[k].seq = n - 1 /\ arr[k].prev = Predecessor(n - 1) /\ arr[k].source = Names[n]
       /\ arr[k - 1].seq = m - 1 /\ arr[k - 1].final = {files[m][arr[k - 1].count].mac}
       /\ n \in 1 .. Len(files) /\ m \in 1 .. Len(files)
  BY <1>13, Zenon DEF SegmentOf
<1>15. m < n
  <2>1. arr[k].seq # arr[k - 1].seq
    BY <1>12, Zenon DEF ResultInv
  <2> QED
    BY <1>12, <1>14, <2>1
<1>16. next \in 1 .. Len(paths) + 1
  BY DEF ResultInv
<1>17. n # m + 1
  <2> SUFFICES ASSUME n = m + 1 PROVE FALSE
    OBVIOUS
  <2>1. ~Jump(arr, k)
    <3>1. W \in Nat /\ n - 1 \in Uint /\ m - 1 \in Uint
      <4>1. seq \in Uint /\ Len(files) \in {seq, seq + 1}
        BY LogShape
      <4> QED
        BY <1>14, <4>1, WAssumption DEF Uint
    <3>2. n - 1 = Plus(m - 1, 1)
      BY <3>1, WAssumption DEF Uint, Plus
    <3> QED
      BY <1>14, <3>2 DEF Jump
  <2>2. ~Broken(arr, k)
    <3>1. m < Len(paths)
      BY <1>16
    <3>2. arr[k - 1].count = Len(files[m])
      BY <1>13, <3>1 DEF Enough
    <3>3. Predecessor(n - 1) = {Closing(files[m])}
      BY DEF Predecessor
    <3> QED
      BY <1>14, <3>2, <3>3 DEF Broken, Closing
  <2> QED
    BY <1>10, <2>1, <2>2
<1>18. \A t \in S : t.seq # n - 2
  <2> SUFFICES ASSUME NEW t \in S, t.seq = n - 2 PROVE FALSE
    OBVIOUS
  <2>1. PICK j \in 1 .. Len(arr) : arr[j] = t
    BY <1>7
  <2>2. j < k \/ j > k \/ j = k
    OBVIOUS
  <2>3. ~(j > k)
    BY <1>7, <1>11, <1>14, <2>1 DEF Sorted
  <2>4. j # k
    BY <1>14, <2>1
  <2>5. ~(j < k)
    <3> SUFFICES ASSUME j < k PROVE FALSE
      OBVIOUS
    <3>1. j = k - 1 \/ j < k - 1
      BY <1>11
    <3>2. j # k - 1
      BY <1>14, <1>15, <1>17, <2>1
    <3>3. j < k - 1
      BY <3>1, <3>2
    <3>4. arr[j].seq <= arr[k - 1].seq
      BY <1>7, <1>11, <3>3 DEF Sorted
    <3> QED
      BY <1>14, <1>15, <1>17, <2>1, <3>4
  <2> QED
    BY <2>2, <2>3, <2>4, <2>5
<1>19. n \in 2 .. next - 1
  BY <1>15
<1>20. Names[n - 1] \in gone /\ n \in 2 .. Len(paths)
  BY <1>18, <1>19, GapIsGone
<1>21. i.reason \in {"jump", "broken"} /\ i.source = Names[n]
  BY <1>10, <1>14 DEF LinkIssue
<1> QED
  BY <1>20, <1>21, Zenon DEF Excused

\* The cross file checks are made, unless a replay was cut short.
LEMMA LinkUpKeepsLive ==
  ASSUME LiveInv, Auditing, Verifying, LinkUp
  PROVE  LiveInv'
<1>1. /\ stage = "files" /\ next > Len(paths) /\ stage' = "returned"
      /\ UNCHANGED <<paths, keyFor, calls, next>>
      /\ \/ result' = result
         \/ \E order \in Orders(result.segments) :
              result' = [result EXCEPT !.issues = @ \cup LinkIssues(order)]
  BY DEF LinkUp, vars
<1>2. /\ PathsInv /\ ResultInv /\ CapturedInv /\ next \in Nat \ {0} /\ Len(paths) \in Nat
      /\ seq \in Nat /\ Len(paths) <= seq + 1
  <2>1. Len(paths) <= Count /\ Count <= seq + 1 /\ Len(paths) \in Nat /\ seq \in Nat
    BY <1>1, ReadingFacts
  <2>2. Count \in Nat
    BY AuditingStill, LogShape
  <2> QED
    BY <1>1, <2>1, <2>2, ReadingFacts
<1>3. Still /\ LogInv
  BY AuditingStill
<1>4. /\ result'.segments = result.segments /\ IsResult(result')
      /\ \A i \in result'.issues : i \in result.issues \/ Excused(i)
  <2>1. CASE result' = result
    BY <1>2, <2>1 DEF ResultInv
  <2>2. CASE \E order \in Orders(result.segments) :
               result' = [result EXCEPT !.issues = @ \cup LinkIssues(order)]
    <3>1. PICK order \in Orders(result.segments) :
             result' = [result EXCEPT !.issues = @ \cup LinkIssues(order)]
      BY <2>2
    <3>2. PICK r, r2, new : r = result /\ r2 = result' /\ new = LinkIssues(order)
      OBVIOUS
    <3>3. r2 = [r EXCEPT !.issues = @ \cup new] /\ IsResult(r)
      BY <1>2, <3>1, <3>2 DEF ResultInv
    <3>4. r2.segments = r.segments /\ r2.issues = r.issues \cup new /\ IsResult(r2)
      BY <3>3 DEF IsResult
    <3>5. \A i \in new : Excused(i)
      BY <1>2, <1>3, <3>2, LinkingExcused
    <3> QED
      BY <3>2, <3>4, <3>5
  <2> QED
    BY <1>1, <2>1, <2>2
<1>5. ResultInv'
  <2>1. /\ IsFiniteSet(result.segments)
        /\ \A s, t \in result.segments : s.seq = t.seq => s = t
        /\ \A s \in result.segments :
             \E n \in 1 .. next - 1 : SegmentOf(s, n, s.count)' /\ Enough(n, s.count)'
        /\ \A n \in 1 .. next - 1 :
             Names[n] \in gone' \/ Empty(n)' \/ \E s \in result.segments : s.seq = n - 1
        /\ \A j \in result.issues : Excused(j)'
    BY <1>1, <1>2, <1>3, BeforeStays
  <2>2. next' \in 1 .. Len(paths') + 1
    BY <1>1, <1>2 DEF ResultInv
  <2>3. \A i : Excused(i)' <=> Excused(i)
    BY <1>1, <1>3, StillSame
  <2>4. \A i \in result'.issues : Excused(i)'
    BY <1>4, <2>1, <2>3, Zenon
  <2> QED
    BY <1>1, <1>4, <2>1, <2>2, <2>4, Zenon DEF ResultInv
<1>6. CapturedInv'
  <2>1. reached' = reached
    BY <1>1, NoCallNoCapture DEF Verifying
  <2>2. command' = command /\ anchor' = anchor /\ gone' = gone
    BY <1>3 DEF Still
  <2>3. CaptureDone' => CaptureDone
    BY <1>1, <2>2 DEF CaptureDone
  <2> QED
    BY <1>2, <2>1, <2>2, <2>3 DEF CapturedInv
<1>7. stage' = "returned" => next' > Len(paths')
  BY <1>1
<1> QED
  BY <1>1, <1>5, <1>6, <1>7, PassIsEnough

-----------------------------------------------------------------------------
(* A line of the next file is read.                                        *)

\* A whole line that is still to be read is one that the producer wrote.
LEMMA NextLine ==
  ASSUME LogInv, next \in Nat \ {0}, NEW c, InWhole(c), c < Len(Whole(next))
  PROVE  /\ pos = c + 1 /\ c \in Nat /\ pos <= Len(file.lines) /\ Len(file.lines) \in Nat
         /\ next \in 1 .. Len(files) /\ c + 1 \in 1 .. Len(files[next])
         /\ file.lines[pos] = files[next][c + 1] /\ file.lines[pos].form = "signed"
         /\ file.lines[pos].hex = "lower" /\ (file.lines[pos].text.start <=> c = 0)
         /\ file.lines[pos].mac =
              HMAC(DerivedKey(Identity, ChainID, next - 1), file.lines[pos].text,
                   IF c = 0 THEN Zero ELSE files[next][c].mac)
         /\ c = 0 => LET t == file.lines[pos].text
                     IN t.v = "2" /\ t.chain = ChainID /\ t.seq = next - 1
                        /\ t.prev = Predecessor(next - 1)
<1>1. file.lines = Shown(next) /\ c \in 0 .. Len(Whole(next)) /\ pos = c + 1
  BY DEF InWhole
<1>2. /\ Len(Whole(next)) \in Nat /\ Len(Shown(next)) \in Nat
      /\ Len(Shown(next)) >= Len(Whole(next))
  BY ShownShape, SeqShape
<1>3. c + 1 \in 1 .. Len(Whole(next)) /\ c \in Nat
  BY <1>1, <1>2
<1>4. PICK d : d = c + 1
  OBVIOUS
<1>5. d \in 1 .. Len(Whole(next))
  BY <1>3, <1>4
<1>6. /\ next \in 1 .. Len(files) /\ d \in 1 .. Len(files[next])
      /\ Shown(next)[d] = files[next][d] /\ Follows(files[next], next - 1, d)
      /\ Written(files[next], next - 1, Predecessor(next - 1))
  BY <1>5, WholeForm
<1>7. PICK l : l = files[next][d]
  OBVIOUS
<1>8. /\ l.form = "signed" /\ l.hex = "lower" /\ (l.text.start <=> d = 1)
      /\ l.mac = HMAC(DerivedKey(Identity, ChainID, next - 1), l.text,
                     IF d = 1 THEN Zero ELSE files[next][d - 1].mac)
  BY <1>6, <1>7, Zenon DEF Follows
<1>9. d = 1 => l.text.v = "2" /\ l.text.chain = ChainID /\ l.text.seq = next - 1
               /\ l.text.prev = Predecessor(next - 1)
  BY <1>6, <1>7, Zenon DEF Written
<1>10. file.lines[pos] = l /\ d - 1 = c /\ (d = 1 <=> c = 0)
  BY <1>1, <1>3, <1>4, <1>6, <1>7
<1>11. (IF d = 1 THEN Zero ELSE files[next][d - 1].mac) = (IF c = 0 THEN Zero ELSE files[next][c].mac)
  BY <1>10
<1>12. pos <= Len(file.lines) /\ Len(file.lines) \in Nat
  BY <1>1, <1>2, <1>3
<1> QED
  BY <1>1, <1>3, <1>4, <1>6, <1>7, <1>8, <1>9, <1>10, <1>11, <1>12, Zenon

\* A line that carries the right MAC is counted, and handed to OnLine.
LEMMA GoodLine ==
  ASSUME NEW closed, NEW c, NEW k, NEW prev, CheckMAC(closed, c, k, prev),
         Matches(file.lines[pos], HMAC(k, file.lines[pos].text, prev))
  PROVE  /\ key' = k /\ segments' = closed /\ prevMAC' = file.lines[pos].mac
         /\ cur' = Advanced(c, {file.lines[pos].mac}, c.count + 1, lineNum')
         /\ UNCHANGED <<phase, truncated, issues>>
         /\ calls' = calls \cup {[chain |-> c.chain, seq |-> c.seq, at |-> pos,
                                  line |-> c.count + 1, mac |-> file.lines[pos].mac]}
<1> DEFINE l == file.lines[pos]
           want == HMAC(k, l.text, prev)
<1>1. l.mac = want
  BY DEF Matches
<1>2. (IF Matches(l, want) THEN want ELSE Claimed(l, want)) = l.mac
  BY <1>1
<1> QED
  BY <1>1, <1>2 DEF CheckMAC, Continue

\* The call to OnLine for line c of file n.
CallOf(n, c) == [chain |-> ChainID, seq |-> n - 1, at |-> c, line |-> c, mac |-> files[n][c].mac]

\* One more whole line of the next file has been read.
LEMMA WholeLineIsRead ==
  ASSUME LogInv, next \in Nat \ {0}, keyFor = OwnKeys, file.source = Names[next],
         phase = "scan", ReplayStep, NEW c, Opened(c), InWhole(c), c < Len(Whole(next))
  PROVE  /\ UNCHANGED <<file, keyFor, phase, segments, issues, truncated>>
         /\ pos' = c + 2 /\ lineNum' = c + 1
         /\ SegmentOf(cur', next, c + 1)
         /\ key' = DerivedKey(Identity, ChainID, next - 1)
         /\ prevMAC' = files[next][c + 1].mac
         /\ calls' = calls \cup {CallOf(next, c + 1)}
<1> DEFINE l == file.lines[pos]
           k == DerivedKey(Identity, ChainID, next - 1)
<1>1. /\ pos = c + 1 /\ c \in Nat /\ pos <= Len(file.lines) /\ Len(file.lines) \in Nat
      /\ next \in 1 .. Len(files) /\ c + 1 \in 1 .. Len(files[next])
      /\ l = files[next][c + 1] /\ l.form = "signed"
      /\ l.hex = "lower" /\ (l.text.start <=> c = 0)
      /\ l.mac = HMAC(k, l.text, IF c = 0 THEN Zero ELSE files[next][c].mac)
      /\ c = 0 => l.text.v = "2" /\ l.text.chain = ChainID /\ l.text.seq = next - 1
                  /\ l.text.prev = Predecessor(next - 1)
  BY NextLine, Zenon
<1>2. lineNum = c /\ segments = {}
  BY DEF InWhole, Opened
<1>3. next - 1 \in Uint
  <2>1. seq \in Uint /\ Len(files) \in {seq, seq + 1}
    BY LogShape
  <2> QED
    BY <1>1, <2>1, WAssumption DEF Uint
<1>4. k # {} /\ keyFor[<<ChainID, next - 1>>] = k
  BY <1>3, OwnKeyOf
<1>5. CASE CheckLine
  <2>1. /\ Read({"signed"}) /\ ~l.text.start /\ lineNum' = lineNum + 1
        /\ CheckMAC(segments, cur, key, prevMAC)
    BY <1>5 DEF CheckLine
  <2>2. c # 0
    BY <1>1, <2>1
  <2>3. SegmentOf(cur, next, c) /\ key = k /\ prevMAC = files[next][c].mac
    BY <2>2 DEF Opened
  <2>4. Matches(l, HMAC(key, l.text, prevMAC))
    BY <1>1, <2>2, <2>3, Zenon DEF Matches
  <2>5. /\ key' = key /\ segments' = segments /\ prevMAC' = l.mac
        /\ cur' = Advanced(cur, {l.mac}, cur.count + 1, lineNum')
        /\ UNCHANGED <<phase, truncated, issues>>
        /\ calls' = calls \cup {[chain |-> cur.chain, seq |-> cur.seq, at |-> pos,
                                 line |-> cur.count + 1, mac |-> l.mac]}
    BY <2>1, <2>4, GoodLine
  <2>6. /\ cur.v = "2" /\ cur.chain = ChainID /\ cur.seq = next - 1
        /\ cur.prev = Predecessor(next - 1) /\ cur.source = Names[next] /\ cur.at = 1
        /\ cur.count = c
    BY <2>3, Zenon DEF SegmentOf
  <2>7. PICK d : d = cur'
    OBVIOUS
  <2>8. /\ d.v = "2" /\ d.chain = ChainID /\ d.seq = next - 1
        /\ d.prev = Predecessor(next - 1) /\ d.source = Names[next] /\ d.at = 1
        /\ d.count = c + 1 /\ d.final = {l.mac}
    BY <2>5, <2>6, <2>7 DEF Advanced
  <2>9. SegmentOf(cur', next, c + 1)
    BY <1>1, <2>7, <2>8, Zenon DEF SegmentOf
  <2>10. calls' = calls \cup {CallOf(next, c + 1)}
    BY <1>1, <2>5, <2>6 DEF CallOf
  <2>11. file' = file /\ keyFor' = keyFor /\ pos' = pos + 1
    BY <2>1 DEF Read, input
  <2>12. pos' = c + 2 /\ lineNum' = c + 1
    BY <1>1, <1>2, <2>1, <2>11
  <2> QED
    BY <1>1, <2>3, <2>5, <2>9, <2>10, <2>11, <2>12
<1>6. CASE StartSegment
  <2> DEFINE s  == NewSegment(l, pos, lineNum + 1)
             cl == segments \cup Present(Closed(cur, lineNum))
  <2>1. /\ Read({"signed"}) /\ l.text.start /\ lineNum' = lineNum + 1
        /\ \/ /\ keyFor[<<s.chain, s.seq>>] = {}
              /\ Report("nokey", cl, s, s)
              /\ key' = {} /\ prevMAC' = Zero /\ UNCHANGED calls
           \/ /\ keyFor[<<s.chain, s.seq>>] # {}
              /\ CheckMAC(cl, s, keyFor[<<s.chain, s.seq>>], Zero)
    BY <1>6 DEF StartSegment
  <2>2. c = 0 /\ pos = 1
    BY <1>1, <2>1
  <2>3. ParseUint(next - 1) = next - 1
    BY <1>3, WAssumption DEF ParseUint, Uint
  <2>4. /\ s.v = "2" /\ s.chain = ChainID /\ s.seq = next - 1
        /\ s.prev = Predecessor(next - 1) /\ s.source = Names[next] /\ s.at = 1
        /\ s.count = 0
    <3>1. PICK a : a = l
      OBVIOUS
    <3>2. /\ a.text.v = "2" /\ a.text.chain = ChainID /\ a.text.seq = next - 1
          /\ a.text.prev = Predecessor(next - 1)
      BY <1>1, <2>2, <3>1
    <3>3. s = NewSegment(a, 1, lineNum + 1)
      BY <2>2, <3>1
    <3>4. PICK b : b = NewSegment(a, 1, lineNum + 1)
      OBVIOUS
    <3>5. /\ b.v = "2" /\ b.chain = ChainID /\ b.seq = next - 1
          /\ b.prev = Predecessor(next - 1) /\ b.source = Names[next] /\ b.at = 1
          /\ b.count = 0
      BY <2>3, <3>2, <3>4 DEF NewSegment
    <3> QED
      BY <3>3, <3>4, <3>5
  <2>5. cl = {}
    <3>1. cur.at = 0
      BY <2>2 DEF Opened
    <3> QED
      BY <1>2, <3>1 DEF Present, Closed, Advanced
  <2> HIDE DEF s, cl
  <2>6. CheckMAC(cl, s, k, Zero)
    BY <1>4, <2>1, <2>4
  <2>7. Matches(l, HMAC(k, l.text, Zero))
    BY <1>1, <2>2, Zenon DEF Matches
  <2>8. /\ key' = k /\ segments' = cl /\ prevMAC' = l.mac
        /\ cur' = Advanced(s, {l.mac}, s.count + 1, lineNum')
        /\ UNCHANGED <<phase, truncated, issues>>
        /\ calls' = calls \cup {[chain |-> s.chain, seq |-> s.seq, at |-> pos,
                                 line |-> s.count + 1, mac |-> l.mac]}
    BY <2>6, <2>7, GoodLine
  <2>9. PICK d : d = cur'
    OBVIOUS
  <2>10. /\ d.v = "2" /\ d.chain = ChainID /\ d.seq = next - 1
         /\ d.prev = Predecessor(next - 1) /\ d.source = Names[next] /\ d.at = 1
         /\ d.count = c + 1 /\ d.final = {l.mac}
    BY <2>2, <2>4, <2>8, <2>9 DEF Advanced
  <2>11. SegmentOf(cur', next, c + 1)
    BY <1>1, <2>9, <2>10, Zenon DEF SegmentOf
  <2>12. calls' = calls \cup {CallOf(next, c + 1)}
    BY <1>1, <2>2, <2>4, <2>8 DEF CallOf
  <2>13. file' = file /\ keyFor' = keyFor /\ pos' = pos + 1
    BY <2>1 DEF Read, input
  <2>14. pos' = c + 2 /\ lineNum' = c + 1
    BY <1>1, <1>2, <2>1, <2>13
  <2> QED
    BY <1>1, <1>2, <2>5, <2>8, <2>11, <2>12, <2>13, <2>14
<1>7. ~SkipBlank /\ ~SkipUnsigned /\ ~RejectLine
  BY <1>1 DEF SkipBlank, SkipUnsigned, RejectLine, Read
<1>8. ~Orphan /\ ~KeylessLine
  <2>1. ~l.text.start => cur.at = 1 /\ key = k
    <3>1. ~l.text.start => c # 0
      BY <1>1
    <3> QED
      BY <3>1 DEF Opened, SegmentOf
  <2> QED
    BY <1>4, <2>1 DEF Orphan, KeylessLine
<1>9. ~EndOfInput
  <2>1. EndOfInput => pos > Len(file.lines)
    BY Zenon DEF EndOfInput
  <2> QED
    BY <1>1, <2>1
<1> QED
  BY <1>5, <1>6, <1>7, <1>8, <1>9 DEF ReplayStep

\* All that can be read of a file is enough.
LEMMA AllIsEnough ==
  ASSUME LogInv, AskedInv, PathsInv, next \in Nat \ {0}, next <= Len(paths)
  PROVE  LET c == Len(Whole(next))
         IN  /\ c \in Nat /\ Enough(next, c)
             /\ c = 0 => Empty(next)
             /\ torn # "whole" /\ next = seq + 1 => next = Len(paths)
<1>1. /\ seq \in Nat /\ Len(files) \in {seq, seq + 1} /\ Count \in {seq, seq + 1}
  BY LogShape
<1>2. /\ IsSeq(asked) /\ Len(asked) \in 1 .. Len(files)
      /\ \A n \in 1 .. Len(asked) : Len(asked[n]) \in 1 .. Len(files[n])
  BY DEF AskedInv
<1>3. Len(paths) \in Len(asked) .. Count /\ Len(paths) \in Nat /\ Len(asked) \in Nat
  BY <1>2, SeqShape DEF PathsInv
<1>4. /\ next <= Len(files) => Whole(next) = files[next] /\ Len(files[next]) \in Nat \ {0}
      /\ next > Len(files) => Len(Whole(next)) = 0
      /\ Len(Whole(next)) \in Nat
  BY ShownShape
<1>5. Enough(next, Len(Whole(next)))
  <2>1. next <= Len(asked) => Len(Whole(next)) >= Len(asked[next])
    <3> SUFFICES ASSUME next <= Len(asked) PROVE Len(Whole(next)) >= Len(asked[next])
      OBVIOUS
    <3>1. next \in 1 .. Len(asked) /\ next <= Len(files)
      BY <1>1, <1>2, <1>3
    <3>2. Len(asked[next]) \in 1 .. Len(files[next]) /\ Len(files[next]) \in Nat
      BY <1>2, <1>4, <3>1
    <3> QED
      BY <1>4, <3>1, <3>2
  <2>2. next < Len(paths) => Len(Whole(next)) = Len(files[next])
    <3>1. next < Len(paths) => next <= Len(files)
      BY <1>1, <1>3
    <3> QED
      BY <1>4, <3>1
  <2> QED
    BY <2>1, <2>2 DEF Enough
<1>6. Len(Whole(next)) = 0 => Empty(next)
  <2>1. Len(Whole(next)) = 0 => next > Len(files)
    BY <1>1, <1>4
  <2> QED
    BY <1>1, <1>2, <1>3, <2>1 DEF Empty
<1>7. next = seq + 1 => next = Len(paths)
  BY <1>1, <1>3
<1> QED
  BY <1>4, <1>5, <1>6, <1>7, Zenon

\* The line that is being written is passed over, or reported.
LEMMA TornLineIsRead ==
  ASSUME LogInv, AskedInv, PathsInv, next \in Nat \ {0}, next <= Len(paths),
         file.source = Names[next], phase = "scan", opt \in Options,
         ReplayStep, NEW c, c = Len(Whole(next)), Opened(c), InWhole(c), Len(Shown(next)) = c + 1
  PROVE  /\ UNCHANGED <<file, keyFor, prevMAC, key, calls>>
         /\ pos' = c + 2 /\ lineNum' = c + 1 /\ next = Len(paths)
         /\ Len(file.lines) = c + 1 /\ file.lines[c + 1].form \in TornForms
         /\ \A i \in issues' : Excused(i)
         /\ \/ phase' = "scan" /\ UNCHANGED <<segments, cur, truncated>>
            \/ /\ phase' = "done" /\ opt.stopOnFirst
               /\ segments' = Present(Closed(cur, lineNum'))
<1>1. file.lines = Shown(next) /\ pos = c + 1 /\ lineNum = c /\ issues = {} /\ c \in Nat
  BY ShownShape DEF InWhole
<1>2. /\ torn # "whole" /\ next = seq + 1 /\ Shown(next)[c + 1] = TornLine
  <2>1. \/ Len(Shown(next)) = Len(Whole(next))
        \/ /\ Len(Shown(next)) = Len(Whole(next)) + 1 /\ next = seq + 1 /\ torn # "whole"
           /\ Shown(next)[Len(Whole(next)) + 1] = TornLine
    BY ShownShape, Zenon
  <2> QED
    BY <1>1, <2>1
<1>3. next = Len(paths) /\ Enough(next, c)
  BY <1>2, AllIsEnough
<1>4. PICK l : l = file.lines[pos]
  OBVIOUS
<1>5. l.form \in TornForms /\ l = file.lines[c + 1]
  BY <1>1, <1>2, <1>4, TornForm
<1>6. pos <= Len(file.lines) /\ Len(file.lines) = c + 1
  BY <1>1
<1>7. segments = {} /\ truncated = FALSE
  BY DEF Opened
<1>8. CASE SkipUnsigned
  <2>1. /\ UNCHANGED <<file, keyFor, prevMAC, key, calls, phase, segments, cur, truncated, issues>>
        /\ pos' = pos + 1 /\ lineNum' = lineNum + 1
    BY <1>8 DEF SkipUnsigned, Read, input
  <2> QED
    BY <1>1, <1>3, <1>5, <1>6, <2>1
<1>9. CASE RejectLine
  <2>1. /\ UNCHANGED <<file, opt, keyFor, prevMAC, key, calls>>
        /\ pos' = pos + 1 /\ lineNum' = lineNum + 1
        /\ Report(l.form, segments, cur, cur)
    BY <1>4, <1>9 DEF RejectLine, Read, input
  <2>2. pos' = c + 2 /\ lineNum' = c + 1
    BY <1>1, <2>1
  <2>3. issues' = {Issue(lineNum', pos, l.form)}
    BY <1>1, <2>1 DEF Report
  <2>4. Excused(Issue(lineNum', pos, l.form))
    <3>1. PICK i : i = Issue(lineNum', pos, l.form)
      OBVIOUS
    <3>2. i.source = Names[next] /\ i.at = pos /\ i.reason = l.form
      BY <3>1 DEF Issue
    <3>3. Len(paths) = Len(asked) => i.at > Len(asked[Len(asked)])
      <4>1. Len(paths) = Len(asked) => c >= Len(asked[Len(asked)])
        BY <1>3 DEF Enough
      <4>2. Len(asked[Len(asked)]) \in Nat
        <5>1. IsSeq(asked) /\ Len(asked) \in 1 .. Len(files)
          BY DEF AskedInv
        <5>2. Len(asked) \in 1 .. Len(asked)
          BY <5>1, SeqShape
        <5>3. Len(asked[Len(asked)]) \in 1 .. Len(files[Len(asked)])
          BY <5>2 DEF AskedInv
        <5> QED
          BY <5>3
      <4> QED
        BY <1>1, <3>2, <4>1, <4>2
    <3>4. i.source = NewestListed /\ i.reason \in {"nobrace", "nomac"}
      BY <1>3, <1>5, <3>2 DEF NewestListed, TornForms
    <3>5. Excused(i)
      BY <3>3, <3>4, Zenon DEF Excused
    <3> QED
      BY <3>1, <3>5
  <2>5. \A i \in issues' : Excused(i)
    BY <2>3, <2>4
  <2>6. \/ phase' = "scan" /\ UNCHANGED <<segments, cur, truncated>>
        \/ /\ phase' = "done" /\ opt.stopOnFirst
           /\ segments' = Present(Closed(cur, lineNum'))
    BY <1>7, <2>1 DEF Report, Stop, Continue
  <2> QED
    BY <1>3, <1>5, <1>6, <2>1, <2>2, <2>5, <2>6
<1>10. ~EndOfInput
  <2>1. EndOfInput => pos > Len(file.lines)
    BY Zenon DEF EndOfInput
  <2> QED
    BY <1>1, <1>6, <2>1
<1>11. ~SkipBlank /\ ~Orphan /\ ~KeylessLine /\ ~CheckLine /\ ~StartSegment
  BY <1>4, <1>5 DEF SkipBlank, Orphan, KeylessLine, CheckLine, StartSegment, Read, TornForms
<1> QED
  BY <1>8, <1>9, <1>10, <1>11 DEF ReplayStep

\* The input is at its end.
LEMMA EndIsMet ==
  ASSUME pos > Len(file.lines), pos \in Nat, Len(file.lines) \in Nat, file.err = FALSE, ReplayStep,
         NEW c, Opened(c)
  PROVE  /\ UNCHANGED <<file, keyFor, calls>>
         /\ phase' = "done" /\ segments' = Present(cur)
         /\ \A i \in issues' : \/ i \in issues
                               \/ /\ lineNum = 0
                                  /\ i.source = file.source /\ i.reason = "no lines"
<1>1. EndOfInput
  <2>1. ~SkipBlank /\ ~SkipUnsigned /\ ~RejectLine /\ ~Orphan /\ ~KeylessLine /\ ~CheckLine
        /\ ~StartSegment
    BY DEF SkipBlank, SkipUnsigned, RejectLine, Orphan, KeylessLine, CheckLine, StartSegment, Read
  <2> QED
    BY <2>1 DEF ReplayStep
<1>2. segments = {}
  BY DEF Opened
<1>3. issues' = issues \cup (IF lineNum = 0 THEN {Issue(0, 0, "no lines")} ELSE {})
  BY <1>1 DEF EndOfInput
<1>4. UNCHANGED <<file, keyFor, calls>> /\ phase' = "done" /\ segments' = segments \cup Present(cur)
  BY <1>1, Zenon DEF EndOfInput
<1>5. ASSUME NEW i \in issues', i \notin issues
      PROVE  lineNum = 0 /\ i.source = file.source /\ i.reason = "no lines"
  <2>1. lineNum = 0 /\ i = Issue(0, 0, "no lines")
    BY <1>3, <1>5
  <2> QED
    BY <2>1 DEF Issue
<1> QED
  BY <1>2, <1>4, <1>5

\* The segment of what has been read, once the file is at its end.
LEMMA SegmentTold ==
  ASSUME AskedInv, next \in Nat \ {0}, next <= Len(paths), Len(paths) \in Nat,
         NEW c \in Nat, Opened(c), Enough(next, c), c = 0 => next = Len(paths),
         NEW d, d = cur \/ \E last : d = Closed(cur, last)
  PROVE  \/ Present(d) = {} /\ Empty(next)
         \/ \E s \in Present(d) : Present(d) = {s} /\ SegmentOf(s, next, s.count) /\ Enough(next, s.count)
<1>1. CASE c = 0
  <2>1. d.at = 0
    BY <1>1 DEF Opened, Closed, Advanced
  <2>2. ~(next <= Len(asked))
    <3> SUFFICES ASSUME next <= Len(asked) PROVE FALSE
      OBVIOUS
    <3>1. IsSeq(asked) /\ Len(asked[next]) \in 1 .. Len(files[next])
      <4>1. IsSeq(asked) /\ \A n \in 1 .. Len(asked) : Len(asked[n]) \in 1 .. Len(files[n])
        BY DEF AskedInv
      <4>2. next \in 1 .. Len(asked)
        BY <4>1, SeqShape
      <4> QED
        BY <4>1, <4>2
    <3>2. 0 >= Len(asked[next])
      BY <1>1 DEF Enough
    <3> QED
      BY <3>1, <3>2
  <2>3. Empty(next)
    <3>1. Len(asked) \in Nat
      BY SeqShape DEF AskedInv
    <3> QED
      BY <1>1, <2>2, <3>1 DEF Empty
  <2> QED
    BY <2>1, <2>3 DEF Present
<1>2. CASE c # 0
  <2>1. SegmentOf(cur, next, c)
    BY <1>2 DEF Opened
  <2>2. /\ d.v = cur.v /\ d.chain = cur.chain /\ d.seq = cur.seq /\ d.prev = cur.prev
        /\ d.source = cur.source /\ d.at = cur.at /\ d.count = cur.count /\ d.final = cur.final
    BY DEF Closed, Advanced
  <2>3. SegmentOf(d, next, c) /\ d.count = c /\ d.at = 1
    BY <2>1, <2>2, Zenon DEF SegmentOf
  <2>4. Present(d) = {d}
    BY <2>3 DEF Present
  <2> QED
    BY <2>3, <2>4
<1> QED
  BY <1>1, <1>2

\* One more line of the next file is read, or its end is met.
LEMMA ReplayKeepsLive ==
  ASSUME LiveInv, Auditing, Verifying, ReplayFile
  PROVE  LiveInv'
<1>1. stage = "replay" /\ ReplayStep /\ UNCHANGED <<paths, stage, next, result>>
  BY DEF ReplayFile, dirVars
<1>2. /\ PathsInv /\ ResultInv /\ CapturedInv /\ next \in Nat \ {0} /\ Len(paths) \in Nat
      /\ keyFor = OwnKeys
  BY <1>1, ReadingFacts
<1>3. /\ Still /\ LogInv /\ AskedInv /\ OwnQuestion /\ GrowingFile
  BY <1>1, AuditingStill DEF AuditInv
<1>4. phase = "scan"
  BY <1>1 DEF ReplayStep, SkipBlank, SkipUnsigned, RejectLine, Orphan, KeylessLine, CheckLine,
              StartSegment, EndOfInput, Read
<1>5. /\ next <= Len(paths) /\ file.source = Names[next] /\ file.err = FALSE
      /\ file = [source |-> file.source, lines |-> file.lines, err |-> file.err]
  BY <1>3 DEF GrowingFile
<1>6. PICK c : Opened(c) /\ (InWhole(c) \/ PastTorn(c))
  BY <1>3, <1>4 DEF GrowingFile
<1>7. PICK m : m = next /\ m \in Nat \ {0}
  BY <1>2
<1>8. /\ \A s, n, d : SegmentOf(s, n, d)' <=> SegmentOf(s, n, d)
      /\ \A n, d : Enough(n, d)' <=> Enough(n, d)
      /\ \A i : Excused(i)' <=> Excused(i)
      /\ \A n : Empty(n)' <=> Empty(n)
      /\ \A n : Shown(n)' = Shown(n) /\ Whole(n)' = Whole(n)
  BY <1>1, <1>3, StillSame
<1>9. ResultInv'
  <2>1. /\ IsFiniteSet(result.segments)
        /\ \A s, t \in result.segments : s.seq = t.seq => s = t
        /\ \A s \in result.segments :
             \E n \in 1 .. next - 1 : SegmentOf(s, n, s.count)' /\ Enough(n, s.count)'
        /\ \A n \in 1 .. next - 1 :
             Names[n] \in gone' \/ Empty(n)' \/ \E s \in result.segments : s.seq = n - 1
        /\ \A j \in result.issues : Excused(j)'
    BY <1>1, <1>2, <1>3, BeforeStays
  <2> QED
    BY <1>1, <1>2, <2>1, Zenon DEF ResultInv
<1>10. UNCHANGED <<command, anchor, gone, opt>> /\ Capture
  BY <1>3 DEF Still, Verifying
<1>11. command = "anchor" =>
         /\ AnchorAsked /\ anchor.record.seq \in Nat /\ anchor.record.lineCount \in Nat \ {0}
         /\ anchor.record.chain = ChainID /\ Commits(anchor.record)
         /\ opt.stopOnFirst = FALSE
  <2> SUFFICES ASSUME command = "anchor"
               PROVE  /\ AnchorAsked /\ anchor.record.seq \in Nat
                      /\ anchor.record.lineCount \in Nat \ {0}
                      /\ anchor.record.chain = ChainID /\ Commits(anchor.record)
                      /\ opt.stopOnFirst = FALSE
    OBVIOUS
  <2>1. AnchorAsked /\ pubKey = OwnPublicKey /\ keyArg = OwnIdentity
        /\ opt = [allowUnsigned |-> FALSE, stopOnFirst |-> FALSE]
    BY <1>3 DEF OwnQuestion
  <2>2. opt.stopOnFirst = FALSE
    BY <2>1
  <2> QED
    BY <1>3, <2>1, <2>2, OwnAnchor
<1>12. ASSUME calls' = calls, command = "anchor" /\ CaptureDone' => CaptureDone
       PROVE  CapturedInv'
  <2>1. reached' = reached
    BY <1>10, <1>12, NoCallNoCapture
  <2> QED
    BY <1>2, <1>10, <1>12, <2>1 DEF CapturedInv
<1>13. ASSUME NEW d \in Nat, Opened(d), Enough(next, d), phase' = "done", calls' = calls
       PROVE  CapturedInv'
  <2> SUFFICES ASSUME command = "anchor", CaptureDone' PROVE CaptureDone
    BY <1>12, <1>13
  <2>1. CASE next > anchor.record.seq + 1 /\ Names[anchor.record.seq + 1] \notin gone
    BY <2>1 DEF CaptureDone
  <2>2. CASE next = anchor.record.seq + 1
    <3>1. next \in 1 .. Len(asked) /\ Len(asked[next]) \in Nat
          /\ anchor.record.lineCount \in 1 .. Len(asked[next])
      <4>1. next \in DOMAIN asked /\ anchor.record.lineCount \in 1 .. Len(asked[next])
        BY <1>11, <2>2 DEF AnchorAsked
      <4>2. DOMAIN asked = 1 .. Len(asked) /\ Len(asked) \in Nat
        BY <1>3, SeqShape DEF AskedInv
      <4>3. Len(asked[next]) \in 1 .. Len(files[next])
        BY <1>3, <4>1, <4>2 DEF AskedInv
      <4> QED
        BY <4>1, <4>2, <4>3
    <3>2. d >= Len(asked[next])
      <4>1. next <= Len(asked)
        BY <3>1
      <4> QED
        BY <1>13, <4>1 DEF Enough
    <3>3. d >= anchor.record.lineCount /\ d # 0
      BY <1>11, <1>13, <3>1, <3>2
    <3>4. cur.count = d
      BY <1>13, <3>3 DEF Opened, SegmentOf
    <3> QED
      BY <1>1, <2>2, <3>3, <3>4 DEF CaptureDone
  <2>3. \/ next > anchor.record.seq + 1 /\ Names[anchor.record.seq + 1] \notin gone
        \/ next = anchor.record.seq + 1
    BY <1>1, <1>10 DEF CaptureDone
  <2> QED
    BY <2>1, <2>2, <2>3
<1>14. ASSUME NEW d \in Nat, Opened(d), Enough(next, d), d = 0 => next = Len(paths),
              NEW e, e = cur \/ (\E last : e = Closed(cur, last)),
              segments' = Present(e), phase' = "done", UNCHANGED <<file, keyFor>>,
              \A i \in issues' : Excused(i), CapturedInv'
       PROVE  LiveInv'
  <2>1. \/ Present(e) = {} /\ Empty(next)
        \/ \E s \in Present(e) : Present(e) = {s} /\ SegmentOf(s, next, s.count) /\ Enough(next, s.count)
    BY <1>2, <1>3, <1>5, <1>14, SegmentTold
  <2>2. \/ Present(e) = {} /\ Empty(m)'
        \/ \E s \in Present(e) : /\ Present(e) = {s} /\ SegmentOf(s, m, s.count)'
                                 /\ Enough(m, s.count)'
    BY <1>7, <1>8, <2>1, Zenon
  <2>3. /\ Empty(m)' => Empty(next)'
        /\ \A s : /\ SegmentOf(s, m, s.count)' => SegmentOf(s, next, s.count)'
                  /\ Enough(m, s.count)' => Enough(next, s.count)'
    BY <1>1, <1>7, Zenon DEF Empty, SegmentOf, Enough
  <2>4. \A i \in issues' : Excused(i)'
    BY <1>8, <1>14, Zenon
  <2>5. Told'
    BY <1>14, <2>2, <2>3, <2>4, Zenon DEF Told
  <2>6. GrowingFile'
    BY <1>1, <1>5, <1>14, <2>5 DEF GrowingFile
  <2> QED
    BY <1>1, <1>9, <1>14, <2>6, PassIsEnough
<1>15. CASE PastTorn(c)
  <2>1. /\ c \in Nat /\ Len(file.lines) = c + 1 /\ pos = c + 2 /\ lineNum = c + 1
        /\ next = Len(paths) /\ Enough(next, c) /\ \A i \in issues : Excused(i)
    BY <1>15 DEF PastTorn
  <2>2. pos > Len(file.lines) /\ pos \in Nat /\ Len(file.lines) \in Nat /\ lineNum # 0
    BY <2>1
  <2>3. /\ UNCHANGED <<file, keyFor, calls>> /\ phase' = "done" /\ segments' = Present(cur)
        /\ \A i \in issues' : i \in issues
    BY <1>1, <1>5, <1>6, <2>2, EndIsMet
  <2>4. \A i \in issues' : Excused(i)
    BY <2>1, <2>3
  <2>5. CapturedInv'
    BY <1>6, <1>13, <2>1, <2>3
  <2> QED
    BY <1>6, <1>14, <2>1, <2>3, <2>4, <2>5
<1>16. CASE InWhole(c)
  <2>1. /\ file.lines = Shown(next) /\ c \in 0 .. Len(Whole(next))
        /\ pos = c + 1 /\ lineNum = c /\ issues = {}
    BY <1>16 DEF InWhole
  <2>2. /\ Len(Whole(next)) \in Nat /\ IsSeq(Shown(next))
        /\ \/ Len(Shown(next)) = Len(Whole(next))
           \/ Len(Shown(next)) = Len(Whole(next)) + 1
    BY <1>2, <1>3, ShownShape
  <2>3. c \in Nat /\ Len(Shown(next)) \in Nat
    BY <2>1, <2>2, SeqShape
  <2>4. CASE c < Len(Whole(next))
    <3>1. /\ UNCHANGED <<file, keyFor, phase, segments, issues, truncated>>
          /\ pos' = c + 2 /\ lineNum' = c + 1
          /\ SegmentOf(cur', next, c + 1)
          /\ key' = DerivedKey(Identity, ChainID, next - 1)
          /\ prevMAC' = files[next][c + 1].mac
          /\ calls' = calls \cup {CallOf(next, c + 1)}
      BY <1>1, <1>2, <1>3, <1>4, <1>5, <1>6, <1>16, <2>4, WholeLineIsRead
    <3>2. segments = {} /\ truncated = FALSE /\ \A q \in calls : q.at \in 1 .. c
      BY <1>6 DEF Opened
    <3>3. PICK d : d = c + 1 /\ d \in Nat \ {0}
      BY <2>3
    <3>4. SegmentOf(cur, m, d)'
      <4>1. PICK s : s = cur'
        OBVIOUS
      <4>2. SegmentOf(s, m, d)
        BY <1>7, <3>1, <3>3, <4>1
      <4>3. SegmentOf(s, m, d)'
        BY <1>8, <4>2
      <4> QED
        BY <4>1, <4>3, Zenon DEF SegmentOf, Predecessor, Closing
    <3>5. \A q \in calls' : q.at \in 1 .. d
      <4>1. CallOf(next, c + 1).at = d
        BY <3>3 DEF CallOf
      <4>2. ASSUME NEW q \in calls' PROVE q.at \in 1 .. d
        <5>1. CASE q \in calls
          <6>1. q.at \in 1 .. c
            BY <3>2, <5>1
          <6> QED
            BY <2>3, <3>3, <6>1
        <5>2. CASE q = CallOf(next, c + 1)
          BY <3>3, <4>1, <5>2
        <5> QED
          BY <3>1, <5>1, <5>2
      <4> QED
        BY <4>2
    <3>6. Opened(d)'
      <4>1. files' = files /\ next' = next
        BY <1>1, <1>3 DEF Still
      <4>2. SegmentOf(cur, next, d)'
        BY <1>1, <1>7, <3>4, Zenon DEF SegmentOf
      <4>3. /\ segments' = {} /\ truncated' = FALSE
            /\ key' = DerivedKey(Identity, ChainID, next' - 1)
            /\ prevMAC' = files'[next'][d].mac
        BY <3>1, <3>2, <3>3, <4>1
      <4> QED
        BY <3>3, <3>5, <4>2, <4>3 DEF Opened
    <3>7. InWhole(d)'
      <4>1. Shown(next)' = Shown(next) /\ Whole(next)' = Whole(next)
        <5>1. Shown(m)' = Shown(m) /\ Whole(m)' = Whole(m)
          BY <1>8
        <5>2. Shown(next)' = Shown(m)' /\ Whole(next)' = Whole(m)'
          BY <1>1, <1>7, Zenon DEF Shown, Whole
        <5> QED
          BY <1>7, <5>1, <5>2
      <4>2. d \in 0 .. Len(Whole(next))
        BY <2>1, <2>2, <2>4, <3>3
      <4>3. pos' = d + 1 /\ lineNum' = d /\ issues' = {} /\ file'.lines = Shown(next)
        BY <2>1, <2>3, <3>1, <3>3
      <4> QED
        BY <4>1, <4>2, <4>3 DEF InWhole
    <3>8. GrowingFile'
      <4>1. d \in 0 .. lineNum'
        BY <3>1, <3>3
      <4>2. phase' = "scan" /\ next' <= Len(paths)' /\ file' = file /\ Names[next'] = Names[next]
        BY <1>1, <1>4, <1>5, <3>1
      <4> QED
        BY <1>5, <3>6, <3>7, <4>1, <4>2 DEF GrowingFile
    <3>9. CapturedInv'
      <4>1. CASE command # "anchor"
        <5>1. reached' = reached
          BY <1>10, <4>1 DEF Capture
        <5> QED
          BY <1>2, <1>10, <4>1, <5>1 DEF CapturedInv
      <4>2. CASE command = "anchor"
        <5> DEFINE hit == next - 1 = anchor.record.seq /\ d = anchor.record.lineCount
                   call == CallOf(next, c + 1)
                   hits == {q \in calls' \ calls : /\ command = "anchor"
                                                   /\ q.chain = anchor.record.chain
                                                   /\ q.seq = anchor.record.seq
                                                   /\ q.line = anchor.record.lineCount}
        <5>1. /\ call.chain = ChainID /\ call.seq = next - 1 /\ call.at = d /\ call.line = d
              /\ call.mac = files[next][d].mac
          BY <3>3 DEF CallOf
        <5>2. call \notin calls
          <6> SUFFICES ASSUME call \in calls PROVE FALSE
            OBVIOUS
          <6>1. call.at \in 1 .. c
            BY <3>2
          <6> QED
            BY <2>3, <3>3, <5>1, <6>1
        <5> HIDE DEF call
        <5>3. calls' \ calls = {call}
          BY <3>1, <5>2 DEF call
        <5>4. reached' = IF hits = {} THEN reached ELSE {q.mac : q \in hits}
          BY <1>10, Zenon DEF Capture
        <5>5. CASE hit
          <6>1. hits = {call}
            BY <1>11, <4>2, <5>1, <5>3, <5>5
          <6>2. reached' = {files[next][d].mac}
            BY <5>1, <5>4, <6>1
          <6>3. files[next][d].mac = anchor.record.mac
            <7>1. anchor.record.mac = files[anchor.record.seq + 1][anchor.record.lineCount].mac
              BY <1>11, <4>2 DEF Commits
            <7>2. anchor.record.seq + 1 = next
              BY <1>2, <1>11, <4>2, <5>5
            <7> QED
              BY <5>5, <7>1, <7>2
          <6>4. reached' = {anchor.record.mac}
            BY <6>2, <6>3
          <6> QED
            BY <1>10, <4>2, <6>4 DEF CapturedInv
        <5>6. CASE ~hit
          <6>1. hits = {}
            BY <5>1, <5>3, <5>6
          <6>2. reached' = reached
            BY <5>4, <6>1
          <6>3. CaptureDone' => CaptureDone
            <7> SUFFICES ASSUME CaptureDone' PROVE CaptureDone
              OBVIOUS
            <7>1. \/ next > anchor.record.seq + 1 /\ Names[anchor.record.seq + 1] \notin gone
                  \/ next = anchor.record.seq + 1 /\ cur'.count >= anchor.record.lineCount
              BY <1>1, <1>4, <1>10, <3>1 DEF CaptureDone
            <7>2. CASE next = anchor.record.seq + 1 /\ cur'.count >= anchor.record.lineCount
              <8>1. cur'.count = d
                BY <3>1, <3>3 DEF SegmentOf
              <8>2. d # anchor.record.lineCount
                BY <1>11, <4>2, <5>6, <7>2
              <8>3. c >= anchor.record.lineCount /\ c # 0
                BY <1>11, <2>3, <3>3, <4>2, <7>2, <8>1, <8>2
              <8>4. cur.count = c
                BY <1>6, <8>3 DEF Opened, SegmentOf
              <8> QED
                BY <1>1, <7>2, <8>3, <8>4 DEF CaptureDone
            <7> QED
              BY <7>1, <7>2 DEF CaptureDone
          <6> QED
            BY <1>2, <1>10, <4>2, <6>2, <6>3 DEF CapturedInv
        <5> QED
          BY <5>5, <5>6
      <4> QED
        BY <4>1, <4>2
    <3> QED
      BY <1>1, <1>9, <3>1, <3>8, <3>9, PassIsEnough
  <2>5. CASE c = Len(Whole(next)) /\ Len(Shown(next)) = c + 1
    <3>1. /\ UNCHANGED <<file, keyFor, prevMAC, key, calls>>
          /\ pos' = c + 2 /\ lineNum' = c + 1 /\ next = Len(paths)
          /\ Len(file.lines) = c + 1 /\ file.lines[c + 1].form \in TornForms
          /\ \A i \in issues' : Excused(i)
          /\ \/ phase' = "scan" /\ UNCHANGED <<segments, cur, truncated>>
             \/ /\ phase' = "done" /\ opt.stopOnFirst
                /\ segments' = Present(Closed(cur, lineNum'))
      <4>1. opt \in Options
        BY <1>3 DEF OwnQuestion
      <4> QED
        BY <1>1, <1>2, <1>3, <1>4, <1>5, <1>6, <1>16, <2>5, <4>1, TornLineIsRead
    <3>2. Enough(next, c)
      BY <1>2, <1>3, <1>5, <2>5, AllIsEnough
    <3>3. CASE phase' = "done"
      <4>1. command # "anchor"
        BY <1>4, <1>11, <3>1, <3>3
      <4>2. CapturedInv'
        BY <1>12, <3>1, <4>1
      <4>3. segments' = Present(Closed(cur, lineNum')) /\ \E last : Closed(cur, lineNum') = Closed(cur, last)
        BY <1>4, <3>1, <3>3
      <4>4. PICK e : e = Closed(cur, lineNum')
        OBVIOUS
      <4>5. segments' = Present(e) /\ \E last : e = Closed(cur, last)
        BY <4>3, <4>4
      <4> QED
        BY <1>6, <1>14, <2>3, <3>1, <3>2, <3>3, <4>2, <4>5
    <3>4. CASE phase' = "scan" /\ UNCHANGED <<segments, cur, truncated>>
      <4>1. CaptureDone' => CaptureDone
        BY <1>1, <1>4, <1>10, <3>4 DEF CaptureDone
      <4>2. CapturedInv'
        BY <1>12, <3>1, <4>1
      <4>3. Opened(c)'
        <5>1. /\ segments' = segments /\ truncated' = truncated /\ cur' = cur /\ key' = key
              /\ prevMAC' = prevMAC /\ calls' = calls /\ next' = next /\ files' = files
          BY <1>1, <1>3, <3>1, <3>4 DEF Still
        <5>2. SegmentOf(cur, next, c) => SegmentOf(cur, next, c)'
          BY <5>1, Zenon DEF SegmentOf, Predecessor, Closing
        <5> QED
          BY <1>6, <5>1, <5>2 DEF Opened
      <4>4. PastTorn(c)'
        <5>1. Enough(next, c)'
          <6>1. Enough(m, c)'
            BY <1>7, <1>8, <3>2, Zenon
          <6> QED
            BY <1>1, <1>7, <6>1, Zenon DEF Enough
        <5>2. \A i \in issues' : Excused(i)'
          BY <1>8, <3>1, Zenon
        <5>3. file' = file /\ next' = Len(paths')
          BY <1>1, <3>1
        <5> QED
          BY <2>3, <3>1, <5>1, <5>2, <5>3 DEF PastTorn
      <4>5. GrowingFile'
        <5>1. c \in 0 .. lineNum'
          BY <2>3, <3>1
        <5>2. next' <= Len(paths)' /\ file' = file /\ Names[next'] = Names[next]
          BY <1>1, <1>5, <3>1
        <5> QED
          BY <1>5, <3>4, <4>3, <4>4, <5>1, <5>2 DEF GrowingFile
      <4> QED
        BY <1>1, <1>9, <3>1, <4>2, <4>5, PassIsEnough
    <3> QED
      BY <3>1, <3>3, <3>4
  <2>6. CASE c = Len(Whole(next)) /\ Len(Shown(next)) = c
    <3>1. pos > Len(file.lines) /\ pos \in Nat /\ Len(file.lines) \in Nat
      BY <2>1, <2>3, <2>6
    <3>2. /\ UNCHANGED <<file, keyFor, calls>> /\ phase' = "done" /\ segments' = Present(cur)
          /\ \A i \in issues' : \/ i \in issues
                                \/ /\ lineNum = 0
                                   /\ i.source = file.source /\ i.reason = "no lines"
      BY <1>1, <1>5, <1>6, <3>1, EndIsMet
    <3>3. Enough(next, c) /\ (c = 0 => Empty(next))
      BY <1>2, <1>3, <1>5, <2>6, AllIsEnough
    <3>4. ASSUME NEW i \in issues' PROVE Excused(i)
      <4>1. c = 0 /\ i.source = Names[next] /\ i.reason = "no lines"
        BY <1>5, <2>1, <3>2, <3>4
      <4>2. next = Len(paths) /\ Len(paths) > Len(asked)
        BY <3>3, <4>1 DEF Empty
      <4> QED
        BY <4>1, <4>2 DEF Excused, NewestListed
    <3>5. CapturedInv'
      BY <1>6, <1>13, <2>3, <3>2, <3>3
    <3>6. c = 0 => next = Len(paths)
      BY <3>3 DEF Empty
    <3> QED
      BY <1>6, <1>14, <2>3, <3>2, <3>3, <3>4, <3>5, <3>6
  <2> QED
    BY <2>1, <2>2, <2>3, <2>4, <2>5, <2>6
<1> QED
  BY <1>6, <1>15, <1>16

-----------------------------------------------------------------------------
(* The whole run.                                                          *)

\* No step of the command proves it wrong.
LEMMA AuditingKeeps == ASSUME LiveInv, Auditing PROVE LiveInv'
<1>1. AuditInv
  BY AuditingStill
<1>2. target = Directory
  BY <1>1 DEF AuditInv, OwnQuestion
<1>3. CommandStep \/ PassOver \/ NothingFound
  BY DEF Auditing
<1>8. CASE PassOver \/ NothingFound
  BY <1>8, PassOverKeepsLive, NothingFoundKeepsLive
<1>4. ~OpenTarget /\ ~FileReturns
  BY <1>2 DEF OpenTarget, FileReturns
<1>5. CASE BadArguments \/ CheckAnchor \/ NoKey \/ GetKey
  BY <1>5, PreparingKeeps
<1>6. CASE NothingThere \/ ReportVerify \/ ReportAnchor
  BY <1>6, ReportingKeeps
<1>7. CASE Verifying
  <2>1. ListDir \/ OpenFails \/ OpenFile \/ LinkUp \/ ReplayFile \/ Accumulate
    BY <1>7 DEF Verifying
  <2> QED
    BY <1>7, <2>1, ListingKeeps, OpenFailsKeepsLive, OpenFileKeepsLive, LinkUpKeepsLive,
       ReplayKeepsLive, AccumulateKeepsLive
<1> QED
  BY <1>3, <1>4, <1>5, <1>6, <1>7, <1>8 DEF CommandStep

\* Before anything is written there is nothing to be wrong about.
LEMMA LiveBegins == ASSUME LiveInit PROVE LiveInv
<1>1. /\ ProducerInit /\ created = FALSE /\ torn = "whole" /\ gone = {} /\ overlooked = {}
      /\ asked = <<>>
      /\ keyFor = <<>> /\ paths = <<>> /\ stage = "waiting" /\ next = 1 /\ result = NoResult
      /\ reached = {} /\ exit = NoExit /\ calls = {} /\ command = "verify"
      /\ target = Directory /\ keyArg = OwnIdentity /\ pubKey = OwnPublicKey
      /\ entries = <<>>
  BY Zenon DEF LiveInit
<1>2. ProducerInv
  BY <1>1, NewChainInv DEF ProducerInit
<1>3. seq = 0 /\ lineCount = 0 /\ files = <<>>
  BY <1>1 DEF ProducerInit, NewChain
<1>4. LogInv
  BY <1>1, <1>2, <1>3 DEF LogInv, Started
<1>5. WaitInv
  BY <1>1, Zenon DEF WaitInv
<1>6. entries = Listing
  <2>1. Count = 0
    BY <1>1, <1>3 DEF Count
  <2>2. Listing = [n \in 1 .. 0 |-> LogEntry(Names[n], Shown(n))] \o <<>>
    BY <2>1, Zenon DEF Listing
  <2>3. [n \in 1 .. 0 |-> LogEntry(Names[n], Shown(n))] = <<>>
    OBVIOUS
  <2>4. <<>> \o <<>> = <<>>
    OBVIOUS
  <2> QED
    BY <1>1, <2>2, <2>3, <2>4
<1> QED
  BY <1>1, <1>4, <1>5, <1>6 DEF LiveInv

\* Nothing is wrong while nothing happens.
LEMMA NothingHappens == ASSUME LiveInv, UNCHANGED everything PROVE LiveInv'
<1>1. /\ UNCHANGED <<Auditor, entries, paths, file, anchors, seq, files>>
      /\ UNCHANGED <<producerVars, created, torn, gone, overlooked, asked>>
  BY DEF everything, allVars, vars, dirVars, commandVars, Auditor, producerVars
<1>2. LogInv /\ entries = Listing
  BY DEF LiveInv
<1>3. Still
  BY <1>1 DEF Still, Auditor, commandVars
<1>4. /\ Count' = Count /\ Listing' = Listing /\ Shown(next)' = Shown(next)
      /\ PathsInv => PathsInv'
  <2>1. next' = next
    BY <1>1 DEF Auditor
  <2>2. PICK m : m = next
    OBVIOUS
  <2>3. Shown(m)' = Shown(m) /\ Shown(next)' = Shown(m)'
    BY <1>3, <2>1, <2>2, StillSame, Zenon DEF Shown, Whole
  <2> QED
    BY <1>1, <1>3, <2>2, <2>3, StillSame
<1>5. LogInv'
  <2>1. ProducerInv'
    BY <1>1, <1>2, ProducerStep DEF LogInv
  <2> QED
    BY <1>1, <1>2, <2>1 DEF LogInv, Started, producerVars
<1>6. Kept
  <2>1. /\ Len(files) \in Nat /\ \A n \in 1 .. Len(files) : IsSeq(files[n]) /\ Len(files[n]) \in Nat
    BY <1>2, FilesAreSeqs DEF LogInv
  <2>2. files' = files
    BY <1>1
  <2> QED
    BY <2>1, <2>2 DEF Kept
<1>7. Count' >= Count
  BY <1>2, <1>4, LogShape
<1>8. Meanwhile
  <2>1. gone' = gone /\ overlooked' = overlooked /\ anchors' = anchors /\ paths' = paths /\ file' = file
        /\ UNCHANGED <<Auditor, asked>> /\ entries' = Listing'
    BY <1>1, <1>2, <1>4
  <2> QED
    BY <1>4, <1>5, <1>6, <1>7, <2>1 DEF Meanwhile
<1> QED
  BY <1>8, MeanwhileKeeps

\* The log is in order, and what has been found in it is excused, all the time.
LEMMA LiveInvariant == LiveSpec => []LiveInv
<1>1. LiveInit => LiveInv
  BY LiveBegins
<1>2. LiveInv /\ [LiveNext]_everything => LiveInv'
  <2> SUFFICES ASSUME LiveInv, [LiveNext]_everything PROVE LiveInv'
    OBVIOUS
  <2>1. CASE UNCHANGED everything
    BY <2>1, NothingHappens
  <2>2. CASE Writing
    BY <2>2, WritingKeeps
  <2>3. CASE Compress
    BY <2>3, CompressKeeps
  <2>4. CASE Ask
    BY <2>4, AskKeeps
  <2>5. CASE Auditing
    BY <2>5, AuditingKeeps
  <2> QED
    BY <2>1, <2>2, <2>3, <2>4, <2>5 DEF LiveNext, Writing
<1> QED
  BY <1>1, <1>2, PTL DEF LiveSpec

-----------------------------------------------------------------------------
(* The theorems.                                                           *)

\* However long the log is and however it grows under the command, no issue is reported
\* but at the line that is being written, at the newest file, or at one that was
\* compressed away before it could be opened.
THEOREM HealthyIsNotAccused == LiveSpec => []HealthyLogIsNotAccused
<1>1. LiveInv => HealthyLogIsNotAccused
  <2> SUFFICES ASSUME LiveInv PROVE HealthyLogIsNotAccused
    OBVIOUS
  <2>1. CASE result = NoResult
    BY <2>1 DEF NoResult, HealthyLogIsNotAccused
  <2>2. CASE result # NoResult
    <3>1. AuditInv /\ stage # "list"
      BY <2>2 DEF LiveInv, WaitInv, AuditInv
    <3>2. \A i \in result.issues : Excused(i)
      <4>1. ResultInv
        BY <3>1 DEF AuditInv
      <4> QED
        BY <4>1 DEF ResultInv
    <3> QED
      BY <3>2, Zenon DEF Excused, HealthyLogIsNotAccused
  <2> QED
    BY <2>1, <2>2
<1> QED
  BY <1>1, LiveInvariant, PTL

\* However far the log went on meanwhile, every file that was there when the command was
\* started is verified to the line it had then, unless it was compressed away.
THEOREM AllThatWasThereIsRead == LiveSpec => []WhatWasThereIsRead
<1>1. LiveInv => WhatWasThereIsRead
  <2> SUFFICES ASSUME LiveInv, exit # NoExit, NEW n \in DOMAIN asked, Names[n] \notin gone
               PROVE  \E s \in result.segments : s.seq = n - 1 /\ s.count >= Len(asked[n])
    BY DEF WhatWasThereIsRead
  <2>1. AuditInv /\ stage = "returned"
    <3>1. AuditInv /\ stage \in {"returned", "error"}
      BY DEF LiveInv, WaitInv, AuditInv
    <3>2. n \in 1 .. Len(asked)
      BY <3>1, SeqShape DEF AuditInv, AskedInv
    <3> QED
      BY <3>1, <3>2 DEF AuditInv
  <2>2. AskedInv /\ PathsInv /\ ResultInv /\ next > Len(paths)
    BY <2>1 DEF AuditInv
  <2>3. n \in 1 .. Len(asked) /\ Len(asked) \in Nat
    BY <2>2, SeqShape DEF AskedInv
  <2>4. Len(paths) \in Len(asked) .. Count /\ Len(paths) \in Nat
    BY <2>2, SeqShape DEF PathsInv
  <2>5. next \in 1 .. Len(paths) + 1
    BY <2>2 DEF ResultInv
  <2>6. n \in 1 .. next - 1 /\ ~Empty(n)
    BY <2>2, <2>3, <2>4, <2>5 DEF Empty
  <2>7. PICK s \in result.segments : s.seq = n - 1
    BY <2>2, <2>6 DEF ResultInv
  <2>8. PICK k \in 1 .. next - 1 : SegmentOf(s, k, s.count) /\ Enough(k, s.count)
    BY <2>2, <2>7 DEF ResultInv
  <2>9. k = n
    BY <2>3, <2>5, <2>7, <2>8 DEF SegmentOf
  <2> QED
    BY <2>3, <2>7, <2>8, <2>9 DEF Enough
<1> QED
  BY <1>1, LiveInvariant, PTL

\* However far the log went on since an anchor was signed, the line it commits to is
\* found again, unless its file was compressed away.
THEOREM AnchorIsReached == LiveSpec => []AnchorBeforeIsReached
<1>1. LiveInv => AnchorBeforeIsReached
  BY DEF LiveInv, WaitInv, AuditInv, AnchorBeforeIsReached
<1> QED
  BY <1>1, LiveInvariant, PTL

=============================================================================
