--------------------------- MODULE CommandProofs ---------------------------
(***************************************************************************)
(* Theorems about Commands: for all evidence, arguments, keys and anchors, *)
(* verify exits 0 exactly for flawless evidence, and what the anchor       *)
(* command says of a log is founded on the lines that stand in it.         *)
(***************************************************************************)
EXTENDS Commands, DirectoryProofs

-----------------------------------------------------------------------------
(* The inductive invariant.                                                *)

\* What the arguments and the key are, and what has been done before the evidence
\* is touched.
ArgumentsInv ==
  /\ target \in {Directory} \cup DOMAIN entries /\ IsListing(entries)
  /\ command \in {"verify", "anchor"} /\ opt \in Options
  /\ command = "anchor" => ~opt.stopOnFirst
  /\ keyFor = <<>> \/ keyFor \in KeySource(keyArg, ChainIDs)
  /\ stage # "list" => HaveKey
  /\ anchorOK => \E pub \in LoadPublicKey(pubKey) : Verify(pub, anchor)

\* A directory: the pass over it, which fails exactly if there is no log file.
DirTargetInv ==
  /\ DirInv
  /\ stage = "error" => Logs = {}
  /\ stage \in {"files", "replay", "returned"} => Logs # {}

\* One file.
FileTargetInv ==
  /\ stage \in {"list", "files", "replay", "returned"} /\ IsResult(result)
  /\ stage \in {"list", "replay"} => next = 1 /\ result = NoResult
  /\ stage # "list" => paths = <<entries[target]>> /\ entries[target].open
  /\ stage = "replay" => file = entries[target].file /\ FileInv
  /\ stage \in {"files", "returned"} =>
       next = 2 /\ (result.issues = {} <=> Flawless(entries[target].file))

\* A replay that was not cut short has read its file to the end.
ReadsThrough ==
  (stage = "replay" /\ phase = "done" /\ ~truncated) => pos = Len(file.lines) + 1

\* The committed lines of one file, of the files that are done, of the part of the file
\* being replayed that was read.
CommittedIn(f) == {f.lines[i] : i \in {j \in DOMAIN f.lines : Committed(f, j)}}
CommittedBefore ==
  UNION {CommittedIn(paths[i].file) : i \in {j \in 1 .. next - 1 : paths[j].open}}
CommittedHere ==
  IF stage = "replay" THEN {file.lines[i] : i \in {j \in 1 .. pos - 1 : Committed(file, j)}}
  ELSE {}

\* The MAC that was captured, mac, is that of one of these lines, if there are any.
CapturedOf(mac, lines) ==
  /\ mac = {} => lines = {}
  /\ mac # {} => \E l \in lines : l.hex = "none" \/ mac = {l.mac}

CaptureInv ==
  command = "anchor" =>
    /\ stage \in {"list", "error"} => reached = {}
    /\ stage \in {"files", "replay"} => CapturedOf(reached, CommittedBefore \cup CommittedHere)
    /\ stage = "returned" => CapturedOf(reached, CommittedLines)

CommandInv ==
  /\ ArgumentsInv
  /\ target = Directory => DirTargetInv
  /\ target # Directory => FileTargetInv
  /\ ReadsThrough /\ CaptureInv
  /\ VerifyExitsZeroExactlyIfFlawless /\ AnchorVerdictIsFounded

-----------------------------------------------------------------------------
(* What is captured while a file is replayed.                              *)

\* The signed lines from a start line on, as long as it governs.
LEMMA CommittedLine ==
  ASSUME NEW s, NEW i \in Nat, Governs(file.lines, s, i), Signed(file.lines, i)
  PROVE  /\ Committed(file, i) <=>
              /\ KeyAt(file.lines, keyFor, s) # {}
              /\ file.lines[s].text.chain = anchor.record.chain
              /\ ParseUint(file.lines[s].text.seq) = anchor.record.seq
              /\ Cardinality(LinesUpTo(s, i)) = anchor.record.lineCount
<1> DEFINE L == file.lines
           count(t) == Cardinality({j \in t .. i : Signed(L, j)})
<1>1. s \in 1 .. i /\ \A j \in s .. i : Governs(L, s, j)
  BY DEF Governs
<1>2. {j \in s .. i : Signed(L, j)} = LinesUpTo(s, i)
  BY <1>1 DEF LinesUpTo
<1>3. \A t \in 1 .. i : Governs(L, t, i) => t = s
  BY GovernsUnique
<1>4. count(s) = Cardinality(LinesUpTo(s, i))
  BY <1>2
<1> HIDE DEF count
<1>5. Committed(file, i) <=>
        \E t \in 1 .. i : /\ Governs(L, t, i) /\ KeyAt(L, keyFor, t) # {}
                          /\ L[t].text.chain = anchor.record.chain
                          /\ ParseUint(L[t].text.seq) = anchor.record.seq
                          /\ count(t) = anchor.record.lineCount
  BY Zenon DEF Committed, count
<1> QED
  BY <1>1, <1>3, <1>4, <1>5, Zenon

\* Only lines of a segment with a key are committed.
LEMMA CommittedIsKeyed ==
  ASSUME NEW i, Committed(file, i)
  PROVE  Keyed(i)
  BY Zenon DEF Committed, Keyed

\* What call c says of line i.
CallsLine(c, i) ==
  /\ c.at = i /\ Signed(file.lines, i)
  /\ file.lines[i].hex = "none" \/ c.mac = file.lines[i].mac
  /\ \E s \in 1 .. i :
       /\ Governs(file.lines, s, i) /\ KeyAt(file.lines, keyFor, s) # {}
       /\ c.chain = file.lines[s].text.chain /\ c.seq = ParseUint(file.lines[s].text.seq)
       /\ c.line = Cardinality(LinesUpTo(s, i))

\* Reading a line calls OnLine with what stands in it, if it lies in a segment with a
\* key, and not otherwise.
LEMMA LineIsCalled ==
  ASSUME FileInv, Accounts, ~opt.stopOnFirst
  PROVE  \/ ~Keyed(pos) /\ calls' = calls
         \/ \E c : CallsLine(c, pos) /\ calls' = calls \cup {c} /\ c \notin calls
<1>1. /\ TypeInv /\ OpenSegment /\ StopsInTime /\ OpenIsDescribed /\ CallsTell /\ SegmentsStem
  BY DEF FileInv, AccountInv, ReplayInv
<1>2. StopsInTime'
  BY <1>1, AccountsStops
<1>3. ~truncated' /\ ~truncated /\ opt' = opt
  BY <1>1, <1>2 DEF StopsInTime, Accounts, input
<1>4. \A d \in calls : d.at # pos
  <2>1. \A d \in calls : d.at \in HandedOver
    BY <1>1 DEF CallsTell
  <2>2. HandedOver \subseteq 1 .. pos - 1 /\ pos \in Int
    BY <1>1 DEF HandedOver, KeyedLines, TypeInv, TypeOK
  <2> QED
    BY <2>1, <2>2
<1>5. ASSUME NEW closed, NEW c, NEW s \in 1 .. pos, Counts(closed, c),
             Governs(file.lines, s, pos), KeyAt(file.lines, keyFor, s) # {},
             Signed(file.lines, pos),
             c.chain = file.lines[s].text.chain, c.seq = ParseUint(file.lines[s].text.seq),
             c.count + 1 = Cardinality(LinesUpTo(s, pos))
      PROVE  \E d : CallsLine(d, pos) /\ calls' = calls \cup {d} /\ d \notin calls
  <2>1. PICK mac :
          /\ file.lines[pos].hex = "none" \/ mac = file.lines[pos].mac
          /\ calls' = calls \cup {[chain |-> c.chain, seq |-> c.seq, at |-> pos,
                                   line |-> c.count + 1, mac |-> mac]}
    BY <1>3, <1>5, Zenon DEF Counts
  <2> DEFINE d == [chain |-> c.chain, seq |-> c.seq, at |-> pos,
                   line |-> c.count + 1, mac |-> mac]
  <2>2. /\ d.at = pos /\ d.chain = c.chain /\ d.seq = c.seq /\ d.line = c.count + 1
        /\ d.mac = mac
    OBVIOUS
  <2>3. calls' = calls \cup {d}
    BY <2>1
  <2> HIDE DEF d
  <2>4. CallsLine(d, pos)
    BY <1>5, <2>1, <2>2, Zenon DEF CallsLine
  <2>5. d \notin calls
    BY <1>4, <2>2
  <2> QED
    BY <2>3, <2>4, <2>5
<1>6. CASE PassesOver
  BY <1>6 DEF PassesOver
<1>7. CASE CountsOn
  <2>1. /\ Counts(segments, cur) /\ cur.at # 0 /\ Governs(file.lines, cur.at, pos)
    BY <1>7 DEF CountsOn
  <2>2. /\ cur.at \in 1 .. pos - 1 /\ Signed(file.lines, pos)
        /\ KeyAt(file.lines, keyFor, cur.at) # {}
        /\ cur.chain = file.lines[cur.at].text.chain
        /\ cur.count + 1 = Cardinality(LinesUpTo(cur.at, pos))
    BY <1>1, <1>7, CountsOnFrom
  <2>3. Stems(cur)
    BY <1>1, <1>3, <2>1 DEF SegmentsStem, Present
  <2>4. cur.seq = ParseUint(file.lines[cur.at].text.seq)
    BY <2>3, Zenon DEF Stems
  <2>5. cur.at \in 1 .. pos
    BY <1>1, <2>2 DEF TypeInv, TypeOK
  <2> QED
    BY <1>5, <2>1, <2>2, <2>4, <2>5
<1>8. CASE Opens
  <2> DEFINE closed == segments \cup Present(Closed(cur, lineNum))
             c == NewSegment(file.lines[pos], pos, lineNum + 1)
  <2>1. /\ c.at = pos /\ Governs(file.lines, pos, pos)
        /\ c.chain = file.lines[pos].text.chain
        /\ c.count + 1 = Cardinality(LinesUpTo(pos, pos))
    BY <1>1, <1>8, OpensFrom
  <2>2. c.seq = ParseUint(file.lines[pos].text.seq)
    BY DEF NewSegment
  <2>3. Counts(closed, c) \/ (~Keyed(pos) /\ calls' = calls)
    BY <1>8, Zenon DEF Opens
  <2> HIDE DEF closed, c
  <2>4. CASE Counts(closed, c)
    <3>1. Keyed(pos) /\ pos \in Nat \ {0}
      BY <1>1, <2>4 DEF Counts, TypeInv, TypeOK
    <3>2. Signed(file.lines, pos) /\ KeyAt(file.lines, keyFor, pos) # {} /\ pos \in 1 .. pos
      BY <2>1, <3>1, KeyedBy
    <3> QED
      BY <1>5, <2>1, <2>2, <2>4, <3>2
  <2> QED
    BY <2>3, <2>4
<1> QED
  BY <1>6, <1>7, <1>8 DEF Accounts

\* The callback captures the MAC of the line if it is a committed one.
LEMMA LineIsCaptured ==
  ASSUME FileInv, Accounts, ~opt.stopOnFirst, Capture, command = "anchor"
  PROVE  /\ Committed(file, pos) =>
              \E mac : /\ reached' = {mac}
                       /\ file.lines[pos].hex = "none" \/ mac = file.lines[pos].mac
         /\ ~Committed(file, pos) => reached' = reached
<1> DEFINE hits == {c \in calls' \ calls : /\ c.chain = anchor.record.chain
                                           /\ c.seq = anchor.record.seq
                                           /\ c.line = anchor.record.lineCount}
<1>1. reached' = IF hits = {} THEN reached ELSE {c.mac : c \in hits}
  BY DEF Capture
<1>2. pos \in Nat
  BY DEF FileInv, AccountInv, ReplayInv, TypeInv, TypeOK
<1>3. CASE ~Keyed(pos) /\ calls' = calls
  <2>1. ~Committed(file, pos)
    BY <1>3, CommittedIsKeyed
  <2> QED
    BY <1>1, <1>3, <2>1
<1>4. CASE \E c : CallsLine(c, pos) /\ calls' = calls \cup {c} /\ c \notin calls
  <2>1. PICK c : CallsLine(c, pos) /\ calls' = calls \cup {c} /\ c \notin calls
    BY <1>4
  <2>2. PICK s \in 1 .. pos :
          /\ Governs(file.lines, s, pos) /\ KeyAt(file.lines, keyFor, s) # {}
          /\ c.chain = file.lines[s].text.chain /\ c.seq = ParseUint(file.lines[s].text.seq)
          /\ c.line = Cardinality(LinesUpTo(s, pos))
    BY <2>1, Zenon DEF CallsLine
  <2>3. Signed(file.lines, pos)
        /\ (file.lines[pos].hex = "none" \/ c.mac = file.lines[pos].mac)
    BY <2>1, Zenon DEF CallsLine
  <2>4. Committed(file, pos) <=> /\ c.chain = anchor.record.chain
                                 /\ c.seq = anchor.record.seq
                                 /\ c.line = anchor.record.lineCount
    BY <1>2, <2>2, <2>3, CommittedLine, Zenon
  <2>5. hits = IF Committed(file, pos) THEN {c} ELSE {}
    BY <2>1, <2>4
  <2> QED
    BY <1>1, <2>3, <2>5
<1> QED
  BY <1>3, <1>4, LineIsCalled

-----------------------------------------------------------------------------
(* What is said of the evidence stays the same.                            *)

\* Which lines are committed is a matter of the keys and the anchor.
LEMMA SameCommitted ==
  ASSUME UNCHANGED <<keyFor, anchor>>
  PROVE  /\ \A f, i : Committed(f, i)' <=> Committed(f, i)
         /\ \A f : CommittedIn(f)' = CommittedIn(f)
<1>1. \A f, i : Committed(f, i)' <=> Committed(f, i)
  BY DEF Committed
<1> QED
  BY <1>1 DEF CommittedIn

\* The committed lines, file by file.
LEMMA CommittedByFile == CommittedLines = UNION {CommittedIn(f) : f \in Evidence}
  BY DEF CommittedLines, CommittedIn

\* The evidence is the directory, the keys and the arguments.
LEMMA SameEvidence ==
  ASSUME UNCHANGED <<entries, opt, keyFor, target, keyArg, anchor>>
  PROVE  /\ EvidenceIsFlawless' <=> EvidenceIsFlawless
         /\ CommittedLines' = CommittedLines /\ Evidence' = Evidence
         /\ Logs' = Logs /\ LogFiles' = LogFiles
<1>1. Logs' = Logs /\ LogFiles' = LogFiles
  BY DEF Logs, LogFiles
<1>2. Evidence' = Evidence
  BY <1>1 DEF Evidence
<1>3. CommittedLines' = CommittedLines
  <2>1. \A f, i : Committed(f, i)' <=> Committed(f, i)
    BY SameCommitted
  <2> QED
    BY <1>2, <2>1 DEF CommittedLines
<1>4. EvidenceIsFlawless' <=> EvidenceIsFlawless
  <2>1. /\ AllUnbroken(AllClaims)' <=> AllUnbroken(AllClaims)
        /\ \A f : Flawless(f)' <=> Flawless(f)
    BY SameClaims, SameDirectory
  <2> QED
    BY <1>1, <2>1 DEF EvidenceIsFlawless
<1> QED
  BY <1>1, <1>2, <1>3, <1>4

\* A line of a flawless file is written in lower case if it is committed.
LEMMA FlawlessIsLower ==
  ASSUME NEW f, Flawless(f), NEW l \in CommittedIn(f)
  PROVE  l.hex = "lower"
<1>1. PICK i \in DOMAIN f.lines : Committed(f, i) /\ l = f.lines[i]
  BY DEF CommittedIn
<1>2. ~Bad(f.lines, opt, keyFor, i)
  BY Zenon DEF Flawless
<1>3. PICK s \in 1 .. i : Governs(f.lines, s, i) /\ KeyAt(f.lines, keyFor, s) # {}
  BY <1>1, Zenon DEF Committed
<1>4. Signed(f.lines, i)
  BY <1>1, Zenon DEF Committed
<1>5. Chained(f.lines, keyFor, s, i)
  BY <1>2, <1>3, <1>4, Zenon DEF Bad
<1>6. f.lines[i].hex = "lower"
  BY <1>5, Zenon DEF Chained, Matches
<1> QED
  BY <1>1, <1>6

\* All files of flawless evidence are flawless.
LEMMA EvidenceFiles ==
  ASSUME EvidenceIsFlawless
  PROVE  \A f \in Evidence : Flawless(f)
  BY Zenon DEF EvidenceIsFlawless, Evidence

\* A key function that is not empty is one that the arguments give.
LEMMA KeyIsGiven ==
  ASSUME ArgumentsInv, HaveKey
  PROVE  keyFor \in KeySource(keyArg, ChainIDs)
<1>1. keyFor = <<>> => DOMAIN keyFor = {}
  OBVIOUS
<1> QED
  BY <1>1 DEF ArgumentsInv, HaveKey

\* The result says whether the evidence is flawless.
LEMMA ReturnedIsExact ==
  ASSUME CommandInv, stage = "returned"
  PROVE  result.issues = {} <=> EvidenceIsFlawless
<1>1. keyFor \in KeySource(keyArg, ChainIDs)
  BY KeyIsGiven DEF CommandInv, ArgumentsInv
<1>2. CASE target = Directory
  <2>1. FindsNothingExactlyIfUnbroken /\ Logs # {}
    BY <1>2 DEF CommandInv, DirTargetInv, DirInv
  <2>2. LogFiles # {}
    BY <2>1 DEF LogFiles
  <2> QED
    BY <1>1, <1>2, <2>1, <2>2, Zenon DEF FindsNothingExactlyIfUnbroken, EvidenceIsFlawless
<1>3. CASE target # Directory
  <2>1. /\ result.issues = {} <=> Flawless(entries[target].file)
        /\ entries[target].open
    BY <1>3 DEF CommandInv, FileTargetInv
  <2> QED
    BY <1>1, <1>3, <2>1, Zenon DEF EvidenceIsFlawless
<1> QED
  BY <1>2, <1>3

-----------------------------------------------------------------------------
(* The command exits.                                                      *)

\* Exit code and verdict are right.
Justified(code, v) ==
  /\ code \in {0, 1, 2}
  /\ command = "verify" => (code = 0 <=> EvidenceIsFlawless)
  /\ command = "anchor" =>
       /\ code = 0 <=> v = "exact match"
       /\ v = "exact match" =>
            /\ \E pub \in LoadPublicKey(pubKey) : Verify(pub, anchor)
            /\ EvidenceIsFlawless
            /\ \E l \in CommittedLines : l.mac = anchor.record.mac
       /\ v = "prefix matches" =>
            /\ ~EvidenceIsFlawless
            /\ \E l \in CommittedLines : l.hex = "none" \/ l.mac = anchor.record.mac
       /\ v = "altered" =>
            \E l \in CommittedLines : l.hex = "none" \/ l.mac # anchor.record.mac
       /\ v = "not reached" => CommittedLines = {}

\* A command whose arguments do not change, and that has not exited, keeps the part of
\* the invariant that is about them.
LEMMA ArgumentsKeep ==
  ASSUME ArgumentsInv, HaveKey \/ stage' = stage,
         UNCHANGED <<entries, opt, keyFor, command, target, keyArg, pubKey, anchor, anchorOK>>
  PROVE  ArgumentsInv'
  BY DEF ArgumentsInv, HaveKey

\* Nothing is said yet while the command runs.
LEMMA RunningSaysNothing ==
  ASSUME exit' = NoExit
  PROVE  VerifyExitsZeroExactlyIfFlawless' /\ AnchorVerdictIsFounded'
  BY DEF VerifyExitsZeroExactlyIfFlawless, AnchorVerdictIsFounded

\* A step that leaves the pass over the evidence alone.
LEMMA PassIsLeftAlone ==
  ASSUME CommandInv,
         UNCHANGED <<allVars, command, target, keyArg, pubKey, anchor, reached>>
  PROVE  /\ target' = Directory => DirTargetInv'
         /\ target' # Directory => FileTargetInv'
         /\ ReadsThrough' /\ CaptureInv'
<1>1. /\ UNCHANGED <<entries, paths, stage, next, result, opt, keyFor, file, phase, pos, truncated>>
      /\ UNCHANGED vars
  BY DEF allVars, dirVars, vars
<1>2. ASSUME target = Directory PROVE DirTargetInv' /\ target' = target
  <2>1. DirInv'
    BY <1>2, StutterKeeps DEF CommandInv, DirTargetInv
  <2>2. Logs' = Logs
    BY <1>1, SameEvidence
  <2>3. DirTargetInv /\ target' = target /\ stage' = stage
    BY <1>1, <1>2 DEF CommandInv
  <2>4. DirTargetInv'
    BY <2>1, <2>2, <2>3 DEF DirTargetInv
  <2> QED
    BY <2>3, <2>4
<1>3. ASSUME target # Directory PROVE FileTargetInv' /\ target' = target
  <2>1. FileInv => FileInv'
    BY <1>1, FileStutters
  <2>2. Flawless(entries[target].file)' <=> Flawless(entries[target].file)
    BY <1>1 DEF Flawless
  <2>3. FileTargetInv /\ target' = target
    BY <1>1, <1>3 DEF CommandInv
  <2>4. IsResult(result)'
    BY <1>1, <2>3 DEF FileTargetInv, IsResult
  <2>5. FileTargetInv'
    BY <1>1, <2>1, <2>2, <2>3, <2>4 DEF FileTargetInv
  <2> QED
    BY <2>3, <2>5
<1>4. ReadsThrough'
  BY <1>1 DEF CommandInv, ReadsThrough
<1>5. CaptureInv'
  <2>1. \A f, i : Committed(f, i)' <=> Committed(f, i)
    BY <1>1, SameCommitted
  <2>2. \A f : CommittedIn(f)' = CommittedIn(f)
    BY <1>1, SameCommitted
  <2>3. CommittedBefore' = CommittedBefore
    BY <1>1, <2>2 DEF CommittedBefore
  <2>4. CommittedHere' = CommittedHere
    BY <1>1, <2>1 DEF CommittedHere
  <2>5. CommittedLines' = CommittedLines
    BY <1>1, SameEvidence
  <2> QED
    BY <1>1, <2>3, <2>4, <2>5 DEF CommandInv, CaptureInv, CapturedOf
<1> QED
  BY <1>1, <1>2, <1>3, <1>4, <1>5

\* A command that exits, saying what is right.
LEMMA FinishKeeps ==
  ASSUME CommandInv, NEW code, NEW v, Finish(code, v), Justified(code, v)
  PROVE  CommandInv'
<1>1. /\ exit' = code /\ verdict' = v
      /\ UNCHANGED <<allVars, command, target, keyArg, pubKey, anchor, anchorOK, reached>>
  BY DEF Finish
<1>2. UNCHANGED <<entries, stage, opt, keyFor>>
  BY <1>1 DEF allVars, dirVars, vars
<1>3. ArgumentsInv'
  BY <1>1, <1>2, ArgumentsKeep DEF CommandInv
<1>4. /\ target' = Directory => DirTargetInv'
      /\ target' # Directory => FileTargetInv'
      /\ ReadsThrough' /\ CaptureInv'
  BY <1>1, PassIsLeftAlone
<1>5. /\ EvidenceIsFlawless' <=> EvidenceIsFlawless
      /\ CommittedLines' = CommittedLines
  BY <1>1, <1>2, SameEvidence
<1>6. VerifyExitsZeroExactlyIfFlawless'
  BY <1>1, <1>5 DEF Justified, VerifyExitsZeroExactlyIfFlawless
<1>7. AnchorVerdictIsFounded'
  BY <1>1, <1>5 DEF Justified, AnchorVerdictIsFounded
<1> QED
  BY <1>3, <1>4, <1>6, <1>7 DEF CommandInv

-----------------------------------------------------------------------------
(* What has been captured.                                                 *)

\* Without a call nothing is captured.
LEMMA NoCallNoCapture == ASSUME Capture, calls' \subseteq calls PROVE reached' = reached
  BY DEF Capture

\* The file being replayed is the next one.
LEMMA Replaying ==
  ASSUME CommandInv, stage = "replay"
  PROVE  /\ FileInv /\ next \in Nat \ {0} /\ paths[next].open /\ file = paths[next].file
         /\ opt \in Options /\ (command = "anchor" => ~opt.stopOnFirst)
<1>1. opt \in Options /\ (command = "anchor" => ~opt.stopOnFirst)
  BY DEF CommandInv, ArgumentsInv
<1>2. CASE target = Directory
  <2>1. /\ FileInv /\ next \in 1 .. Len(paths) /\ paths[next].open /\ file = paths[next].file
        /\ Listed
    BY <1>2 DEF CommandInv, DirTargetInv, DirInv
  <2>2. Len(paths) \in Nat
    BY <2>1 DEF Listed
  <2> QED
    BY <1>1, <2>1, <2>2
<1>3. CASE target # Directory
  BY <1>1, <1>3 DEF CommandInv, FileTargetInv
<1> QED
  BY <1>2, <1>3

\* A replay that goes on to its end reads the file through.
LEMMA ReadsOn ==
  ASSUME FileInv, ReplayStep
  PROVE  (phase' = "done" /\ ~truncated') => pos' = Len(file'.lines) + 1
<1>1. TypeInv /\ OpenSegment
  BY DEF FileInv, AccountInv, ReplayInv
<1>2. CASE EndOfInput
  <2>1. pos \in 1 .. Len(file.lines) + 1 /\ Len(file.lines) \in Nat
    BY <1>1, FileShape DEF TypeInv, TypeOK
  <2>2. phase' = "done" /\ pos > Len(file.lines) /\ pos' = pos /\ file' = file
    BY <1>2, Zenon DEF EndOfInput
  <2> QED
    BY <2>1, <2>2
<1>3. CASE Accounts
  BY <1>3 DEF Accounts, Finding
<1> QED
  BY <1>1, <1>2, <1>3, StepAccounts

\* The committed lines of the files before the next one.
LEMMA BeforeNext ==
  ASSUME UNCHANGED <<keyFor, anchor, paths>>, next \in Nat \ {0}
  PROVE  /\ next' = next => CommittedBefore' = CommittedBefore
         /\ next' = next + 1 =>
              CommittedBefore' = CommittedBefore \cup
                (IF paths[next].open THEN CommittedIn(paths[next].file) ELSE {})
<1>1. \A f : CommittedIn(f)' = CommittedIn(f)
  BY SameCommitted
<1>2. CommittedBefore' =
        UNION {CommittedIn(paths[i].file) : i \in {j \in 1 .. next' - 1 : paths[j].open}}
  BY <1>1 DEF CommittedBefore
<1>3. ASSUME next' = next + 1
      PROVE  CommittedBefore' = CommittedBefore \cup
               (IF paths[next].open THEN CommittedIn(paths[next].file) ELSE {})
  <2>1. 1 .. next' - 1 = (1 .. next - 1) \cup {next}
    BY <1>3
  <2> QED
    BY <1>2, <2>1 DEF CommittedBefore
<1> QED
  BY <1>2, <1>3 DEF CommittedBefore

\* The callback captures the committed lines of the file being replayed.
LEMMA ReplayCaptures ==
  ASSUME CommandInv, ReplayFile, Capture, UNCHANGED <<command, anchor>>
  PROVE  CaptureInv'
<1> SUFFICES ASSUME command = "anchor" PROVE CaptureInv'
  BY DEF CaptureInv
<1> DEFINE here(n) == {file.lines[i] : i \in {j \in 1 .. n : Committed(file, j)}}
<1>1. /\ stage = "replay" /\ ReplayStep
      /\ UNCHANGED <<entries, paths, stage, next, result>>
  BY DEF ReplayFile, dirVars
<1>2. /\ FileInv /\ next \in Nat \ {0} /\ ~opt.stopOnFirst
      /\ TypeInv /\ OpenSegment
  BY <1>1, Replaying DEF FileInv, AccountInv, ReplayInv
<1>3. Accounts \/ EndOfInput
  BY <1>1, <1>2, StepAccounts
<1>4. file' = file /\ keyFor' = keyFor
  BY <1>3 DEF Accounts, EndOfInput, input
<1>5. CommittedBefore' = CommittedBefore
  BY <1>1, <1>2, <1>4, BeforeNext
<1>6. \A i : Committed(file, i)' <=> Committed(file, i)
  BY <1>4, SameCommitted
<1>7. CommittedHere = here(pos - 1) /\ CommittedHere' = here(pos' - 1)
  BY <1>1, <1>4, <1>6 DEF CommittedHere
<1>8. CapturedOf(reached, CommittedBefore \cup here(pos - 1))
  BY <1>1, <1>7 DEF CommandInv, CaptureInv
<1>9. CapturedOf(reached', CommittedBefore \cup here(pos' - 1)) => CaptureInv'
  BY <1>1, <1>5, <1>7 DEF CaptureInv
<1>10. CASE EndOfInput
  <2>1. reached' = reached /\ pos' = pos
    BY <1>10, NoCallNoCapture DEF EndOfInput
  <2> QED
    BY <1>8, <1>9, <2>1
<1>11. CASE Accounts
  <2>1. pos \in Nat \ {0} /\ pos' = pos + 1
    BY <1>2, <1>11 DEF Accounts, TypeInv, TypeOK
  <2>2. 1 .. pos' - 1 = (1 .. pos - 1) \cup {pos}
    BY <2>1
  <2>3. here(pos' - 1) = here(pos - 1)
                         \cup (IF Committed(file, pos) THEN {file.lines[pos]} ELSE {})
    BY <2>2
  <2> DEFINE l == file.lines[pos]
  <2>4. CASE Committed(file, pos)
    <3>1. PICK mac : reached' = {mac} /\ (l.hex = "none" \/ mac = l.mac)
      BY <1>2, <1>11, <2>4, LineIsCaptured
    <3>2. l \in here(pos' - 1)
      BY <2>3, <2>4
    <3> QED
      BY <1>9, <3>1, <3>2 DEF CapturedOf
  <2>5. CASE ~Committed(file, pos)
    <3>1. reached' = reached /\ here(pos' - 1) = here(pos - 1)
      BY <1>2, <1>11, <2>3, <2>5, LineIsCaptured
    <3> QED
      BY <1>8, <1>9, <3>1
  <2> QED
    BY <2>4, <2>5
<1> QED
  BY <1>3, <1>10, <1>11

\* A file that is done has been read through, for the anchor command never stops early.
LEMMA FileIsThrough ==
  ASSUME CommandInv, stage = "replay", phase = "done", command = "anchor"
  PROVE  CommittedHere = CommittedIn(file)
<1>1. FileInv /\ ~opt.stopOnFirst
  BY Replaying
<1>2. ~truncated /\ TypeInv
  BY <1>1 DEF FileInv, AccountInv, ReplayInv, StopsInTime
<1>3. pos = Len(file.lines) + 1
  BY <1>2 DEF CommandInv, ReadsThrough
<1>4. Len(file.lines) \in Nat /\ DOMAIN file.lines = 1 .. Len(file.lines)
  BY <1>2, FileShape DEF TypeInv
<1>5. 1 .. pos - 1 = DOMAIN file.lines
  BY <1>3, <1>4
<1> QED
  BY <1>5 DEF CommittedHere, CommittedIn

\* The result of the replay is added to the combined one.
LEMMA AccumulateCaptures ==
  ASSUME CommandInv, Accumulate, Capture, UNCHANGED <<command, anchor>>
  PROVE  CaptureInv'
<1> SUFFICES ASSUME command = "anchor" PROVE CaptureInv'
  BY DEF CaptureInv
<1>1. /\ stage = "replay" /\ phase = "done" /\ stage' = "files" /\ next' = next + 1
      /\ UNCHANGED <<paths, keyFor, calls>>
  BY DEF Accumulate, vars
<1>2. next \in Nat \ {0} /\ paths[next].open /\ file = paths[next].file
  BY <1>1, Replaying
<1>3. CommittedBefore' = CommittedBefore \cup CommittedIn(file)
  BY <1>1, <1>2, BeforeNext
<1>4. CommittedHere = CommittedIn(file) /\ CommittedHere' = {}
  BY <1>1, FileIsThrough DEF CommittedHere
<1>5. reached' = reached
  BY <1>1, NoCallNoCapture
<1>6. CapturedOf(reached, CommittedBefore \cup CommittedHere)
  BY <1>1 DEF CommandInv, CaptureInv
<1>7. CommittedBefore' \cup CommittedHere' = CommittedBefore \cup CommittedHere
  BY <1>3, <1>4
<1> QED
  BY <1>1, <1>5, <1>6, <1>7 DEF CaptureInv

\* A file of the directory is opened, or cannot be.
LEMMA OpeningCaptures ==
  ASSUME CommandInv, target = Directory, OpenFails \/ OpenFile, Capture,
         UNCHANGED <<command, anchor>>
  PROVE  CaptureInv'
<1> SUFFICES ASSUME command = "anchor" PROVE CaptureInv'
  BY DEF CaptureInv
<1>1. /\ stage = "files" /\ stage' \in {"files", "replay"} /\ UNCHANGED <<paths, keyFor>>
      /\ calls' \subseteq calls
      /\ \/ stage' = "files" /\ next' = next + 1 /\ ~paths[next].open
         \/ stage' = "replay" /\ next' = next /\ pos' = 1
  BY DEF OpenFails, OpenFile, Begin, vars
<1>2. next \in Nat \ {0}
  <2>1. Listed /\ next \in 1 .. Len(paths) + 1
    BY <1>1 DEF CommandInv, DirTargetInv, DirInv
  <2> QED
    BY <2>1 DEF Listed
<1>3. CommittedBefore' = CommittedBefore
  BY <1>1, <1>2, BeforeNext
<1>4. CommittedHere = {} /\ CommittedHere' = {}
  BY <1>1 DEF CommittedHere
<1>5. reached' = reached
  BY <1>1, NoCallNoCapture
<1>6. CapturedOf(reached, CommittedBefore \cup CommittedHere)
  BY <1>1 DEF CommandInv, CaptureInv
<1>7. CapturedOf(reached', CommittedBefore' \cup CommittedHere')
  BY <1>3, <1>4, <1>5, <1>6
<1> QED
  BY <1>1, <1>7 DEF CaptureInv

\* The directory is listed: nothing has been read yet.
LEMMA ListingCaptures ==
  ASSUME CommandInv, target = Directory, ListDir, Capture, UNCHANGED <<command, anchor>>
  PROVE  CaptureInv'
<1> SUFFICES ASSUME command = "anchor" PROVE CaptureInv'
  BY DEF CaptureInv
<1>1. stage = "list" /\ stage' \in {"files", "error"} /\ next' = next /\ calls' \subseteq calls
  BY DEF ListDir, vars
<1>2. next = 1 /\ reached = {}
  BY <1>1 DEF CommandInv, DirTargetInv, DirInv, CaptureInv
<1>3. reached' = {}
  BY <1>1, <1>2, NoCallNoCapture
<1>4. CommittedBefore' = {} /\ CommittedHere' = {}
  <2>1. 1 .. next' - 1 = {}
    BY <1>1, <1>2
  <2> QED
    BY <1>1, <2>1 DEF CommittedBefore, CommittedHere
<1> QED
  BY <1>1, <1>3, <1>4 DEF CaptureInv, CapturedOf

\* When every file is done, the committed lines of the evidence have been read.
LEMMA AllIsRead ==
  ASSUME CommandInv, stage = "files", next > Len(paths)
  PROVE  CommittedBefore = CommittedLines
<1>1. CommittedLines = UNION {CommittedIn(f) : f \in Evidence}
  BY CommittedByFile
<1>2. CASE target = Directory
  <2>1. Listed /\ next \in 1 .. Len(paths) + 1
    BY <1>2 DEF CommandInv, DirTargetInv, DirInv
  <2>2. DOMAIN paths = 1 .. next - 1
    BY <2>1 DEF Listed
  <2>3. LogFiles = {paths[i] : i \in DOMAIN paths}
    BY <2>1 DEF Listed
  <2>4. Evidence = {paths[i].file : i \in {j \in DOMAIN paths : paths[j].open}}
    BY <1>2, <2>3 DEF Evidence
  <2>5. CommittedBefore =
          UNION {CommittedIn(paths[i].file) : i \in {j \in DOMAIN paths : paths[j].open}}
    BY <2>2 DEF CommittedBefore
  <2> QED
    BY <1>1, <2>4, <2>5
<1>3. CASE target # Directory
  <2>1. next = 2 /\ paths = <<entries[target]>> /\ entries[target].open
    BY <1>3 DEF CommandInv, FileTargetInv
  <2>2. 1 .. next - 1 = {1} /\ paths[1] = entries[target]
    BY <2>1
  <2>3. Evidence = {entries[target].file}
    BY <1>3, <2>1 DEF Evidence
  <2>4. CommittedBefore = CommittedIn(entries[target].file)
    BY <2>1, <2>2 DEF CommittedBefore
  <2> QED
    BY <1>1, <2>3, <2>4
<1> QED
  BY <1>2, <1>3

\* The result is returned.
LEMMA ReturningCaptures ==
  ASSUME CommandInv, stage = "files", next > Len(paths), stage' = "returned",
         reached' = reached,
         UNCHANGED <<entries, opt, keyFor, command, target, keyArg, anchor>>
  PROVE  CaptureInv'
<1> SUFFICES ASSUME command = "anchor" PROVE CaptureInv'
  BY DEF CaptureInv
<1>1. CommittedLines' = CommittedLines
  BY SameEvidence
<1>2. CommittedBefore = CommittedLines /\ CommittedHere = {}
  BY AllIsRead DEF CommittedHere
<1>3. CapturedOf(reached, CommittedBefore \cup CommittedHere)
  BY DEF CommandInv, CaptureInv
<1>4. CapturedOf(reached', CommittedLines')
  BY <1>1, <1>2, <1>3
<1> QED
  BY <1>4 DEF CaptureInv

-----------------------------------------------------------------------------
(* Every step keeps the invariant.                                         *)

\* A step of the pass over the directory.
LEMMA DirStepKeeps == ASSUME DirTargetInv, DirStep PROVE DirTargetInv'
<1>1. DirInv'
  BY ListDirKeeps, OpenFailsKeeps, OpenFileKeeps, ReplayFileKeeps, AccumulateKeeps,
     LinkUpKeeps DEF DirTargetInv, DirStep
<1>2. entries' = entries
  BY DEF DirStep, ListDir, OpenFails, OpenFile, ReplayFile, Accumulate, LinkUp, dirVars
<1>3. Logs' = Logs
  BY <1>2 DEF Logs
<1>4. CASE ListDir
  BY <1>1, <1>3, <1>4 DEF DirTargetInv, ListDir
<1>5. CASE OpenFails \/ OpenFile \/ ReplayFile \/ Accumulate \/ LinkUp
  <2>1. stage \in {"files", "replay"} /\ stage' \in {"files", "replay", "returned"}
    BY <1>5 DEF OpenFails, OpenFile, ReplayFile, Accumulate, LinkUp, dirVars
  <2> QED
    BY <1>1, <1>3, <2>1 DEF DirTargetInv
<1> QED
  BY <1>4, <1>5 DEF DirStep

\* A step of the replay of the one file.
LEMMA FileReplayKeeps ==
  ASSUME FileTargetInv, opt \in Options, IsListing(entries), target \in DOMAIN entries,
         target' = target, ReplayFile \/ Accumulate
  PROVE  FileTargetInv'
<1>1. /\ stage = "replay" /\ next = 1 /\ result = NoResult /\ paths = <<entries[target]>>
      /\ entries[target].open /\ file = entries[target].file /\ FileInv /\ IsResult(result)
  BY DEF FileTargetInv, ReplayFile, Accumulate
<1>2. CASE ReplayFile
  <2>1. ReplayStep /\ UNCHANGED <<entries, paths, stage, next, result>>
    BY <1>2 DEF ReplayFile, dirVars
  <2>2. file' = file
    BY <1>1, <2>1, StepAccounts
       DEF FileInv, AccountInv, ReplayInv, Accounts, EndOfInput, input
  <2>3. FileInv'
    BY <1>1, <2>1, FileStep
  <2>4. IsResult(result)'
    BY <1>1, <2>1 DEF IsResult
  <2> QED
    BY <1>1, <2>1, <2>2, <2>3, <2>4 DEF FileTargetInv
<1>3. CASE Accumulate
  <2>1. /\ phase = "done" /\ stage' = "files" /\ next' = next + 1
        /\ UNCHANGED <<entries, paths, opt, keyFor>>
        /\ result'.issues = result.issues \cup issues
        /\ IsResult(result')
    BY <1>3 DEF Accumulate, vars, IsResult
  <2>2. issues = {} <=> Flawless(entries[target].file)
    BY <1>1, <2>1, FileIsExact
  <2>3. result.issues = {}
    BY <1>1 DEF NoResult
  <2>4. Flawless(entries[target].file)' <=> Flawless(entries[target].file)
    BY <2>1 DEF Flawless
  <2>5. IsResult(result)'
    BY <2>1 DEF IsResult
  <2>6. next' = 2
    BY <1>1, <2>1
  <2> QED
    BY <1>1, <2>1, <2>2, <2>3, <2>4, <2>5, <2>6 DEF FileTargetInv
<1> QED
  BY <1>2, <1>3

\* VerifyFile and VerifyDir only read the evidence, and keep their arguments.
LEMMA VerifyingReads ==
  ASSUME CommandInv, Verifying
  PROVE  UNCHANGED <<entries, opt, keyFor>>
<1>1. \/ target = Directory /\ (ListDir \/ OpenFails \/ OpenFile \/ LinkUp)
      \/ ReplayFile \/ Accumulate
  BY DEF Verifying
<1>2. CASE ReplayFile
  <2>1. FileInv
    BY <1>2, Replaying DEF ReplayFile
  <2> QED
    BY <1>2, <2>1, StepAccounts
       DEF FileInv, AccountInv, ReplayInv, Accounts, EndOfInput, input, ReplayFile, dirVars
<1> QED
  BY <1>1, <1>2 DEF ListDir, OpenFails, OpenFile, Begin, LinkUp, Accumulate, vars

\* A step of VerifyDir or VerifyFile.
LEMMA VerifyingKeeps == ASSUME CommandInv, Verifying PROVE CommandInv'
<1>1. /\ HaveKey /\ exit = NoExit /\ Capture
      /\ UNCHANGED <<command, target, keyArg, pubKey, anchor, anchorOK, verdict, exit>>
  BY DEF Verifying, Ready, AnchorChecked, Running
<1>2. ArgumentsInv
  BY DEF CommandInv
<1>3. \/ target = Directory /\ (ListDir \/ OpenFails \/ OpenFile \/ LinkUp)
      \/ ReplayFile \/ Accumulate
  BY DEF Verifying
<1>4. UNCHANGED <<entries, opt, keyFor>>
  BY VerifyingReads
<1>5. ArgumentsInv'
  BY <1>1, <1>2, <1>4, ArgumentsKeep
<1>6. ASSUME target = Directory PROVE DirTargetInv'
  BY <1>3, <1>6, DirStepKeeps DEF CommandInv, DirStep
<1>7. ASSUME target # Directory PROVE FileTargetInv'
  <2>1. target \in DOMAIN entries /\ opt \in Options /\ IsListing(entries)
    BY <1>2, <1>7 DEF ArgumentsInv
  <2> QED
    BY <1>1, <1>3, <1>7, <2>1, FileReplayKeeps DEF CommandInv
<1>8. ReadsThrough'
  <2>1. CASE ReplayFile
    <3>1. FileInv /\ ReplayStep
      BY <2>1, Replaying DEF ReplayFile
    <3> QED
      BY <3>1, ReadsOn DEF ReadsThrough
  <2>2. CASE OpenFile
    BY <2>2 DEF OpenFile, Begin, ReadsThrough
  <2>3. CASE ListDir \/ OpenFails \/ LinkUp \/ Accumulate
    <3>1. stage' # "replay"
      BY <2>3 DEF ListDir, OpenFails, LinkUp, Accumulate
    <3> QED
      BY <3>1 DEF ReadsThrough
  <2> QED
    BY <1>3, <2>1, <2>2, <2>3
<1>9. CaptureInv'
  <2>1. CASE target = Directory /\ LinkUp
    <3>1. stage = "files" /\ next > Len(paths) /\ stage' = "returned" /\ calls' = calls
      BY <2>1 DEF LinkUp, vars
    <3>2. reached' = reached
      BY <1>1, <3>1, NoCallNoCapture
    <3> QED
      BY <1>1, <1>4, <3>1, <3>2, ReturningCaptures
  <2> QED
    BY <1>1, <1>3, <2>1, ListingCaptures, OpeningCaptures, ReplayCaptures, AccumulateCaptures
<1>10. VerifyExitsZeroExactlyIfFlawless' /\ AnchorVerdictIsFounded'
  BY <1>1, RunningSaysNothing
<1> QED
  BY <1>1, <1>5, <1>6, <1>7, <1>8, <1>9, <1>10 DEF CommandInv

\* The one file is opened, or cannot be.
LEMMA OpenTargetKeeps == ASSUME CommandInv, OpenTarget PROVE CommandInv'
<1>1. /\ HaveKey /\ exit = NoExit /\ target # Directory /\ stage = "list"
  BY DEF OpenTarget, Ready, AnchorChecked, Running
<1>2. ArgumentsInv /\ FileTargetInv /\ target \in DOMAIN entries
  BY <1>1 DEF CommandInv, ArgumentsInv
<1>3. CASE ~entries[target].open /\ Finish(2, "cannot read")
  <2>1. ~EvidenceIsFlawless
    BY <1>1, <1>3, Zenon DEF EvidenceIsFlawless
  <2>2. Justified(2, "cannot read")
    BY <2>1 DEF Justified
  <2> QED
    BY <1>3, <2>2, FinishKeeps
<1>4. CASE /\ entries[target].open /\ paths' = <<entries[target]>>
           /\ Begin(entries[target].file) /\ stage' = "replay"
           /\ UNCHANGED <<entries, next, result, commandVars>>
  <2>1. /\ UNCHANGED <<entries, opt, keyFor, next, result, command, target, keyArg, pubKey,
                       anchor, anchorOK, reached, verdict, exit>>
        /\ file' = entries[target].file /\ phase' = "scan" /\ pos' = 1
    BY <1>4 DEF commandVars, Begin
  <2>2. ArgumentsInv'
    BY <1>1, <1>2, <2>1, ArgumentsKeep
  <2>3. IsFile(entries[target].file) /\ opt \in Options
    BY <1>2 DEF ArgumentsInv, IsListing
  <2>4. FileInv'
    BY <1>4, <2>3, BeginInit
  <2>5. next = 1 /\ result = NoResult /\ IsResult(result)
    BY <1>1, <1>2 DEF FileTargetInv
  <2>6. IsResult(result)'
    BY <2>1, <2>5 DEF IsResult
  <2>7. FileTargetInv'
    BY <1>4, <2>1, <2>4, <2>5, <2>6 DEF FileTargetInv
  <2>8. ReadsThrough'
    BY <2>1 DEF ReadsThrough
  <2>9. CaptureInv'
    <3> SUFFICES ASSUME command = "anchor" PROVE CaptureInv'
      BY <2>1 DEF CaptureInv
    <3>1. reached' = {}
      BY <1>1, <2>1 DEF CommandInv, CaptureInv
    <3>2. 1 .. next' - 1 = {} /\ 1 .. pos' - 1 = {}
      BY <2>1, <2>5
    <3>3. CommittedBefore' = {} /\ CommittedHere' = {}
      BY <3>2 DEF CommittedBefore, CommittedHere
    <3> QED
      BY <1>4, <3>1, <3>3 DEF CaptureInv, CapturedOf
  <2>10. VerifyExitsZeroExactlyIfFlawless' /\ AnchorVerdictIsFounded'
    BY <1>1, <2>1, RunningSaysNothing
  <2> QED
    BY <1>1, <2>1, <2>2, <2>7, <2>8, <2>9, <2>10 DEF CommandInv
<1> QED
  BY <1>3, <1>4 DEF OpenTarget

\* VerifyFile returns.
LEMMA FileReturnsKeeps == ASSUME CommandInv, FileReturns PROVE CommandInv'
<1>1. /\ HaveKey /\ exit = NoExit /\ target # Directory /\ stage = "files"
      /\ next > Len(paths) /\ stage' = "returned"
      /\ UNCHANGED <<entries, paths, next, result, opt, keyFor, command, target, keyArg, pubKey,
                     anchor, anchorOK, reached, verdict, exit>>
  BY DEF FileReturns, Ready, AnchorChecked, Running, vars, commandVars
<1>2. ArgumentsInv'
  BY <1>1, ArgumentsKeep DEF CommandInv
<1>3. FileTargetInv'
  <2>1. FileTargetInv
    BY <1>1 DEF CommandInv
  <2>2. Flawless(entries[target].file)' <=> Flawless(entries[target].file)
    BY <1>1 DEF Flawless
  <2>3. IsResult(result)'
    BY <1>1, <2>1 DEF FileTargetInv, IsResult
  <2> QED
    BY <1>1, <2>1, <2>2, <2>3 DEF FileTargetInv
<1>4. ReadsThrough'
  BY <1>1 DEF ReadsThrough
<1>5. CaptureInv'
  BY <1>1, ReturningCaptures
<1>6. VerifyExitsZeroExactlyIfFlawless' /\ AnchorVerdictIsFounded'
  BY <1>1, RunningSaysNothing
<1> QED
  BY <1>1, <1>2, <1>3, <1>4, <1>5, <1>6 DEF CommandInv

\* The anchor or the public key cannot be read.
LEMMA BadArgumentsKeeps == ASSUME CommandInv, BadArguments PROVE CommandInv'
<1>1. Finish(2, "bad arguments")
  BY DEF BadArguments
<1>2. command = "anchor"
  BY DEF BadArguments
<1>3. Justified(2, "bad arguments")
  BY <1>2 DEF Justified
<1> QED
  BY <1>1, <1>3, FinishKeeps

\* The signature is checked.
LEMMA CheckAnchorKeeps == ASSUME CommandInv, CheckAnchor PROVE CommandInv'
<1>1. command = "anchor" /\ exit = NoExit
  BY DEF CheckAnchor, Running
<1>2. PICK pub \in LoadPublicKey(pubKey) :
        \/ Finish(1, "anchor not verified")
        \/ /\ Verify(pub, anchor) /\ anchorOK' = TRUE
           /\ UNCHANGED <<allVars, command, target, keyArg, pubKey, anchor, reached, verdict,
                          exit>>
  BY DEF CheckAnchor
<1>3. CASE Finish(1, "anchor not verified")
  <2>1. Justified(1, "anchor not verified")
    BY <1>1 DEF Justified
  <2> QED
    BY <1>3, <2>1, FinishKeeps
<1>4. CASE /\ Verify(pub, anchor) /\ anchorOK' = TRUE
           /\ UNCHANGED <<allVars, command, target, keyArg, pubKey, anchor, reached, verdict,
                          exit>>
  <2>1. UNCHANGED <<entries, stage, opt, keyFor>>
    BY <1>4 DEF allVars, dirVars, vars
  <2>2. HaveKey' <=> HaveKey
    BY <2>1 DEF HaveKey
  <2>3. \E p \in LoadPublicKey(pubKey') : Verify(p, anchor')
    BY <1>4
  <2>4. ArgumentsInv'
    BY <1>4, <2>1, <2>2, <2>3 DEF CommandInv, ArgumentsInv
  <2>5. /\ target' = Directory => DirTargetInv'
        /\ target' # Directory => FileTargetInv'
        /\ ReadsThrough' /\ CaptureInv'
    BY <1>4, PassIsLeftAlone
  <2>6. VerifyExitsZeroExactlyIfFlawless' /\ AnchorVerdictIsFounded'
    BY <1>1, <1>4, RunningSaysNothing
  <2> QED
    BY <2>4, <2>5, <2>6 DEF CommandInv
<1> QED
  BY <1>2, <1>3, <1>4

\* There is no key.
LEMMA NoKeyKeeps == ASSUME CommandInv, NoKey PROVE CommandInv'
<1>1. KeySource(keyArg, ChainIDs) = {} /\ Finish(2, "no key")
  BY DEF NoKey
<1>2. ~EvidenceIsFlawless
  BY <1>1 DEF EvidenceIsFlawless
<1>3. Justified(2, "no key")
  BY <1>2 DEF Justified
<1> QED
  BY <1>1, <1>3, FinishKeeps

\* The key is obtained, before anything is read.
LEMMA GetKeyKeeps == ASSUME CommandInv, GetKey PROVE CommandInv'
<1>1. /\ ~HaveKey /\ exit = NoExit /\ keyFor' \in KeySource(keyArg, ChainIDs)
      /\ UNCHANGED <<opt, entries, paths, stage, next, result, command, target, keyArg, pubKey,
                     anchor, anchorOK, reached, verdict, exit>>
  BY DEF GetKey, AnchorChecked, Running, dirVars, commandVars
<1>2. ArgumentsInv /\ stage = "list"
  BY <1>1 DEF CommandInv, ArgumentsInv
<1>3. ArgumentsInv'
  BY <1>1, <1>2 DEF ArgumentsInv
<1>4. ASSUME IsResult(result) PROVE IsResult(result)'
  BY <1>1, <1>4 DEF IsResult
<1>5. ASSUME target = Directory PROVE DirTargetInv'
  <2>1. /\ opt \in Options /\ IsResult(result) /\ next = 1 /\ result = NoResult
        /\ IsListing(entries) /\ Distinct(entries)
    BY <1>2, <1>5 DEF CommandInv, DirTargetInv, DirInv
  <2>2. Distinct(entries)'
    BY <1>1, <2>1 DEF Distinct
  <2>3. FindsNothingExactlyIfUnbroken'
    BY <1>1, <1>2 DEF FindsNothingExactlyIfUnbroken
  <2>4. NoResult' = NoResult
    BY DEF NoResult
  <2>5. DirInv'
    BY <1>1, <1>2, <1>4, <2>1, <2>2, <2>3, <2>4 DEF DirInv
  <2> QED
    BY <1>1, <1>2, <2>5 DEF DirTargetInv
<1>6. ASSUME target # Directory PROVE FileTargetInv'
  <2>1. IsResult(result) /\ next = 1 /\ result = NoResult
    BY <1>2, <1>6 DEF CommandInv, FileTargetInv
  <2> QED
    BY <1>1, <1>2, <1>4, <2>1 DEF FileTargetInv
<1>7. ReadsThrough'
  BY <1>1, <1>2 DEF ReadsThrough
<1>8. CaptureInv'
  BY <1>1, <1>2 DEF CommandInv, CaptureInv
<1>9. VerifyExitsZeroExactlyIfFlawless' /\ AnchorVerdictIsFounded'
  BY <1>1, RunningSaysNothing
<1> QED
  BY <1>1, <1>3, <1>5, <1>6, <1>7, <1>8, <1>9 DEF CommandInv

\* The directory holds no log file.
LEMMA NothingThereKeeps == ASSUME CommandInv, NothingThere PROVE CommandInv'
<1>1. stage = "error" /\ Finish(2, "cannot read")
  BY DEF NothingThere
<1>2. target = Directory /\ Logs = {}
  BY <1>1 DEF CommandInv, FileTargetInv, DirTargetInv
<1>3. LogFiles = {}
  BY <1>2 DEF LogFiles
<1>4. ~EvidenceIsFlawless
  BY <1>2, <1>3 DEF EvidenceIsFlawless
<1>5. Justified(2, "cannot read")
  BY <1>4 DEF Justified
<1> QED
  BY <1>1, <1>5, FinishKeeps

\* verify reports.
LEMMA ReportVerifyKeeps == ASSUME CommandInv, ReportVerify PROVE CommandInv'
<1>1. command = "verify" /\ stage = "returned"
  BY DEF ReportVerify
<1>2. result.issues = {} <=> EvidenceIsFlawless
  BY <1>1, ReturnedIsExact
<1>3. CASE result.issues # {}
  <2>1. PICK v : Finish(1, v)
    BY <1>3 DEF ReportVerify
  <2>2. Justified(1, v)
    BY <1>1, <1>2, <1>3 DEF Justified
  <2> QED
    BY <2>1, <2>2, FinishKeeps
<1>4. CASE result.issues = {}
  <2>1. PICK v : Finish(0, v)
    BY <1>4 DEF ReportVerify
  <2>2. Justified(0, v)
    BY <1>1, <1>2, <1>4 DEF Justified
  <2> QED
    BY <2>1, <2>2, FinishKeeps
<1> QED
  BY <1>3, <1>4

\* anchor reports.
LEMMA ReportAnchorKeeps == ASSUME CommandInv, ReportAnchor PROVE CommandInv'
<1>1. command = "anchor" /\ stage = "returned" /\ anchorOK
  BY DEF ReportAnchor, Ready, AnchorChecked
<1>2. result.issues = {} <=> EvidenceIsFlawless
  BY <1>1, ReturnedIsExact
<1>3. CapturedOf(reached, CommittedLines)
  BY <1>1 DEF CommandInv, CaptureInv
<1>4. CASE reached = {} /\ Finish(1, "not reached")
  <2>1. CommittedLines = {}
    BY <1>3, <1>4 DEF CapturedOf
  <2>2. Justified(1, "not reached")
    BY <1>1, <2>1 DEF Justified
  <2> QED
    BY <1>4, <2>2, FinishKeeps
<1>5. CASE reached \notin {{}, {anchor.record.mac}} /\ Finish(1, "altered")
  <2>1. \E l \in CommittedLines : l.hex = "none" \/ l.mac # anchor.record.mac
    BY <1>3, <1>5 DEF CapturedOf
  <2>2. Justified(1, "altered")
    BY <1>1, <2>1 DEF Justified
  <2> QED
    BY <1>5, <2>2, FinishKeeps
<1>6. ASSUME reached = {anchor.record.mac}
      PROVE  \E l \in CommittedLines : l.hex = "none" \/ l.mac = anchor.record.mac
  BY <1>3, <1>6 DEF CapturedOf
<1>7. CASE /\ reached = {anchor.record.mac} /\ result.issues # {}
           /\ Finish(1, "prefix matches")
  <2>1. /\ ~EvidenceIsFlawless
        /\ \E l \in CommittedLines : l.hex = "none" \/ l.mac = anchor.record.mac
    BY <1>2, <1>6, <1>7
  <2>2. Justified(1, "prefix matches")
    BY <1>1, <2>1 DEF Justified
  <2> QED
    BY <1>7, <2>2, FinishKeeps
<1>8. CASE /\ reached = {anchor.record.mac} /\ result.issues = {}
           /\ Finish(0, "exact match")
  <2>1. EvidenceIsFlawless
    BY <1>2, <1>8
  <2>2. PICK l \in CommittedLines : l.hex = "none" \/ l.mac = anchor.record.mac
    BY <1>6, <1>8
  <2>3. PICK f \in Evidence : l \in CommittedIn(f)
    BY <2>2, CommittedByFile
  <2>4. l.hex = "lower"
    BY <2>1, <2>3, EvidenceFiles, FlawlessIsLower
  <2>5. l.mac = anchor.record.mac
    BY <2>2, <2>4
  <2>6. \E pub \in LoadPublicKey(pubKey) : Verify(pub, anchor)
    BY <1>1 DEF CommandInv, ArgumentsInv
  <2>7. Justified(0, "exact match")
    BY <1>1, <2>1, <2>5, <2>6 DEF Justified
  <2> QED
    BY <1>8, <2>7, FinishKeeps
<1> QED
  BY <1>4, <1>5, <1>7, <1>8 DEF ReportAnchor

\* Nothing happens, as after the command has exited.
LEMMA NothingKeeps ==
  ASSUME CommandInv, UNCHANGED <<allVars, commandVars>>
  PROVE  CommandInv'
<1>1. UNCHANGED <<allVars, command, target, keyArg, pubKey, anchor, anchorOK, reached, verdict,
                  exit>>
  BY DEF commandVars
<1>2. UNCHANGED <<entries, stage, opt, keyFor>>
  BY <1>1 DEF allVars, dirVars, vars
<1>3. ArgumentsInv'
  BY <1>1, <1>2, ArgumentsKeep DEF CommandInv
<1>4. /\ target' = Directory => DirTargetInv'
      /\ target' # Directory => FileTargetInv'
      /\ ReadsThrough' /\ CaptureInv'
  BY <1>1, PassIsLeftAlone
<1>5. /\ EvidenceIsFlawless' <=> EvidenceIsFlawless
      /\ CommittedLines' = CommittedLines
  BY <1>1, <1>2, SameEvidence
<1>6. VerifyExitsZeroExactlyIfFlawless'
  BY <1>1, <1>5 DEF CommandInv, VerifyExitsZeroExactlyIfFlawless
<1>7. AnchorVerdictIsFounded'
  BY <1>1, <1>5 DEF CommandInv, AnchorVerdictIsFounded
<1> QED
  BY <1>3, <1>4, <1>6, <1>7 DEF CommandInv

-----------------------------------------------------------------------------
(* The theorems.                                                           *)

\* A command is called on any listing.
FreshCommand ==
  /\ FreshDir /\ phase = "done" /\ keyFor = <<>>
  /\ command \in {"verify", "anchor"} /\ target \in {Directory} \cup DOMAIN entries
  /\ command = "anchor" => opt = [allowUnsigned |-> FALSE, stopOnFirst |-> FALSE]
  /\ anchorOK = FALSE /\ reached = {} /\ verdict = "" /\ exit = NoExit

\* A run of a command begins so.
LEMMA CommandInitIsFresh == CommandInit => FreshCommand
<1> SUFFICES ASSUME CommandInit PROVE FreshCommand
  OBVIOUS
<1>1. DirInit /\ FreshDir
  BY DirInitIsFresh DEF CommandInit
<1>2. phase = "done"
  BY <1>1 DEF DirInit
<1> QED
  BY <1>1, <1>2, Zenon DEF CommandInit, FreshCommand

\* Then the invariant holds.
LEMMA CommandInitInv == FreshCommand => CommandInv
<1> SUFFICES ASSUME FreshCommand PROVE CommandInv
  OBVIOUS
<1>1. FreshDir /\ DirInv
  BY FreshDirInv DEF FreshCommand
<1>2. /\ IsListing(entries) /\ opt \in Options /\ stage = "list" /\ next = 1
      /\ result = NoResult
  BY <1>1 DEF FreshDir
<1>3. /\ keyFor = <<>> /\ command \in {"verify", "anchor"}
      /\ target \in {Directory} \cup DOMAIN entries
      /\ anchorOK = FALSE /\ reached = {} /\ exit = NoExit
  BY Zenon DEF FreshCommand
<1>4. command = "anchor" => ~opt.stopOnFirst
  <2>1. command = "anchor" => opt = [allowUnsigned |-> FALSE, stopOnFirst |-> FALSE]
    BY Zenon DEF FreshCommand
  <2> QED
    BY <2>1
<1>5. ArgumentsInv
  BY <1>2, <1>3, <1>4 DEF ArgumentsInv
<1>6. DirTargetInv
  BY <1>1, <1>2 DEF DirTargetInv
<1>7. FileTargetInv
  BY <1>1, <1>2 DEF FileTargetInv, DirInv
<1>8. ReadsThrough /\ CaptureInv
  BY <1>2, <1>3 DEF ReadsThrough, CaptureInv
<1>9. VerifyExitsZeroExactlyIfFlawless /\ AnchorVerdictIsFounded
  BY <1>3 DEF VerifyExitsZeroExactlyIfFlawless, AnchorVerdictIsFounded
<1> QED
  BY <1>5, <1>6, <1>7, <1>8, <1>9 DEF CommandInv

\* Every step of a command keeps the invariant.
LEMMA CommandStepKeeps ==
  ASSUME CommandInv, [CommandNext]_<<allVars, commandVars>>
  PROVE  CommandInv'
<1>1. CASE BadArguments
  BY <1>1, BadArgumentsKeeps
<1>2. CASE CheckAnchor
  BY <1>2, CheckAnchorKeeps
<1>3. CASE NoKey
  BY <1>3, NoKeyKeeps
<1>4. CASE GetKey
  BY <1>4, GetKeyKeeps
<1>5. CASE OpenTarget
  BY <1>5, OpenTargetKeeps
<1>6. CASE FileReturns
  BY <1>6, FileReturnsKeeps
<1>7. CASE Verifying
  BY <1>7, VerifyingKeeps
<1>8. CASE NothingThere
  BY <1>8, NothingThereKeeps
<1>9. CASE ReportVerify
  BY <1>9, ReportVerifyKeeps
<1>10. CASE ReportAnchor
  BY <1>10, ReportAnchorKeeps
<1>11. CASE UNCHANGED <<allVars, commandVars>>
  BY <1>11, NothingKeeps
<1> QED
  BY <1>1, <1>2, <1>3, <1>4, <1>5, <1>6, <1>7, <1>8, <1>9, <1>10, <1>11
     DEF CommandNext, CommandStep, Exited

\* The commands' invariant is inductive.
LEMMA CommandInvariant == CommandSpec => []CommandInv
<1>1. CommandInit => CommandInv
  BY CommandInitIsFresh, CommandInitInv
<1>2. CommandInv /\ [CommandNext]_<<allVars, commandVars>> => CommandInv'
  BY CommandStepKeeps
<1> QED
  BY <1>1, <1>2, PTL DEF CommandSpec

\* The pass over a directory is exact, whichever command makes it.
THEOREM PassIsExact == CommandSpec => []DirectoryPassIsExact
<1>1. CommandInv => DirectoryPassIsExact
  BY DEF CommandInv, DirTargetInv, DirInv, DirectoryPassIsExact
<1> QED
  BY <1>1, CommandInvariant, PTL

\* verify exits 0 exactly if there is a key and all of the evidence is flawless, for all
\* directories and files, options and arguments.
THEOREM VerifyIsExact == CommandSpec => []VerifyExitsZeroExactlyIfFlawless
<1>1. CommandInv => VerifyExitsZeroExactlyIfFlawless
  BY DEF CommandInv
<1> QED
  BY <1>1, CommandInvariant, PTL

\* Each verdict of the anchor command is founded on the lines that the anchor commits to,
\* for all evidence, keys and anchors.
THEOREM AnchorIsFounded == CommandSpec => []AnchorVerdictIsFounded
<1>1. CommandInv => AnchorVerdictIsFounded
  BY DEF CommandInv
<1> QED
  BY <1>1, CommandInvariant, PTL
=============================================================================
