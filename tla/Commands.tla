------------------------------ MODULE Commands ------------------------------
(***************************************************************************)
(* The commands "logverify verify" and "logverify anchor": what they ask   *)
(* of VerifyDir or VerifyFile, what they make of the result, and the exit  *)
(* code.                                                                   *)
(***************************************************************************)
EXTENDS VerifyDir, AnchorFormat

CONSTANT ChainIDs     \* the chain ids that occur, "" for format version 1

VARIABLES
  command,    \* "verify" or "anchor"
  target,     \* Directory, or the index of the entry that -file names
  keyArg,     \* -identity and -key-file
  pubKey,     \* anchor: -pubkey
  anchor,     \* anchor: the signed anchor that was read, or NoAnchor
  anchorOK,   \* anchor: the anchor verified
  reached,    \* anchor: the MAC captured at the committed line, {} when !found
  verdict,    \* what the command says of the evidence, "" before it does
  exit        \* exit code, NoExit while running

commandVars == <<command, target, keyArg, pubKey, anchor, anchorOK, reached,
                 verdict, exit>>

NoAnchor == [record |-> [chain |-> "", lineCount |-> 0], signature |-> Plain(<<>>)]

NoExit == 9
Directory == 0

Running == exit = NoExit

\* Exit, saying v.
Finish(code, v) ==
  /\ exit' = code /\ verdict' = v
  /\ UNCHANGED <<allVars, command, target, keyArg, pubKey, anchor, anchorOK, reached>>

-----------------------------------------------------------------------------
\* The anchor cannot be read or parsed, or the public key is none.
BadArguments ==
  /\ Running /\ command = "anchor" /\ stage = "list"
  /\ anchor = NoAnchor \/ LoadPublicKey(pubKey) = {}
  /\ Finish(2, "bad arguments")

\* The signature first: a log is not compared with an unverified claim.
CheckAnchor ==
  /\ Running /\ command = "anchor" /\ stage = "list" /\ ~anchorOK /\ anchor # NoAnchor
  /\ \E pub \in LoadPublicKey(pubKey) :
     \/ /\ ~Verify(pub, anchor)
        /\ Finish(1, "anchor not verified")
     \/ /\ Verify(pub, anchor)
        /\ anchorOK' = TRUE
        /\ UNCHANGED <<allVars, command, target, keyArg, pubKey, anchor, reached,
                       verdict, exit>>

HaveKey == DOMAIN keyFor # {}
AnchorChecked == Running /\ (command = "anchor" => anchorOK)

\* keySource: both commands need a key, and the anchor command asks for it once
\* the signature has been checked.
NoKey ==
  /\ AnchorChecked /\ ~HaveKey
  /\ KeySource(keyArg, ChainIDs) = {}
  /\ Finish(2, "no key")

GetKey ==
  /\ AnchorChecked /\ ~HaveKey
  /\ keyFor' \in KeySource(keyArg, ChainIDs)
  /\ UNCHANGED <<file, opt, phase, pos, lineNum, prevMAC, key, cur, segments, issues, calls,
                 truncated, dirVars, commandVars>>

Ready == AnchorChecked /\ HaveKey

\* -file: VerifyFile on one file, whatever it is called.
OpenTarget ==
  /\ Ready /\ target # Directory /\ stage = "list"
  /\ LET e == entries[target]
     IN \/ /\ ~e.open
           /\ Finish(2, "cannot read")
        \/ /\ e.open
           /\ paths' = <<e>>
           /\ Begin(e.file)
           /\ stage' = "replay"
           /\ UNCHANGED <<entries, next, result, commandVars>>

FileReturns ==
  /\ Ready /\ target # Directory /\ stage = "files" /\ next > Len(paths)
  /\ stage' = "returned"
  /\ UNCHANGED <<vars, entries, paths, next, result, commandVars>>

\* Mutant: the last line of the file is captured, not the committed one.
CaptureLast ==
  reached' = LET hits == {c \in calls' \ calls :
                            /\ command = "anchor"
                            /\ c.chain = anchor.record.chain
                            /\ c.seq = anchor.record.seq}
             IN IF hits = {} THEN reached ELSE {c.mac : c \in hits}

\* The OnLine callback: the MAC at exactly the line the anchor commits to.
Capture ==
  reached' = LET hits == {c \in calls' \ calls :
                            /\ command = "anchor"
                            /\ c.chain = anchor.record.chain
                            /\ c.seq = anchor.record.seq
                            /\ c.line = anchor.record.lineCount}
             IN IF hits = {} THEN reached ELSE {c.mac : c \in hits}

\* A step of VerifyFile or of VerifyDir.
Verifying ==
  /\ Ready
  /\ \/ target = Directory /\ (ListDir \/ OpenFails \/ OpenFile \/ LinkUp)
     \/ ReplayFile
     \/ Accumulate
  /\ Capture
  /\ UNCHANGED <<command, target, keyArg, pubKey, anchor, anchorOK, verdict, exit>>

\* VerifyDir found nothing to verify.
NothingThere ==
  /\ Ready /\ stage = "error"
  /\ Finish(2, "cannot read")

\* runVerify: exit 0 only without issues.
ReportVerify ==
  /\ Ready /\ command = "verify" /\ stage = "returned"
  /\ \/ /\ result.issues # {}
        /\ Finish(1, IF result.truncated THEN "stopped" ELSE "violations")
     \/ /\ result.issues = {}
        /\ Finish(0, IF target = Directory /\ ~result.truncated THEN "one unbroken chain"
                     ELSE "verified")

\* runAnchor: the captured MAC decides first, then everything else that is wrong.
ReportAnchor ==
  /\ Ready /\ command = "anchor" /\ stage = "returned"
  /\ \/ reached = {} /\ Finish(1, "not reached")
     \/ reached \notin {{}, {anchor.record.mac}} /\ Finish(1, "altered")
     \/ /\ reached = {anchor.record.mac}
        /\ IF result.issues # {} THEN Finish(1, "prefix matches")
           ELSE Finish(0, "exact match")

CommandStep ==
  BadArguments \/ CheckAnchor \/ NoKey \/ GetKey \/ OpenTarget \/ FileReturns \/ Verifying \/ NothingThere
  \/ ReportVerify \/ ReportAnchor

-----------------------------------------------------------------------------
\* A command is called, on whatever there is.  The anchor command verifies with the
\* default options.
CommandInit ==
  /\ DirInit /\ keyFor = <<>>
  /\ command \in {"verify", "anchor"} /\ target \in {Directory} \cup DOMAIN entries
  /\ command = "anchor" => opt = [allowUnsigned |-> FALSE, stopOnFirst |-> FALSE]
  /\ anchorOK = FALSE /\ reached = {} /\ verdict = "" /\ exit = NoExit

\* The command has exited.
Exited == ~Running /\ UNCHANGED <<allVars, commandVars>>

CommandNext == CommandStep \/ Exited

CommandSpec == CommandInit /\ [][CommandNext]_<<allVars, commandVars>>

-----------------------------------------------------------------------------
\* The files of the evidence that can be opened.
Evidence ==
  {e.file : e \in {d \in (IF target = Directory THEN LogFiles ELSE {entries[target]}) : d.open}}

\* There is a key; there is something to verify, and all of it is flawless; and the
\* files of a directory claim to be one unbroken run for each chain.
EvidenceIsFlawless ==
  /\ keyFor \in KeySource(keyArg, ChainIDs)
  /\ IF target = Directory
     THEN /\ LogFiles # {} /\ AllUnbroken(AllClaims)
          /\ \A e \in LogFiles : e.open /\ Flawless(e.file)
     ELSE entries[target].open /\ Flawless(entries[target].file)

\* Both commands learn from the pass over a directory exactly whether it is one unbroken
\* run for each chain, whatever the arguments are and whatever OnLine captures meanwhile.
DirectoryPassIsExact == target = Directory => FindsNothingExactlyIfUnbroken

\* verify exits 0 exactly if the evidence is flawless, whichever findings, files that
\* cannot be opened, early stops and missing keys there are, and in whatever order.
VerifyExitsZeroExactlyIfFlawless ==
  (command = "verify" /\ exit # NoExit) => (exit = 0 <=> EvidenceIsFlawless)

\* Line i of file f is the one the anchor commits to: the line with that number in a
\* segment of that chain and file number, for which there is a key.
Committed(f, i) ==
  /\ Signed(f.lines, i)
  /\ \E s \in 1 .. i :
       /\ Governs(f.lines, s, i) /\ KeyAt(f.lines, keyFor, s) # {}
       /\ f.lines[s].text.chain = anchor.record.chain
       /\ ParseUint(f.lines[s].text.seq) = anchor.record.seq
       /\ Cardinality({j \in s .. i : Signed(f.lines, j)}) = anchor.record.lineCount

CommittedLines ==
  UNION {{f.lines[i] : i \in {j \in DOMAIN f.lines : Committed(f, j)}} : f \in Evidence}

\* What the anchor command says, it can show: "exact match" only of flawless evidence, under
\* a valid signature, with a committed line that states the MAC that was signed; "prefix
\* matches" and "altered" only if a committed line states that MAC, or another one
\* (one that cannot be decoded may have counted as either); and "not reached" only if there
\* is no committed line at all.
AnchorVerdictIsFounded ==
  (command = "anchor" /\ exit # NoExit) =>
    /\ exit = 0 <=> verdict = "exact match"
    /\ verdict = "exact match" =>
         /\ \E pub \in LoadPublicKey(pubKey) : Verify(pub, anchor)
         /\ EvidenceIsFlawless
         /\ \E l \in CommittedLines : l.mac = anchor.record.mac
    /\ verdict = "prefix matches" =>
         /\ ~EvidenceIsFlawless
         /\ \E l \in CommittedLines : l.hex = "none" \/ l.mac = anchor.record.mac
    /\ verdict = "altered" =>
         \E l \in CommittedLines : l.hex = "none" \/ l.mac # anchor.record.mac
    /\ verdict = "not reached" => CommittedLines = {}
=============================================================================
