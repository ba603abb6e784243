------------------------------ MODULE Producer ------------------------------
(***************************************************************************)
(* corpus.Producer, the writer of one chain.  It only hands out lines and  *)
(* anchors; files and anchors keep what it has handed out.  ProducerNext   *)
(* drives it as corpus.Build and the tests do: each file is started,       *)
(* filled and anchored, and then the producer rotates to the next.         *)
(***************************************************************************)
EXTENDS ChainFormat, AnchorFormat

CONSTANTS Identity,    \* the signing identity (its private key)
          ChainID,
          MaxSeq,      \* bound: the number of the last file
          MaxLines,    \* bound: the lines of a file
          MaxAnchors   \* bound: the anchors ever signed

\* Build fills in an empty chain id.
ASSUME ProducerAssumption == /\ ChainID # ""
                             /\ MaxSeq \in Uint
                             /\ MaxLines \in Nat \ {0}
                             /\ MaxAnchors \in Nat

VARIABLES
  seq,
  macNow,      \* prevMAC, which is also the name of a variable of VerifyReader
  prevFileMAC, lineCount, anchorSeq, prevAnchor,
  clock,       \* ticks once for every line and every anchor
  files,       \* what was written: files[n + 1] holds the lines of file n
  anchors      \* the anchors signed, in order

producerVars == <<seq, macNow, prevFileMAC, lineCount, anchorSeq, prevAnchor,
                  clock, files, anchors>>

ChainKey == DerivedKey(Identity, ChainID, seq)

-----------------------------------------------------------------------------
Started == Len(files) = seq + 1   \* the current file has its start line

\* A signed line over text, chained to the MAC prev.
SignedLine(text, prev) ==
  [form |-> "signed", text |-> text, mac |-> HMAC(ChainKey, text, prev),
   hex |-> "lower"]

\* A line in format version 1, whose start line says nothing about continuity.
V1Line(start, time, prev) ==
  SignedLine([start |-> start, v |-> "", chain |-> "", seq |-> IF start THEN -1 ELSE 0,
              prev |-> {}, body |-> time], prev)

\* Mutant: the chain runs on from the file before.
StartFileOnward ==
  /\ ~Started
  /\ LET text == [start |-> TRUE, v |-> "2", chain |-> ChainID, seq |-> seq,
                  prev |-> prevFileMAC, body |-> clock]
         line == SignedLine(text, macNow)
     IN files' = Append(files, <<line>>) /\ macNow' = line.mac
  /\ lineCount' = 1
  /\ clock' = clock + 1
  /\ UNCHANGED <<seq, prevFileMAC, anchorSeq, prevAnchor, anchors>>

\* Mutant: the lines are counted on from the file before.
StartFileCounting ==
  /\ ~Started
  /\ LET text == [start |-> TRUE, v |-> "2", chain |-> ChainID, seq |-> seq,
                  prev |-> prevFileMAC, body |-> clock]
         line == SignedLine(text, Zero)
     IN files' = Append(files, <<line>>) /\ macNow' = line.mac
  /\ lineCount' = lineCount + 1
  /\ clock' = clock + 1
  /\ UNCHANGED <<seq, prevFileMAC, anchorSeq, prevAnchor, anchors>>

\* StartSegment, a name VerifyReader's model has taken.  The start line resets the
\* chain, and names the predecessor's closing MAC unless this is the first file.
StartFile ==
  /\ ~Started
  /\ LET text == [start |-> TRUE, v |-> "2", chain |-> ChainID, seq |-> seq,
                  prev |-> prevFileMAC, body |-> clock]
         line == SignedLine(text, Zero)
     IN files' = Append(files, <<line>>) /\ macNow' = line.mac
  /\ lineCount' = 1
  /\ clock' = clock + 1
  /\ UNCHANGED <<seq, prevFileMAC, anchorSeq, prevAnchor, anchors>>

\* An ordinary line.  Its time makes it unlike every other line.
WriteLine ==
  /\ Started /\ lineCount < MaxLines
  /\ LET text == [start |-> FALSE, v |-> "", chain |-> "", seq |-> 0,
                  prev |-> {}, body |-> clock]
         line == SignedLine(text, macNow)
     IN /\ files' = [files EXCEPT ![seq + 1] = Append(@, line)]
        /\ macNow' = line.mac
  /\ lineCount' = lineCount + 1
  /\ clock' = clock + 1
  /\ UNCHANGED <<seq, prevFileMAC, anchorSeq, prevAnchor, anchors>>

\* The closing MAC is carried into the next file.
Rotate ==
  /\ seq < MaxSeq
  /\ prevFileMAC' = {macNow}
  /\ seq' = seq + 1
  /\ UNCHANGED <<macNow, lineCount, anchorSeq, prevAnchor, clock, files, anchors>>

\* A signed commitment to the lines counted so far and the MAC they lead to, under the
\* number of the current file.
Anchor(final) ==
  /\ Len(anchors) < MaxAnchors
  /\ anchorSeq' = Plus(anchorSeq, 1)
  /\ LET a == [keyFp |-> Fingerprint(Identity), chain |-> ChainID, seq |-> seq,
               lineCount |-> lineCount, mac |-> macNow, final |-> final,
               anchorSeq |-> Plus(anchorSeq, 1), prevAnchor |-> prevAnchor]
         sa == [record |-> a, signature |-> Plain(Sign(Identity, a))]
     IN anchors' = Append(anchors, sa) /\ prevAnchor' = {Digest(sa)}
  /\ clock' = clock + 1
  /\ UNCHANGED <<seq, macNow, prevFileMAC, lineCount, files>>

NewChain ==
  /\ seq = 0 /\ macNow = Zero /\ prevFileMAC = {} /\ lineCount = 0 /\ clock = 0
  /\ files = <<>> /\ anchors = <<>>

ProducerInit == NewChain /\ anchorSeq = 0 /\ prevAnchor = {}

\* As corpus.Build and the tests drive it: a file is started before it is anchored or
\* rotated away.  The code does not ask for that; an anchor signed between Rotate and
\* StartSegment would say of the next file what is true of the closed one.
RotateStarted == Started /\ Rotate
AnchorStarted(final) == Started /\ Anchor(final)

ProducerNext ==
  StartFile \/ WriteLine \/ RotateStarted \/ \E final \in BOOLEAN : AnchorStarted(final)

ProducerSpec == ProducerInit /\ [][ProducerNext]_producerVars

-----------------------------------------------------------------------------
\* What the producer has written is a chain by the format's own definition:
\* every line of every file carries the MAC the line before it calls for under
\* the key of its file, only the first line is a start line, and the start line
\* names the closing MAC of the file before, none for the first file.
WritesOneChain ==
  \A n \in 0 .. Len(files) - 1 :
    LET L == files[n + 1]
    IN /\ \A i \in DOMAIN L : /\ IsLine(L[i])
                              /\ IsStart(L, i) <=> i = 1
                              /\ Chained(L, ChainKeys(Identity, {ChainID}), 1, i)
       /\ L[1].text.seq = n
       /\ L[1].text.prev = IF n = 0 THEN {} ELSE {files[n][Len(files[n])].mac}

\* An anchor commits to a prefix of a file that later writing never changes,
\* verifies under the identity that signed it, and follows from the one before,
\* across rotations.
AnchorsCommitToPrefixes ==
  \A k \in 1 .. Len(anchors) :
    LET a == anchors[k].record
    IN /\ a.lineCount \in DOMAIN files[a.seq + 1]
       /\ a.mac = files[a.seq + 1][a.lineCount].mac
       /\ Verify(Identity, anchors[k])
       /\ k > 1 => FollowsFrom(anchors[k], anchors[k - 1])
=============================================================================
