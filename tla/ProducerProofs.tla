--------------------------- MODULE ProducerProofs ---------------------------
(***************************************************************************)
(* Proofs about Producer: whatever the number of files, lines and anchors, *)
(* what is written is one chain, the anchors commit to it, and nothing     *)
(* that was written changes.                                               *)
(***************************************************************************)
EXTENDS Producer, SequenceTheorems, TLAPS

-----------------------------------------------------------------------------
(* Sequences whose elements come from no set that is fixed beforehand.     *)

IsSeq(s) == s \in Seq({s[i] : i \in DOMAIN s})

\* What is a sequence over some set is a sequence.
LEMMA SeqIsSeq == ASSUME NEW S, NEW s \in Seq(S) PROVE IsSeq(s)
<1>1. /\ Len(s) \in Nat /\ DOMAIN s = 1 .. Len(s) /\ s \in [1 .. Len(s) -> S]
  BY LenProperties
<1> DEFINE T == {s[i] : i \in DOMAIN s}
<1>2. s \in [1 .. Len(s) -> T]
  BY <1>1
<1>3. s \in Seq(T)
  BY <1>1, <1>2, SeqDef
<1> QED
  BY <1>3 DEF IsSeq

\* The length and the domain of a sequence.
LEMMA SeqShape ==
  ASSUME NEW s, IsSeq(s)
  PROVE  Len(s) \in Nat /\ DOMAIN s = 1 .. Len(s) /\ s = [i \in 1 .. Len(s) |-> s[i]]
<1>1. s \in Seq({s[i] : i \in DOMAIN s})
  BY DEF IsSeq
<1> QED
  BY <1>1, LenProperties

\* Append adds one element at the end and leaves the others.
LEMMA AppendGrows ==
  ASSUME NEW s, NEW e, IsSeq(s)
  PROVE  /\ IsSeq(Append(s, e)) /\ Len(Append(s, e)) = Len(s) + 1
         /\ \A i \in 1 .. Len(s) : Append(s, e)[i] = s[i]
         /\ Append(s, e)[Len(s) + 1] = e
<1> DEFINE S == {s[i] : i \in DOMAIN s}
           T == S \cup {e}
<1>1. s \in Seq(S)
  BY DEF IsSeq
<1>2. s \in Seq(T)
  <2>1. S \subseteq T
    OBVIOUS
  <2> HIDE DEF S, T
  <2> QED
    BY <1>1, <2>1, SeqMonotonic
<1>3. e \in T
  OBVIOUS
<1> HIDE DEF T
<1>4. /\ Append(s, e) \in Seq(T) /\ Len(Append(s, e)) = Len(s) + 1
      /\ \A i \in 1 .. Len(s) : Append(s, e)[i] = s[i]
      /\ Append(s, e)[Len(s) + 1] = e
  BY <1>2, <1>3, AppendProperties
<1> QED
  BY <1>4, SeqIsSeq

\* A function on the domain of a sequence is a sequence of the same length.
LEMMA SameDomain ==
  ASSUME NEW s, IsSeq(s), NEW t, t = [i \in DOMAIN s |-> t[i]]
  PROVE  IsSeq(t) /\ Len(t) = Len(s)
<1> DEFINE T == {t[i] : i \in DOMAIN t}
<1>1. Len(s) \in Nat /\ DOMAIN s = 1 .. Len(s)
  BY SeqShape
<1>2. t \in [1 .. Len(s) -> T]
  BY <1>1
<1>3. t \in Seq(T) /\ DOMAIN t = 1 .. Len(s)
  BY <1>1, <1>2, SeqDef
<1>4. DOMAIN t = 1 .. Len(t) /\ Len(t) \in Nat
  BY <1>3, LenProperties
<1>5. Len(t) = Len(s)
  BY <1>1, <1>3, <1>4
<1> QED
  BY <1>3, <1>5 DEF IsSeq

-----------------------------------------------------------------------------
(* The inductive invariant.                                                *)

Closing(L) == L[Len(L)].mac

\* The predecessor that the start line of file n names.
Predecessor(n) == IF n = 0 THEN {} ELSE {Closing(files[n])}

\* Line i of file n is a signed one that goes on from the line before it.
Follows(L, n, i) ==
  /\ IsLine(L[i]) /\ L[i].form = "signed" /\ L[i].hex = "lower"
  /\ L[i].text.start <=> i = 1
  /\ L[i].mac = HMAC(DerivedKey(Identity, ChainID, n), L[i].text,
                     IF i = 1 THEN Zero ELSE L[i - 1].mac)

\* L is what file n may hold when its start line names prev.
Written(L, n, prev) ==
  /\ IsSeq(L) /\ Len(L) > 0
  /\ \A i \in 1 .. Len(L) : Follows(L, n, i)
  /\ L[1].text.v = "2" /\ L[1].text.chain = ChainID
  /\ L[1].text.seq = n /\ L[1].text.prev = prev

FilesWritten ==
  /\ IsSeq(files)
  /\ \A n \in 0 .. Len(files) - 1 : Written(files[n + 1], n, Predecessor(n))

\* The producer's registers are those of the file it is writing.
InStep ==
  /\ seq \in 0 .. MaxSeq /\ lineCount \in Nat
  /\ Len(files) \in {seq, seq + 1}
  /\ prevFileMAC = Predecessor(seq)
  /\ Started => /\ lineCount = Len(files[seq + 1])
                /\ macNow = Closing(files[seq + 1])

IsAnchor(sa) ==
  LET a == sa.record
  IN /\ sa = [record |-> a, signature |-> Plain(Sign(Identity, a))]
     /\ a = [keyFp |-> Fingerprint(Identity), chain |-> ChainID, seq |-> a.seq,
             lineCount |-> a.lineCount, mac |-> a.mac, final |-> a.final,
             anchorSeq |-> a.anchorSeq, prevAnchor |-> a.prevAnchor]

\* The record commits to a prefix of a file that was started.
Commits(a) ==
  /\ a.seq + 1 \in 1 .. Len(files)
  /\ a.lineCount \in 1 .. Len(files[a.seq + 1])
  /\ a.mac = files[a.seq + 1][a.lineCount].mac

AnchorsIssued ==
  /\ IsSeq(anchors)
  /\ \A k \in 1 .. Len(anchors) :
       /\ IsAnchor(anchors[k]) /\ anchors[k].record.seq \in Nat
       /\ Commits(anchors[k].record)
       /\ k > 1 => FollowsFrom(anchors[k], anchors[k - 1])
  /\ anchors # <<>> => /\ prevAnchor = {Digest(anchors[Len(anchors)])}
                       /\ anchorSeq = anchors[Len(anchors)].record.anchorSeq

ProducerInv == FilesWritten /\ InStep /\ AnchorsIssued

-----------------------------------------------------------------------------
(* What a step leaves as it was.                                           *)

\* Nothing that was written is taken back, and only the current file grows.
Kept ==
  /\ Len(files') >= Len(files)
  /\ \A n \in 1 .. Len(files) :
       /\ IsSeq(files[n]) /\ IsSeq(files'[n])
       /\ Len(files'[n]) >= Len(files[n])
       /\ \A i \in 1 .. Len(files[n]) : files'[n][i] = files[n][i]
       /\ n <= seq => files'[n] = files[n]

\* The files are sequences of lines, none of them empty.
LEMMA FilesAreSeqs ==
  ASSUME ProducerInv
  PROVE  /\ IsSeq(files) /\ Len(files) \in Nat
         /\ \A n \in 1 .. Len(files) : IsSeq(files[n]) /\ Len(files[n]) \in Nat \ {0}
<1>1. IsSeq(files) /\ Len(files) \in Nat
  BY SeqShape DEF ProducerInv, FilesWritten
<1>2. ASSUME NEW n \in 1 .. Len(files)
      PROVE  IsSeq(files[n]) /\ Len(files[n]) \in Nat \ {0}
  <2>1. n - 1 \in 0 .. Len(files) - 1 /\ (n - 1) + 1 = n
    BY <1>1
  <2>2. Written(files[n], n - 1, Predecessor(n - 1))
    BY <2>1 DEF ProducerInv, FilesWritten
  <2> QED
    BY <2>2, SeqShape DEF Written
<1> QED
  BY <1>1, <1>2

\* Starting a file leaves the files there are.
LEMMA StartFileFiles ==
  ASSUME ProducerInv, StartFile
  PROVE  /\ Len(files) = seq /\ IsSeq(files') /\ Len(files') = seq + 1
         /\ \A n \in 1 .. seq : files'[n] = files[n]
         /\ Kept
<1>1. IsSeq(files) /\ Len(files) \in Nat /\ seq \in Nat /\ Len(files) = seq
  BY FilesAreSeqs DEF ProducerInv, InStep, StartFile, Started
<1>2. PICK L : files' = Append(files, L)
  BY DEF StartFile
<1>3. /\ IsSeq(files') /\ Len(files') = seq + 1
      /\ \A n \in 1 .. seq : files'[n] = files[n]
  BY <1>1, <1>2, AppendGrows
<1>4. Kept
  <2> SUFFICES ASSUME NEW n \in 1 .. seq PROVE IsSeq(files[n]) /\ Len(files[n]) \in Nat
    BY <1>1, <1>3 DEF Kept
  <2> QED
    BY <1>1, FilesAreSeqs
<1> QED
  BY <1>1, <1>3, <1>4

\* A line is added to the end of the current file.
LEMMA WriteLineFiles ==
  ASSUME ProducerInv, WriteLine
  PROVE  /\ Len(files) = seq + 1 /\ IsSeq(files') /\ Len(files') = seq + 1
         /\ \A n \in 1 .. seq : files'[n] = files[n]
         /\ LET text == [start |-> FALSE, v |-> "", chain |-> "", seq |-> 0,
                         prev |-> {}, body |-> clock]
            IN files'[seq + 1] = Append(files[seq + 1], SignedLine(text, macNow))
         /\ Kept
<1> DEFINE text == [start |-> FALSE, v |-> "", chain |-> "", seq |-> 0,
                    prev |-> {}, body |-> clock]
           line == SignedLine(text, macNow)
           L    == files[seq + 1]
<1>1. IsSeq(files) /\ seq \in Nat /\ Len(files) = seq + 1 /\ seq + 1 \in 1 .. Len(files)
  <2>1. Len(files) = seq + 1
    BY Zenon DEF WriteLine, Started
  <2> QED
    BY <2>1, FilesAreSeqs DEF ProducerInv, InStep
<1>2. files' = [files EXCEPT ![seq + 1] = Append(L, line)]
  BY DEF WriteLine
<1>3. IsSeq(L) /\ Len(L) \in Nat
  BY <1>1, FilesAreSeqs
<1> HIDE DEF line, L
<1>4. /\ IsSeq(files') /\ Len(files') = seq + 1 /\ files'[seq + 1] = Append(L, line)
      /\ \A n \in 1 .. seq : files'[n] = files[n]
  <2> DEFINE e == Append(L, line)
             k == seq + 1
  <2>1. seq \in Nat /\ k \in 1 .. k /\ DOMAIN files = 1 .. k
    BY <1>1, SeqShape
  <2>2. files' = [n \in DOMAIN files |-> IF n = k THEN e ELSE files[n]]
    BY <1>2
  <2> HIDE DEF e, k
  <2>3. files' = [n \in DOMAIN files |-> files'[n]]
    BY <2>2, Zenon
  <2>4. \A n \in 1 .. k : files'[n] = IF n = k THEN e ELSE files[n]
    BY <2>1, <2>2
  <2>5. IsSeq(files') /\ Len(files') = Len(files)
    BY <1>1, <2>3, SameDomain
  <2> QED
    BY <1>1, <2>1, <2>4, <2>5 DEF e, k
<1>5. /\ IsSeq(Append(L, line)) /\ Len(Append(L, line)) = Len(L) + 1
      /\ \A i \in 1 .. Len(L) : Append(L, line)[i] = L[i]
  BY <1>3, AppendGrows
<1>6. Kept
  <2> SUFFICES ASSUME NEW n \in 1 .. seq + 1
               PROVE  /\ IsSeq(files[n]) /\ IsSeq(files'[n])
                      /\ Len(files'[n]) >= Len(files[n])
                      /\ \A i \in 1 .. Len(files[n]) : files'[n][i] = files[n][i]
                      /\ n <= seq => files'[n] = files[n]
    BY <1>1, <1>4 DEF Kept
  <2>1. CASE n = seq + 1
    <3>1. files[n] = L /\ files'[n] = Append(L, line) /\ ~(n <= seq)
      BY <1>1, <1>4, <2>1 DEF L
    <3> QED
      BY <1>3, <1>5, <3>1
  <2>2. CASE n <= seq
    <3>1. IsSeq(files[n]) /\ Len(files[n]) \in Nat
      BY <1>1, FilesAreSeqs
    <3> QED
      BY <1>1, <1>4, <2>2, <3>1
  <2> QED
    BY <1>1, <2>1, <2>2
<1> QED
  BY <1>1, <1>4, <1>6 DEF L, line

\* Every step keeps what was written.
LEMMA StepKeeps == ASSUME ProducerInv, [ProducerNext]_producerVars PROVE Kept
<1>1. CASE files' = files
  <2> SUFFICES ASSUME NEW n \in 1 .. Len(files) PROVE IsSeq(files[n]) /\ Len(files[n]) \in Nat
    BY <1>1, FilesAreSeqs DEF Kept
  <2> QED
    BY FilesAreSeqs
<1>2. StartFile \/ WriteLine \/ files' = files
  BY DEF ProducerNext, producerVars, RotateStarted, AnchorStarted, Rotate, Anchor
<1> QED
  BY <1>1, <1>2, StartFileFiles, WriteLineFiles

-----------------------------------------------------------------------------
(* The lines.                                                              *)

\* A line that the producer signs is well formed and signed under the key of
\* the current file.
LEMMA LineIsSigned ==
  ASSUME NEW text, IsText(text), NEW prev
  PROVE  LET line == SignedLine(text, prev)
         IN /\ IsLine(line) /\ line.form = "signed" /\ line.hex = "lower"
            /\ line.text = text
            /\ line.mac = HMAC(DerivedKey(Identity, ChainID, seq), text, prev)
  BY DEF SignedLine, IsLine, Forms, HexForms, ChainKey

\* A file of one line, its start line.
LEMMA StartIsWritten ==
  ASSUME seq \in Nat,
         NEW L, L = <<SignedLine([start |-> TRUE, v |-> "2", chain |-> ChainID, seq |-> seq,
                                  prev |-> prevFileMAC, body |-> clock], Zero)>>
  PROVE  Written(L, seq, prevFileMAC)
<1> DEFINE text == [start |-> TRUE, v |-> "2", chain |-> ChainID, seq |-> seq,
                    prev |-> prevFileMAC, body |-> clock]
           line == SignedLine(text, Zero)
<1>1. IsText(text) /\ text.start /\ text.v = "2" /\ text.chain = ChainID
      /\ text.seq = seq /\ text.prev = prevFileMAC
  BY DEF IsText
<1>2. L = <<line>>
  OBVIOUS
<1> HIDE DEF text
<1>3. /\ IsLine(line) /\ line.form = "signed" /\ line.hex = "lower" /\ line.text = text
      /\ line.mac = HMAC(DerivedKey(Identity, ChainID, seq), text, Zero)
  BY <1>1, LineIsSigned
<1> HIDE DEF line
<1>4. L \in Seq({line}) /\ Len(L) = 1 /\ L[1] = line
  BY <1>2
<1>5. IsSeq(L)
  BY <1>4, SeqIsSeq
<1>6. Follows(L, seq, 1)
  BY <1>1, <1>3, <1>4 DEF Follows
<1> QED
  BY <1>1, <1>3, <1>4, <1>5, <1>6 DEF Written

\* A line that goes on from the last one of a file.
LEMMA AppendIsWritten ==
  ASSUME seq \in Nat, NEW L, NEW prev, Written(L, seq, prev),
         NEW text, IsText(text), text.start = FALSE,
         NEW line, line = SignedLine(text, Closing(L))
  PROVE  Written(Append(L, line), seq, prev) /\ Closing(Append(L, line)) = line.mac
<1> DEFINE M == Append(L, line)
<1>3. /\ IsLine(line) /\ line.form = "signed" /\ line.hex = "lower" /\ line.text = text
      /\ line.mac = HMAC(DerivedKey(Identity, ChainID, seq), text, Closing(L))
  BY LineIsSigned
<1>4. IsSeq(L) /\ Len(L) \in Nat \ {0}
  <2>1. IsSeq(L) /\ Len(L) > 0
    BY Zenon DEF Written
  <2> QED
    BY <2>1, SeqShape
<1>5. /\ IsSeq(M) /\ Len(M) = Len(L) + 1 /\ M[Len(L) + 1] = line
      /\ \A i \in 1 .. Len(L) : M[i] = L[i]
  BY <1>4, AppendGrows
<1> HIDE DEF M
<1>6. Closing(M) = line.mac
  BY <1>5 DEF Closing
<1>7. ASSUME NEW i \in 1 .. Len(M) PROVE Follows(M, seq, i)
  <2>1. CASE i \in 1 .. Len(L)
    <3>1. Follows(L, seq, i)
      BY <2>1 DEF Written
    <3>2. M[i] = L[i] /\ (i # 1 => M[i - 1] = L[i - 1])
      BY <1>4, <1>5, <2>1
    <3> QED
      BY <3>1, <3>2 DEF Follows
  <2>2. CASE i = Len(L) + 1
    <3>1. M[i] = line /\ i # 1 /\ M[i - 1] = L[Len(L)]
      BY <1>4, <1>5, <2>2
    <3> QED
      BY <1>3, <3>1 DEF Follows, Closing
  <2> QED
    BY <1>4, <1>5, <2>1, <2>2
<1>8. M[1] = L[1] /\ Len(M) > 0
  BY <1>4, <1>5
<1>9. Written(M, seq, prev)
  BY <1>5, <1>7, <1>8 DEF Written
<1> QED
  BY <1>6, <1>9 DEF M

\* The number an ordinary line states when it states none.
LEMMA ZeroIsInt == 0 \in Int
  OBVIOUS

\* What WriteLine signs is text that starts nothing.
LEMMA OrdinaryText ==
  ASSUME NEW body, NEW text,
         text = [start |-> FALSE, v |-> "", chain |-> "", seq |-> 0, prev |-> {}, body |-> body]
  PROVE  IsText(text) /\ text.start = FALSE
<1>1. /\ text = [start |-> text.start, v |-> text.v, chain |-> text.chain, seq |-> text.seq,
                 prev |-> text.prev, body |-> text.body]
      /\ text.start = FALSE /\ text.v = "" /\ text.seq = 0
  BY Zenon
<1>2. text.start \in BOOLEAN /\ text.v \in {"", "2"} /\ text.seq \in Int
  BY <1>1, ZeroIsInt, Zenon
<1> QED
  BY <1>1, <1>2, Zenon DEF IsText

-----------------------------------------------------------------------------
(* The steps, one conjunct of the invariant after the other.               *)

\* The closing MAC of a file that is no longer written stays the same.
LEMMA PredecessorStays ==
  ASSUME Kept, seq \in Nat, NEW n \in 0 .. Len(files), n <= seq
  PROVE  Predecessor(n)' = Predecessor(n)
<1>1. CASE n = 0
  BY <1>1 DEF Predecessor
<1>2. CASE n # 0
  <2>1. n \in 1 .. Len(files)
    BY <1>2
  <2>2. files'[n] = files[n]
    BY <2>1 DEF Kept
  <2> QED
    BY <1>2, <2>2 DEF Predecessor
<1> QED
  BY <1>1, <1>2

\* So does what the next start line will name.
LEMMA RegisterStays ==
  ASSUME Kept, seq \in Nat, Len(files) >= seq, seq' = seq
  PROVE  Predecessor(seq)' = Predecessor(seq)
<1>1. CASE seq = 0
  BY <1>1 DEF Predecessor
<1>2. CASE seq # 0
  <2>1. seq \in 1 .. Len(files)
    BY <1>2
  <2>2. files'[seq] = files[seq]
    BY <2>1 DEF Kept
  <2> QED
    BY <1>2, <2>2 DEF Predecessor
<1> QED
  BY <1>1, <1>2

\* A started file is one more that is written as it should be.
LEMMA StartFileWrites ==
  ASSUME ProducerInv, StartFile PROVE FilesWritten' /\ InStep'
<1>1. /\ Len(files) = seq /\ IsSeq(files') /\ Len(files') = seq + 1
      /\ \A n \in 1 .. seq : files'[n] = files[n]
      /\ Kept
  BY StartFileFiles
<1>2. seq \in 0 .. MaxSeq /\ seq \in Nat /\ prevFileMAC = Predecessor(seq)
  BY DEF ProducerInv, InStep
<1> DEFINE line == SignedLine([start |-> TRUE, v |-> "2", chain |-> ChainID, seq |-> seq,
                               prev |-> prevFileMAC, body |-> clock], Zero)
<1>3. /\ files' = Append(files, <<line>>) /\ macNow' = line.mac /\ lineCount' = 1
      /\ seq' = seq /\ prevFileMAC' = prevFileMAC
  BY DEF StartFile
<1>4. Written(<<line>>, seq, prevFileMAC)
  BY <1>2, StartIsWritten
<1> HIDE DEF line
<1>5. files'[seq + 1] = <<line>>
  BY <1>1, <1>3, FilesAreSeqs, AppendGrows
<1>6. \A n \in 0 .. seq : Predecessor(n)' = Predecessor(n)
  BY <1>1, <1>2, PredecessorStays
<1>7. ASSUME NEW n \in 0 .. seq PROVE Written(files'[n + 1], n, Predecessor(n)')
  <2>1. CASE n = seq
    BY <1>2, <1>4, <1>5, <1>6, <2>1
  <2>2. CASE n # seq
    <3>1. n \in 0 .. Len(files) - 1 /\ files'[n + 1] = files[n + 1]
      BY <1>1, <1>2, <2>2
    <3> QED
      BY <1>6, <3>1 DEF ProducerInv, FilesWritten
  <2> QED
    BY <2>1, <2>2
<1>8. FilesWritten'
  BY <1>1, <1>2, <1>7 DEF FilesWritten
<1>9. InStep'
  <2>1. Len(<<line>>) = 1 /\ Closing(<<line>>) = line.mac
    BY DEF Closing
  <2>2. Predecessor(seq)' = prevFileMAC
    BY <1>1, <1>2, <1>3, RegisterStays
  <2> QED
    BY <1>1, <1>2, <1>3, <1>5, <2>1, <2>2 DEF InStep
<1> QED
  BY <1>8, <1>9

\* A written line is the next one of the file it goes to.
LEMMA WriteLineWrites ==
  ASSUME ProducerInv, WriteLine PROVE FilesWritten' /\ InStep'
<1> DEFINE text == [start |-> FALSE, v |-> "", chain |-> "", seq |-> 0,
                    prev |-> {}, body |-> clock]
           line == SignedLine(text, macNow)
           L    == files[seq + 1]
<1>1. /\ Len(files) = seq + 1 /\ IsSeq(files') /\ Len(files') = seq + 1
      /\ \A n \in 1 .. seq : files'[n] = files[n]
      /\ files'[seq + 1] = Append(L, line)
      /\ Kept
  BY WriteLineFiles
<1>2. /\ macNow' = line.mac /\ lineCount' = lineCount + 1
      /\ seq' = seq /\ prevFileMAC' = prevFileMAC
  BY Zenon DEF WriteLine
<1>3. IsText(text) /\ text.start = FALSE
  BY OrdinaryText, Zenon
<1> HIDE DEF text
<1>4. /\ seq \in 0 .. MaxSeq /\ seq \in Nat /\ prevFileMAC = Predecessor(seq)
      /\ lineCount = Len(L) /\ macNow = Closing(L)
  BY <1>1 DEF ProducerInv, InStep, Started
<1>5. seq \in 0 .. Len(files) - 1
  BY <1>1, <1>4
<1>6. Written(L, seq, Predecessor(seq))
  BY <1>5 DEF ProducerInv, FilesWritten
<1>7. Written(Append(L, line), seq, Predecessor(seq)) /\ Closing(Append(L, line)) = line.mac
  BY <1>3, <1>4, <1>6, AppendIsWritten
<1>8. Len(Append(L, line)) = Len(L) + 1 /\ Len(L) \in Nat
  BY <1>6, AppendGrows, SeqShape DEF Written
<1> HIDE DEF line, L
<1>9. \A n \in 0 .. seq : Predecessor(n)' = Predecessor(n)
  BY <1>1, <1>4, PredecessorStays
<1>10. ASSUME NEW n \in 0 .. seq PROVE Written(files'[n + 1], n, Predecessor(n)')
  <2>1. CASE n = seq
    BY <1>1, <1>4, <1>7, <1>9, <2>1 DEF L
  <2>2. CASE n # seq
    <3>1. n \in 0 .. Len(files) - 1 /\ files'[n + 1] = files[n + 1]
      BY <1>1, <1>4, <2>2
    <3> QED
      BY <1>9, <3>1 DEF ProducerInv, FilesWritten
  <2> QED
    BY <2>1, <2>2
<1>11. FilesWritten'
  BY <1>1, <1>4, <1>10 DEF FilesWritten
<1>12. InStep'
  <2>1. Predecessor(seq)' = prevFileMAC
    BY <1>1, <1>2, <1>4, RegisterStays
  <2>2. /\ Len(files'[seq + 1]) = lineCount' /\ lineCount' \in Nat
        /\ macNow' = Closing(files'[seq + 1])
    BY <1>1, <1>2, <1>4, <1>7, <1>8
  <2> QED
    BY <1>1, <1>2, <1>4, <2>1, <2>2 DEF InStep
<1> QED
  BY <1>11, <1>12

\* The producer leaves a file with its closing MAC in hand.
LEMMA RotateWrites == ASSUME ProducerInv, RotateStarted PROVE FilesWritten' /\ InStep'
<1>1. /\ Len(files) = seq + 1 /\ seq < MaxSeq /\ prevFileMAC' = {macNow}
      /\ seq' = seq + 1 /\ lineCount' = lineCount /\ files' = files
  BY DEF RotateStarted, Rotate, Started
<1>2. /\ seq \in 0 .. MaxSeq /\ seq \in Nat /\ lineCount \in Nat
      /\ macNow = Closing(files[seq + 1])
  BY <1>1 DEF ProducerInv, InStep, Started
<1>3. MaxSeq \in Nat
  <2>1. MaxSeq \in Uint
    BY ProducerAssumption, Zenon
  <2> QED
    BY <2>1, WAssumption DEF Uint
<1>4. FilesWritten'
  BY <1>1 DEF ProducerInv, FilesWritten, Predecessor
<1>5. InStep'
  BY <1>1, <1>2, <1>3 DEF InStep, Predecessor, Started
<1> QED
  BY <1>4, <1>5

\* An anchor writes nothing to a file.
LEMMA AnchorWrites ==
  ASSUME ProducerInv, NEW final \in BOOLEAN, AnchorStarted(final) PROVE FilesWritten' /\ InStep'
<1>1. UNCHANGED <<seq, macNow, prevFileMAC, lineCount, files>>
  BY DEF AnchorStarted, Anchor
<1> QED
  BY <1>1 DEF ProducerInv, FilesWritten, InStep, Predecessor, Started

-----------------------------------------------------------------------------
(* The anchors.                                                            *)

\* What an anchor commits to stays where it is.
LEMMA CommitsStay ==
  ASSUME Kept, IsSeq(files), IsSeq(files'), NEW a, a.seq \in Nat, Commits(a)
  PROVE  Commits(a)'
<1>1. Len(files) \in Nat /\ Len(files') \in Nat
  BY SeqShape
<1>2. /\ a.seq + 1 \in 1 .. Len(files) /\ a.lineCount \in 1 .. Len(files[a.seq + 1])
      /\ a.mac = files[a.seq + 1][a.lineCount].mac
  BY DEF Commits
<1> DEFINE n == a.seq + 1
<1>3. /\ IsSeq(files[n]) /\ IsSeq(files'[n]) /\ Len(files'[n]) >= Len(files[n])
      /\ files'[n][a.lineCount] = files[n][a.lineCount]
      /\ Len(files') >= Len(files)
  BY <1>2 DEF Kept
<1>4. Len(files[n]) \in Nat /\ Len(files'[n]) \in Nat
  BY <1>3, SeqShape
<1> QED
  BY <1>1, <1>2, <1>3, <1>4 DEF Commits

\* Writing and rotating leave the anchors as they were.
LEMMA WritingIssues ==
  ASSUME ProducerInv, Kept, FilesWritten', UNCHANGED <<anchorSeq, prevAnchor, anchors>>
  PROVE  AnchorsIssued'
<1>1. IsSeq(files) /\ IsSeq(files')
  BY DEF ProducerInv, FilesWritten
<1>2. AnchorsIssued
  BY DEF ProducerInv
<1>3. ASSUME NEW k \in 1 .. Len(anchors) PROVE Commits(anchors[k].record)'
  BY <1>1, <1>2, <1>3, CommitsStay DEF AnchorsIssued
<1> QED
  BY <1>2, <1>3 DEF AnchorsIssued

\* A signed anchor follows from the one before and commits to the current file.
LEMMA AnchorIssues ==
  ASSUME ProducerInv, NEW final \in BOOLEAN, AnchorStarted(final) PROVE AnchorsIssued'
<1> DEFINE a  == [keyFp |-> Fingerprint(Identity), chain |-> ChainID, seq |-> seq,
                  lineCount |-> lineCount, mac |-> macNow, final |-> final,
                  anchorSeq |-> Plus(anchorSeq, 1), prevAnchor |-> prevAnchor]
           sa == [record |-> a, signature |-> Plain(Sign(Identity, a))]
           n  == Len(anchors)
<1>1. /\ Started /\ anchors' = Append(anchors, sa) /\ prevAnchor' = {Digest(sa)}
      /\ anchorSeq' = Plus(anchorSeq, 1) /\ files' = files
  BY DEF AnchorStarted, Anchor
<1>2. IsAnchor(sa)
  BY Zenon DEF IsAnchor
<1>3. sa.record = a /\ a.keyFp = Fingerprint(Identity) /\ a.seq = seq
      /\ a.lineCount = lineCount /\ a.mac = macNow
      /\ a.anchorSeq = Plus(anchorSeq, 1) /\ a.prevAnchor = prevAnchor
  OBVIOUS
<1> HIDE DEF a, sa
<1>4. AnchorsIssued /\ IsSeq(anchors) /\ n \in Nat
  BY SeqShape DEF ProducerInv, AnchorsIssued
<1>5. /\ IsSeq(anchors') /\ Len(anchors') = n + 1 /\ anchors'[n + 1] = sa
      /\ \A k \in 1 .. n : anchors'[k] = anchors[k]
  BY <1>1, <1>4, AppendGrows
<1>6. anchors' # <<>>
  BY <1>4, <1>5
<1>7. sa.record.seq \in Nat /\ Commits(sa.record)
  <2>1. /\ seq \in Nat /\ Len(files) = seq + 1 /\ lineCount = Len(files[seq + 1])
        /\ macNow = Closing(files[seq + 1])
    BY <1>1 DEF ProducerInv, InStep, Started
  <2>2. Len(files[seq + 1]) \in Nat \ {0}
    BY <2>1, FilesAreSeqs
  <2> QED
    BY <1>3, <2>1, <2>2 DEF Commits, Closing
<1>8. ASSUME n > 0 PROVE FollowsFrom(sa, anchors[n])
  <2>1. anchors # <<>>
    BY <1>8
  <2>2. prevAnchor = {Digest(anchors[n])} /\ anchorSeq = anchors[n].record.anchorSeq
    BY <1>4, <2>1 DEF AnchorsIssued
  <2>3. IsAnchor(anchors[n])
    BY <1>4, <1>8 DEF AnchorsIssued
  <2>4. anchors[n].record.keyFp = Fingerprint(Identity)
    BY <2>3 DEF IsAnchor
  <2> QED
    BY <1>3, <2>2, <2>4 DEF FollowsFrom
<1>9. ASSUME NEW k \in 1 .. n + 1
      PROVE  /\ IsAnchor(anchors'[k]) /\ anchors'[k].record.seq \in Nat
             /\ Commits(anchors'[k].record)
             /\ k > 1 => FollowsFrom(anchors'[k], anchors'[k - 1])
  <2>1. CASE k = n + 1
    <3>1. k > 1 => anchors'[k - 1] = anchors[n] /\ n > 0
      BY <1>4, <1>5, <2>1
    <3> QED
      BY <1>2, <1>5, <1>7, <1>8, <2>1, <3>1
  <2>2. CASE k # n + 1
    <3>1. k \in 1 .. n /\ anchors'[k] = anchors[k] /\ (k > 1 => anchors'[k - 1] = anchors[k - 1])
      BY <1>4, <1>5, <2>2
    <3> QED
      BY <1>4, <3>1 DEF AnchorsIssued
  <2> QED
    BY <2>1, <2>2
<1>10. ASSUME NEW k \in 1 .. n + 1 PROVE Commits(anchors[k].record)'
  BY <1>1, <1>9 DEF Commits
<1>11. prevAnchor' = {Digest(anchors'[n + 1])} /\ anchorSeq' = anchors'[n + 1].record.anchorSeq
  BY <1>1, <1>3, <1>5
<1> QED
  BY <1>5, <1>9, <1>10, <1>11, Zenon DEF AnchorsIssued

-----------------------------------------------------------------------------
(* The invariant.                                                          *)

\* It holds before the first file, wherever the numbering of anchors begins.
LEMMA NewChainInv == NewChain => ProducerInv
<1> SUFFICES ASSUME NewChain PROVE ProducerInv
  OBVIOUS
<1>1. seq = 0 /\ lineCount = 0 /\ prevFileMAC = {} /\ files = <<>> /\ anchors = <<>>
  BY DEF NewChain
<1>2. IsSeq(<<>>) /\ Len(<<>>) = 0
  BY SeqIsSeq, EmptySeq
<1>3. 0 \in 0 .. MaxSeq
  <2>1. MaxSeq \in Uint
    BY ProducerAssumption, Zenon
  <2> QED
    BY <2>1, WAssumption DEF Uint
<1>4. FilesWritten
  BY <1>1, <1>2 DEF FilesWritten
<1>5. InStep
  BY <1>1, <1>2, <1>3 DEF InStep, Predecessor, Started
<1>6. AnchorsIssued
  BY <1>1, <1>2 DEF AnchorsIssued
<1> QED
  BY <1>4, <1>5, <1>6 DEF ProducerInv

\* Every step keeps it.
LEMMA ProducerStep == ProducerInv /\ [ProducerNext]_producerVars => ProducerInv'
<1> SUFFICES ASSUME ProducerInv, [ProducerNext]_producerVars PROVE ProducerInv'
  OBVIOUS
<1>1. Kept
  BY StepKeeps
<1>2. CASE StartFile
  <2>1. UNCHANGED <<anchorSeq, prevAnchor, anchors>>
    BY <1>2 DEF StartFile
  <2> QED
    BY <1>1, <1>2, <2>1, StartFileWrites, WritingIssues DEF ProducerInv
<1>3. CASE WriteLine
  <2>1. UNCHANGED <<anchorSeq, prevAnchor, anchors>>
    BY <1>3, Zenon DEF WriteLine
  <2> QED
    BY <1>1, <1>3, <2>1, WriteLineWrites, WritingIssues DEF ProducerInv
<1>4. CASE RotateStarted
  <2>1. UNCHANGED <<anchorSeq, prevAnchor, anchors>>
    BY <1>4 DEF RotateStarted, Rotate
  <2> QED
    BY <1>1, <1>4, <2>1, RotateWrites, WritingIssues DEF ProducerInv
<1>5. CASE \E final \in BOOLEAN : AnchorStarted(final)
  BY <1>5, AnchorWrites, AnchorIssues DEF ProducerInv
<1>6. CASE UNCHANGED producerVars
  <2>1. UNCHANGED <<seq, macNow, prevFileMAC, lineCount, anchorSeq, prevAnchor, files, anchors>>
    BY <1>6 DEF producerVars
  <2> QED
    BY <2>1 DEF ProducerInv, FilesWritten, InStep, AnchorsIssued, Predecessor, Started, Commits
<1> QED
  BY <1>2, <1>3, <1>4, <1>5, <1>6 DEF ProducerNext

\* The specification implies it.
LEMMA ProducerInvariant == ProducerSpec => []ProducerInv
<1>1. ProducerInit => ProducerInv
  BY NewChainInv DEF ProducerInit
<1> QED
  BY <1>1, ProducerStep, PTL DEF ProducerSpec

-----------------------------------------------------------------------------
(* What the producer promises.                                             *)

\* Under the keys of its identity each file has the key of its own number.
LEMMA KeyOfFile ==
  ASSUME NEW L, NEW n \in Uint, L[1].text.chain = ChainID, L[1].text.seq = n
  PROVE  KeyAt(L, ChainKeys(Identity, {ChainID}), 1) = DerivedKey(Identity, ChainID, n)
<1>1. ParseUint(n) = n
  BY WAssumption DEF Uint, ParseUint
<1>2. <<ChainID, n>> \in {ChainID} \X Uint
  OBVIOUS
<1> QED
  BY <1>1, <1>2 DEF KeyAt, ChainKeys

\* A file in the sense of the invariant is one in the sense of the format.
LEMMA WrittenIsChained ==
  ASSUME NEW L, NEW n \in Uint, NEW prev, Written(L, n, prev), NEW i \in 1 .. Len(L)
  PROVE  /\ IsLine(L[i]) /\ (IsStart(L, i) <=> i = 1)
         /\ Chained(L, ChainKeys(Identity, {ChainID}), 1, i)
<1> DEFINE kf == ChainKeys(Identity, {ChainID})
           k  == DerivedKey(Identity, ChainID, n)
<1>1. \A j \in 1 .. Len(L) : Follows(L, n, j)
  BY Zenon DEF Written
<1>2. L[1].text.chain = ChainID /\ L[1].text.seq = n
  BY Zenon DEF Written
<1>3. KeyAt(L, kf, 1) = k
  BY <1>2, KeyOfFile
<1> HIDE DEF kf, k
<1>4. IsLine(L[i]) /\ (IsStart(L, i) <=> i = 1)
  BY <1>1 DEF Follows, IsStart, Signed
<1>5. Matches(L[i], HMAC(k, L[i].text, IF i = 1 THEN Zero ELSE L[i - 1].mac))
  BY <1>1 DEF Follows, Matches, k
<1>6. CASE i = 1
  BY <1>3, <1>4, <1>5, <1>6 DEF Chained, kf
<1>7. CASE i # 1
  <2>1. i - 1 \in 1 .. i - 1 /\ i - 1 \in 1 .. Len(L)
    BY <1>7
  <2>2. Precedes(L, i - 1, i)
    BY <1>1, <2>1 DEF Precedes, Follows, Signed
  <2>3. Matches(L[i], HMAC(KeyAt(L, kf, 1), L[i].text, L[i - 1].mac))
    BY <1>3, <1>5, <1>7
  <2> QED
    BY <1>4, <1>7, <2>1, <2>2, <2>3 DEF Chained, kf
<1> QED
  BY <1>6, <1>7

\* The numbers of the files do not wrap around.
LEMMA FileNumber ==
  ASSUME ProducerInv, NEW n \in 0 .. Len(files) - 1
  PROVE  n \in Uint
<1>1. MaxSeq \in Uint
  BY ProducerAssumption, Zenon
<1>2. Len(files) \in {seq, seq + 1} /\ seq \in 0 .. MaxSeq
  BY DEF ProducerInv, InStep
<1> QED
  BY <1>1, <1>2, WAssumption DEF Uint

\* The invariant says that what is written is a chain.
LEMMA InvWrites == ProducerInv => WritesOneChain
<1> SUFFICES ASSUME ProducerInv, NEW n \in 0 .. Len(files) - 1
             PROVE  LET L == files[n + 1]
                    IN /\ \A i \in DOMAIN L :
                            /\ IsLine(L[i])
                            /\ IsStart(L, i) <=> i = 1
                            /\ Chained(L, ChainKeys(Identity, {ChainID}), 1, i)
                       /\ L[1].text.seq = n
                       /\ L[1].text.prev = IF n = 0 THEN {} ELSE {files[n][Len(files[n])].mac}
  BY DEF WritesOneChain
<1> DEFINE L == files[n + 1]
<1>1. Written(L, n, Predecessor(n))
  BY DEF ProducerInv, FilesWritten
<1>2. n \in Uint
  BY FileNumber
<1> HIDE DEF L
<1>3. IsSeq(L) /\ L[1].text.seq = n /\ L[1].text.prev = Predecessor(n)
  BY <1>1, Zenon DEF Written
<1>4. DOMAIN L = 1 .. Len(L)
  BY <1>3, SeqShape
<1>5. \A i \in DOMAIN L : /\ IsLine(L[i])
                          /\ IsStart(L, i) <=> i = 1
                          /\ Chained(L, ChainKeys(Identity, {ChainID}), 1, i)
  BY <1>1, <1>2, <1>4, WrittenIsChained
<1> QED
  BY <1>3, <1>5 DEF L, Predecessor, Closing

\* What an identity has signed verifies under it.
LEMMA IssuedVerifies ==
  ASSUME NEW sa, IsAnchor(sa), sa.record.lineCount # 0
  PROVE  Verify(Identity, sa)
<1>1. /\ sa = [record |-> sa.record, signature |-> Plain(Sign(Identity, sa.record))]
      /\ sa.record.keyFp = Fingerprint(Identity) /\ sa.record.chain = ChainID
  BY DEF IsAnchor
<1>2. sa.signature = Plain(Sign(Identity, sa.record))
  BY <1>1
<1>3. sa.signature.word = Sign(Identity, sa.record) /\ sa.signature.spelling = {}
  BY <1>2 DEF Plain
<1>4. Validate(sa.record)
  BY <1>1, ProducerAssumption, Zenon DEF Validate
<1> QED
  BY <1>1, <1>3, <1>4 DEF Verify

\* It says that the anchors commit to what is written.
LEMMA InvCommits == ProducerInv => AnchorsCommitToPrefixes
<1> SUFFICES ASSUME ProducerInv, NEW k \in 1 .. Len(anchors)
             PROVE  LET a == anchors[k].record
                    IN /\ a.lineCount \in DOMAIN files[a.seq + 1]
                       /\ a.mac = files[a.seq + 1][a.lineCount].mac
                       /\ Verify(Identity, anchors[k])
                       /\ k > 1 => FollowsFrom(anchors[k], anchors[k - 1])
  BY DEF AnchorsCommitToPrefixes
<1> DEFINE a == anchors[k].record
<1>1. /\ IsAnchor(anchors[k]) /\ Commits(a)
      /\ k > 1 => FollowsFrom(anchors[k], anchors[k - 1])
  BY DEF ProducerInv, AnchorsIssued
<1>2. /\ a.seq + 1 \in 1 .. Len(files) /\ a.lineCount \in 1 .. Len(files[a.seq + 1])
      /\ a.mac = files[a.seq + 1][a.lineCount].mac
  BY <1>1 DEF Commits
<1>3. DOMAIN files[a.seq + 1] = 1 .. Len(files[a.seq + 1])
  BY <1>2, FilesAreSeqs, SeqShape
<1>4. a.lineCount # 0
  BY <1>2
<1>5. Verify(Identity, anchors[k])
  BY <1>1, <1>4, IssuedVerifies
<1> QED
  BY <1>1, <1>2, <1>3, <1>5

\* For every number of files, lines and anchors: what the producer has written
\* is one chain by the format's own definition, from the start line of the
\* first file to the last line of the current one.
THEOREM ProducerWrites == ProducerSpec => []WritesOneChain
  BY ProducerInvariant, InvWrites, PTL

\* For every number of files, lines and anchors: each anchor commits to lines
\* that are in its file and will stay there, verifies under the identity that
\* signed it, and follows from the anchor before, also across a rotation.
THEOREM ProducerAnchors == ProducerSpec => []AnchorsCommitToPrefixes
  BY ProducerInvariant, InvCommits, PTL

\* No line of a file that the producer wrote is one that a replay may report.
NoLineIsBad ==
  \A n \in 0 .. Len(files) - 1, allow \in BOOLEAN :
    \A i \in DOMAIN files[n + 1] :
      ~Bad(files[n + 1], [allowUnsigned |-> allow], ChainKeys(Identity, {ChainID}), i)

\* In a file that is as it was written no line is bad.
LEMMA WrittenIsGood ==
  ASSUME NEW L, NEW n \in Uint, NEW prev, Written(L, n, prev), NEW i \in 1 .. Len(L),
         NEW opt
  PROVE  ~Bad(L, opt, ChainKeys(Identity, {ChainID}), i)
<1> DEFINE kf == ChainKeys(Identity, {ChainID})
<1> HIDE DEF kf
<1>1. \A j \in 1 .. Len(L) : /\ L[j].form = "signed" /\ (IsStart(L, j) <=> j = 1)
  BY WrittenIsChained DEF Written, Follows
<1>2. Chained(L, kf, 1, i)
  BY WrittenIsChained DEF kf
<1>3. KeyAt(L, kf, 1) # {}
  <2>1. L[1].text.chain = ChainID /\ L[1].text.seq = n
    BY Zenon DEF Written
  <2>2. KeyAt(L, kf, 1) = DerivedKey(Identity, ChainID, n)
    BY <2>1, KeyOfFile DEF kf
  <2> QED
    BY <2>2, ProducerAssumption, Zenon DEF DerivedKey
<1>4. ~Unsigned(L, i) /\ L[i].form # "badmac"
  BY <1>1 DEF Unsigned
<1>5. Governs(L, 1, i)
  <2>1. 1 \in 1 .. i /\ IsStart(L, 1)
    BY <1>1
  <2>2. \A j \in 1 + 1 .. i : ~IsStart(L, j)
    BY <1>1
  <2> QED
    BY <2>1, <2>2, Zenon DEF Governs
<1>6. ASSUME NEW s \in 1 .. i, Governs(L, s, i) PROVE s = 1
  BY <1>1, <1>6 DEF Governs
<1>7. ASSUME NEW s \in 1 .. i, Signed(L, i) /\ Governs(L, s, i),
             IF KeyAt(L, kf, s) = {} THEN s = i ELSE ~Chained(L, kf, s, i)
      PROVE  FALSE
  BY <1>2, <1>3, <1>6, <1>7
<1>8. 1 \in 1 .. i
  OBVIOUS
<1> QED
  BY <1>4, <1>5, <1>7, <1>8, Zenon DEF Bad, kf

\* For every number of files and lines: a log that nobody has touched holds no
\* line that a replay under the identity's keys would have to report.  (That a
\* replay reports the bad lines and no others is ReportIsExact.)
THEOREM ProducerIsNotAccused == ProducerSpec => []NoLineIsBad
<1>1. ProducerInv => NoLineIsBad
  <2> SUFFICES ASSUME ProducerInv, NEW n \in 0 .. Len(files) - 1, NEW allow \in BOOLEAN,
                      NEW i \in DOMAIN files[n + 1]
               PROVE  ~Bad(files[n + 1], [allowUnsigned |-> allow],
                           ChainKeys(Identity, {ChainID}), i)
    BY DEF NoLineIsBad
  <2> DEFINE L == files[n + 1]
  <2>1. Written(L, n, Predecessor(n))
    BY DEF ProducerInv, FilesWritten
  <2>2. n \in Uint
    BY FileNumber
  <2>3. i \in 1 .. Len(L)
    <3>1. IsSeq(L)
      BY <2>1, Zenon DEF Written
    <3> QED
      BY <3>1, SeqShape
  <2> HIDE DEF L
  <2>4. ~Bad(L, [allowUnsigned |-> allow], ChainKeys(Identity, {ChainID}), i)
    BY <2>1, <2>2, <2>3, WrittenIsGood
  <2> QED
    BY <2>4 DEF L
<1> QED
  BY <1>1, ProducerInvariant, PTL
=============================================================================
