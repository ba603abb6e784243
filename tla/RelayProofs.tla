----------------------------- MODULE RelayProofs -----------------------------
(***************************************************************************)
(* Proofs about Relay: whatever a relay does with the anchors of a         *)
(* producer, a reader accepts a run of them exactly when they are          *)
(* consecutive ones, and sees where a run first breaks.                    *)
(***************************************************************************)
EXTENDS Relay, ProducerProofs

-----------------------------------------------------------------------------
(* The inductive invariant.                                                *)

\* Message i of a run verifies and succeeds the one before it.
Passes(ms, i) ==
  Verify(Identity, ms[i]) /\ (i > 1 => FollowsFrom(ms[i], ms[i - 1]))

\* The value the first anchor of a chain may name as its predecessor.
Beginnings == {{}, {Earlier}}

\* No two anchors of the producer say the same.
AnchorsDiffer ==
  /\ \A i, j \in 1 .. Len(anchors) : anchors[i].record = anchors[j].record => i = j
  /\ Len(anchors) <= MaxAnchors
  /\ IF anchors = <<>> THEN prevAnchor \in Beginnings
                       ELSE anchors[1].record.prevAnchor \in Beginnings
  /\ anchorSeq \in Uint
  /\ \A i \in 1 .. Len(anchors) : anchors[i].record.anchorSeq \in Uint

\* A message carries a text in the place of its signature.
HasSignature(m) ==
  m.signature = [word |-> m.signature.word, spelling |-> m.signature.spelling]

\* The run has been checked as far as it has arrived.
RunChecked ==
  /\ kind \in {"batch", "anchor"}
  /\ kind = "anchor" =>
       /\ IsSeq(run) /\ failed \in 0 .. Len(run)
       /\ \A i \in 1 .. Len(run) : HasSignature(run[i])
       /\ \A i \in 1 .. Len(run) : (failed = 0 \/ i < failed) => Passes(run, i)
       /\ failed > 0 => ~Passes(run, failed)
       /\ \A n \in 0 .. Len(run) :
            (\A i \in 1 .. n : Passes(run, i)) => ConsecutiveAnchors(n)

RelayInv == ProducerInv /\ AnchorsDiffer /\ RunChecked

-----------------------------------------------------------------------------
(* What a signed anchor is recognised by.                                  *)

\* A signature belongs to one record.
LEMMA SignedOnce ==
  ASSUME NEW x, IsAnchor(x), NEW y, IsAnchor(y), x.signature.word = y.signature.word
  PROVE  x.record = y.record
<1> DEFINE a == x.record
           b == y.record
<1>1. x.signature = Plain(Sign(Identity, a)) /\ y.signature = Plain(Sign(Identity, b))
  BY DEF IsAnchor
<1>2. Sign(Identity, a) = Sign(Identity, b)
  BY <1>1 DEF Plain
<1>3. CanonicalBytes(a) = CanonicalBytes(b)
  BY <1>2 DEF Sign
<1>4. /\ a.seq = b.seq /\ a.lineCount = b.lineCount /\ a.mac = b.mac /\ a.final = b.final
      /\ a.anchorSeq = b.anchorSeq /\ a.prevAnchor = b.prevAnchor
  BY <1>3 DEF CanonicalBytes
<1>5. /\ a = [keyFp |-> Fingerprint(Identity), chain |-> ChainID, seq |-> a.seq,
              lineCount |-> a.lineCount, mac |-> a.mac, final |-> a.final,
              anchorSeq |-> a.anchorSeq, prevAnchor |-> a.prevAnchor]
      /\ b = [keyFp |-> Fingerprint(Identity), chain |-> ChainID, seq |-> b.seq,
              lineCount |-> b.lineCount, mac |-> b.mac, final |-> b.final,
              anchorSeq |-> b.anchorSeq, prevAnchor |-> b.prevAnchor]
  BY Zenon DEF IsAnchor
<1> QED
  BY <1>4, <1>5

\* A digest is that of one signature.
LEMMA DigestOnce ==
  ASSUME NEW x, NEW y, Digest(x) = Digest(y) PROVE x.signature = y.signature
  BY DEF Digest

\* No anchor is the predecessor that a chain begins with.
LEMMA NotABeginning ==
  ASSUME NEW x, NEW id, NEW a, x.signature.word = Sign(id, a)
  PROVE  {Digest(x)} \notin Beginnings
<1>1. {Digest(x)} # {}
  OBVIOUS
<1>2. ASSUME Digest(x) = Earlier PROVE FALSE
  <2>1. x.signature = Plain(<<"earlier">>)
    BY <1>2, DigestOnce DEF Earlier
  <2>2. Sign(id, a) = <<"earlier">>
    BY <2>1 DEF Plain
  <2>3. Len(Sign(id, a)) = 3 /\ Len(<<"earlier">>) = 1
    BY DEF Sign
  <2> QED
    BY <2>2, <2>3
<1> QED
  BY <1>1, <1>2 DEF Beginnings

\* The next number is another number.
LEMMA PlusDiffers == ASSUME NEW n \in Uint PROVE Plus(n, 1) # n /\ Plus(n, 1) \in Uint
<1>1. CASE n + 1 < W
  BY <1>1, WAssumption DEF Uint, Plus
<1>2. CASE n + 1 = W
  BY <1>2, WAssumption DEF Uint, Plus
<1> QED
  BY <1>1, <1>2, WAssumption DEF Uint

\* Of what a relay can make of an anchor only the anchor itself verifies, perhaps
\* with its signature respelled.
LEMMA OnlyGenuineVerifies ==
  ASSUME NEW a, IsAnchor(a), a.record.lineCount \in Nat, a.record.anchorSeq \in Uint,
         NEW m \in {a} \cup AlteredAnchors(a), Verify(Identity, m)
  PROVE  /\ m.record = a.record /\ m.signature.word = a.signature.word
         /\ "padded" \notin m.signature.spelling
<1> DEFINE r == a.record
           w == a.signature.word
<1>1. /\ a = [record |-> r, signature |-> [word |-> w, spelling |-> {}]]
      /\ w = Sign(Identity, r) /\ r.keyFp = Fingerprint(Identity)
  BY DEF IsAnchor, Plain
<1>2. Identity # Other
  BY RelayAssumption, Zenon
<1>3. /\ m.signature.word = Sign(Identity, m.record)
      /\ m.record.keyFp = Fingerprint(Identity)
      /\ "padded" \notin m.signature.spelling
  BY DEF Verify
<1>4. CASE m = a
  BY <1>3, <1>4
<1>5. CASE m = [a EXCEPT !.signature.spelling = {"upper"}]
  BY <1>1, <1>3, <1>5
<1>6. CASE m = [a EXCEPT !.signature.spelling = {"padded"}]
  BY <1>1, <1>3, <1>6
<1>7. CASE m = [a EXCEPT !.record.lineCount = @ + 1]
  BY <1>1, <1>3, <1>7 DEF Sign, CanonicalBytes, IsAnchor
<1>8. CASE m = [a EXCEPT !.record.anchorSeq = Plus(@, 1)]
  BY <1>1, <1>3, <1>8, PlusDiffers DEF Sign, CanonicalBytes, IsAnchor
<1>9. CASE m = [a EXCEPT !.signature.word = Sign(Other, a.record)]
  BY <1>1, <1>2, <1>3, <1>9 DEF Sign
<1>10. CASE m = [a EXCEPT !.record.keyFp = Fingerprint(Other),
                          !.signature.word = Sign(Other, [a.record EXCEPT !.keyFp = Fingerprint(Other)])]
  BY <1>1, <1>2, <1>3, <1>10 DEF Sign
<1> QED
  BY <1>4, <1>5, <1>6, <1>7, <1>8, <1>9, <1>10, Zenon DEF AlteredAnchors

-----------------------------------------------------------------------------
(* What a run that passes is.                                              *)

\* What is known of every anchor of the producer.
LEMMA AnchorFacts ==
  ASSUME ProducerInv, AnchorsDiffer, NEW k \in 1 .. Len(anchors)
  PROVE  LET sa == anchors[k]
         IN /\ IsAnchor(sa) /\ sa.signature = Plain(Sign(Identity, sa.record))
            /\ sa.record.lineCount \in Nat \ {0} /\ sa.record.anchorSeq \in Uint
            /\ Verify(Identity, sa)
            /\ k > 1 => FollowsFrom(sa, anchors[k - 1])
<1> DEFINE sa == anchors[k]
<1>1. IsAnchor(sa) /\ Commits(sa.record) /\ (k > 1 => FollowsFrom(sa, anchors[k - 1]))
  BY DEF ProducerInv, AnchorsIssued
<1>2. sa.record.lineCount \in Nat \ {0}
  BY <1>1, FilesAreSeqs DEF Commits
<1>3. sa.record.anchorSeq \in Uint
  BY DEF AnchorsDiffer
<1>4. Verify(Identity, sa)
  BY <1>1, <1>2, IssuedVerifies
<1>5. sa.signature = Plain(Sign(Identity, sa.record))
  BY <1>1 DEF IsAnchor
<1> QED
  BY <1>1, <1>2, <1>3, <1>4, <1>5

\* Consecutive anchors pass, each of them.
LEMMA ConsecutivePass ==
  ASSUME ProducerInv, AnchorsDiffer, NEW n \in Nat, ConsecutiveAnchors(n),
         \A j \in 1 .. n : HasSignature(run[j]), NEW i \in 1 .. n
  PROVE  Passes(run, i)
<1>1. PICK k \in 0 .. MaxAnchors :
        /\ k + n <= Len(anchors)
        /\ \A j \in 1 .. n :
             /\ run[j].record = anchors[k + j].record
             /\ run[j].signature.word = anchors[k + j].signature.word
             /\ "padded" \notin run[j].signature.spelling
             /\ j < n => run[j].signature.spelling = {}
  BY DEF ConsecutiveAnchors
<1>2. k \in Nat /\ Len(anchors) \in Nat
  BY SeqShape DEF ProducerInv, AnchorsIssued
<1>3. k + i \in 1 .. Len(anchors)
  BY <1>1, <1>2
<1>4. Verify(Identity, anchors[k + i])
  BY <1>3, AnchorFacts
<1>5. Verify(Identity, run[i])
  BY <1>1, <1>4, Zenon DEF Verify
<1>6. ASSUME i > 1 PROVE FollowsFrom(run[i], run[i - 1])
  <2>1. i - 1 \in 1 .. n /\ i - 1 < n /\ k + (i - 1) \in 1 .. Len(anchors)
        /\ k + i > 1 /\ k + i - 1 = k + (i - 1)
    BY <1>2, <1>3, <1>6
  <2>2. FollowsFrom(anchors[k + i], anchors[k + (i - 1)])
    BY <1>3, <2>1, AnchorFacts
  <2>3. anchors[k + (i - 1)].signature = Plain(Sign(Identity, anchors[k + (i - 1)].record))
    BY <2>1, AnchorFacts
  <2>4. /\ run[i - 1].record = anchors[k + (i - 1)].record
        /\ run[i - 1].signature.word = anchors[k + (i - 1)].signature.word
        /\ run[i - 1].signature.spelling = anchors[k + (i - 1)].signature.spelling
    BY <1>1, <2>1, <2>3 DEF Plain
  <2>5. HasSignature(run[i - 1])
    BY <2>1
  <2>6. anchors[k + (i - 1)].signature =
          [word |-> anchors[k + (i - 1)].signature.word,
           spelling |-> anchors[k + (i - 1)].signature.spelling]
    BY <2>3, Zenon DEF Plain
  <2>7. run[i - 1].signature = anchors[k + (i - 1)].signature
    BY <2>4, <2>5, <2>6, Zenon DEF HasSignature
  <2> QED
    BY <1>1, <2>2, <2>4, <2>7 DEF FollowsFrom, Digest
<1> QED
  BY <1>5, <1>6 DEF Passes

\* An anchor that was handed on succeeds the one before it in the run only if it
\* does so in the producer's sequence.
LEMMA SuccessorIsNext ==
  ASSUME ProducerInv, AnchorsDiffer,
         NEW j \in 1 .. Len(anchors), NEW m, m.record = anchors[j].record,
         NEW i \in 1 .. Len(anchors), NEW p, p.signature.word = anchors[i].signature.word,
         FollowsFrom(m, p)
  PROVE  j = i + 1 /\ p.signature.spelling = {}
<1>1. m.record.prevAnchor = {Digest(p)}
  BY DEF FollowsFrom
<1>2. Len(anchors) \in Nat
  BY SeqShape DEF ProducerInv, AnchorsIssued
<1>3. IsAnchor(anchors[i]) /\ anchors[i].signature = Plain(Sign(Identity, anchors[i].record))
  BY AnchorFacts
<1>4. p.signature.word = Sign(Identity, anchors[i].record)
  BY <1>3 DEF Plain
<1>5. j # 1
  <2> SUFFICES ASSUME j = 1 PROVE FALSE
    OBVIOUS
  <2>1. anchors # <<>>
    BY <1>2
  <2>2. anchors[1].record.prevAnchor \in Beginnings
    BY <2>1 DEF AnchorsDiffer
  <2> QED
    BY <1>1, <1>4, <2>2, NotABeginning
<1>6. j - 1 \in 1 .. Len(anchors) /\ j > 1
  BY <1>2, <1>5
<1>7. FollowsFrom(anchors[j], anchors[j - 1])
  BY <1>6, AnchorFacts
<1>8. Digest(p) = Digest(anchors[j - 1])
  BY <1>1, <1>7 DEF FollowsFrom
<1>9. p.signature = anchors[j - 1].signature
  BY <1>8, DigestOnce
<1>10. IsAnchor(anchors[j - 1])
       /\ anchors[j - 1].signature = Plain(Sign(Identity, anchors[j - 1].record))
  BY <1>6, AnchorFacts
<1>11. anchors[j - 1].record = anchors[i].record
  BY <1>3, <1>9, <1>10, SignedOnce
<1>12. j - 1 = i
  BY <1>6, <1>11 DEF AnchorsDiffer
<1> QED
  BY <1>6, <1>9, <1>10, <1>12 DEF Plain

\* The messages that may arrive in a run of anchors.
LEMMA ArrivingAnchor ==
  ASSUME ProducerInv, AnchorsDiffer, kind = "anchor", HandOn \/ Tamper
  PROVE  \E k \in 1 .. Len(anchors) :
           \E m \in {anchors[k]} \cup AlteredAnchors(anchors[k]) : Arrive(m)
<1>1. DOMAIN anchors = 1 .. Len(anchors)
  BY SeqShape DEF ProducerInv, AnchorsIssued
<1>2. CASE HandOn
  <2>1. PICK m \in ToSet(anchors) : Arrive(m)
    BY <1>2 DEF HandOn
  <2>2. PICK k \in 1 .. Len(anchors) : m = anchors[k]
    BY <1>1, <2>1 DEF ToSet
  <2> QED
    BY <2>1, <2>2
<1>3. CASE Tamper
  <2>1. PICK m \in UNION {AlteredAnchors(a) : a \in ToSet(anchors)} : Arrive(m)
    BY <1>3 DEF Tamper
  <2>2. PICK k \in 1 .. Len(anchors) : m \in AlteredAnchors(anchors[k])
    BY <1>1, <2>1 DEF ToSet
  <2> QED
    BY <2>1, <2>2
<1> QED
  BY <1>2, <1>3

\* Whatever arrives carries a text in the place of its signature.
LEMMA ArrivesSigned ==
  ASSUME NEW a, IsAnchor(a), NEW m \in {a} \cup AlteredAnchors(a)
  PROVE  HasSignature(m)
<1> DEFINE r == a.record
           w == a.signature.word
<1>1. a = [record |-> r, signature |-> [word |-> w, spelling |-> {}]]
  BY DEF IsAnchor, Plain
<1>2. CASE m = a
  BY <1>1, <1>2 DEF HasSignature
<1>3. CASE m = [a EXCEPT !.signature.spelling = {"upper"}]
  BY <1>1, <1>3 DEF HasSignature
<1>4. CASE m = [a EXCEPT !.signature.spelling = {"padded"}]
  BY <1>1, <1>4 DEF HasSignature
<1>5. CASE m = [a EXCEPT !.record.lineCount = @ + 1]
  BY <1>1, <1>5 DEF HasSignature
<1>6. CASE m = [a EXCEPT !.record.anchorSeq = Plus(@, 1)]
  BY <1>1, <1>6 DEF HasSignature
<1>7. CASE m = [a EXCEPT !.signature.word = Sign(Other, a.record)]
  BY <1>1, <1>7 DEF HasSignature
<1>8. CASE m = [a EXCEPT !.record.keyFp = Fingerprint(Other),
                         !.signature.word = Sign(Other, [a.record EXCEPT !.keyFp = Fingerprint(Other)])]
  BY <1>1, <1>8 DEF HasSignature
<1> QED
  BY <1>2, <1>3, <1>4, <1>5, <1>6, <1>7, <1>8, Zenon DEF AlteredAnchors

-----------------------------------------------------------------------------
(* The steps.                                                              *)

\* Signing an anchor: its place in the chain of digests makes it a new one.
LEMMA AnchorDiffers ==
  ASSUME ProducerInv, AnchorsDiffer, NEW final \in BOOLEAN, AnchorStarted(final)
  PROVE  AnchorsDiffer'
<1> DEFINE a  == [keyFp |-> Fingerprint(Identity), chain |-> ChainID, seq |-> seq,
                  lineCount |-> lineCount, mac |-> macNow, final |-> final,
                  anchorSeq |-> Plus(anchorSeq, 1), prevAnchor |-> prevAnchor]
           sa == [record |-> a, signature |-> Plain(Sign(Identity, a))]
           n  == Len(anchors)
<1>1. /\ anchors' = Append(anchors, sa) /\ anchorSeq' = Plus(anchorSeq, 1)
      /\ n < MaxAnchors
  BY DEF AnchorStarted, Anchor
<1>2. sa.record = a /\ a.anchorSeq = Plus(anchorSeq, 1) /\ a.prevAnchor = prevAnchor
  OBVIOUS
<1> HIDE DEF a, sa
<1>3. IsSeq(anchors) /\ n \in Nat
  BY SeqShape DEF ProducerInv, AnchorsIssued
<1>4. /\ Len(anchors') = n + 1 /\ anchors'[n + 1] = sa
      /\ \A k \in 1 .. n : anchors'[k] = anchors[k]
  BY <1>1, <1>3, AppendGrows
<1>5. Plus(anchorSeq, 1) \in Uint
  BY PlusDiffers DEF AnchorsDiffer
<1>6. ASSUME NEW i \in 1 .. n, anchors[i].record = a PROVE FALSE
  <2>1. anchors # <<>>
    BY <1>3
  <2>2. prevAnchor = {Digest(anchors[n])}
    BY <2>1 DEF ProducerInv, AnchorsIssued
  <2>3. n \in 1 .. n
    BY <1>3
  <2>4. /\ IsAnchor(anchors[n])
        /\ anchors[n].signature = Plain(Sign(Identity, anchors[n].record))
    BY <2>3, AnchorFacts
  <2>5. anchors[n].signature.word = Sign(Identity, anchors[n].record)
    BY <2>4 DEF Plain
  <2>6. CASE i = 1
    <3>1. anchors[1].record.prevAnchor \in Beginnings
      BY <2>1 DEF AnchorsDiffer
    <3> QED
      BY <1>2, <1>6, <2>2, <2>5, <2>6, <3>1, NotABeginning
  <2>7. CASE i > 1
    <3>1. i - 1 \in 1 .. n /\ i - 1 # n
      BY <1>3, <2>7
    <3>2. FollowsFrom(anchors[i], anchors[i - 1])
      BY <2>7, AnchorFacts
    <3>3. Digest(anchors[n]) = Digest(anchors[i - 1])
      BY <1>2, <1>6, <2>2, <3>2 DEF FollowsFrom
    <3>4. anchors[n].signature = anchors[i - 1].signature
      BY <3>3, DigestOnce
    <3>5. IsAnchor(anchors[i - 1])
      BY <3>1, AnchorFacts
    <3>6. anchors[n].record = anchors[i - 1].record
      BY <2>4, <3>4, <3>5, SignedOnce
    <3> QED
      BY <2>3, <3>1, <3>6 DEF AnchorsDiffer
  <2> QED
    BY <2>6, <2>7
<1>7. ASSUME NEW i \in 1 .. n + 1, NEW j \in 1 .. n + 1,
             anchors'[i].record = anchors'[j].record
      PROVE  i = j
  <2>1. CASE i \in 1 .. n /\ j \in 1 .. n
    BY <1>4, <1>7, <2>1 DEF AnchorsDiffer
  <2>2. CASE i \in 1 .. n /\ j = n + 1
    BY <1>2, <1>4, <1>6, <1>7, <2>2
  <2>3. CASE i = n + 1 /\ j \in 1 .. n
    BY <1>2, <1>4, <1>6, <1>7, <2>3
  <2> QED
    BY <1>3, <2>1, <2>2, <2>3
<1>8. MaxAnchors \in Nat /\ n + 1 <= MaxAnchors
  <2>1. MaxAnchors \in Nat
    BY ProducerAssumption, Zenon
  <2> QED
    BY <1>1, <1>3, <2>1
<1>9. anchors' # <<>> /\ anchors'[1].record.prevAnchor \in Beginnings
  <2>1. CASE n = 0
    <3>1. anchors = <<>>
      BY <1>3, <2>1, EmptySeq DEF IsSeq
    <3>2. prevAnchor \in Beginnings
      BY <3>1 DEF AnchorsDiffer
    <3>3. anchors'[1] = sa
      BY <1>4, <2>1
    <3> QED
      BY <1>2, <1>3, <1>4, <3>2, <3>3
  <2>2. CASE n > 0
    <3>1. anchors # <<>> /\ anchors'[1] = anchors[1]
      BY <1>3, <1>4, <2>2
    <3> QED
      BY <1>3, <1>4, <3>1 DEF AnchorsDiffer
  <2> QED
    BY <1>3, <2>1, <2>2
<1>10. ASSUME NEW i \in 1 .. n + 1 PROVE anchors'[i].record.anchorSeq \in Uint
  <2>1. CASE i \in 1 .. n
    BY <1>4, <2>1 DEF AnchorsDiffer
  <2>2. CASE i = n + 1
    BY <1>2, <1>4, <1>5, <2>2
  <2> QED
    BY <1>3, <2>1, <2>2
<1> QED
  BY <1>1, <1>4, <1>5, <1>7, <1>8, <1>9, <1>10 DEF AnchorsDiffer

\* Nothing else signs anchors.
LEMMA ProducingDiffers ==
  ASSUME ProducerInv, AnchorsDiffer, ProducerNext PROVE AnchorsDiffer'
<1>1. CASE UNCHANGED <<anchorSeq, prevAnchor, anchors>>
  BY <1>1 DEF AnchorsDiffer
<1>2. StartFile \/ WriteLine \/ RotateStarted => UNCHANGED <<anchorSeq, prevAnchor, anchors>>
  BY Zenon DEF StartFile, WriteLine, RotateStarted, Rotate
<1> QED
  BY <1>1, <1>2, AnchorDiffers DEF ProducerNext

\* One more message of a run that passed so far: the run is still made of
\* consecutive anchors if the message passes too.
LEMMA ExtendsRun ==
  ASSUME ProducerInv, AnchorsDiffer, RunChecked, kind = "anchor",
         NEW j \in 1 .. Len(anchors), NEW m \in {anchors[j]} \cup AlteredAnchors(anchors[j]),
         run' = Append(run, m), UNCHANGED producerVars,
         NEW n, n = Len(run), \A i \in 1 .. n + 1 : Passes(run, i)'
  PROVE  ConsecutiveAnchors(n + 1)'
<1>1. IsSeq(run) /\ n \in Nat
  BY SeqShape DEF RunChecked
<1>2. /\ run'[n + 1] = m /\ \A i \in 1 .. n : run'[i] = run[i]
      /\ anchors' = anchors
  BY <1>1, AppendGrows DEF producerVars
<1>3. MaxAnchors \in Nat
  BY ProducerAssumption, Zenon
<1>4. Len(anchors) \in Nat /\ Len(anchors) <= MaxAnchors
  BY SeqShape DEF ProducerInv, AnchorsIssued, AnchorsDiffer
<1>5. Verify(Identity, m) /\ (n > 0 => FollowsFrom(m, run[n]))
  <2>1. n + 1 \in 1 .. n + 1
    BY <1>1
  <2>2. Verify(Identity, run'[n + 1]) /\ (n + 1 > 1 => FollowsFrom(run'[n + 1], run'[n + 1 - 1]))
    BY <2>1 DEF Passes
  <2>3. n > 0 => run'[n + 1 - 1] = run[n]
    BY <1>1, <1>2
  <2> QED
    BY <1>1, <1>2, <2>2, <2>3
<1>6. /\ m.record = anchors[j].record /\ m.signature.word = anchors[j].signature.word
      /\ "padded" \notin m.signature.spelling
  BY <1>5, AnchorFacts, OnlyGenuineVerifies
<1>7. CASE n = 0
  <2>1. j - 1 \in 0 .. MaxAnchors /\ (j - 1) + 1 = j
    BY <1>3, <1>4
  <2>2. \A i \in 1 .. 1 :
          /\ run'[i].record = anchors'[(j - 1) + i].record
          /\ run'[i].signature.word = anchors'[(j - 1) + i].signature.word
          /\ "padded" \notin run'[i].signature.spelling
          /\ i < 1 => run'[i].signature.spelling = {}
    BY <1>2, <1>6, <1>7, <2>1
  <2>3. (j - 1) + 1 <= Len(anchors')
    BY <1>2, <1>4
  <2>4. ConsecutiveAnchors(1)'
    BY <2>1, <2>2, <2>3, Zenon DEF ConsecutiveAnchors
  <2> QED
    BY <1>7, <2>4
<1>8. CASE n > 0
  <2>1. \A i \in 1 .. n : Passes(run, i)
    <3> SUFFICES ASSUME NEW i \in 1 .. n PROVE Passes(run, i)
      OBVIOUS
    <3>1. i \in 1 .. n + 1 /\ run'[i] = run[i] /\ (i > 1 => run'[i - 1] = run[i - 1])
      BY <1>1, <1>2
    <3>2. Verify(Identity, run'[i]) /\ (i > 1 => FollowsFrom(run'[i], run'[i - 1]))
      BY <3>1 DEF Passes
    <3> QED
      BY <3>1, <3>2 DEF Passes
  <2>2. ConsecutiveAnchors(n)
    BY <1>1, <2>1 DEF RunChecked
  <2>3. PICK k \in 0 .. MaxAnchors :
          /\ k + n <= Len(anchors)
          /\ \A i \in 1 .. n :
               /\ run[i].record = anchors[k + i].record
               /\ run[i].signature.word = anchors[k + i].signature.word
               /\ "padded" \notin run[i].signature.spelling
               /\ i < n => run[i].signature.spelling = {}
    BY <2>2 DEF ConsecutiveAnchors
  <2>4. n \in 1 .. n /\ k + n \in 1 .. Len(anchors)
    BY <1>1, <1>4, <1>8, <2>3
  <2>5. j = k + n + 1 /\ run[n].signature.spelling = {}
    <3>1. /\ run[n].signature.word = anchors[k + n].signature.word
          /\ FollowsFrom(m, run[n])
      BY <1>5, <1>8, <2>3, <2>4
    <3> QED
      BY <1>6, <2>4, <3>1, SuccessorIsNext
  <2>6. ASSUME NEW i \in 1 .. n + 1
        PROVE  /\ run'[i].record = anchors'[k + i].record
               /\ run'[i].signature.word = anchors'[k + i].signature.word
               /\ "padded" \notin run'[i].signature.spelling
               /\ i < n + 1 => run'[i].signature.spelling = {}
    <3>1. CASE i = n + 1
      BY <1>1, <1>2, <1>6, <2>5, <3>1
    <3>2. CASE i \in 1 .. n
      BY <1>1, <1>2, <2>3, <2>5, <3>2
    <3> QED
      BY <1>1, <3>1, <3>2
  <2>7. k + (n + 1) <= Len(anchors')
    BY <1>1, <1>2, <2>5
  <2> QED
    BY <2>6, <2>7 DEF ConsecutiveAnchors
<1> QED
  BY <1>1, <1>7, <1>8

\* AnchorRunFails finds the first message that does not pass, if one is the first.
LEMMA FirstFailure ==
  ASSUME NEW ms, IsSeq(ms), NEW where \in 0 .. Len(ms),
         \A i \in 1 .. Len(ms) : (where = 0 \/ i < where) => Passes(ms, i),
         where > 0 => ~Passes(ms, where)
  PROVE  AnchorRunFails(Identity, ms) = where
<1> DEFINE bad == {i \in DOMAIN ms : \/ ~Verify(Identity, ms[i])
                                     \/ i > 1 /\ ~FollowsFrom(ms[i], ms[i - 1])}
<1>1. Len(ms) \in Nat /\ DOMAIN ms = 1 .. Len(ms)
  BY SeqShape
<1>2. \A i : i \in bad <=> i \in 1 .. Len(ms) /\ ~Passes(ms, i)
  BY <1>1 DEF Passes
<1>3. AnchorRunFails(Identity, ms) =
        IF bad = {} THEN 0 ELSE CHOOSE i \in bad : \A j \in bad : i <= j
  BY Zenon DEF AnchorRunFails
<1> HIDE DEF bad
<1>4. where \in Int /\ (where > 0 => where \in 1 .. Len(ms))
  BY <1>1
<1>5. ASSUME NEW i \in bad PROVE i \in Int /\ where > 0 /\ where <= i
  <2>1. i \in 1 .. Len(ms) /\ ~Passes(ms, i)
    BY <1>2, Zenon
  <2>2. ~(where = 0 \/ i < where)
    BY <2>1, Zenon
  <2> QED
    BY <1>1, <1>4, <2>1, <2>2, SMT
<1>6. CASE where > 0
  <2>1. where \in bad
    BY <1>2, <1>4, <1>6, Zenon
  <2>2. ASSUME NEW i \in bad, \A j \in bad : i <= j PROVE i = where
    <3>1. i <= where
      BY <2>1, <2>2
    <3> QED
      BY <1>4, <1>5, <3>1
  <2>3. (CHOOSE i \in bad : \A j \in bad : i <= j) = where
    BY <1>5, <2>1, <2>2, Zenon
  <2> QED
    BY <1>3, <2>1, <2>3, Zenon
<1>7. CASE ~(where > 0)
  <2>1. bad = {}
    BY <1>5, <1>7, Zenon
  <2>2. where = 0
    BY <1>1, <1>7, SMT
  <2> QED
    BY <1>3, <2>1, <2>2, Zenon
<1> QED
  BY <1>6, <1>7, Zenon

\* The check of a run that has grown by one message.
LEMMA ArriveChecks ==
  ASSUME ProducerInv, AnchorsDiffer, RunChecked, kind = "anchor", HandOn \/ Tamper
  PROVE  RunChecked'
<1>1. PICK j \in 1 .. Len(anchors) :
        \E m \in {anchors[j]} \cup AlteredAnchors(anchors[j]) : Arrive(m)
  BY ArrivingAnchor
<1>2. PICK m \in {anchors[j]} \cup AlteredAnchors(anchors[j]) : Arrive(m)
  BY <1>1
<1> DEFINE n == Len(run)
<1>3. /\ failed' = AnchorRunFails(Identity, Append(run, m)) /\ run' = Append(run, m)
      /\ UNCHANGED producerVars /\ kind' = kind
  BY <1>2 DEF Arrive
<1>4. IsSeq(run) /\ n \in Nat
  BY SeqShape DEF RunChecked
<1>5. /\ IsSeq(run') /\ Len(run') = n + 1 /\ run'[n + 1] = m
      /\ \A i \in 1 .. n : run'[i] = run[i]
  BY <1>3, <1>4, AppendGrows
<1>6. HasSignature(m)
  BY AnchorFacts, ArrivesSigned
<1>7. \A i \in 1 .. n + 1 : HasSignature(run'[i])
  <2> SUFFICES ASSUME NEW i \in 1 .. n + 1 PROVE HasSignature(run'[i])
    OBVIOUS
  <2>1. CASE i \in 1 .. n
    BY <1>5, <2>1 DEF RunChecked
  <2>2. CASE i = n + 1
    BY <1>5, <1>6, <2>2
  <2> QED
    BY <1>4, <2>1, <2>2
<1>8. \A i \in 1 .. n : Passes(run', i) <=> Passes(run, i)
  <2> SUFFICES ASSUME NEW i \in 1 .. n PROVE Passes(run', i) <=> Passes(run, i)
    OBVIOUS
  <2>1. run'[i] = run[i] /\ (i > 1 => run'[i - 1] = run[i - 1])
    BY <1>4, <1>5
  <2> QED
    BY <2>1 DEF Passes
<1>9. failed' = IF failed > 0 THEN failed ELSE IF Passes(run', n + 1) THEN 0 ELSE n + 1
  <2> DEFINE first == IF failed > 0 THEN failed ELSE IF Passes(run', n + 1) THEN 0 ELSE n + 1
  <2>1. failed \in 0 .. n /\ failed \in Nat
    BY DEF RunChecked
  <2>2. first \in 0 .. n + 1
    BY <1>4, <2>1
  <2>3. \A i \in 1 .. n : (failed = 0 \/ i < failed) => Passes(run', i)
    BY <1>8 DEF RunChecked
  <2>4. ASSUME NEW i \in 1 .. n + 1, first = 0 \/ i < first PROVE Passes(run', i)
    <3>1. CASE i \in 1 .. n
      BY <1>4, <2>1, <2>3, <2>4, <3>1
    <3>2. CASE i = n + 1
      BY <1>4, <2>1, <2>4, <3>2
    <3> QED
      BY <1>4, <3>1, <3>2
  <2>5. first > 0 => ~Passes(run', first)
    <3>1. failed > 0 => failed \in 1 .. n /\ ~Passes(run, failed)
      BY <2>1 DEF RunChecked
    <3> QED
      BY <1>4, <1>8, <2>1, <3>1
  <2> HIDE DEF first
  <2>6. AnchorRunFails(Identity, run') = first
    BY <1>5, <2>2, <2>4, <2>5, FirstFailure
  <2> QED
    BY <1>3, <2>6 DEF first
<1>10. failed \in 0 .. n
  BY DEF RunChecked
<1>11. failed' \in 0 .. n + 1
  BY <1>4, <1>9, <1>10
<1>12. \A i \in 1 .. n + 1 : (failed' = 0 \/ i < failed') => Passes(run', i)
  <2> SUFFICES ASSUME NEW i \in 1 .. n + 1, failed' = 0 \/ i < failed'
               PROVE  Passes(run', i)
    OBVIOUS
  <2>1. CASE i \in 1 .. n
    <3>1. failed = 0 \/ i < failed
      BY <1>4, <1>9, <1>10
    <3> QED
      BY <1>8, <2>1, <3>1 DEF RunChecked
  <2>2. CASE i = n + 1
    BY <1>4, <1>9, <1>10, <2>2
  <2> QED
    BY <1>4, <2>1, <2>2
<1>13. failed' > 0 => ~Passes(run', failed')
  <2>1. CASE failed > 0
    <3>1. failed \in 1 .. n /\ ~Passes(run, failed)
      BY <1>10, <2>1 DEF RunChecked
    <3> QED
      BY <1>8, <1>9, <2>1, <3>1
  <2>2. CASE ~(failed > 0)
    BY <1>4, <1>9, <2>2
  <2> QED
    BY <2>1, <2>2
<1>14. ASSUME NEW k \in 0 .. n + 1, \A i \in 1 .. k : Passes(run', i)
       PROVE  ConsecutiveAnchors(k)'
  <2>1. CASE k \in 0 .. n
    <3>1. \A i \in 1 .. k : Passes(run, i)
      BY <1>8, <1>14, <2>1
    <3>2. ConsecutiveAnchors(k)
      BY <2>1, <3>1 DEF RunChecked
    <3>3. anchors' = anchors /\ \A i \in 1 .. k : run'[i] = run[i]
      BY <1>3, <1>5, <2>1 DEF producerVars
    <3> QED
      BY <3>2, <3>3 DEF ConsecutiveAnchors
  <2>2. CASE k = n + 1
    <3>1. \A i \in 1 .. n + 1 : Passes(run, i)'
      BY <1>14, <2>2 DEF Passes
    <3> QED
      BY <1>3, <2>2, <3>1, ExtendsRun
  <2> QED
    BY <1>4, <2>1, <2>2
<1> QED
  BY <1>3, <1>5, <1>7, <1>11, <1>12, <1>13, <1>14 DEF RunChecked, Passes

\* While the producer writes and signs, nothing has arrived.
LEMMA ProducingChecks ==
  ASSUME ProducerInv', RunChecked, Producing PROVE RunChecked'
<1>1. run' = run /\ failed' = failed /\ kind' = kind /\ kind = "anchor" /\ run = <<>>
  BY DEF Producing, relayVars
<1>2. Len(run) = 0
  BY <1>1
<1>3. MaxAnchors \in Nat
  BY ProducerAssumption, Zenon
<1>4. Len(anchors') \in Nat
  BY SeqShape DEF ProducerInv, AnchorsIssued
<1>5. ConsecutiveAnchors(0)'
  BY <1>3, <1>4 DEF ConsecutiveAnchors
<1>6. ASSUME NEW n \in 0 .. Len(run') PROVE ConsecutiveAnchors(n)'
  BY <1>1, <1>2, <1>5, <1>6
<1>7. IsSeq(run) /\ failed = 0
  BY <1>1, <1>2 DEF RunChecked
<1> QED
  BY <1>1, <1>2, <1>6, <1>7 DEF RunChecked

\* The invariant holds in the beginning.
LEMMA RelayInvInit == RelayInit => RelayInv
<1> SUFFICES ASSUME RelayInit PROVE RelayInv
  OBVIOUS
<1>1. NewChain /\ kind \in {"batch", "anchor"} /\ run = <<>> /\ failed = 0
  BY DEF RelayInit
<1>2. ProducerInv
  BY <1>1, NewChainInv
<1>3. anchors = <<>>
  BY <1>1 DEF NewChain
<1>4. MaxAnchors \in Nat
  BY ProducerAssumption, Zenon
<1>5. anchorSeq \in Uint /\ prevAnchor \in Beginnings
  BY WAssumption DEF RelayInit, Uint, Beginnings
<1>6. AnchorsDiffer
  BY <1>3, <1>4, <1>5 DEF AnchorsDiffer
<1>7. ConsecutiveAnchors(0)
  BY <1>3, <1>4 DEF ConsecutiveAnchors
<1>8. IsSeq(run) /\ Len(run) = 0
  BY <1>1 DEF IsSeq
<1>9. RunChecked
  BY <1>1, <1>7, <1>8 DEF RunChecked
<1> QED
  BY <1>2, <1>6, <1>9 DEF RelayInv

\* Every step keeps it.
LEMMA RelayStep ==
  ASSUME RelayInv, [RelayNext]_<<producerVars, relayVars>> PROVE RelayInv'
<1>1. ProducerInv /\ AnchorsDiffer /\ RunChecked
  BY DEF RelayInv
<1>2. CASE Producing
  <2>1. ProducerNext
    BY <1>2 DEF Producing
  <2>2. ProducerInv'
    BY <1>1, <2>1, ProducerStep
  <2> QED
    BY <1>1, <1>2, <2>1, <2>2, ProducingDiffers, ProducingChecks DEF RelayInv
<1>3. CASE \E es \in Statements : Publish(es)
  <2>1. /\ kind = "batch" /\ kind' = kind
        /\ UNCHANGED <<seq, macNow, prevFileMAC, lineCount, anchorSeq, prevAnchor, files, anchors>>
    BY <1>3, Zenon DEF Publish
  <2>2. ProducerInv'
    BY <1>1, <2>1
    DEF ProducerInv, FilesWritten, InStep, AnchorsIssued, Predecessor, Started, Commits
  <2>3. AnchorsDiffer' /\ RunChecked'
    BY <1>1, <2>1 DEF AnchorsDiffer, RunChecked
  <2> QED
    BY <2>2, <2>3 DEF RelayInv
<1>4. ASSUME UNCHANGED producerVars PROVE ProducerInv' /\ AnchorsDiffer'
  <2>1. ProducerInv'
    BY <1>1, <1>4, ProducerStep
  <2>2. AnchorsDiffer'
    BY <1>1, <1>4 DEF producerVars, AnchorsDiffer
  <2> QED
    BY <2>1, <2>2
<1>5. CASE Restart
  <2>1. kind = "batch" /\ kind' = kind /\ UNCHANGED producerVars
    BY <1>5, Zenon DEF Restart
  <2>2. RunChecked'
    BY <2>1 DEF RunChecked
  <2> QED
    BY <1>4, <2>1, <2>2 DEF RelayInv
<1>6. CASE HandOn \/ Tamper
  <2>1. UNCHANGED producerVars /\ kind' = kind
    BY <1>6, Zenon DEF HandOn, Tamper, Arrive
  <2>2. CASE kind = "anchor"
    BY <1>1, <1>4, <1>6, <2>1, <2>2, ArriveChecks DEF RelayInv
  <2>3. CASE kind # "anchor"
    BY <1>1, <1>4, <2>1, <2>3 DEF RelayInv, RunChecked
  <2> QED
    BY <2>2, <2>3
<1>7. CASE UNCHANGED <<producerVars, relayVars>>
  <2>1. UNCHANGED producerVars /\ run' = run /\ failed' = failed /\ kind' = kind
        /\ anchors' = anchors
    BY <1>7 DEF producerVars, relayVars
  <2>2. \A n : ConsecutiveAnchors(n) => ConsecutiveAnchors(n)'
    BY <2>1 DEF ConsecutiveAnchors
  <2>3. RunChecked'
    BY <1>1, <2>1, <2>2 DEF RunChecked
  <2> QED
    BY <1>4, <2>1, <2>3 DEF RelayInv
<1> QED
  BY <1>2, <1>3, <1>5, <1>6, <1>7 DEF RelayNext

\* The invariant holds as long as messages are handed on.
LEMMA RelayInvariant == RelaySpec => []RelayInv
<1> QED
  BY RelayInvInit, RelayStep, PTL DEF RelaySpec

-----------------------------------------------------------------------------
(* What the reader sees.                                                   *)

\* A run of anchors that was checked failed at its first break.
LEMMA InvFirstBreak == RelayInv => AnchorRunFailsAtItsFirstBreak
<1> SUFFICES ASSUME RelayInv, kind = "anchor" PROVE FirstBreak(failed, ConsecutiveAnchors)
  BY Zenon DEF AnchorRunFailsAtItsFirstBreak
<1>1. ProducerInv /\ AnchorsDiffer /\ RunChecked
  BY DEF RelayInv
<1>2. /\ Len(run) \in Nat /\ failed \in 0 .. Len(run)
      /\ \A i \in 1 .. Len(run) : HasSignature(run[i])
      /\ \A i \in 1 .. Len(run) : (failed = 0 \/ i < failed) => Passes(run, i)
      /\ failed > 0 => ~Passes(run, failed)
      /\ \A n \in 0 .. Len(run) : (\A i \in 1 .. n : Passes(run, i)) => ConsecutiveAnchors(n)
  BY <1>1, SeqShape DEF RunChecked
<1>3. CASE failed = 0
  <2>1. ConsecutiveAnchors(Len(run))
    BY <1>2, <1>3
  <2> QED
    BY <1>3, <2>1, Zenon DEF FirstBreak
<1>4. CASE failed # 0
  <2>1. failed > 0 /\ failed \in Nat /\ failed \in 1 .. failed
    BY <1>2, <1>4
  <2>2. \A i \in 1 .. failed : HasSignature(run[i])
    BY <1>2
  <2>3. ~ConsecutiveAnchors(failed)
    BY <1>1, <1>2, <2>1, <2>2, ConsecutivePass
  <2>4. failed - 1 \in 0 .. Len(run) /\ \A i \in 1 .. failed - 1 : Passes(run, i)
    BY <1>2, <2>1
  <2>5. ConsecutiveAnchors(failed - 1)
    BY <1>2, <2>4
  <2> QED
    BY <1>4, <2>3, <2>5, Zenon DEF FirstBreak
<1> QED
  BY <1>3, <1>4

\* For every number of anchors, messages and forgeries, and wherever the numbers
\* wrap around: what a relay hands on, repeats, reorders, leaves out, respells,
\* alters or signs with another key, a reader accepts a run of anchors exactly
\* when it is made of consecutive ones, and otherwise names its first break.
THEOREM RelayedAnchors == RelaySpec => []AnchorRunFailsAtItsFirstBreak
  BY RelayInvariant, InvFirstBreak, PTL

\* Also behind a relay, and for a chain that begins where another of the
\* identity left off: what is written is one chain.
THEOREM RelayWrites == RelaySpec => []WritesOneChain
<1>1. RelayInv => ProducerInv
  BY DEF RelayInv
<1> QED
  BY <1>1, RelayInvariant, InvWrites, PTL

\* Also there, every anchor commits to a prefix that stays, and follows from the
\* one before it.
THEOREM RelayAnchors == RelaySpec => []AnchorsCommitToPrefixes
<1>1. RelayInv => ProducerInv
  BY DEF RelayInv
<1> QED
  BY <1>1, RelayInvariant, InvCommits, PTL
=============================================================================
