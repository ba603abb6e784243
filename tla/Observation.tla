---------------------------- MODULE Observation ----------------------------
(***************************************************************************)
(* Signed observation batches: what one monitor says it saw, the canonical *)
(* form in which that is signed, and the checks a reader makes of a batch  *)
(* and of a run of batches.                                                *)
(*                                                                         *)
(* The words of targets and services are sequences of character codes,     *)
(* because their order and their concatenation matter; the case of a       *)
(* target is part of its word.  A day is a number, NoDay when the text is  *)
(* no date; of a bitmap only its length is kept.                           *)
(***************************************************************************)
EXTENDS Keys, Sequences, FiniteSetsExt

CONSTANTS MaxEntriesPerBatch, MaxBitmapChars   \* natural numbers

NoDay  == 0
NoTime == 0      \* the zero time
Bar    == 124    \* "|"

-----------------------------------------------------------------------------
\* x < y, byte by byte.
WordBefore(x, y) ==
  \E k \in 1 .. Len(y) :
    /\ \A i \in 1 .. k - 1 : i <= Len(x) /\ x[i] = y[i]
    /\ k > Len(x) \/ x[k] < y[k]

\* Day, then target, then service.
EntryBefore(e, f) ==
  \/ e.day.word < f.day.word
  \/ /\ e.day = f.day
     /\ \/ WordBefore(e.target.word, f.target.word)
        \/ e.target = f.target /\ WordBefore(e.service.word, f.service.word)

\* The stable sort.
SortedEntries(es) ==
  LET rank(i) == 1 + Cardinality({j \in DOMAIN es : \/ EntryBefore(es[j], es[i])
                                                    \/ j < i /\ ~EntryBefore(es[i], es[j])})
  IN [r \in DOMAIN es |-> es[CHOOSE i \in DOMAIN es : rank(i) = r]]

CanonicalEntry(e) ==
  [target |-> Trim(e.target), service |-> ToLower(Trim(e.service)), day |-> Trim(e.day),
   probed |-> Trim(e.probed), down |-> Trim(e.down)]

\* Spelling and order carry no meaning and are normalised, in place.
Canonicalize(b) ==
  [b EXCEPT !.monitor = Trim(@), !.keyFp = ToLower(Trim(@)),
            !.prevBatch = ToLower(Trim(@)),
            !.entries = SortedEntries([i \in DOMAIN @ |-> CanonicalEntry(@[i])])]

\* Every field, delimited; the time as the nanoseconds that fit in a uint64.
CanonicalBytes(b) ==
  <<"observation", b.monitor, b.keyFp, b.seq, b.prevBatch, b.signedAt % W, b.entries>>

Sign(id, b) == <<"signature", id, CanonicalBytes(b)>>

IsDigest(d) == d[1] = "digest"

\* What Validate tells entries apart by: three strings joined with a bar.
JoinedKey(e) == <<e.day.word, Bar>> \o e.target.word \o <<Bar>> \o e.service.word

\* A batch that could not be testimony is refused before its signature is looked
\* at.  (A keyFp that is not 64 hex characters is not the reader's either.)
Validate(b) ==
  /\ b.monitor.word # "" /\ b.seq # 0
  /\ (b.seq > 1) <=> (b.prevBatch.word # {})
  /\ \A d \in b.prevBatch.word : IsDigest(d)
  /\ b.signedAt # NoTime
  /\ Len(b.entries) \in 1 .. MaxEntriesPerBatch
  /\ \A i \in DOMAIN b.entries :
       LET e == b.entries[i]
       IN /\ e.target.word # <<>> /\ e.service.word # <<>> /\ e.day.word # NoDay
          /\ e.probed.word <= MaxBitmapChars /\ e.down.word <= MaxBitmapChars
          /\ \A j \in 1 .. i - 1 : JoinedKey(b.entries[j]) # JoinedKey(e)

\* For a batch in canonical form.  The signature text decodes however it is spelled.
Verify(pub, sb) ==
  /\ Validate(sb)
  /\ sb.keyFp.word = Fingerprint(pub)
  /\ sb.signature.word = Sign(pub, sb)

\* Taken over the signature text in lower case.
Digest(sb) == <<"digest", ToLower(Trim(sb.signature))>>

\* Mutant: the numbers are enough.
FollowsFromNumber(sb, prev) ==
  /\ sb.keyFp = prev.keyFp /\ sb.monitor = prev.monitor
  /\ sb.seq = Plus(prev.seq, 1)

FollowsFrom(sb, prev) ==
  /\ sb.keyFp = prev.keyFp /\ sb.monitor = prev.monitor
  /\ sb.seq = Plus(prev.seq, 1)
  /\ sb.prevBatch = Plain({Digest(prev)})

-----------------------------------------------------------------------------
CanonicalRun(run) == [i \in DOMAIN run |-> Canonicalize(run[i])]

\* The index of the first batch of a run that fails, 0 when none does.
VerifyChain(pub, run) ==
  LET r   == CanonicalRun(run)
      bad == {i \in DOMAIN r : ~Verify(pub, r[i]) \/ (i > 1 /\ ~FollowsFrom(r[i], r[i - 1]))}
  IN IF bad = {} THEN 0 ELSE Min(bad)

\* What VerifyChain makes of the caller's run: the batches it came to are left in
\* canonical form.
AfterVerifyChain(pub, run) ==
  LET failed == VerifyChain(pub, run)
  IN [i \in DOMAIN run |-> IF failed = 0 \/ i <= failed THEN Canonicalize(run[i]) ELSE run[i]]
=============================================================================
