-------------------------------- MODULE Relay --------------------------------
(***************************************************************************)
(* Signed statements on their way to a reader.  A monitor publishes        *)
(* observation batches, or a producer signs anchors; somebody in between   *)
(* hands them on, and may withhold, repeat, reorder, respell, alter or     *)
(* sign them again with another key; the reader checks the run that has    *)
(* arrived so far whenever something is added to it.                       *)
(***************************************************************************)
EXTENDS Producer, SequencesExt

CONSTANTS
  MaxEntriesPerBatch, MaxBitmapChars,
  Statements,    \* the entries a monitor may state in a batch
  Monitors,      \* the names a monitor may go by
  MaxBatches,    \* bound: the batches that are published
  MaxUnfit,      \* bound: how many of them are not fit to be stated
  MaxLives,      \* bound: how often a monitor starts from nothing
  MaxRun,        \* bound: the messages that arrive
  MaxForged      \* bound: how many of them are not passed on as they were

\* Somebody else, with a key of his own.
Other == "other"

ASSUME RelayAssumption == /\ MaxEntriesPerBatch \in Nat \ {0}
                          /\ MaxBitmapChars \in Nat
                          /\ MaxBatches < W
                          /\ Identity # Other

VARIABLES
  kind,      \* what is sent, "batch" or "anchor"
  lives,     \* the batches published by the monitor, one sequence for each life
  name,      \* what the monitor calls itself in its present life
  arrived,   \* what arrived, as it arrived
  run,       \* what the reader holds: the check rewrites what it is given
  failed,    \* the index of the first failing message of the run, 0 when none
  forged     \* how many messages were tampered with

relayVars == <<kind, lives, name, arrived, run, failed, forged>>

Obs == INSTANCE Observation

-----------------------------------------------------------------------------
Producing ==
  /\ kind = "anchor" /\ run = <<>>
  /\ ProducerNext
  /\ UNCHANGED relayVars

\* What identifies an entry.
Triple(e) == <<e.day.word, e.target.word, e.service.word>>

\* A statement that may stand as testimony (SPEC.md 10.6).
WellFormed(entries) ==
  LET es == ToSet(entries)
  IN /\ Len(entries) \in 1 .. MaxEntriesPerBatch
     /\ Cardinality({Triple(e) : e \in es}) = Len(entries)
     /\ \A e \in es : /\ e.day.word # 0 /\ e.target.word # <<>> /\ e.service.word # <<>>
                      /\ {e.probed.word, e.down.word} \subseteq 0 .. MaxBitmapChars

\* No two of them are one to Validate, which joins what identifies them.
ToldApart(entries) ==
  \A i, j \in DOMAIN entries : Obs!JoinedKey(entries[i]) = Obs!JoinedKey(entries[j]) => i = j

Fit(entries) == WellFormed(entries) /\ ToldApart(entries)

Life      == lives[Len(lives)]
Published == FlattenSeq(lives)
Unfit     == {i \in DOMAIN Published : ~Fit(Published[i].entries)}

\* The monitor states es, whether or not it is fit to be stated, in a batch chained
\* to its previous one.
Publish(es) ==
  /\ kind = "batch" /\ run = <<>> /\ Len(Published) < MaxBatches
  /\ Fit(es) \/ Cardinality(Unfit) < MaxUnfit
  /\ LET b == Obs!Canonicalize(
                [monitor |-> Plain(name), keyFp |-> Plain(Fingerprint(Identity)),
                 seq |-> Len(Life) + 1,
                 prevBatch |-> Plain(IF Life = <<>> THEN {} ELSE {Obs!Digest(Life[Len(Life)])}),
                 signedAt |-> clock + 1, entries |-> es])
         sb == [monitor |-> b.monitor, keyFp |-> b.keyFp, seq |-> b.seq,
                prevBatch |-> b.prevBatch, signedAt |-> b.signedAt, entries |-> b.entries,
                signature |-> Plain(Obs!Sign(Identity, b))]
     IN lives' = [lives EXCEPT ![Len(lives)] = Append(@, sb)]
  /\ clock' = clock + 1
  /\ UNCHANGED <<kind, name, arrived, run, failed, forged, seq, macNow, prevFileMAC, lineCount,
                 anchorSeq, prevAnchor, files, anchors>>

\* The monitor loses its counter, or another one is set up with the same key.
Restart ==
  /\ kind = "batch" /\ run = <<>> /\ Life # <<>> /\ Len(lives) < MaxLives
  /\ lives' = Append(lives, <<>>)
  /\ name' \in Monitors
  /\ UNCHANGED <<producerVars, kind, arrived, run, failed, forged>>

-----------------------------------------------------------------------------
\* The same statement, written differently: as the documentation says that it may be
\* (SPEC.md 10.4), or in a way that only the code lets pass.
Respelled(b) ==
  {[b EXCEPT !.monitor.spelling = {"padded"}, !.keyFp.spelling = {"upper"},
             !.prevBatch.spelling = {"upper"}],
   [b EXCEPT !.entries = [i \in DOMAIN @ |->
                            [@[Len(@) + 1 - i] EXCEPT !.service.spelling = {"upper"},
                                                      !.target.spelling = {"padded"}]]],
   [b EXCEPT !.keyFp.spelling = {"padded"}, !.prevBatch.spelling = {"padded"}],
   [b EXCEPT !.signature.spelling = {"upper"}],
   [b EXCEPT !.signature.spelling = {"padded"}]}

\* Another statement under the signature of the first, or the same one signed by
\* somebody else, who may say so.
AlteredBatches(b) ==
  {[b EXCEPT !.signedAt = @ + W],
   [b EXCEPT !.monitor = Plain(Other)],
   [b EXCEPT !.entries = SubSeq(@, 1, Len(@) - 1)],
   [b EXCEPT !.entries = [i \in DOMAIN @ |-> [@[i] EXCEPT !.down.word = @ + 1]]],
   [b EXCEPT !.seq = Plus(@, 1)],
   [b EXCEPT !.signature = Plain(Obs!Sign(Other, b))],
   LET c == [b EXCEPT !.keyFp = Plain(Fingerprint(Other))]
   IN [c EXCEPT !.signature = Plain(Obs!Sign(Other, c))]}

AlteredAnchors(a) ==
  {[a EXCEPT !.signature.spelling = {"upper"}],
   [a EXCEPT !.signature.spelling = {"padded"}],
   [a EXCEPT !.record.lineCount = @ + 1],
   [a EXCEPT !.record.anchorSeq = Plus(@, 1)],
   [a EXCEPT !.signature.word = Sign(Other, a.record)],
   [a EXCEPT !.record.keyFp = Fingerprint(Other),
             !.signature.word = Sign(Other, [a.record EXCEPT !.keyFp = Fingerprint(Other)])]}

\* A reader's pass over a run of anchors: every signature, and every succession.
AnchorRunFails(pub, as) ==
  LET bad == {i \in DOMAIN as : \/ ~Verify(pub, as[i])
                                \/ i > 1 /\ ~FollowsFrom(as[i], as[i - 1])}
  IN IF bad = {} THEN 0 ELSE CHOOSE i \in bad : \A j \in bad : i <= j

\* A message arrives, and the run is checked; VerifyChain rewrites the batches in it.
Arrive(m) ==
  /\ Len(run) < MaxRun
  /\ arrived' = Append(arrived, m)
  /\ \/ /\ kind = "batch"
        /\ failed' = Obs!VerifyChain(Identity, Append(run, m))
        /\ run' = Obs!AfterVerifyChain(Identity, Append(run, m))
     \/ /\ kind = "anchor"
        /\ failed' = AnchorRunFails(Identity, Append(run, m))
        /\ run' = Append(run, m)
  /\ UNCHANGED <<producerVars, kind, lives, name>>

HandOn ==
  /\ \E m \in IF kind = "batch" THEN ToSet(Published) ELSE ToSet(anchors) :
       Arrive(m)
  /\ UNCHANGED forged

Tamper ==
  /\ forged < MaxForged
  /\ \E m \in IF kind = "batch" THEN UNION {Respelled(b) \cup AlteredBatches(b) : b \in ToSet(Published)}
              ELSE UNION {AlteredAnchors(a) : a \in ToSet(anchors)} :
       Arrive(m)
  /\ forged' = forged + 1

\* The digest of an anchor that the identity signed for an earlier chain.
Earlier == Digest([signature |-> Plain(<<"earlier">>)])

\* Anchors are numbered across the chains of an identity, and this chain may begin
\* where the numbers are about to wrap around.
RelayInit ==
  /\ NewChain /\ kind \in {"batch", "anchor"}
  /\ \/ anchorSeq = 0 /\ prevAnchor = {}
     \/ kind = "anchor" /\ anchorSeq = W - 2 /\ prevAnchor = {Earlier}
  /\ lives = <<<<>>>> /\ name = CHOOSE n \in Monitors : TRUE
  /\ arrived = <<>> /\ run = <<>> /\ failed = 0 /\ forged = 0

RelayNext == Producing \/ (\E es \in Statements : Publish(es)) \/ Restart \/ HandOn \/ Tamper

RelaySpec == RelayInit /\ [][RelayNext]_<<producerVars, relayVars>>

-----------------------------------------------------------------------------
\* What a batch says, however it is spelled and whatever the order of its entries,
\* except when it says that it was signed.
Says(b) ==
  <<b.monitor.word, b.keyFp.word, b.seq, b.prevBatch.word, Len(b.entries),
    {<<Triple(e), e.probed.word, e.down.word>> : e \in ToSet(b.entries)},
    b.signature.word>>

\* The times s and t are the same as far as a signature tells them apart.
SignedAlike(s, t) == s % W = t % W

\* The hexadecimal texts of b are written as the canonical form lets them be: in either
\* case where the form lowers them, never with white space around them (SPEC.md 10.4).
SpelledAsSpecified(b) ==
  /\ b.keyFp.spelling \cup b.prevBatch.spelling \subseteq {"upper"}
  /\ b.signature.spelling = {}

\* The first n batches that arrived are consecutive batches of one life of the
\* monitor, say what they said, and are fit to be said; Same(b, c) is what else they
\* have in common.
ConsecutiveBatches(n, Same(_, _)) ==
  \E l \in DOMAIN lives, k \in 0 .. MaxBatches :
    /\ k + n <= Len(lives[l])
    /\ \A i \in 1 .. n : /\ Says(arrived[i]) = Says(lives[l][k + i])
                         /\ WellFormed(arrived[i].entries)
                         /\ Same(arrived[i], lives[l][k + i])

\* Nothing is wrong with the first n batches by any reading of the documentation, and
\* they state nothing that Validate takes for a repetition.
Unaltered(n) ==
  ConsecutiveBatches(n, LAMBDA b, c : /\ SpelledAsSpecified(b) /\ b.signedAt = c.signedAt
                                      /\ ToldApart(b.entries))

\* They differ from what was published at most in how a text is spelled and in when a
\* batch says that it was signed.
SameStatements(n) ==
  ConsecutiveBatches(n, LAMBDA b, c : SignedAlike(b.signedAt, c.signedAt))

\* The first n anchors of the run are consecutive anchors of the producer, and each
\* of them that another one follows is spelled as it was signed.
ConsecutiveAnchors(n) ==
  \E k \in 0 .. MaxAnchors :
    /\ k + n <= Len(anchors)
    /\ \A i \in 1 .. n :
         /\ run[i].record = anchors[k + i].record
         /\ run[i].signature.word = anchors[k + i].signature.word
         /\ "padded" \notin run[i].signature.spelling
         /\ i < n => run[i].signature.spelling = {}

\* n is where a run fails, when R(i) says whether its first i messages are as sent.
FirstBreak(n, R(_)) ==
  IF n = 0 THEN R(Len(run)) ELSE ~R(n) /\ (n > 1 => R(n - 1))

\* A run of batches from whose middle nothing is missing, and in which nothing is
\* repeated, reordered, altered or unfit to be said, is accepted, in any order of the
\* entries and any spelling that the canonical form takes away; a run that is accepted
\* lacks, repeats, reorders and restates nothing; and a run that is not is said to fail
\* at a batch up to which the same holds, which no later batch heals (SPEC.md 10.7),
\* although every check rewrites the run it is given.  What the code lets pass between
\* the two, and the documentation does not, is below.  Distinct entries that are the
\* same when joined with bars (observation.go:243) are refused, and excepted here.
BatchRunFailsAtItsFirstBreak ==
  kind = "batch" =>
    IF failed = 0 THEN SameStatements(Len(arrived))
    ELSE ~Unaltered(failed) /\ SameStatements(failed - 1)

\* A run of anchors is accepted exactly when nothing is missing from its middle,
\* repeated, reordered or altered, also where the numbers wrap around; unlike a
\* batch, an anchor whose signature is respelled cannot be succeeded.
AnchorRunFailsAtItsFirstBreak ==
  kind = "anchor" => FirstBreak(failed, ConsecutiveAnchors)

-----------------------------------------------------------------------------
(* What the documentation says and the code does not do.                   *)

AcceptedBatches == kind = "batch" /\ failed = 0

\* "digest = hex( SHA-256( ascii( signature ) ) )", "the same construction as the anchor
\* digest" (SPEC.md 10.5): each batch of a run that is accepted names the digest of the
\* signature text of the one before it as that text arrived.
DigestIsOfTheSignatureText ==
  AcceptedBatches =>
    \A i \in 2 .. Len(arrived) :
      arrived[i].prevBatch.word = {<<"digest", arrived[i - 1].signature>>}

\* "A valid signature proves that the named monitor made exactly this statement, and that
\* nobody has altered it since" (SPEC.md 10.1): the time of a batch in a run that is
\* accepted is one at which its monitor published a batch.
AcceptedTimesAreSigned ==
  AcceptedBatches =>
    \A i \in DOMAIN arrived : \E b \in ToSet(Published) : b.signedAt = arrived[i].signedAt
=============================================================================
