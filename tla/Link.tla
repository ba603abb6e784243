-------------------------------- MODULE Link --------------------------------
(***************************************************************************)
(* chain.LinkIssues: do the segments of a set of files form one unbroken   *)
(* chain.  A chain's segments are compared pairwise after sorting them by  *)
(* file number; sort.Slice is not stable, so segments that state the same  *)
(* number may come out in any order.                                       *)
(***************************************************************************)
EXTENDS Uint, Sequences, FiniteSets

\* Format version 1 segments make no continuity claims and are left out.
Linked(segs) == {s \in segs : s.v # ""}

Chains(segs) == {s.chain : s \in Linked(segs)}

OfChain(segs, id) == {s \in Linked(segs) : s.chain = id}

\* Mutant: the segments are compared in the order they were read.
SortedNot(arr) == TRUE

Sorted(arr) == \A i, j \in 1 .. Len(arr) : i < j => arr[i].seq <= arr[j].seq

\* The orders sort.Slice may leave the segments of one chain in.
Arrangements(S) ==
  {arr \in [1 .. Cardinality(S) -> S] :
     /\ \A s \in S : \E i \in DOMAIN arr : arr[i] = s
     /\ Sorted(arr)}

\* One arrangement for every chain.
Orders(segs) ==
  {o \in [Chains(segs) -> UNION {Arrangements(OfChain(segs, id)) : id \in Chains(segs)}] :
     \A id \in Chains(segs) : o[id] \in Arrangements(OfChain(segs, id))}

-----------------------------------------------------------------------------
\* The lowest numbered segment is not the first of its chain and names no
\* predecessor.
Headless(arr) == Len(arr) > 0 /\ arr[1].seq # 0 /\ arr[1].prev = {}

\* s.Seq != prev.Seq+1, in unsigned arithmetic.
Jump(arr, i) == arr[i].seq # Plus(arr[i - 1].seq, 1)

\* Mutant: one too many.
MissingInclusive(arr, i) == Minus(arr[i].seq, arr[i - 1].seq)

\* s.Seq-prev.Seq-1, the number of files the message says are missing.
Missing(arr, i) == Minus(arr[i].seq, Plus(arr[i - 1].seq, 1))

\* Mutant: a predecessor must be named, whichever it is.
BrokenIfUnnamed(arr, i) == arr[i].prev = {}

\* The claimed predecessor is not the closing MAC of the segment before.
Broken(arr, i) == arr[i].prev # arr[i - 1].final

LinkIssue(s, reason, missing) ==
  [source |-> s.source, line |-> s.first, at |-> s.at, reason |-> reason,
   missing |-> missing]

ChainIssues(arr) ==
  (IF Headless(arr) THEN {LinkIssue(arr[1], "headless", 0)} ELSE {})
  \cup {LinkIssue(arr[i], "jump", Missing(arr, i)) :
          i \in {j \in 2 .. Len(arr) : Jump(arr, j)}}
  \cup {LinkIssue(arr[i], "broken", 0) :
          i \in {j \in 2 .. Len(arr) : Broken(arr, j)}}

\* LinkIssues, for the arrangement of each chain that the sort left.
LinkIssues(order) == UNION {ChainIssues(order[id]) : id \in DOMAIN order}

-----------------------------------------------------------------------------
(* What LinkIssues looks for, without sorting anything.                    *)

\* The segments of one chain form a run, as can be said without sorting them: no two
\* state the same number, each one but the lowest has a predecessor in the set, whose
\* closing MAC it names, and the lowest is the first of its chain or names somebody.
Unbroken(S) ==
  /\ \A s, t \in S : s.seq = t.seq => s = t
  /\ \A s \in S : (\E t \in S : t.seq < s.seq) =>
       \E p \in S : s.seq = p.seq + 1 /\ s.prev = p.final
  /\ \A s \in S : (\A t \in S : s.seq <= t.seq) => s.seq = 0 \/ s.prev # {}

\* Every chain in a set of segments is unbroken.
AllUnbroken(segs) == \A id \in Chains(segs) : Unbroken(OfChain(segs, id))
=============================================================================
