-------------------------- MODULE DirectoryProofs --------------------------
(***************************************************************************)
(* Theorems about Link: what it means that LinkIssues returns nothing, and *)
(* that this does not depend on the order in which the unstable sort       *)
(* leaves segments that state the same number.  And theorems about         *)
(* VerifyDir: for every directory, every set of keys and both options, it  *)
(* finds nothing exactly if the files are flawless and the segments in     *)
(* them claim to be one unbroken run for each chain.                       *)
(***************************************************************************)
EXTENDS VerifyDir, ReplayAccountProofs, FiniteSetTheorems

-----------------------------------------------------------------------------
(* LinkIssues.                                                             *)

\* What is known of the segments that LinkIssues is given.
Numbered(S) == IsFiniteSet(S) /\ \A s \in S : s.seq \in Uint

-----------------------------------------------------------------------------
\* The successor in unsigned arithmetic of a number in range.
LEMMA PlusOne ==
  ASSUME NEW a \in Uint, NEW b \in Uint
  PROVE  a < b => (b = Plus(a, 1) <=> b = a + 1)
<1>1. W \in Nat /\ W > 1
  BY WAssumption
<1>2. a \in 0 .. W - 1 /\ b \in 0 .. W - 1
  BY DEF Uint
<1>3. a < b => (a + 1) % W = a + 1
  BY <1>1, <1>2
<1> QED
  BY <1>1, <1>2, <1>3 DEF Plus

\* A successor that is not less is one more: it has not wrapped around.
LEMMA PlusOneIs ==
  ASSUME NEW a \in Uint, NEW b \in Uint, a <= b, b = Plus(a, 1)
  PROVE  b = a + 1
<1>1. W \in Nat /\ W > 1
  BY WAssumption
<1>2. a \in 0 .. W - 1 /\ b \in 0 .. W - 1
  BY DEF Uint
<1>3. b = (a + 1) % W
  BY DEF Plus
<1>4. CASE a + 1 < W
  <2>1. (a + 1) % W = a + 1
    BY <1>1, <1>2, <1>4
  <2> QED
    BY <1>3, <2>1
<1>5. CASE ~(a + 1 < W)
  <2>1. a + 1 = W
    BY <1>1, <1>2, <1>5
  <2>2. W % W = 0
    BY <1>1
  <2> QED
    BY <1>1, <1>2, <1>3, <2>1, <2>2
<1> QED
  BY <1>4, <1>5

\* Every segment has one place in an arrangement.
LEMMA OnePlaceEach ==
  ASSUME NEW S, IsFiniteSet(S), NEW arr \in Arrangements(S)
  PROVE  /\ Len(arr) \in Nat /\ DOMAIN arr = 1 .. Len(arr)
         /\ \A i \in 1 .. Len(arr) : arr[i] \in S
         /\ \A s \in S : \E i \in 1 .. Len(arr) : arr[i] = s
         /\ \A i, j \in 1 .. Len(arr) : arr[i] = arr[j] => i = j
<1> DEFINE n == Cardinality(S)
<1>1. n \in Nat
  BY FS_CardinalityType
<1>2. arr \in [1 .. n -> S] /\ \A s \in S : \E i \in DOMAIN arr : arr[i] = s
  BY DEF Arrangements
<1>3. Len(arr) = n
  BY <1>1, <1>2
<1>4. arr \in Surjection(1 .. n, S)
  BY <1>2 DEF Surjection
<1>5. IsFiniteSet(1 .. n) /\ Cardinality(1 .. n) = n
  BY <1>1, FS_Interval
<1>6. arr \in Injection(1 .. n, S)
  BY <1>4, <1>5, FS_SurjSameCardinalityImpliesInj
<1>7. \A i, j \in 1 .. n : arr[i] = arr[j] => i = j
  BY <1>6 DEF Injection, IsInjective
<1> QED
  BY <1>1, <1>2, <1>3, <1>7

-----------------------------------------------------------------------------
\* No issue: the numbers go up by one, each segment names the one before.
LEMMA NoIssueMeans ==
  ASSUME NEW arr, Len(arr) \in Nat
  PROVE  ChainIssues(arr) = {} <=>
           /\ ~Headless(arr)
           /\ \A i \in 2 .. Len(arr) : ~Jump(arr, i) /\ ~Broken(arr, i)
  BY DEF ChainIssues

\* The code finds nothing in an arrangement exactly if its segments are unbroken.
LEMMA ArrangementIsExact ==
  ASSUME NEW S, Numbered(S), NEW arr \in Arrangements(S)
  PROVE  ChainIssues(arr) = {} <=> Unbroken(S)
<1> DEFINE n == Len(arr)
<1>1. /\ n \in Nat /\ DOMAIN arr = 1 .. n
      /\ \A i \in 1 .. n : arr[i] \in S
      /\ \A s \in S : \E i \in 1 .. n : arr[i] = s
      /\ \A i, j \in 1 .. n : arr[i] = arr[j] => i = j
  BY OnePlaceEach DEF Numbered
<1>2. \A i \in 1 .. n : arr[i].seq \in Uint
  BY <1>1 DEF Numbered
<1>3. \A i, j \in 1 .. n : i < j => arr[i].seq <= arr[j].seq
  BY DEF Arrangements, Sorted
<1>4. \A i \in 1 .. n : arr[i].seq \in Int
  BY <1>2, WAssumption DEF Uint
<1>5. \A i \in 2 .. n : i \in 1 .. n /\ i - 1 \in 1 .. n /\ i - 1 < i
  BY <1>1
<1>6. ChainIssues(arr) = {} <=>
        /\ ~Headless(arr)
        /\ \A i \in 2 .. n : ~Jump(arr, i) /\ ~Broken(arr, i)
  BY <1>1, NoIssueMeans
<1> HIDE DEF n
<1>7. ASSUME ChainIssues(arr) = {} PROVE Unbroken(S)
  <2>1. \A i \in 2 .. n : arr[i].seq = arr[i - 1].seq + 1 /\ arr[i].prev = arr[i - 1].final
    <3> TAKE i \in 2 .. n
    <3>1. arr[i].seq = Plus(arr[i - 1].seq, 1) /\ arr[i].prev = arr[i - 1].final
      BY <1>6, <1>7 DEF Jump, Broken
    <3>2. arr[i - 1].seq <= arr[i].seq
      BY <1>3, <1>5
    <3> QED
      BY <1>2, <1>5, <3>1, <3>2, PlusOneIs
  <2>2. \A i, j \in 1 .. n : i < j => arr[i].seq < arr[j].seq
    <3> SUFFICES ASSUME NEW i \in 1 .. n, NEW j \in 1 .. n, i < j
                 PROVE  arr[i].seq < arr[j].seq
      OBVIOUS
    <3>1. j \in 2 .. n /\ j - 1 \in 1 .. n /\ (i < j - 1 \/ i = j - 1)
      BY <1>1
    <3>2. arr[i].seq <= arr[j - 1].seq
      BY <1>3, <1>4, <3>1
    <3> QED
      BY <1>4, <2>1, <3>1, <3>2
  <2>3. \A s, t \in S : s.seq = t.seq => s = t
    <3> SUFFICES ASSUME NEW s \in S, NEW t \in S, s.seq = t.seq PROVE s = t
      OBVIOUS
    <3>1. PICK i \in 1 .. n : arr[i] = s
      BY <1>1
    <3>2. PICK j \in 1 .. n : arr[j] = t
      BY <1>1
    <3>3. ~(i < j) /\ ~(j < i)
      BY <1>4, <2>2, <3>1, <3>2
    <3> QED
      BY <1>1, <3>1, <3>2, <3>3
  <2>4. ASSUME NEW s \in S, NEW t \in S, t.seq < s.seq
        PROVE  \E p \in S : s.seq = p.seq + 1 /\ s.prev = p.final
    <3>1. PICK i \in 1 .. n : arr[i] = s
      BY <1>1
    <3>2. PICK j \in 1 .. n : arr[j] = t
      BY <1>1
    <3>3. i # 1
      BY <1>1, <1>3, <1>4, <2>4, <3>1, <3>2
    <3>4. i \in 2 .. n
      BY <1>1, <3>3
    <3>5. arr[i - 1] \in S
      BY <1>1, <1>5, <3>4
    <3> QED
      BY <2>1, <3>1, <3>4, <3>5
  <2>5. ASSUME NEW s \in S, \A t \in S : s.seq <= t.seq
        PROVE  s.seq = 0 \/ s.prev # {}
    <3>1. PICK i \in 1 .. n : arr[i] = s
      BY <1>1
    <3>2. i = 1
      <4> SUFFICES ASSUME i # 1 PROVE FALSE
        OBVIOUS
      <4>1. i \in 2 .. n
        BY <1>1
      <4>2. arr[i - 1].seq < arr[i].seq /\ arr[i - 1] \in S
        BY <1>1, <1>5, <2>2, <4>1
      <4> QED
        BY <1>4, <1>5, <2>5, <3>1, <4>1, <4>2
    <3>3. n > 0
      BY <1>1, <3>1
    <3> QED
      BY <1>6, <1>7, <3>1, <3>2, <3>3 DEF Headless, n
  <2> QED
    BY <2>3, <2>4, <2>5 DEF Unbroken
<1>8. ASSUME Unbroken(S) PROVE ChainIssues(arr) = {}
  <2>1. /\ \A s, t \in S : s.seq = t.seq => s = t
        /\ \A s \in S : (\E t \in S : t.seq < s.seq) =>
             \E p \in S : s.seq = p.seq + 1 /\ s.prev = p.final
        /\ \A s \in S : (\A t \in S : s.seq <= t.seq) => s.seq = 0 \/ s.prev # {}
    BY <1>8 DEF Unbroken
  <2>2. ~Headless(arr)
    <3> SUFFICES ASSUME n > 0 PROVE arr[1].seq = 0 \/ arr[1].prev # {}
      BY DEF Headless, n
    <3>1. 1 \in 1 .. n
      BY <1>1
    <3>2. \A t \in S : arr[1].seq <= t.seq
      <4> TAKE t \in S
      <4>1. PICK j \in 1 .. n : arr[j] = t
        BY <1>1
      <4> QED
        BY <1>3, <1>4, <3>1, <4>1
    <3> QED
      BY <1>1, <2>1, <3>1, <3>2
  <2>3. ASSUME NEW i \in 2 .. n
        PROVE  arr[i].seq = arr[i - 1].seq + 1 /\ arr[i].prev = arr[i - 1].final
    <3>1. arr[i - 1] \in S /\ arr[i] \in S
      BY <1>1, <1>5
    <3>2. arr[i - 1].seq < arr[i].seq
      <4>1. arr[i - 1].seq <= arr[i].seq
        BY <1>3, <1>5
      <4>2. arr[i - 1].seq # arr[i].seq
        BY <1>1, <1>5, <2>1, <3>1
      <4> QED
        BY <1>4, <1>5, <4>1, <4>2
    <3>3. PICK p \in S : arr[i].seq = p.seq + 1 /\ arr[i].prev = p.final
      BY <2>1, <3>1, <3>2
    <3>4. PICK k \in 1 .. n : arr[k] = p
      BY <1>1
    <3>5. k < i
      BY <1>1, <1>3, <1>4, <1>5, <3>3, <3>4
    <3>6. p.seq <= arr[i - 1].seq
      BY <1>1, <1>3, <1>4, <1>5, <3>4, <3>5
    <3>7. p.seq = arr[i - 1].seq
      BY <1>4, <1>5, <3>2, <3>3, <3>4, <3>6
    <3>8. p = arr[i - 1]
      BY <2>1, <3>1, <3>7
    <3> QED
      BY <3>3, <3>8
  <2>4. ASSUME NEW i \in 2 .. n PROVE ~Jump(arr, i) /\ ~Broken(arr, i)
    <3>1. arr[i].seq \in Uint /\ arr[i - 1].seq \in Uint
      BY <1>2, <1>5
    <3>2. arr[i].seq = arr[i - 1].seq + 1 /\ arr[i].prev = arr[i - 1].final
      BY <2>3
    <3>3. arr[i - 1].seq < arr[i].seq
      BY <1>4, <1>5, <3>2
    <3> QED
      BY <3>1, <3>2, <3>3, PlusOne DEF Jump, Broken
  <2> QED
    BY <1>6, <2>2, <2>4
<1> QED
  BY <1>7, <1>8

-----------------------------------------------------------------------------
\* The segments of a chain are as finite and as well numbered as all of them.
LEMMA ChainsAreNumbered ==
  ASSUME NEW segs, Numbered(segs), NEW id
  PROVE  Numbered(OfChain(segs, id))
<1>1. OfChain(segs, id) \in SUBSET segs
  BY DEF OfChain, Linked
<1> QED
  BY <1>1, FS_Subset DEF Numbered

\* LinkIssues finds nothing exactly if every chain among the segments is a run of
\* consecutive numbers, each segment naming the closing MAC of the one before, and
\* the lowest not headless - whatever order the sort leaves equal numbers in.
THEOREM LinkIsExact ==
  ASSUME NEW segs, Numbered(segs), NEW order \in Orders(segs)
  PROVE  LinkIssues(order) = {} <=> AllUnbroken(segs)
<1>1. DOMAIN order = Chains(segs)
  BY DEF Orders
<1>2. \A id \in Chains(segs) : order[id] \in Arrangements(OfChain(segs, id))
  BY DEF Orders
<1>3. \A id \in Chains(segs) : ChainIssues(order[id]) = {} <=> Unbroken(OfChain(segs, id))
  BY <1>2, ChainsAreNumbered, ArrangementIsExact
<1>4. LinkIssues(order) = {} <=> \A id \in Chains(segs) : ChainIssues(order[id]) = {}
  BY <1>1 DEF LinkIssues
<1> QED
  BY <1>3, <1>4 DEF AllUnbroken

\* Whether anything is reported does not depend on the order the sort leaves.
THEOREM LinkIgnoresTheOrder ==
  ASSUME NEW segs, Numbered(segs), NEW o1 \in Orders(segs), NEW o2 \in Orders(segs)
  PROVE  LinkIssues(o1) = {} <=> LinkIssues(o2) = {}
  BY LinkIsExact

-----------------------------------------------------------------------------
(* The inductive invariant: the replay under way.                          *)

\* A finding that is not about a line is that the file is unreadable or empty, and
\* lines are counted as soon as there are any.
FileFindings ==
  /\ \A i \in issues : i.at = 0 =>
       phase = "done" /\ (file.err \/ \A j \in DOMAIN file.lines : file.lines[j].form = "blank")
  /\ lineNum = 0 <=> \A j \in 1 .. pos - 1 : file.lines[j].form = "blank"
  /\ (phase = "done" /\ issues = {}) => lineNum # 0

FileInv == AccountInv /\ FileFindings

-----------------------------------------------------------------------------
(* The inductive invariant: the directory.                                 *)

\* What is linked of a segment.
Linking(c) == [v |-> c.v, chain |-> c.chain, seq |-> c.seq, prev |-> c.prev,
               final |-> c.final, source |-> c.source, at |-> c.at]

\* The claims of the files before the next one.
ClaimsSoFar == UNION {Claims(paths[i].file) : i \in 1 .. next - 1}

\* The recorded segments are those, one for each claim.
Recorded ==
  /\ IsFiniteSet(result.segments)
  /\ {Linking(c) : c \in result.segments} = ClaimsSoFar
  /\ \A c, d \in result.segments : Linking(c) = Linking(d) => c = d
  /\ \A c \in result.segments : c.seq \in Uint

FlawlessSoFar == \A i \in 1 .. next - 1 : paths[i].open /\ Flawless(paths[i].file)

\* The names of files tell them apart.
Distinct(es) ==
  \A i, j \in DOMAIN es : es[i].file.source = es[j].file.source => i = j

\* The files of a listing, any number of them.
IsListing(es) ==
  /\ es \in Seq({es[i] : i \in DOMAIN es})
  /\ \A i \in DOMAIN es : IsFile(es[i].file)

\* The files to be verified are the log files.
Listed ==
  /\ IsListing(paths) /\ Distinct(paths)
  /\ {paths[i] : i \in DOMAIN paths} = LogFiles

IsResult(r) ==
  r = [files |-> r.files, lines |-> r.lines, segments |-> r.segments,
       issues |-> r.issues, truncated |-> r.truncated]

DirInv ==
  /\ stage \in {"list", "files", "replay", "returned", "error"}
  /\ opt \in Options /\ IsResult(result)
  /\ stage = "list" =>
       next = 1 /\ result = NoResult /\ IsListing(entries) /\ Distinct(entries)
  /\ stage \in {"files", "replay"} => Listed /\ next \in 1 .. Len(paths) + 1
  /\ stage = "replay" =>
       /\ next \in 1 .. Len(paths) /\ paths[next].open /\ file = paths[next].file
       /\ FileInv
  /\ stage \in {"files", "replay"} =>
       /\ result.issues = {} <=> FlawlessSoFar
       /\ result.issues = {} => Recorded
       /\ result.truncated => result.issues # {}
  /\ FindsNothingExactlyIfUnbroken

-----------------------------------------------------------------------------
(* The replay keeps its part of the invariant.                             *)

\* Blank lines are not counted, all others are.
LEMMA LinesAreCounted ==
  ASSUME TypeInv, ReplayStep
  PROVE  \/ EndOfInput
         \/ /\ phase = "scan" /\ pos \in Nat \ {0} /\ pos' = pos + 1 /\ file' = file
            /\ \/ file.lines[pos].form = "blank" /\ lineNum' = lineNum
               \/ file.lines[pos].form # "blank" /\ lineNum' = lineNum + 1
<1>1. ASSUME NEW forms, Read(forms)
      PROVE  /\ phase = "scan" /\ pos \in Nat \ {0} /\ pos' = pos + 1 /\ file' = file
             /\ file.lines[pos].form \in forms
  BY <1>1 DEF Read, TypeInv, TypeOK, input
<1>2. CASE SkipBlank
  <2>1. Read({"blank"}) /\ lineNum' = lineNum
    BY <1>2 DEF SkipBlank
  <2> QED
    BY <1>1, <2>1
<1>3. ASSUME NEW forms \in {{"nobrace", "nomac"}, {"badmac"}, {"signed"}}, Read(forms),
             lineNum' = lineNum + 1
      PROVE  /\ phase = "scan" /\ pos \in Nat \ {0} /\ pos' = pos + 1 /\ file' = file
             /\ file.lines[pos].form # "blank" /\ lineNum' = lineNum + 1
  <2>1. "blank" \notin forms
    BY <1>3
  <2> QED
    BY <1>1, <1>3, <2>1
<1>4. CASE SkipUnsigned
  BY <1>3, <1>4 DEF SkipUnsigned
<1>5. CASE RejectLine
  BY <1>3, <1>5 DEF RejectLine
<1>6. CASE Orphan
  BY <1>3, <1>6 DEF Orphan
<1>7. CASE KeylessLine
  BY <1>3, <1>7 DEF KeylessLine
<1>8. CASE CheckLine
  BY <1>3, <1>8 DEF CheckLine
<1>9. CASE StartSegment
  <2>1. Read({"signed"}) /\ lineNum' = lineNum + 1
    BY <1>9, Zenon DEF StartSegment
  <2> QED
    BY <1>3, <2>1
<1> QED
  BY <1>2, <1>4, <1>5, <1>6, <1>7, <1>8, <1>9 DEF ReplayStep

\* A finding about a line is not one about the file.
LEMMA ReadingFindings ==
  ASSUME TypeInv, FileFindings, Accounts, ReplayStep, ~EndOfInput
  PROVE  FileFindings'
<1>1. /\ phase = "scan" /\ pos \in Nat \ {0} /\ pos' = pos + 1 /\ file' = file /\ lineNum \in Nat
      /\ \/ file.lines[pos].form = "blank" /\ lineNum' = lineNum
         \/ file.lines[pos].form # "blank" /\ lineNum' = lineNum + 1
  BY LinesAreCounted DEF TypeInv, TypeOK
<1>2. \A i \in issues : i.at # 0
  BY <1>1 DEF FileFindings
<1>3. \A i \in issues' : i.at # 0
  <2>1. CASE issues' = issues
    BY <1>2, <2>1
  <2>2. CASE \E reason : issues' = issues \cup {Issue(lineNum', pos, reason)}
    <3>1. PICK reason : issues' = issues \cup {Issue(lineNum', pos, reason)}
      BY <2>2
    <3>2. Issue(lineNum', pos, reason).at = pos
      BY DEF Issue
    <3> QED
      BY <1>1, <1>2, <3>1, <3>2
  <2> QED
    BY <2>1, <2>2 DEF Accounts, Finding
<1>4. issues' = {} => phase' = "scan"
  BY <1>1 DEF Accounts, Finding
<1>5. lineNum = 0 <=> \A j \in 1 .. pos - 1 : file.lines[j].form = "blank"
  BY DEF FileFindings
<1>6. lineNum' = 0 <=> \A j \in 1 .. pos : file.lines[j].form = "blank"
  <2>1. CASE file.lines[pos].form = "blank" /\ lineNum' = lineNum
    BY <1>1, <1>5, <2>1
  <2>2. CASE file.lines[pos].form # "blank" /\ lineNum' = lineNum + 1
    BY <1>1, <1>5, <2>2
  <2> QED
    BY <1>1, <2>1, <2>2
<1> QED
  BY <1>1, <1>3, <1>4, <1>6 DEF FileFindings

\* At the end of the input the file is found unreadable or empty if it is.
LEMMA EndFindings ==
  ASSUME TypeInv, FileFindings, EndOfInput
  PROVE  FileFindings'
<1>1. /\ phase = "scan" /\ phase' = "done" /\ file' = file /\ lineNum' = lineNum /\ pos' = pos
      /\ \A i : i \in issues' <=> \/ i \in issues
                                  \/ i = Issue(0, 0, "read error") /\ file.err
                                  \/ i = Issue(0, 0, "no lines") /\ lineNum = 0
  BY DEF EndOfInput
<1>2. DOMAIN file.lines = 1 .. pos - 1
  <2>1. Len(file.lines) \in Nat /\ DOMAIN file.lines = 1 .. Len(file.lines)
    BY FileShape DEF TypeInv
  <2>2. pos \in 1 .. Len(file.lines) + 1 /\ pos > Len(file.lines)
    BY DEF EndOfInput, TypeInv, TypeOK
  <2> QED
    BY <2>1, <2>2
<1>3. \A i \in issues : i.at # 0
  BY <1>1 DEF FileFindings
<1>4. lineNum = 0 <=> \A j \in 1 .. pos - 1 : file.lines[j].form = "blank"
  BY DEF FileFindings
<1>5. \A i \in issues' : i.at = 0 =>
        file.err \/ \A j \in DOMAIN file.lines : file.lines[j].form = "blank"
  BY <1>1, <1>2, <1>3, <1>4
<1>6. issues' = {} => lineNum # 0
  BY <1>1
<1> QED
  BY <1>1, <1>4, <1>5, <1>6 DEF FileFindings

\* The invariant of the replay holds when a file has been opened ...
LEMMA FileInit == Fresh => FileInv
<1> SUFFICES ASSUME Fresh PROVE FileInv
  OBVIOUS
<1>1. AccountInv
  BY AccountInit
<1>2. /\ phase = "scan" /\ pos = 1 /\ lineNum = 0 /\ issues = {}
  BY DEF Fresh
<1>3. FileFindings
  BY <1>2 DEF FileFindings
<1> QED
  BY <1>1, <1>3 DEF FileInv

\* ... and is kept by every step.
LEMMA FileStep == FileInv /\ ReplayStep => FileInv'
<1> SUFFICES ASSUME FileInv, ReplayStep PROVE FileInv'
  OBVIOUS
<1>1. /\ AccountInv /\ FileFindings /\ TypeInv /\ OpenSegment
      /\ StopsInTime /\ ClosedAreDescribed
  BY DEF FileInv, AccountInv, ReplayInv
<1>2. AccountInv'
  BY <1>1, AccountStep DEF Next
<1>3. CASE EndOfInput
  BY <1>1, <1>2, <1>3, EndFindings DEF FileInv
<1>4. CASE ~EndOfInput
  <2>1. Accounts
    BY <1>1, <1>4, StepAccounts
  <2> QED
    BY <1>1, <1>2, <1>4, <2>1, ReadingFindings DEF FileInv
<1> QED
  BY <1>3, <1>4

\* Opening a file begins a replay of it.
LEMMA BeginInit ==
  ASSUME NEW f, IsFile(f), opt \in Options, Begin(f)
  PROVE  FileInv'
<1>1. Fresh'
  BY DEF Begin, Fresh
<1>2. Fresh' => FileInv'
  BY FileInit, PTL
<1> QED
  BY <1>1, <1>2

-----------------------------------------------------------------------------
(* What a replay that has returned says of its file.                       *)

\* In a clean file every line is good, and all of them were read.
LEMMA CleanIsGood ==
  ASSUME FileInv, phase = "done", issues = {}
  PROVE  /\ ~truncated /\ ~file.err /\ pos - 1 = Len(file.lines)
         /\ DOMAIN file.lines = 1 .. Len(file.lines) /\ Len(file.lines) \in Nat
         /\ \A i \in DOMAIN file.lines : Good(file.lines, opt, keyFor, i)
<1>1. StopsInTime /\ CleanSoFar /\ CleanEndsAtTheEnd /\ TypeInv
  BY DEF FileInv, AccountInv, ReplayInv
<1>2. ~truncated
  BY <1>1 DEF StopsInTime
<1>3. Len(file.lines) \in Nat /\ DOMAIN file.lines = 1 .. Len(file.lines)
  BY <1>1, FileShape DEF TypeInv
<1>4. pos = Len(file.lines) + 1 /\ ~file.err
  BY <1>1 DEF CleanEndsAtTheEnd
<1>5. pos - 1 = Len(file.lines)
  BY <1>3, <1>4
<1> QED
  BY <1>1, <1>2, <1>3, <1>4, <1>5 DEF CleanSoFar

\* A good line that is signed is one whose MAC is written in lower case, in a segment
\* with a key.
LEMMA GoodSigned ==
  ASSUME NEW L, NEW o, NEW kf, NEW i, Good(L, o, kf, i), Signed(L, i)
  PROVE  /\ L[i].hex = "lower"
         /\ \E s \in 1 .. i : /\ Governs(L, s, i) /\ KeyAt(L, kf, s) # {}
                              /\ Chained(L, kf, s, i)
  BY DEF Good, Signed, Unsigned

\* A replay that has returned has found nothing exactly if the file is flawless.
LEMMA FileIsExact ==
  ASSUME FileInv, phase = "done"
  PROVE  /\ issues = {} <=> Flawless(file)
         /\ truncated => issues # {}
<1> DEFINE L == file.lines
           bad(i) == Bad(L, opt, keyFor, i)
<1>1. /\ StopsInTime /\ CleanSoFar /\ CleanEndsAtTheEnd /\ TypeInv /\ FlagsWhatWasRead
      /\ ReportsExactlyTheBadLines /\ FileFindings
  BY DEF FileInv, AccountInv, ReplayInv
<1>2. Len(L) \in Nat /\ DOMAIN L = 1 .. Len(L) /\ pos \in 1 .. Len(L) + 1
  BY <1>1, FileShape DEF TypeInv, TypeOK
<1>3. ASSUME issues = {} PROVE Flawless(file)
  <2>1. /\ ~file.err /\ pos - 1 = Len(L) /\ \A i \in DOMAIN L : Good(L, opt, keyFor, i)
    BY <1>3, CleanIsGood
  <2>2. ASSUME NEW i \in DOMAIN L PROVE ~bad(i)
    <3>1. ~AfterUndecodable(L, i)
      <4>1. ASSUME NEW p \in 1 .. i - 1, Precedes(L, p, i) PROVE L[p].hex # "none"
        <5>1. p \in DOMAIN L /\ Signed(L, p)
          BY <1>2, <4>1 DEF Precedes
        <5> QED
          BY <2>1, <5>1, GoodSigned
      <4> QED
        BY <4>1 DEF AfterUndecodable
    <3>2. i \in 1 .. pos - 1 /\ i \notin Flagged
      BY <1>2, <1>3, <2>1 DEF Flagged
    <3> QED
      BY <1>1, <3>1, <3>2 DEF ReportsExactlyTheBadLines
  <2>3. \E i \in DOMAIN L : L[i].form # "blank"
    <3>1. lineNum # 0
      BY <1>1, <1>3 DEF FileFindings
    <3>2. lineNum = 0 <=> \A j \in 1 .. pos - 1 : L[j].form = "blank"
      BY <1>1 DEF FileFindings
    <3> QED
      BY <1>2, <2>1, <3>1, <3>2
  <2> QED
    BY <2>1, <2>2, <2>3 DEF Flawless
<1>4. ASSUME Flawless(file), issues # {} PROVE FALSE
  <2>1. /\ ~file.err /\ \A i \in DOMAIN L : ~bad(i)
        /\ \E i \in DOMAIN L : L[i].form # "blank"
    BY <1>4 DEF Flawless
  <2>2. PICK x \in issues : TRUE
    BY <1>4
  <2>3. x.at # 0
    BY <1>1, <2>1, <2>2 DEF FileFindings
  <2>4. x.at \in Flagged /\ x.at \in 1 .. pos - 1
    BY <1>1, <2>2, <2>3 DEF FlagsWhatWasRead, Flagged
  <2>5. x.at \in DOMAIN L
    BY <1>2, <2>4
  <2>6. AfterUndecodable(L, x.at)
    BY <1>1, <2>1, <2>4, <2>5 DEF ReportsExactlyTheBadLines
  <2>7. PICK p \in 1 .. x.at - 1 : Precedes(L, p, x.at) /\ L[p].hex = "none"
    BY <2>6 DEF AfterUndecodable
  <2>8. p \in DOMAIN L /\ p \in Nat \ {0} /\ Signed(L, p)
    BY <1>2, <2>4, <2>7 DEF Precedes
  <2>9. ~bad(p)
    BY <2>1, <2>8
  <2>10. PICK s \in 1 .. p : Governs(L, s, p)
    BY <2>8, <2>9, Zenon DEF Bad
  <2>11. IF KeyAt(L, keyFor, s) = {} THEN s # p ELSE Chained(L, keyFor, s, p)
    BY <2>8, <2>9, <2>10, Zenon DEF Bad
  <2>12. IsStart(L, s) /\ Signed(L, s) /\ s \in DOMAIN L /\ s \in Nat \ {0}
    BY <1>2, <2>4, <2>7, <2>10 DEF Governs, IsStart
  <2>13. KeyAt(L, keyFor, s) # {}
    <3>1. Governs(L, s, s)
      BY <2>12, GovernsSelf
    <3>2. ~bad(s) /\ s \in 1 .. s
      BY <2>1, <2>12
    <3> QED
      BY <2>12, <3>1, <3>2, Zenon DEF Bad
  <2>14. Chained(L, keyFor, s, p)
    BY <2>11, <2>13
  <2>15. L[p].hex = "lower"
    BY <2>14 DEF Chained, Matches
  <2> QED
    BY <2>7, <2>15
<1>5. truncated => issues # {}
  BY <1>1 DEF StopsInTime
<1> QED
  BY <1>3, <1>4, <1>5

\* A segment of a clean file is linked by what its lines claim.
LEMMA SegmentClaims ==
  ASSUME FileInv, phase = "done", issues = {}, NEW c \in segments
  PROVE  Linking(c) = Claim(file, c.at)
<1> DEFINE L == file.lines
           mine == SegmentLines(L, c.at)
           last == {k \in mine : \A j \in mine : j <= k}
<1>1. /\ ~truncated /\ \A i \in DOMAIN L : Good(L, opt, keyFor, i)
      /\ DOMAIN L = 1 .. Len(L) /\ Len(L) \in Nat
  BY CleanIsGood
<1>2. SegmentsDescribeTheFile /\ SegmentsStem
  BY DEF FileInv, AccountInv
<1>3. Stems(c)
  BY <1>1, <1>2 DEF SegmentsStem
<1>4. c.at \in DOMAIN L /\ IsStart(L, c.at) /\ Signed(L, c.at) /\ c.at \in Nat \ {0}
  BY <1>1, <1>2 DEF SegmentsDescribeTheFile, IsStart
<1>5. KeyAt(L, keyFor, c.at) # {}
  <2>1. Governs(L, c.at, c.at)
    BY <1>4, GovernsSelf
  <2>2. PICK s \in 1 .. c.at : Governs(L, s, c.at) /\ KeyAt(L, keyFor, s) # {}
    BY <1>1, <1>4, GoodSigned
  <2>3. s = c.at
    BY <1>4, <2>1, <2>2, GovernsUnique
  <2> QED
    BY <2>2, <2>3
<1>6. mine = LinesOf(c.at)
  BY Zenon DEF SegmentLines, LinesOf
<1>7. PICK i \in mine : /\ \A j \in mine : j <= i
                        /\ L[i].hex = "none" \/ c.final = {L[i].mac}
  BY <1>1, <1>2, <1>5, <1>6, Zenon DEF SegmentsDescribeTheFile
<1>8. \A k \in mine : k \in Int /\ Signed(L, k) /\ k \in DOMAIN L
  BY <1>1, <1>4 DEF SegmentLines
<1>9. c.final = {L[i].mac}
  BY <1>1, <1>7, <1>8, GoodSigned
<1>10. last = {i}
  BY <1>7, <1>8
<1>11. c.final = {L[k].mac : k \in last}
  BY <1>9, <1>10
<1>12. /\ c.v = L[c.at].text.v /\ c.chain = L[c.at].text.chain
       /\ c.seq = ParseUint(L[c.at].text.seq) /\ c.prev = L[c.at].text.prev
       /\ c.source = file.source
  BY <1>3 DEF Stems
<1> QED
  BY <1>11, <1>12, Zenon DEF Linking, Claim

\* A replay that found nothing has recorded the claims of its file.
LEMMA FileIsRecorded ==
  ASSUME FileInv, phase = "done", issues = {}
  PROVE  /\ IsFiniteSet(segments)
         /\ {Linking(c) : c \in segments} = Claims(file)
         /\ \A c, d \in segments : Linking(c) = Linking(d) => c = d
         /\ \A c \in segments : c.seq \in Uint /\ c.source = file.source
<1>1. ~truncated
  BY CleanIsGood
<1>2. SegmentsDescribeTheFile /\ SegmentsStem /\ TypeInv
  BY DEF FileInv, AccountInv, ReplayInv
<1>3. IsFiniteSet(segments) /\ \A c, d \in segments : c.at = d.at => c = d
  BY <1>1, <1>2 DEF SegmentsStem
<1>4. \A c, d : Linking(c) = Linking(d) => c.at = d.at
  BY DEF Linking
<1>5. {c.at : c \in segments} = {i \in DOMAIN file.lines : IsStart(file.lines, i)}
  BY <1>1, <1>2 DEF SegmentsDescribeTheFile
<1>6. \A c \in segments : Linking(c) = Claim(file, c.at)
  BY SegmentClaims
<1>7. {Linking(c) : c \in segments} = Claims(file)
  BY <1>5, <1>6 DEF Claims
<1>8. ASSUME NEW c \in segments PROVE c.seq \in Uint /\ c.source = file.source
  <2>1. IsSegment(c)
    BY <1>2 DEF TypeInv, TypeOK
  <2>2. Stems(c)
    BY <1>1, <1>2 DEF SegmentsStem
  <2>3. c.source = file.source
    BY <2>2 DEF Stems
  <2> QED
    BY <2>1, <2>3, Zenon DEF IsSegment
<1> QED
  BY <1>3, <1>4, <1>7, <1>8

-----------------------------------------------------------------------------
(* Segments and claims.                                                    *)

\* What is linked of a segment has the fields that LinkIssues reads.
LEMMA LinkingFields ==
  ASSUME NEW c
  PROVE  /\ Linking(c).v = c.v /\ Linking(c).chain = c.chain /\ Linking(c).seq = c.seq
         /\ Linking(c).prev = c.prev /\ Linking(c).final = c.final
         /\ Linking(c).source = c.source
  BY DEF Linking

\* To be unbroken is a matter of these fields.
LEMMA UnbrokenLinking ==
  ASSUME NEW S, \A c, d \in S : Linking(c) = Linking(d) => c = d
  PROVE  Unbroken(S) <=> Unbroken({Linking(c) : c \in S})
<1> DEFINE T == {Linking(c) : c \in S}
<1>1. \A c : /\ Linking(c).seq = c.seq /\ Linking(c).prev = c.prev
             /\ Linking(c).final = c.final
  BY LinkingFields
<1>2. \A c \in S : Linking(c) \in T
  OBVIOUS
<1>3. \A x \in T : \E c \in S : x = Linking(c)
  OBVIOUS
<1> HIDE DEF T
<1>4. ASSUME Unbroken(S) PROVE Unbroken(T)
  <2>1. \A s, t \in T : s.seq = t.seq => s = t
    BY <1>1, <1>3, <1>4 DEF Unbroken
  <2>2. ASSUME NEW s \in T, NEW t \in T, t.seq < s.seq
        PROVE  \E p \in T : s.seq = p.seq + 1 /\ s.prev = p.final
    <3>1. PICK c \in S : s = Linking(c)
      BY <1>3
    <3>2. PICK d \in S : t = Linking(d)
      BY <1>3
    <3>3. d.seq < c.seq
      BY <1>1, <2>2, <3>1, <3>2
    <3>4. PICK p \in S : c.seq = p.seq + 1 /\ c.prev = p.final
      BY <1>4, <3>3 DEF Unbroken
    <3> QED
      BY <1>1, <1>2, <3>1, <3>4
  <2>3. ASSUME NEW s \in T, \A t \in T : s.seq <= t.seq
        PROVE  s.seq = 0 \/ s.prev # {}
    <3>1. PICK c \in S : s = Linking(c)
      BY <1>3
    <3>2. ASSUME NEW d \in S PROVE c.seq <= d.seq
      <4>1. s.seq <= Linking(d).seq
        BY <1>2, <2>3
      <4> QED
        BY <1>1, <3>1, <4>1
    <3>3. c.seq = 0 \/ c.prev # {}
      BY <1>4, <3>2 DEF Unbroken
    <3> QED
      BY <1>1, <3>1, <3>3
  <2> QED
    BY <2>1, <2>2, <2>3 DEF Unbroken
<1>5. ASSUME Unbroken(T) PROVE Unbroken(S)
  <2>1. ASSUME NEW s \in S, NEW t \in S, s.seq = t.seq PROVE s = t
    <3>1. Linking(s) = Linking(t)
      BY <1>1, <1>2, <1>5, <2>1 DEF Unbroken
    <3> QED
      BY <3>1
  <2>2. ASSUME NEW s \in S, NEW t \in S, t.seq < s.seq
        PROVE  \E p \in S : s.seq = p.seq + 1 /\ s.prev = p.final
    <3>1. Linking(t).seq < Linking(s).seq
      BY <1>1, <2>2
    <3>2. PICK x \in T : Linking(s).seq = x.seq + 1 /\ Linking(s).prev = x.final
      BY <1>2, <1>5, <3>1 DEF Unbroken
    <3>3. PICK p \in S : x = Linking(p)
      BY <1>3
    <3> QED
      BY <1>1, <3>2, <3>3
  <2>3. ASSUME NEW s \in S, \A t \in S : s.seq <= t.seq
        PROVE  s.seq = 0 \/ s.prev # {}
    <3>1. ASSUME NEW x \in T PROVE Linking(s).seq <= x.seq
      <4>1. PICK d \in S : x = Linking(d)
        BY <1>3
      <4> QED
        BY <1>1, <2>3, <4>1
    <3>2. Linking(s).seq = 0 \/ Linking(s).prev # {}
      BY <1>2, <1>5, <3>1 DEF Unbroken
    <3> QED
      BY <1>1, <3>2
  <2> QED
    BY <2>1, <2>2, <2>3 DEF Unbroken
<1> QED
  BY <1>4, <1>5 DEF T

\* The segments of a chain and their claims.
LEMMA ChainLinking ==
  ASSUME NEW S, NEW id
  PROVE  OfChain({Linking(c) : c \in S}, id) = {Linking(c) : c \in OfChain(S, id)}
<1> DEFINE T == {Linking(c) : c \in S}
<1>1. \A c : Linking(c).v = c.v /\ Linking(c).chain = c.chain
  BY LinkingFields
<1>2. \A x : x \in OfChain(T, id) <=> x \in T /\ x.v # "" /\ x.chain = id
  BY Zenon DEF OfChain, Linked
<1>3. \A c : c \in OfChain(S, id) <=> c \in S /\ c.v # "" /\ c.chain = id
  BY Zenon DEF OfChain, Linked
<1>4. \A x : x \in T <=> \E c \in S : x = Linking(c)
  BY Zenon
<1> HIDE DEF T
<1>5. ASSUME NEW x
      PROVE  x \in OfChain(T, id) <=> \E c \in OfChain(S, id) : x = Linking(c)
  <2>1. ASSUME x \in OfChain(T, id)
        PROVE  \E c \in OfChain(S, id) : x = Linking(c)
    <3>1. PICK c \in S : x = Linking(c)
      BY <1>2, <1>4, <2>1, Zenon
    <3>2. c.v = x.v /\ c.chain = x.chain
      BY <1>1, <3>1
    <3>3. c \in OfChain(S, id)
      BY <1>2, <1>3, <2>1, <3>2, Zenon
    <3> QED
      BY <3>1, <3>3
  <2>2. ASSUME NEW c \in OfChain(S, id), x = Linking(c)
        PROVE  x \in OfChain(T, id)
    <3>1. c.v = x.v /\ c.chain = x.chain
      BY <1>1, <2>2
    <3>2. c \in S /\ x.v # "" /\ x.chain = id
      BY <1>3, <3>1, Zenon
    <3>3. x \in T
      BY <1>4, <2>2, <3>2, Zenon
    <3> QED
      BY <1>2, <3>2, <3>3, Zenon
  <2> QED
    BY <2>1, <2>2
<1>6. \A x : x \in {Linking(c) : c \in OfChain(S, id)} <=> \E c \in OfChain(S, id) : x = Linking(c)
  BY Zenon
<1> QED
  BY <1>5, <1>6 DEF T

\* The chains of the segments are those of their claims.
LEMMA ChainsLinking ==
  ASSUME NEW S
  PROVE  Chains({Linking(c) : c \in S}) = Chains(S)
<1> DEFINE T == {Linking(c) : c \in S}
<1>1. \A c : Linking(c).v = c.v /\ Linking(c).chain = c.chain
  BY LinkingFields
<1>2. \A x : x \in Linked(T) <=> x \in T /\ x.v # ""
  BY Zenon DEF Linked
<1>3. \A c : c \in Linked(S) <=> c \in S /\ c.v # ""
  BY Zenon DEF Linked
<1>4. \A x : x \in T <=> \E c \in S : x = Linking(c)
  BY Zenon
<1> HIDE DEF T
<1>5. ASSUME NEW id
      PROVE  (\E x \in Linked(T) : id = x.chain) <=> (\E c \in Linked(S) : id = c.chain)
  <2>1. ASSUME NEW x \in Linked(T), id = x.chain
        PROVE  \E c \in Linked(S) : id = c.chain
    <3>1. PICK c \in S : x = Linking(c)
      BY <1>2, <1>4, Zenon
    <3>2. c.v = x.v /\ c.chain = x.chain
      BY <1>1, <3>1
    <3>3. c \in Linked(S)
      BY <1>2, <1>3, <3>2, Zenon
    <3> QED
      BY <2>1, <3>2, <3>3
  <2>2. ASSUME NEW c \in Linked(S), id = c.chain
        PROVE  \E x \in Linked(T) : id = x.chain
    <3>1. Linking(c).v = c.v /\ Linking(c).chain = c.chain
      BY <1>1
    <3>2. Linking(c) \in T
      BY <1>3, <1>4, Zenon
    <3>3. Linking(c) \in Linked(T)
      BY <1>2, <1>3, <3>1, <3>2, Zenon
    <3> QED
      BY <2>2, <3>1, <3>3
  <2> QED
    BY <2>1, <2>2
<1>6. \A id : id \in Chains(T) <=> \E x \in Linked(T) : id = x.chain
  BY Zenon DEF Chains
<1>7. \A id : id \in Chains(S) <=> \E c \in Linked(S) : id = c.chain
  BY Zenon DEF Chains
<1> QED
  BY <1>5, <1>6, <1>7 DEF T

\* The segments are unbroken if and only if their claims are.
LEMMA AllUnbrokenLinking ==
  ASSUME NEW S, \A c, d \in S : Linking(c) = Linking(d) => c = d
  PROVE  AllUnbroken(S) <=> AllUnbroken({Linking(c) : c \in S})
<1> DEFINE T == {Linking(c) : c \in S}
<1>1. Chains(T) = Chains(S)
  BY ChainsLinking
<1>2. ASSUME NEW id PROVE Unbroken(OfChain(S, id)) <=> Unbroken(OfChain(T, id))
  <2>1. OfChain(S, id) \subseteq S
    BY Zenon DEF OfChain, Linked
  <2>2. \A c, d \in OfChain(S, id) : Linking(c) = Linking(d) => c = d
    BY <2>1
  <2>3. OfChain(T, id) = {Linking(c) : c \in OfChain(S, id)}
    BY ChainLinking
  <2> QED
    BY <2>2, <2>3, UnbrokenLinking
<1> HIDE DEF T
<1>3. AllUnbroken(S) <=> AllUnbroken(T)
  BY <1>1, <1>2 DEF AllUnbroken
<1> QED
  BY <1>3 DEF T

-----------------------------------------------------------------------------
(* The log files, in order.                                                *)

\* A function on an interval is a sequence.
LEMMA FunctionIsSeq ==
  ASSUME NEW n \in Nat, NEW s, s = [i \in 1 .. n |-> s[i]]
  PROVE  s \in Seq({s[i] : i \in DOMAIN s}) /\ Len(s) = n /\ DOMAIN s = 1 .. n
<1> DEFINE T == {s[i] : i \in DOMAIN s}
<1>1. s \in [1 .. n -> T] /\ DOMAIN s = 1 .. n
  OBVIOUS
<1> HIDE DEF T
<1>2. s \in Seq(T) /\ Len(s) = n
  BY <1>1
<1> QED
  BY <1>1, <1>2 DEF T

\* The entries of a listing are counted from 1.
LEMMA ListingShape ==
  ASSUME NEW es, IsListing(es)
  PROVE  Len(es) \in Nat /\ DOMAIN es = 1 .. Len(es)
<1>1. es \in Seq({es[i] : i \in DOMAIN es})
  BY DEF IsListing
<1> QED
  BY <1>1

\* Every log file has one place in the list.
LEMMA NthOfLogs ==
  ASSUME IsListing(entries)
  PROVE  /\ Cardinality(Logs) \in Nat /\ (Logs = {} <=> Cardinality(Logs) = 0)
         /\ \A k \in 1 .. Cardinality(Logs) : Nth(k) \in Logs
         /\ \A k, m \in 1 .. Cardinality(Logs) : Nth(k) = Nth(m) => k = m
         /\ \A i \in Logs : \E k \in 1 .. Cardinality(Logs) : Nth(k) = i
<1> DEFINE n        == Cardinality(Logs)
           below(i) == {j \in Logs : j <= i}
           rank     == [i \in Logs |-> Cardinality(below(i))]
<1>1. Len(entries) \in Nat /\ Logs \subseteq 1 .. Len(entries)
  BY ListingShape DEF Logs
<1>2. IsFiniteSet(Logs)
  <2>1. IsFiniteSet(1 .. Len(entries))
    BY <1>1, FS_Interval
  <2> QED
    BY <1>1, <2>1, FS_Subset
<1>3. n \in Nat /\ (Logs = {} <=> n = 0)
  BY <1>2, FS_CardinalityType, FS_EmptySet
<1>4. ASSUME NEW i \in Logs
      PROVE  /\ IsFiniteSet(below(i)) /\ Cardinality(below(i)) \in 1 .. n
  <2>1. below(i) \in SUBSET Logs
    OBVIOUS
  <2>2. IsFiniteSet(below(i)) /\ Cardinality(below(i)) <= n
    BY <1>2, <2>1, FS_Subset
  <2>3. i \in below(i)
    BY <1>1
  <2>4. Cardinality(below(i)) \in Nat /\ Cardinality(below(i)) # 0
    <3> HIDE DEF below
    <3> QED
      BY <2>2, <2>3, FS_CardinalityType, FS_EmptySet
  <2> QED
    BY <1>3, <2>2, <2>4
<1>5. ASSUME NEW i \in Logs, NEW j \in Logs, i < j
      PROVE  Cardinality(below(i)) # Cardinality(below(j))
  <2>1. \A k \in below(i) : k \in below(j)
    <3>1. i \in Int /\ j \in Int /\ \A k \in Logs : k \in Int
      BY <1>1
    <3> QED
      BY <1>5, <3>1
  <2>2. j \in below(j) /\ j \notin below(i)
    BY <1>1, <1>5
  <2>3. IsFiniteSet(below(j))
    BY <1>4
  <2> HIDE DEF below
  <2> QED
    BY <2>1, <2>2, <2>3, FS_Subset
<1> HIDE DEF below
<1>6. \A i, j \in Logs : i # j => i < j \/ j < i
  BY <1>1
<1>7. rank \in Injection(Logs, 1 .. n)
  <2>1. rank \in [Logs -> 1 .. n]
    BY <1>4
  <2>2. \A i, j \in Logs : rank[i] = rank[j] => i = j
    BY <1>5, <1>6
  <2> HIDE DEF rank, n
  <2> QED
    BY <2>1, <2>2 DEF Injection, IsInjective
<1>8. IsFiniteSet(1 .. n) /\ Cardinality(1 .. n) = n
  BY <1>3, FS_Interval
<1>9. rank \in Surjection(Logs, 1 .. n)
  <2> HIDE DEF rank
  <2> QED
    BY <1>7, <1>8, FS_Injection
<1>10. \A k \in 1 .. n : \E i \in Logs : Cardinality(below(i)) = k
  <2>1. \A k \in 1 .. n : \E i \in Logs : rank[i] = k
    <3> HIDE DEF rank
    <3> QED
      BY <1>9 DEF Surjection
  <2> QED
    BY <2>1
<1>11. \A k \in 1 .. n : Nth(k) \in Logs /\ Cardinality(below(Nth(k))) = k
  BY <1>10 DEF Nth, below
<1>12. \A i, j \in Logs : Cardinality(below(i)) = Cardinality(below(j)) => i = j
  BY <1>5, <1>6
<1>13. \A k, m \in 1 .. n : Nth(k) = Nth(m) => k = m
  BY <1>11
<1>14. \A i \in Logs : \E k \in 1 .. n : Nth(k) = i
  BY <1>4, <1>11, <1>12
<1> QED
  BY <1>3, <1>11, <1>13, <1>14

-----------------------------------------------------------------------------
(* Every step keeps the invariant.                                         *)

\* What a file says of itself stays true while the directory is verified.
LEMMA SameDirectory ==
  ASSUME opt' = opt, keyFor' = keyFor
  PROVE  \A f : Flawless(f)' <=> Flawless(f)
  BY DEF Flawless

\* Listing the directory.
LEMMA ListDirKeeps == ASSUME DirInv, ListDir PROVE DirInv'
<1> DEFINE n == Cardinality(Logs)
<1>1. /\ stage = "list" /\ next = 1 /\ result = NoResult /\ IsListing(entries)
      /\ Distinct(entries) /\ opt \in Options
  BY DEF DirInv, ListDir
<1>2. /\ paths' = [k \in 1 .. n |-> entries[Nth(k)]]
      /\ stage' = IF Logs = {} THEN "error" ELSE "files"
      /\ opt' = opt /\ entries' = entries /\ next' = next /\ result' = result
  BY DEF ListDir, vars
<1>3. /\ n \in Nat /\ (Logs = {} <=> n = 0)
      /\ \A k \in 1 .. n : Nth(k) \in Logs
      /\ \A k, m \in 1 .. n : Nth(k) = Nth(m) => k = m
      /\ \A i \in Logs : \E k \in 1 .. n : Nth(k) = i
  BY <1>1, NthOfLogs
<1>4. \A i \in Logs : i \in DOMAIN entries /\ IsFile(entries[i].file)
  BY <1>1 DEF Logs, IsListing
<1>5. Logs' = Logs /\ LogFiles' = LogFiles
  BY <1>2 DEF Logs, LogFiles
<1> HIDE DEF n
<1>6. IsListing(paths') /\ DOMAIN paths' = 1 .. n /\ Len(paths') = n
  <2>1. /\ paths' \in Seq({paths'[k] : k \in DOMAIN paths'})
        /\ DOMAIN paths' = 1 .. n /\ Len(paths') = n
    BY <1>2, <1>3, FunctionIsSeq
  <2>2. \A k \in 1 .. n : IsFile(paths'[k].file)
    BY <1>2, <1>3, <1>4
  <2> QED
    BY <2>1, <2>2 DEF IsListing
<1>7. Distinct(paths')
  <2> SUFFICES ASSUME NEW i \in 1 .. n, NEW j \in 1 .. n,
                      paths'[i].file.source = paths'[j].file.source
               PROVE  i = j
    BY <1>6 DEF Distinct
  <2>1. paths'[i] = entries[Nth(i)] /\ paths'[j] = entries[Nth(j)]
    BY <1>2
  <2>2. Nth(i) \in DOMAIN entries /\ Nth(j) \in DOMAIN entries
    BY <1>3, <1>4
  <2>3. Nth(i) = Nth(j)
    BY <1>1, <2>1, <2>2 DEF Distinct
  <2> QED
    BY <1>3, <2>3
<1>8. {paths'[i] : i \in DOMAIN paths'} = LogFiles
  BY <1>2, <1>3, <1>6 DEF LogFiles
<1>9. Listed'
  <2>1. Distinct(paths)'
    BY <1>7 DEF Distinct
  <2> QED
    BY <1>5, <1>6, <1>8, <2>1 DEF Listed
<1>10. 1 .. next' - 1 = {} /\ result'.issues = {} /\ result'.segments = {}
       /\ result'.truncated = FALSE
  BY <1>1, <1>2 DEF NoResult
<1>11. FlawlessSoFar'
  BY <1>10 DEF FlawlessSoFar
<1>12. Recorded'
  <2>1. ClaimsSoFar' = {}
    BY <1>10 DEF ClaimsSoFar
  <2> QED
    BY <1>10, <2>1, FS_EmptySet DEF Recorded
<1>13. stage' \in {"files", "error"} /\ next' \in 1 .. Len(paths') + 1
  BY <1>1, <1>2, <1>3, <1>6
<1>14. FindsNothingExactlyIfUnbroken'
  BY <1>13 DEF FindsNothingExactlyIfUnbroken
<1> QED
  BY <1>1, <1>2, <1>9, <1>10, <1>11, <1>12, <1>13, <1>14 DEF DirInv, IsResult

\* The files and their claims stay what they are when the next one is taken.
LEMMA NextFile ==
  ASSUME UNCHANGED <<entries, paths, opt, keyFor>>, Listed, next \in 1 .. Len(paths)
  PROVE  /\ Listed' /\ next \in Nat \ {0} /\ next \in DOMAIN paths
         /\ next' = next + 1 =>
              /\ next' \in 1 .. Len(paths') + 1
              /\ FlawlessSoFar' <=> FlawlessSoFar /\ paths[next].open /\ Flawless(paths[next].file)
              /\ ClaimsSoFar' = ClaimsSoFar \cup Claims(paths[next].file)
         /\ next' = next =>
              (FlawlessSoFar' <=> FlawlessSoFar) /\ ClaimsSoFar' = ClaimsSoFar
<1>1. entries' = entries /\ paths' = paths /\ opt' = opt /\ keyFor' = keyFor
  OBVIOUS
<1>2. Logs' = Logs /\ LogFiles' = LogFiles
  BY <1>1 DEF Logs, LogFiles
<1>3. Listed'
  BY <1>1, <1>2 DEF Listed, Distinct
<1>4. Len(paths) \in Nat /\ DOMAIN paths = 1 .. Len(paths) /\ next \in Nat \ {0}
  BY DEF Listed
<1>5. \A f : Flawless(f)' <=> Flawless(f)
  BY <1>1, SameDirectory
<1>6. ASSUME next' = next + 1
      PROVE  /\ next' \in 1 .. Len(paths') + 1
             /\ FlawlessSoFar' <=> FlawlessSoFar /\ paths[next].open /\ Flawless(paths[next].file)
             /\ ClaimsSoFar' = ClaimsSoFar \cup Claims(paths[next].file)
  <2>1. 1 .. next' - 1 = (1 .. next - 1) \cup {next}
    BY <1>4, <1>6
  <2>2. FlawlessSoFar' <=> \A i \in 1 .. next' - 1 : paths[i].open /\ Flawless(paths[i].file)
    BY <1>1, <1>5, Zenon DEF FlawlessSoFar
  <2>3. FlawlessSoFar' <=> FlawlessSoFar /\ paths[next].open /\ Flawless(paths[next].file)
    BY <2>1, <2>2, Zenon DEF FlawlessSoFar
  <2>4. \A f : Claims(f)' = Claims(f)
    BY DEF Claims, Claim
  <2>5. ClaimsSoFar' = UNION {Claims(paths[i].file) : i \in 1 .. next' - 1}
    BY <1>1, <2>4, Zenon DEF ClaimsSoFar
  <2>6. ClaimsSoFar' = ClaimsSoFar \cup Claims(paths[next].file)
    BY <2>1, <2>5 DEF ClaimsSoFar
  <2>7. next' \in 1 .. Len(paths') + 1
    BY <1>1, <1>4, <1>6
  <2> QED
    BY <2>3, <2>6, <2>7
<1>7. ASSUME next' = next
      PROVE  (FlawlessSoFar' <=> FlawlessSoFar) /\ ClaimsSoFar' = ClaimsSoFar
  <2>1. FlawlessSoFar' <=> FlawlessSoFar
    BY <1>1, <1>5, <1>7, Zenon DEF FlawlessSoFar
  <2>2. ClaimsSoFar' = ClaimsSoFar
    BY <1>1, <1>7 DEF ClaimsSoFar, Claims, Claim
  <2> QED
    BY <2>1, <2>2
<1> QED
  BY <1>3, <1>4, <1>6, <1>7

\* A file that cannot be opened.
LEMMA OpenFailsKeeps == ASSUME DirInv, OpenFails PROVE DirInv'
<1>1. /\ stage = "files" /\ Listed /\ next \in 1 .. Len(paths) + 1 /\ next <= Len(paths)
      /\ opt \in Options /\ IsResult(result)
  BY DEF DirInv, OpenFails
<1>2. /\ ~paths[next].open /\ next' = next + 1 /\ stage' = stage
      /\ UNCHANGED <<entries, paths, opt, keyFor>>
  BY DEF OpenFails, vars
<1>3. result'.issues # {} /\ IsResult(result')
  <2> DEFINE failed == [source |-> paths[next].file.source, line |-> 0, at |-> 0,
                        reason |-> "cannot open"]
  <2>1. result' = [result EXCEPT !.issues = @ \cup {failed}]
    BY DEF OpenFails
  <2> HIDE DEF failed
  <2> QED
    BY <1>1, <2>1 DEF IsResult
<1>4. next \in 1 .. Len(paths)
  BY <1>1 DEF Listed
<1>5. Listed' /\ next' \in 1 .. Len(paths') + 1 /\ ~FlawlessSoFar'
  BY <1>1, <1>2, <1>4, NextFile
<1>6. FindsNothingExactlyIfUnbroken'
  BY <1>1, <1>2 DEF FindsNothingExactlyIfUnbroken
<1>7. IsResult(result)'
  BY <1>3 DEF IsResult
<1> QED
  BY <1>1, <1>2, <1>3, <1>5, <1>6, <1>7 DEF DirInv

\* A file that is opened.
LEMMA OpenFileKeeps == ASSUME DirInv, OpenFile PROVE DirInv'
<1>1. /\ stage = "files" /\ Listed /\ next \in 1 .. Len(paths) + 1 /\ next <= Len(paths)
      /\ opt \in Options /\ IsResult(result)
      /\ result.issues = {} <=> FlawlessSoFar
      /\ result.issues = {} => Recorded
      /\ result.truncated => result.issues # {}
  BY DEF DirInv, OpenFile
<1>2. /\ paths[next].open /\ Begin(paths[next].file) /\ stage' = "replay" /\ next' = next
      /\ UNCHANGED <<entries, paths, opt, keyFor, result>> /\ file' = paths[next].file
  BY DEF OpenFile, Begin
<1>3. next \in 1 .. Len(paths)
  BY <1>1 DEF Listed
<1>4. Listed' /\ (FlawlessSoFar' <=> FlawlessSoFar) /\ ClaimsSoFar' = ClaimsSoFar
  BY <1>1, <1>2, <1>3, NextFile
<1>5. FileInv'
  <2>1. IsListing(paths)
    BY <1>1, Zenon DEF Listed
  <2>2. next \in DOMAIN paths
    BY <1>3, <2>1, ListingShape
  <2>3. IsFile(paths[next].file)
    BY <2>1, <2>2, Zenon DEF IsListing
  <2> QED
    BY <1>1, <1>2, <2>3, BeginInit
<1>6. Recorded => Recorded'
  BY <1>2, <1>4 DEF Recorded
<1>7. FindsNothingExactlyIfUnbroken'
  BY <1>2 DEF FindsNothingExactlyIfUnbroken
<1>8. IsResult(result)'
  BY <1>1, <1>2 DEF IsResult
<1> QED
  BY <1>1, <1>2, <1>3, <1>4, <1>5, <1>6, <1>7, <1>8 DEF DirInv

\* A step of the replay of a file.
LEMMA ReplayFileKeeps == ASSUME DirInv, ReplayFile PROVE DirInv'
<1>1. /\ stage = "replay" /\ Listed /\ next \in 1 .. Len(paths) /\ paths[next].open
      /\ file = paths[next].file /\ FileInv /\ opt \in Options /\ IsResult(result)
      /\ result.issues = {} <=> FlawlessSoFar
      /\ result.issues = {} => Recorded
      /\ result.truncated => result.issues # {}
  BY DEF DirInv, ReplayFile
<1>2. /\ ReplayStep
      /\ UNCHANGED <<entries, paths, stage, next, result>>
  BY DEF ReplayFile, dirVars
<1>3. file' = file /\ opt' = opt /\ keyFor' = keyFor
  <2>1. CASE EndOfInput
    BY <2>1 DEF EndOfInput
  <2>2. CASE Accounts
    BY <2>2 DEF Accounts, input
  <2> QED
    BY <1>1, <1>2, <2>1, <2>2, StepAccounts DEF FileInv, AccountInv, ReplayInv
<1>4. Listed' /\ (FlawlessSoFar' <=> FlawlessSoFar) /\ ClaimsSoFar' = ClaimsSoFar
  BY <1>1, <1>2, <1>3, NextFile
<1>5. FileInv'
  BY <1>1, <1>2, FileStep
<1>6. Recorded => Recorded'
  BY <1>2, <1>4 DEF Recorded
<1>7. FindsNothingExactlyIfUnbroken'
  BY <1>1, <1>2 DEF FindsNothingExactlyIfUnbroken
<1>8. next' \in 1 .. Len(paths') + 1
  BY <1>1, <1>2 DEF Listed
<1>9. IsResult(result)'
  BY <1>1, <1>2 DEF IsResult
<1> QED
  BY <1>1, <1>2, <1>3, <1>4, <1>5, <1>6, <1>7, <1>8, <1>9 DEF DirInv

\* The claims of the files before are not those of the next one.
LEMMA ClaimsApart ==
  ASSUME Listed, next \in 1 .. Len(paths), NEW c, NEW d, Linking(c) \in ClaimsSoFar,
         d.source = paths[next].file.source
  PROVE  Linking(c) # Linking(d)
<1>1. PICK i \in 1 .. next - 1 : Linking(c) \in Claims(paths[i].file)
  BY DEF ClaimsSoFar
<1>2. Linking(c).source = paths[i].file.source
  BY <1>1 DEF Claims, Claim
<1>3. i \in DOMAIN paths /\ next \in DOMAIN paths /\ i # next
  BY DEF Listed
<1>4. paths[i].file.source # paths[next].file.source
  BY <1>3 DEF Listed, Distinct
<1> QED
  BY <1>2, <1>4, LinkingFields

\* The result of a replay is added to the combined one.
LEMMA AccumulateKeeps == ASSUME DirInv, Accumulate PROVE DirInv'
<1>1. /\ stage = "replay" /\ Listed /\ next \in 1 .. Len(paths) /\ paths[next].open
      /\ file = paths[next].file /\ FileInv /\ opt \in Options
      /\ result.issues = {} <=> FlawlessSoFar
      /\ result.issues = {} => Recorded
      /\ result.truncated => result.issues # {}
  BY DEF DirInv, Accumulate
<1>2. /\ phase = "done" /\ stage' = "files" /\ next' = next + 1
      /\ UNCHANGED <<entries, paths, opt, keyFor>>
      /\ result'.segments = result.segments \cup segments
      /\ result'.issues = result.issues \cup issues
      /\ result'.truncated = (result.truncated \/ truncated)
      /\ IsResult(result')
  BY DEF Accumulate, vars, IsResult
<1>3. /\ issues = {} <=> Flawless(paths[next].file)
      /\ truncated => issues # {}
  BY <1>1, <1>2, FileIsExact
<1>4. /\ Listed' /\ next' \in 1 .. Len(paths') + 1
      /\ FlawlessSoFar' <=> FlawlessSoFar /\ Flawless(paths[next].file)
      /\ ClaimsSoFar' = ClaimsSoFar \cup Claims(paths[next].file)
  BY <1>1, <1>2, NextFile
<1>5. result'.issues = {} <=> FlawlessSoFar'
  BY <1>1, <1>2, <1>3, <1>4
<1>6. ASSUME result'.issues = {} PROVE Recorded'
  <2>1. issues = {} /\ Recorded
    BY <1>1, <1>2, <1>6
  <2>2. /\ IsFiniteSet(segments)
        /\ {Linking(c) : c \in segments} = Claims(file)
        /\ \A c, d \in segments : Linking(c) = Linking(d) => c = d
        /\ \A c \in segments : c.seq \in Uint /\ c.source = file.source
    BY <1>1, <1>2, <2>1, FileIsRecorded
  <2>3. /\ IsFiniteSet(result.segments)
        /\ {Linking(c) : c \in result.segments} = ClaimsSoFar
        /\ \A c, d \in result.segments : Linking(c) = Linking(d) => c = d
        /\ \A c \in result.segments : c.seq \in Uint
    BY <2>1 DEF Recorded
  <2>4. IsFiniteSet(result'.segments)
    <3>1. IsFiniteSet(result.segments \cup segments)
      BY <2>2, <2>3, FS_Union
    <3>2. result'.segments = result.segments \cup segments
      BY <1>2
    <3> QED
      BY <3>1, <3>2
  <2>5. {Linking(c) : c \in result'.segments} = ClaimsSoFar'
    BY <1>1, <1>2, <1>4, <2>2, <2>3
  <2>6. ASSUME NEW c \in result.segments, NEW d \in segments
        PROVE  Linking(c) # Linking(d)
    <3>1. Linking(c) \in ClaimsSoFar
      BY <2>3
    <3>2. d.source = paths[next].file.source
      BY <1>1, <2>2
    <3> QED
      BY <1>1, <3>1, <3>2, ClaimsApart
  <2>7. ASSUME NEW c \in result'.segments, NEW d \in result'.segments, Linking(c) = Linking(d)
        PROVE  c = d
    BY <1>2, <2>2, <2>3, <2>6, <2>7
  <2>8. \A c \in result'.segments : c.seq \in Uint
    BY <1>2, <2>2, <2>3
  <2>9. \A c : Linking(c)' = Linking(c)
    BY DEF Linking
  <2> QED
    BY <2>4, <2>5, <2>7, <2>8, <2>9 DEF Recorded
<1>7. result'.truncated => result'.issues # {}
  BY <1>1, <1>2, <1>3
<1>8. FindsNothingExactlyIfUnbroken'
  BY <1>2 DEF FindsNothingExactlyIfUnbroken
<1>9. IsResult(result)'
  BY <1>2 DEF IsResult
<1> QED
  BY <1>1, <1>2, <1>4, <1>5, <1>6, <1>7, <1>8, <1>9 DEF DirInv

\* What the directory claims once every file of it is done.
LEMMA AllFilesDone ==
  ASSUME Listed, next \in 1 .. Len(paths) + 1, next > Len(paths)
  PROVE  /\ FlawlessSoFar <=> \A e \in LogFiles : e.open /\ Flawless(e.file)
         /\ ClaimsSoFar = AllClaims
<1>1. 1 .. next - 1 = DOMAIN paths
  BY DEF Listed
<1>2. LogFiles = {paths[i] : i \in DOMAIN paths}
  BY DEF Listed
<1>3. FlawlessSoFar <=> \A i \in DOMAIN paths : paths[i].open /\ Flawless(paths[i].file)
  BY <1>1, Zenon DEF FlawlessSoFar
<1>4. ClaimsSoFar = UNION {Claims(paths[i].file) : i \in DOMAIN paths}
  BY <1>1, Zenon DEF ClaimsSoFar
<1>5. AllClaims = UNION {Claims(paths[i].file) : i \in DOMAIN paths}
  BY <1>2 DEF AllClaims
<1> QED
  BY <1>2, <1>3, <1>4, <1>5

\* When the files are flawless, linking them up finds nothing exactly if the recorded
\* segments, and so their claims, are unbroken.
LEMMA RecordedLink ==
  ASSUME Recorded, NEW order \in Orders(result.segments)
  PROVE  LinkIssues(order) = {} <=> AllUnbroken(ClaimsSoFar)
<1> DEFINE S == result.segments
<1>1. Numbered(S)
  BY DEF Recorded, Numbered
<1>2. LinkIssues(order) = {} <=> AllUnbroken(S)
  BY <1>1, LinkIsExact
<1>3. /\ \A c, d \in S : Linking(c) = Linking(d) => c = d
      /\ {Linking(c) : c \in S} = ClaimsSoFar
  BY DEF Recorded
<1>4. AllUnbroken(S) <=> AllUnbroken({Linking(c) : c \in S})
  BY <1>3, AllUnbrokenLinking
<1> QED
  BY <1>2, <1>3, <1>4

\* What the directory claims does not change once the files are done.
LEMMA SameClaims ==
  ASSUME UNCHANGED <<entries, opt, keyFor>>
  PROVE  /\ (\A e \in LogFiles : e.open /\ Flawless(e.file))'
              <=> \A e \in LogFiles : e.open /\ Flawless(e.file)
         /\ AllClaims' = AllClaims
         /\ AllUnbroken(AllClaims)' <=> AllUnbroken(AllClaims)
<1>1. LogFiles' = LogFiles
  BY DEF LogFiles, Logs
<1>2. \A f : (Flawless(f)' <=> Flawless(f)) /\ Claims(f)' = Claims(f)
  BY SameDirectory DEF Claims, Claim
<1>3. AllClaims' = AllClaims
  BY <1>1, <1>2 DEF AllClaims
<1>4. AllUnbroken(AllClaims)' <=> AllUnbroken(AllClaims)
  BY <1>3 DEF AllUnbroken, Chains, OfChain, Linked, Unbroken
<1> QED
  BY <1>1, <1>2, <1>3, <1>4

\* The files are done: the segments are linked up, unless a replay was truncated.
LEMMA LinkUpKeeps == ASSUME DirInv, LinkUp PROVE DirInv'
<1> DEFINE flawless == \A e \in LogFiles : e.open /\ Flawless(e.file)
<1>1. /\ stage = "files" /\ Listed /\ next \in 1 .. Len(paths) + 1 /\ next > Len(paths)
      /\ opt \in Options /\ IsResult(result)
      /\ result.issues = {} <=> FlawlessSoFar
      /\ result.issues = {} => Recorded
      /\ result.truncated => result.issues # {}
  BY DEF DirInv, LinkUp
<1>2. stage' = "returned" /\ UNCHANGED <<entries, paths, next, opt, keyFor>>
  BY DEF LinkUp, vars
<1>3. /\ FlawlessSoFar <=> flawless
      /\ ClaimsSoFar = AllClaims
  BY <1>1, AllFilesDone
<1>4. /\ IsResult(result')
      /\ result'.issues = {} <=> flawless /\ AllUnbroken(AllClaims)
  <2>1. CASE result.truncated /\ result' = result
    BY <1>1, <1>3, <2>1
  <2>2. CASE \E order \in Orders(result.segments) :
               result' = [result EXCEPT !.issues = @ \cup LinkIssues(order)]
    <3>1. PICK order \in Orders(result.segments) :
            result' = [result EXCEPT !.issues = @ \cup LinkIssues(order)]
      BY <2>2
    <3> DEFINE found == LinkIssues(order)
    <3>2. result.issues = {} => (found = {} <=> AllUnbroken(AllClaims))
      BY <1>1, <1>3, RecordedLink
    <3> HIDE DEF found, flawless
    <3>3. result' = [result EXCEPT !.issues = @ \cup found]
      BY <3>1 DEF found
    <3>4. IsResult(result') /\ result'.issues = result.issues \cup found
      BY <1>1, <3>3 DEF IsResult
    <3> QED
      BY <1>1, <1>3, <3>2, <3>4
  <2> QED
    BY <2>1, <2>2 DEF LinkUp
<1>5. FindsNothingExactlyIfUnbroken'
  <2>1. /\ (\A e \in LogFiles : e.open /\ Flawless(e.file))' <=> flawless
        /\ AllUnbroken(AllClaims)' <=> AllUnbroken(AllClaims)
    BY <1>2, SameClaims
  <2> HIDE DEF flawless
  <2>2. FindsNothingExactlyIfUnbroken' <=>
          (stage' = "returned" =>
             (result'.issues = {} <=>
                /\ (\A e \in LogFiles : e.open /\ Flawless(e.file))'
                /\ AllUnbroken(AllClaims)'))
    BY DEF FindsNothingExactlyIfUnbroken
  <2> QED
    BY <1>4, <2>1, <2>2, Zenon
<1>6. IsResult(result)'
  BY <1>4 DEF IsResult
<1> QED
  BY <1>1, <1>2, <1>5, <1>6 DEF DirInv

\* Nothing that is said of the replay of a file changes unless something changes.
LEMMA FileStutters ==
  ASSUME FileInv, UNCHANGED vars
  PROVE  FileInv'
<1>1. AccountInv'
  BY AccountStep DEF FileInv
<1>2. FileFindings'
  BY DEF FileInv, FileFindings, vars
<1> QED
  BY <1>1, <1>2 DEF FileInv

\* A step that changes nothing.
LEMMA StutterKeeps == ASSUME DirInv, UNCHANGED allVars PROVE DirInv'
<1>1. UNCHANGED <<entries, paths, stage, next, result, opt, keyFor, file>> /\ UNCHANGED vars
  BY DEF allVars, dirVars, vars
<1>2. /\ IsResult(result)' <=> IsResult(result)
      /\ Distinct(entries)' <=> Distinct(entries)
      /\ Listed' <=> Listed
      /\ FlawlessSoFar' <=> FlawlessSoFar
      /\ ClaimsSoFar' = ClaimsSoFar
  <2>1. \A f : (Flawless(f)' <=> Flawless(f)) /\ Claims(f)' = Claims(f)
    BY <1>1, SameDirectory DEF Claims, Claim
  <2>2. LogFiles' = LogFiles
    BY <1>1 DEF LogFiles, Logs
  <2>3. Listed' <=> Listed
    BY <1>1, <2>2 DEF Listed, Distinct
  <2>4. FlawlessSoFar' <=> FlawlessSoFar
    BY <1>1, <2>1, Zenon DEF FlawlessSoFar
  <2>5. ClaimsSoFar' = ClaimsSoFar
    BY <1>1, <2>1 DEF ClaimsSoFar
  <2> QED
    BY <1>1, <2>3, <2>4, <2>5 DEF IsResult, Distinct
<1>3. Recorded' <=> Recorded
  BY <1>1, <1>2 DEF Recorded, Linking
<1>4. FileInv => FileInv'
  BY <1>1, FileStutters
<1>5. FindsNothingExactlyIfUnbroken' <=> FindsNothingExactlyIfUnbroken
  BY <1>1, SameClaims, Zenon DEF FindsNothingExactlyIfUnbroken
<1> QED
  BY <1>1, <1>2, <1>3, <1>4, <1>5 DEF DirInv

-----------------------------------------------------------------------------
(* The theorem.                                                            *)

\* VerifyDir is called on any listing whose names differ from one another.
FreshDir ==
  /\ IsListing(entries) /\ Distinct(entries) /\ opt \in Options
  /\ stage = "list" /\ next = 1 /\ result = NoResult

\* A run of VerifyDir begins so.
LEMMA DirInitIsFresh == DirInit => FreshDir
<1> SUFFICES ASSUME DirInit PROVE FreshDir
  OBVIOUS
<1>1. entries \in Seq(Entry)
  BY DEF DirInit
<1>2. /\ Len(entries) \in Nat /\ DOMAIN entries = 1 .. Len(entries)
      /\ \A i \in DOMAIN entries : entries[i] \in Entry
  BY <1>1
<1>3. \A i \in DOMAIN entries : IsFile(entries[i].file)
  <2> SUFFICES ASSUME NEW i \in DOMAIN entries PROVE IsFile(entries[i].file)
    OBVIOUS
  <2>1. entries[i].file \in File
    BY <1>2, Zenon DEF Entry
  <2> QED
    BY <2>1, FilesAreFiles
<1>4. entries \in Seq({entries[i] : i \in DOMAIN entries})
  <2>1. entries = [i \in 1 .. Len(entries) |-> entries[i]]
    BY <1>1
  <2> QED
    BY <1>2, <2>1, FunctionIsSeq
<1> QED
  BY <1>3, <1>4 DEF DirInit, FreshDir, IsListing, Distinct

\* Then the invariant holds.
LEMMA FreshDirInv == FreshDir => DirInv
<1> SUFFICES ASSUME FreshDir PROVE DirInv
  OBVIOUS
<1>1. IsResult(result)
  BY DEF FreshDir, NoResult, IsResult
<1>2. Distinct(entries)
  BY DEF FreshDir
<1>3. stage = "list" /\ next = 1 /\ result = NoResult /\ IsListing(entries)
      /\ opt \in Options
  BY DEF FreshDir
<1>4. FindsNothingExactlyIfUnbroken
  BY <1>3 DEF FindsNothingExactlyIfUnbroken
<1> QED
  BY <1>1, <1>2, <1>3, <1>4 DEF DirInv

\* The directory's invariant is inductive.
LEMMA DirInvariant == DirSpec => []DirInv
<1>1. DirInit => DirInv
  BY DirInitIsFresh, FreshDirInv
<1>2. DirInv /\ [DirNext]_allVars => DirInv'
  <2> SUFFICES ASSUME DirInv, [DirNext]_allVars PROVE DirInv'
    OBVIOUS
  <2>1. CASE ListDir
    BY <2>1, ListDirKeeps
  <2>2. CASE OpenFails
    BY <2>2, OpenFailsKeeps
  <2>3. CASE OpenFile
    BY <2>3, OpenFileKeeps
  <2>4. CASE ReplayFile
    BY <2>4, ReplayFileKeeps
  <2>5. CASE Accumulate
    BY <2>5, AccumulateKeeps
  <2>6. CASE LinkUp
    BY <2>6, LinkUpKeeps
  <2>7. CASE UNCHANGED allVars
    BY <2>7, StutterKeeps
  <2> QED
    BY <2>1, <2>2, <2>3, <2>4, <2>5, <2>6, <2>7 DEF DirNext, DirStep, DirReturned
<1> QED
  BY <1>1, <1>2, PTL DEF DirSpec

\* VerifyDir finds nothing exactly when every log file can be opened and is flawless and
\* the segments in them claim to be one unbroken run for each chain, for every directory,
\* every assignment of keys and all options.
THEOREM DirectoryIsExact == DirSpec => []FindsNothingExactlyIfUnbroken
<1>1. DirInv => FindsNothingExactlyIfUnbroken
  BY DEF DirInv
<1> QED
  BY <1>1, DirInvariant, PTL
=============================================================================
