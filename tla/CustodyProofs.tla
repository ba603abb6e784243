--------------------------- MODULE CustodyProofs ---------------------------
(***************************************************************************)
(* Theorems about Custody: for logs of any size, any damage and any        *)
(* question, an intact log is not accused, and what a command accepts is   *)
(* what the producer wrote.                                                *)
(***************************************************************************)
EXTENDS Custody, CommandProofs, ProducerProofs, WellFoundedInduction

-----------------------------------------------------------------------------
(* The inductive invariant.                                                *)

\* No command has been called.
Idle ==
  /\ keyFor = <<>> /\ phase = "done" /\ stage = "waiting" /\ next = 1 /\ result = NoResult
  /\ anchorOK = FALSE /\ reached = {} /\ verdict = "" /\ exit = NoExit

NotRemade == \A k \in DOMAIN damage : damage[k] # "remake"

\* The MACs that stand in the files that were written, and the one of a line that lost its.
OriginalMACs == {Zero} \cup UNION {{w[m].mac : m \in DOMAIN w} : w \in Originals}

\* A line, as long as nobody remade the history with a MAC that was written.
Traced(l) == IsLine(l) /\ l.form # "blank" /\ (NotRemade => l.mac \in OriginalMACs)

Sound(ls) == IsSeq(ls) /\ \A i \in DOMAIN ls : Traced(ls[i])

IsEntry(e) ==
  /\ e = [log |-> e.log, dir |-> e.dir, lstat |-> e.lstat, open |-> e.open, file |-> e.file]
  /\ e.file = [source |-> e.file.source, lines |-> e.file.lines, err |-> e.file.err]

\* What lies in a directory, whatever was done to it.
GoodListing(es) ==
  /\ IsSeq(es) /\ Distinct(es)
  /\ \A e \in DOMAIN es : IsEntry(es[e]) /\ Sound(es[e].file.lines)

\* The evidence from the time it is handed over.
CustodyOfEvidence ==
  /\ Started /\ stranger \in DOMAIN MaxDamage /\ Len(damage) <= MaxDamage[stranger]
  /\ GoodListing(entries)
  /\ damage = <<>> => entries = Delivered(stranger)

\* The question that was asked, and when verify says that something is wrong.
QuestionInv ==
  /\ command = "anchor" => anchor \in Offered /\ ~opt.allowUnsigned
  /\ target # Directory => IsLogFile(entries[target])
  /\ \A path, other \in keyArg.identity : path = other
  /\ \A path \in keyArg.identity : \A f, g \in path.itself \cup path.inside : f = g
  /\ (command = "verify" /\ exit = 1) => stage = "returned"

CustodyInv ==
  /\ ProducerInv /\ IsSeq(damage)
  /\ act \in {"produce", "custody", "audit"}
  /\ act = "produce" => damage = <<>>
  /\ act # "produce" => CustodyOfEvidence
  /\ act # "audit" => Idle
  /\ act = "audit" => CommandInv /\ QuestionInv

-----------------------------------------------------------------------------
(* Least and greatest elements.                                            *)

\* A set of natural numbers has a least element.
LEMMA Smallest ==
  ASSUME NEW S, S \subseteq Nat, S # {}
  PROVE  \E m \in S : \A j \in S : m <= j
<1>1. \E m \in S : \A j \in S : ~(<<j, m>> \in OpToRel(<, Nat))
  BY NatLessThanWellFounded, WFMin, Zenon
<1>2. PICK m \in S : \A j \in S : ~(<<j, m>> \in OpToRel(<, Nat))
  BY <1>1
<1>3. \A j \in S : ~(j < m)
  BY <1>2 DEF OpToRel
<1> QED
  BY <1>3

\* A set of numbers with an upper bound has a greatest element.
LEMMA Greatest ==
  ASSUME NEW n \in Nat, NEW S, S \subseteq 0 .. n, S # {}
  PROVE  \E m \in S : \A j \in S : j <= m
<1> DEFINE T == {n - j : j \in S}
<1>1. T \subseteq Nat /\ T # {}
  <2>1. \A j \in S : n - j \in Nat
    OBVIOUS
  <2>2. PICK j \in S : TRUE
    OBVIOUS
  <2> QED
    BY <2>1, <2>2
<1>2. PICK t \in T : \A u \in T : t <= u
  BY <1>1, Smallest, Zenon
<1>3. PICK m \in S : t = n - m
  BY <1>2
<1>4. \A j \in S : n - m <= n - j
  BY <1>2, <1>3
<1> QED
  BY <1>4

-----------------------------------------------------------------------------
(* A chain of MACs can only be followed by who goes along it from its      *)
(* beginning: a segment whose lines are chained, and one of whose lines    *)
(* carries a MAC from a file that was written, is a copy of that file up   *)
(* to there.                                                               *)

\* The lines of w, of which the first is a start line, are MACed one after the other with
\* the key k.
IsChain(w, k) ==
  /\ IsSeq(w) /\ Len(w) > 0
  /\ \A m \in 1 .. Len(w) :
       /\ IsLine(w[m]) /\ w[m].form = "signed" /\ w[m].hex = "lower"
       /\ w[m].text.start <=> m = 1
       /\ w[m].mac = HMAC(k, w[m].text, IF m = 1 THEN Zero ELSE w[m - 1].mac)

SegmentIsChained(L, kf, s) ==
  \A i \in SegmentLines(L, s) : IsLine(L[i]) /\ Chained(L, kf, s, i)

\* Equal MACs have equal inputs, and none of them is the start value.
LEMMA EqualMACs ==
  ASSUME NEW k, NEW t, NEW p, NEW k2, NEW t2, NEW p2
  PROVE  /\ HMAC(k, t, p) # Zero
         /\ HMAC(k, t, p) = HMAC(k2, t2, p2) => k = k2 /\ t = t2 /\ p = p2
  BY DEF HMAC, Zero

\* A start line is the first of its segment, and the others are counted on.
LEMMA NumberOn ==
  ASSUME NEW L, NEW s \in Nat \ {0}
  PROVE  /\ Signed(L, s) => Number(L, s, s) = 1
         /\ \A i \in Nat : Number(L, s, i) \in Nat
         /\ \A i \in Nat : \A p \in s .. i - 1 :
              (Precedes(L, p, i) /\ Signed(L, i)) => Number(L, s, i) = Number(L, s, p) + 1
<1> DEFINE upTo(i) == {j \in s .. i : Signed(L, j)}
<1>1. \A i \in Nat : IsFiniteSet(upTo(i)) /\ Cardinality(upTo(i)) \in Nat
  <2> SUFFICES ASSUME NEW i \in Nat
               PROVE  IsFiniteSet(upTo(i)) /\ Cardinality(upTo(i)) \in Nat
    OBVIOUS
  <2>1. IsFiniteSet(s .. i)
    BY FS_Interval
  <2>2. upTo(i) \in SUBSET (s .. i)
    OBVIOUS
  <2> HIDE DEF upTo
  <2>3. IsFiniteSet(upTo(i))
    BY <2>1, <2>2, FS_Subset
  <2> QED
    BY <2>3, FS_CardinalityType
<1>2. \A i : Number(L, s, i) = Cardinality(upTo(i))
  BY Zenon DEF Number
<1>3. ASSUME Signed(L, s) PROVE Number(L, s, s) = 1
  <2>1. upTo(s) = {s}
    BY <1>3
  <2> HIDE DEF upTo
  <2> QED
    BY <1>2, <2>1, FS_Singleton
<1>4. ASSUME NEW i \in Nat, NEW p \in s .. i - 1, Precedes(L, p, i), Signed(L, i)
      PROVE  Number(L, s, i) = Number(L, s, p) + 1
  <2>1. upTo(i) = upTo(p) \cup {i} /\ i \notin upTo(p) /\ p \in Nat
    BY <1>4 DEF Precedes
  <2> HIDE DEF upTo
  <2> QED
    BY <1>1, <1>2, <2>1, FS_AddElement
<1> QED
  BY <1>1, <1>2, <1>3, <1>4 DEF upTo

\* The MAC of a chained line, made from its text and the MAC before it in the segment.
LEMMA ChainedMAC ==
  ASSUME NEW L, NEW kf, NEW s \in Nat \ {0}, NEW i \in SegmentLines(L, s),
         Len(L) \in Nat, SegmentIsChained(L, kf, s)
  PROVE  /\ L[i].form = "signed" /\ L[i].hex = "lower" /\ i \in Nat /\ s <= i
         /\ i = s => L[i].mac = HMAC(KeyAt(L, kf, s), L[i].text, Zero)
         /\ i # s => \E p \in SegmentLines(L, s) :
              /\ p \in s .. i - 1 /\ Precedes(L, p, i)
              /\ L[i].mac = HMAC(KeyAt(L, kf, s), L[i].text, L[p].mac)
<1> DEFINE k == KeyAt(L, kf, s)
<1> HIDE DEF k
<1>1. /\ i \in s .. Len(L) /\ i \in Nat /\ s <= i /\ Signed(L, i) /\ Governs(L, s, i)
      /\ Chained(L, kf, s, i)
  BY DEF SegmentLines, SegmentIsChained
<1>2. IF s = i THEN Matches(L[i], HMAC(k, L[i].text, Zero))
      ELSE \E p \in s .. i - 1 : /\ Precedes(L, p, i)
                                 /\ Matches(L[i], HMAC(k, L[i].text, L[p].mac))
  BY <1>1, Zenon DEF Chained, k
<1>3. ASSUME i # s
      PROVE  \E p \in SegmentLines(L, s) :
               /\ p \in s .. i - 1 /\ Precedes(L, p, i)
               /\ L[i].mac = HMAC(k, L[i].text, L[p].mac)
  <2>1. PICK p \in s .. i - 1 : /\ Precedes(L, p, i)
                                /\ Matches(L[i], HMAC(k, L[i].text, L[p].mac))
    BY <1>2, <1>3
  <2>2. Signed(L, p) /\ p \in s .. Len(L) /\ Governs(L, s, p)
    BY <1>1, <2>1 DEF Precedes, Governs
  <2> QED
    BY <2>1, <2>2 DEF SegmentLines, Matches
<1> QED
  BY <1>1, <1>2, <1>3 DEF Signed, Matches, k

\* If one signed line of a chained segment carries the MAC of line m of a file that was
\* written, it is the m-th signed line, and all up to it are the lines of that file.
LEMMA ChainedIsCopy ==
  ASSUME NEW L, NEW kf, NEW s \in Nat \ {0}, Len(L) \in Nat, SegmentIsChained(L, kf, s),
         NEW w, NEW key0, IsChain(w, key0),
         NEW i \in SegmentLines(L, s), NEW m \in 1 .. Len(w), L[i].mac = w[m].mac
  PROVE  /\ Number(L, s, i) = m
         /\ \A j \in SegmentLines(L, s) :
              j <= i => Number(L, s, j) \in 1 .. Len(w) /\ L[j] = w[Number(L, s, j)]
<1> DEFINE Mine == SegmentLines(L, s)
           Copied(a) == \A b \in 1 .. Len(w) : L[a].mac = w[b].mac =>
                          /\ Number(L, s, a) = b
                          /\ \A j \in Mine : j <= a => /\ Number(L, s, j) \in 1 .. Len(w)
                                                       /\ L[j] = w[Number(L, s, j)]
           Wrong == {a \in Mine : ~Copied(a)}
<1>1. Mine \subseteq Nat /\ Mine \subseteq s .. Len(L)
  BY DEF SegmentLines
<1>2. SUFFICES ASSUME NEW a \in Mine, \A c \in Mine : c < a => Copied(c) PROVE Copied(a)
  <2>1. Wrong = {}
    <3>1. SUFFICES ASSUME Wrong # {} PROVE FALSE
      OBVIOUS
    <3>2. Wrong \subseteq Nat
      BY <1>1
    <3>3. PICK a \in Wrong : \A c \in Wrong : a <= c
      BY <3>1, <3>2, Smallest, Zenon
    <3>4. \A c \in Mine : c < a => Copied(c)
      <4> HIDE DEF Copied, Mine
      <4> QED
        BY <3>2, <3>3, <1>1
    <3> QED
      BY <1>2, <3>3, <3>4, Zenon
  <2> QED
    BY <2>1, Zenon
<1>3. SUFFICES ASSUME NEW b \in 1 .. Len(w), L[a].mac = w[b].mac
               PROVE  /\ Number(L, s, a) = b
                      /\ \A j \in Mine : j <= a => /\ Number(L, s, j) \in 1 .. Len(w)
                                                   /\ L[j] = w[Number(L, s, j)]
  BY Zenon
<1>4. /\ Len(w) \in Nat /\ IsLine(w[b]) /\ w[b].form = "signed" /\ w[b].hex = "lower"
      /\ w[b].mac = HMAC(key0, w[b].text, IF b = 1 THEN Zero ELSE w[b - 1].mac)
  BY SeqShape DEF IsChain
<1>5. /\ L[a].form = "signed" /\ L[a].hex = "lower" /\ a \in Nat /\ s <= a
      /\ a = s => L[a].mac = HMAC(KeyAt(L, kf, s), L[a].text, Zero)
      /\ a # s => \E p \in SegmentLines(L, s) :
              /\ p \in s .. a - 1 /\ Precedes(L, p, a)
              /\ L[a].mac = HMAC(KeyAt(L, kf, s), L[a].text, L[p].mac)
  BY ChainedMAC
<1>6. L[a].text = w[b].text => L[a] = w[b]
  <2>1. IsLine(L[a])
    BY DEF SegmentIsChained
  <2> QED
    BY <1>3, <1>4, <1>5, <2>1 DEF IsLine
<1>7. CASE a = s
  <2>1. HMAC(KeyAt(L, kf, s), L[a].text, Zero)
          = HMAC(key0, w[b].text, IF b = 1 THEN Zero ELSE w[b - 1].mac)
    BY <1>3, <1>4, <1>5, <1>7
  <2>2. L[a].text = w[b].text /\ Zero = IF b = 1 THEN Zero ELSE w[b - 1].mac
    BY <2>1, EqualMACs
  <2>3. b = 1
    <3>1. SUFFICES ASSUME b # 1 PROVE FALSE
      OBVIOUS
    <3>2. b - 1 \in 1 .. Len(w)
      BY <1>4, <3>1
    <3>3. w[b - 1].mac = HMAC(key0, w[b - 1].text, IF b - 1 = 1 THEN Zero ELSE w[b - 1 - 1].mac)
      BY <3>2, Zenon DEF IsChain
    <3> QED
      BY <2>2, <3>1, <3>3, EqualMACs
  <2>4. Number(L, s, a) = 1
    BY <1>5, <1>7, NumberOn DEF Signed
  <2>5. \A j \in Mine : j <= a => j = a
    BY <1>1, <1>7
  <2> QED
    BY <1>4, <1>6, <2>2, <2>3, <2>4, <2>5
<1>8. CASE a # s
  <2>1. PICK p \in Mine : /\ p \in s .. a - 1 /\ Precedes(L, p, a)
                          /\ L[a].mac = HMAC(KeyAt(L, kf, s), L[a].text, L[p].mac)
    BY <1>5, <1>8
  <2>2. L[a].text = w[b].text /\ L[p].mac = IF b = 1 THEN Zero ELSE w[b - 1].mac
    BY <1>3, <1>4, <2>1, EqualMACs
  <2>3. L[p].mac # Zero
    <3>1. \E t, q : L[p].mac = HMAC(KeyAt(L, kf, s), t, q)
      <4>1. p = s => L[p].mac = HMAC(KeyAt(L, kf, s), L[p].text, Zero)
        BY ChainedMAC
      <4>2. p # s => \E q : L[p].mac = HMAC(KeyAt(L, kf, s), L[p].text, L[q].mac)
        BY ChainedMAC
      <4> QED
        BY <4>1, <4>2, Zenon
    <3> QED
      BY <3>1, EqualMACs
  <2>4. b # 1 /\ b - 1 \in 1 .. Len(w) /\ L[p].mac = w[b - 1].mac
    BY <1>4, <2>2, <2>3
  <2>5. Copied(p)
    <3>1. p < a
      BY <1>5, <2>1
    <3> HIDE DEF Copied, Mine
    <3> QED
      BY <1>2, <2>1, <3>1
  <2>6. /\ Number(L, s, p) = b - 1
        /\ \A j \in Mine : j <= p => Number(L, s, j) \in 1 .. Len(w) /\ L[j] = w[Number(L, s, j)]
    BY <2>4, <2>5, Zenon
  <2>7. Number(L, s, a) = b
    <3>1. Number(L, s, a) = Number(L, s, p) + 1
      <4>1. \A n \in Nat : \A q \in s .. n - 1 :
              (Precedes(L, q, n) /\ Signed(L, n)) => Number(L, s, n) = Number(L, s, q) + 1
        BY NumberOn
      <4>2. Signed(L, a)
        BY <1>5 DEF Signed
      <4> QED
        BY <1>5, <2>1, <4>1, <4>2, Zenon
    <3> QED
      BY <1>4, <2>6, <3>1
  <2>8. \A j \in Mine : j <= a => j = a \/ j <= p
    BY <1>1, <1>5, <2>1 DEF SegmentLines, Precedes
  <2>9. L[a] = w[b]
    BY <1>6, <2>2
  <2> QED
    BY <2>6, <2>7, <2>8, <2>9
<1> QED
  BY <1>7, <1>8

-----------------------------------------------------------------------------
(* What was written.                                                       *)

\* A file of the producer is a chain under the key of its number.
LEMMA WrittenIsChain ==
  ASSUME NEW L, NEW n, NEW prev, Written(L, n, prev)
  PROVE  IsChain(L, DerivedKey(Identity, ChainID, n))
<1>1. IsSeq(L) /\ Len(L) > 0 /\ \A m \in 1 .. Len(L) : Follows(L, n, m)
  BY Zenon DEF Written
<1>2. \A m \in 1 .. Len(L) :
        /\ IsLine(L[m]) /\ L[m].form = "signed" /\ L[m].hex = "lower"
        /\ L[m].text.start <=> m = 1
        /\ L[m].mac = HMAC(DerivedKey(Identity, ChainID, n), L[m].text,
                           IF m = 1 THEN Zero ELSE L[m - 1].mac)
  BY <1>1, Zenon DEF Follows
<1> QED
  BY <1>1, <1>2, Zenon DEF IsChain

\* A start line and a line.
LEMMA PairIsChain ==
  ASSUME NEW a, NEW b, NEW k, IsLine(a), IsLine(b),
         a.form = "signed", b.form = "signed", a.hex = "lower", b.hex = "lower",
         a.text.start = TRUE, b.text.start = FALSE,
         a.mac = HMAC(k, a.text, Zero), b.mac = HMAC(k, b.text, a.mac)
  PROVE  /\ IsChain(<<a, b>>, k) /\ Len(<<a, b>>) = 2
         /\ <<a, b>>[1] = a /\ <<a, b>>[2] = b
<1> DEFINE w == <<a, b>>
<1>1. w \in Seq({a, b}) /\ Len(w) = 2 /\ w[1] = a /\ w[2] = b
  OBVIOUS
<1>2. IsSeq(w)
  BY <1>1, SeqIsSeq
<1> HIDE DEF w
<1>3. \A m \in 1 .. Len(w) : m = 1 \/ m = 2
  BY <1>1
<1>4. \A m \in 1 .. Len(w) :
        /\ IsLine(w[m]) /\ w[m].form = "signed" /\ w[m].hex = "lower"
        /\ w[m].text.start <=> m = 1
        /\ w[m].mac = HMAC(k, w[m].text, IF m = 1 THEN Zero ELSE w[m - 1].mac)
  BY <1>1, <1>3
<1>5. IsChain(w, k)
  BY <1>1, <1>2, <1>4 DEF IsChain
<1> QED
  BY <1>1, <1>5 DEF w

\* The file of the other chain, which is the first one of it.
LEMMA SiblingIsChain ==
  /\ IsChain(SiblingFile, DerivedKey(Identity, Sibling, 0)) /\ Len(SiblingFile) = 2
  /\ SiblingFile[1].text.v = "2" /\ SiblingFile[1].text.chain = Sibling
  /\ SiblingFile[1].text.seq = 0 /\ SiblingFile[1].text.prev = {}
<1> DEFINE k    == DerivedKey(Identity, Sibling, 0)
           head == [start |-> TRUE, v |-> "2", chain |-> Sibling, seq |-> 0, prev |-> {},
                    body |-> 50]
           text == [start |-> FALSE, v |-> "", chain |-> "", seq |-> 0, prev |-> {},
                    body |-> 51]
           line(t, p) == [form |-> "signed", text |-> t, mac |-> HMAC(k, t, p), hex |-> "lower"]
           a == line(head, Zero)
           b == line(text, HMAC(k, head, Zero))
<1>1. IsText(text) /\ text.start = FALSE
  BY OrdinaryText, Zenon
<1>2. /\ IsText(head) /\ head.start = TRUE /\ head.v = "2" /\ head.chain = Sibling
      /\ head.seq = 0 /\ head.prev = {}
  <2>1. /\ head = [start |-> head.start, v |-> head.v, chain |-> head.chain, seq |-> head.seq,
                   prev |-> head.prev, body |-> head.body]
        /\ head.start = TRUE /\ head.v = "2" /\ head.chain = Sibling
        /\ head.seq = 0 /\ head.prev = {}
    BY Zenon
  <2>2. head.start \in BOOLEAN /\ head.v \in {"", "2"} /\ head.seq \in Int
    BY <2>1, ZeroIsInt, Zenon
  <2> QED
    BY <2>1, <2>2, Zenon DEF IsText
<1>3. SiblingFile = <<a, b>>
  BY Zenon DEF SiblingFile
<1> HIDE DEF k, head, text
<1>4. /\ a.form = "signed" /\ b.form = "signed" /\ a.hex = "lower" /\ b.hex = "lower"
      /\ a.text = head /\ b.text = text /\ a.mac = HMAC(k, head, Zero)
      /\ b.mac = HMAC(k, text, a.mac)
  OBVIOUS
<1>5. IsLine(a) /\ IsLine(b)
  BY <1>1, <1>2 DEF IsLine, Forms, HexForms
<1> HIDE DEF a, b
<1>6. /\ IsChain(<<a, b>>, k) /\ Len(<<a, b>>) = 2 /\ <<a, b>>[1] = a
  BY <1>1, <1>2, <1>4, <1>5, PairIsChain
<1> QED
  BY <1>2, <1>3, <1>4, <1>6, Zenon DEF k

\* The file in format version 1.
LEMMA V1IsChain ==
  /\ IsChain(V1File, DerivedKey(Identity, ChainID, seq))
  /\ V1File[1].text.v = "" /\ V1File[1].text.chain = ""
<1> DEFINE k    == DerivedKey(Identity, ChainID, seq)
           head == [start |-> TRUE, v |-> "", chain |-> "", seq |-> -1, prev |-> {},
                    body |-> 60]
           text == [start |-> FALSE, v |-> "", chain |-> "", seq |-> 0, prev |-> {},
                    body |-> 61]
           a == SignedLine(head, Zero)
           b == SignedLine(text, a.mac)
<1>1. IsText(text) /\ text.start = FALSE
  BY OrdinaryText, Zenon
<1>2. IsText(head) /\ head.start = TRUE /\ head.v = "" /\ head.chain = ""
  <2>1. /\ head = [start |-> head.start, v |-> head.v, chain |-> head.chain, seq |-> head.seq,
                   prev |-> head.prev, body |-> head.body]
        /\ head.start = TRUE /\ head.v = "" /\ head.chain = "" /\ head.seq = -1
    BY Zenon
  <2>2. -1 \in Int
    OBVIOUS
  <2>3. head.start \in BOOLEAN /\ head.v \in {"", "2"} /\ head.seq \in Int
    BY <2>1, <2>2, Zenon
  <2> QED
    BY <2>1, <2>3, Zenon DEF IsText
<1>3. V1File = <<a, b>>
  BY Zenon DEF V1File, V1Line
<1> HIDE DEF head, text
<1>4. /\ IsLine(a) /\ a.form = "signed" /\ a.hex = "lower" /\ a.text = head
      /\ a.mac = HMAC(k, head, Zero)
  <2>1. IsText(head)
    BY <1>2, Zenon
  <2> QED
    BY <2>1, LineIsSigned
<1>5. /\ IsLine(b) /\ b.form = "signed" /\ b.hex = "lower" /\ b.text = text
      /\ b.mac = HMAC(k, text, a.mac)
  BY <1>1, LineIsSigned
<1> HIDE DEF a, b, k
<1>6. /\ IsChain(<<a, b>>, k) /\ <<a, b>>[1] = a
  <2>1. head.start = TRUE /\ text.start = FALSE
    BY <1>1, <1>2, Zenon
  <2> QED
    BY <1>4, <1>5, <2>1, PairIsChain
<1> QED
  BY <1>2, <1>3, <1>4, <1>6, Zenon DEF k

\* Every original is a chain.
LEMMA OriginalIsChain ==
  ASSUME ProducerInv, NEW w \in Originals
  PROVE  \E k : IsChain(w, k)
<1>1. ASSUME NEW n \in DOMAIN files PROVE IsChain(files[n], DerivedKey(Identity, ChainID, n - 1))
  <2>1. FilesWritten
    BY DEF ProducerInv
  <2>2. n \in 1 .. Len(files) /\ Len(files) \in Nat
    BY <2>1, SeqShape DEF FilesWritten
  <2>3. n - 1 \in 0 .. Len(files) - 1 /\ n - 1 + 1 = n
    BY <2>2
  <2>4. Written(files[n - 1 + 1], n - 1, Predecessor(n - 1))
    BY <2>1, <2>3, Zenon DEF FilesWritten
  <2> QED
    BY <2>3, <2>4, WrittenIsChain
<1>2. \/ \E n \in DOMAIN files : w = files[n]
      \/ w = SiblingFile \/ w = V1File
  BY Zenon DEF Originals
<1> QED
  BY <1>1, <1>2, SiblingIsChain, V1IsChain, Zenon

-----------------------------------------------------------------------------
(* What is accepted.                                                       *)

\* Exit code 0 is given to flawless evidence only.
LEMMA AcceptedIsFlawless ==
  ASSUME CommandInv, exit = 0
  PROVE  EvidenceIsFlawless
<1>1. ArgumentsInv /\ VerifyExitsZeroExactlyIfFlawless /\ AnchorVerdictIsFounded
  BY Zenon DEF CommandInv
<1>2. exit # NoExit
  BY DEF NoExit
<1>3. command = "verify" \/ command = "anchor"
  BY <1>1 DEF ArgumentsInv
<1>4. CASE command = "verify"
  BY <1>1, <1>2, <1>4, Zenon DEF VerifyExitsZeroExactlyIfFlawless
<1>5. CASE command = "anchor"
  <2>1. verdict = "exact match"
    BY <1>1, <1>2, <1>5, Zenon DEF AnchorVerdictIsFounded
  <2> QED
    BY <1>1, <1>2, <1>5, <2>1, Zenon DEF AnchorVerdictIsFounded
<1> QED
  BY <1>3, <1>4, <1>5

\* The evidence is what lies in the directory.
LEMMA EvidenceLies ==
  ASSUME ArgumentsInv, NEW f \in Evidence
  PROVE  /\ IsFile(f)
         /\ \E e \in DOMAIN entries :
              /\ f = entries[e].file /\ entries[e].open
              /\ e \in IF target = Directory THEN Logs ELSE {target}
<1>1. PICK d \in (IF target = Directory THEN LogFiles ELSE {entries[target]}) :
        d.open /\ f = d.file
  BY Zenon DEF Evidence
<1>2. target \in {Directory} \cup DOMAIN entries /\ \A e \in DOMAIN entries : IsFile(entries[e].file)
  BY Zenon DEF ArgumentsInv, IsListing
<1>3. \E e \in DOMAIN entries : d = entries[e] /\ e \in IF target = Directory THEN Logs ELSE {target}
  BY <1>1, <1>2 DEF LogFiles, Logs
<1> QED
  BY <1>1, <1>2, <1>3

\* The segments of a flawless file are chained, under a key that the command has.
LEMMA FlawlessIsChained ==
  ASSUME NEW f, IsFile(f), Flawless(f), NEW s \in Starts(f)
  PROVE  /\ s \in Nat \ {0} /\ Len(f.lines) \in Nat /\ s \in SegmentLines(f.lines, s)
         /\ KeyAt(f.lines, keyFor, s) # {}
         /\ SegmentIsChained(f.lines, keyFor, s)
<1> DEFINE L == f.lines
           none == KeyAt(L, keyFor, s) = {}
<1>1. Len(L) \in Nat /\ DOMAIN L = 1 .. Len(L)
  BY FileShape
<1>2. s \in 1 .. Len(L) /\ IsStart(L, s) /\ s \in Nat \ {0}
  BY <1>1 DEF Starts
<1>3. \A i \in DOMAIN L : IsLine(L[i]) /\ ~Bad(L, opt, keyFor, i)
  BY Zenon DEF IsFile, Flawless
<1>4. Signed(L, s) /\ Governs(L, s, s)
  BY <1>2, GovernsSelf DEF IsStart
<1>5. Bad(L, opt, keyFor, s) <=> (IF none THEN s = s ELSE ~Chained(L, keyFor, s, s))
  BY <1>2, <1>4, SignedBad, Zenon
<1>6. ~none
  BY <1>1, <1>2, <1>3, <1>5
<1>7. ASSUME NEW i \in SegmentLines(L, s) PROVE IsLine(L[i]) /\ Chained(L, keyFor, s, i)
  <2>1. i \in s .. Len(L) /\ Signed(L, i) /\ Governs(L, s, i)
    BY DEF SegmentLines
  <2>2. i \in Nat /\ i \in DOMAIN L
    BY <1>1, <1>2, <2>1
  <2>3. Bad(L, opt, keyFor, i) <=> (IF none THEN s = i ELSE ~Chained(L, keyFor, s, i))
    BY <2>1, <2>2, SignedBad, Zenon
  <2> QED
    BY <1>3, <1>6, <2>2, <2>3
<1>8. s \in SegmentLines(L, s)
  BY <1>2, <1>4 DEF SegmentLines
<1> QED
  BY <1>1, <1>2, <1>6, <1>7, <1>8 DEF SegmentIsChained

\* The last line of a segment.
LEMMA LastLine ==
  ASSUME NEW L, Len(L) \in Nat, NEW s \in Nat, s \in SegmentLines(L, s)
  PROVE  \E i \in SegmentLines(L, s) :
           /\ \A j \in SegmentLines(L, s) : j <= i
           /\ Number(L, s, i) = Cardinality(SegmentLines(L, s))
<1> DEFINE mine == SegmentLines(L, s)
<1>1. mine \subseteq 0 .. Len(L) /\ mine # {}
  BY DEF SegmentLines
<1>2. PICK i \in mine : \A j \in mine : j <= i
  BY <1>1, Greatest
<1>3. mine = {j \in s .. i : Signed(L, j)}
  <2>1. i \in s .. Len(L) /\ Governs(L, s, i) /\ Signed(L, i)
    BY DEF SegmentLines
  <2>2. \A j \in s .. i : Governs(L, s, j)
    BY <2>1 DEF Governs
  <2> QED
    BY <1>2, <2>1, <2>2 DEF SegmentLines
<1> QED
  BY <1>2, <1>3 DEF Number

\* A line of accepted evidence with a MAC from an original shows that original.
LEMMA AcceptedIsCopy ==
  ASSUME CustodyInv, act = "audit", exit = 0,
         NEW f \in Evidence, NEW s \in Starts(f), NEW i \in SegmentLines(f.lines, s),
         NEW w \in Originals, NEW m \in 1 .. Len(w), f.lines[i].mac = w[m].mac
  PROVE  /\ Number(f.lines, s, i) = m
         /\ \A j \in SegmentLines(f.lines, s) :
              j <= i => /\ Number(f.lines, s, j) \in 1 .. Len(w)
                        /\ f.lines[j] = w[Number(f.lines, s, j)]
<1>1. CommandInv /\ ArgumentsInv /\ ProducerInv
  BY DEF CustodyInv, CommandInv
<1>2. Flawless(f) /\ IsFile(f)
  BY <1>1, AcceptedIsFlawless, EvidenceFiles, EvidenceLies
<1>3. /\ s \in Nat \ {0} /\ Len(f.lines) \in Nat /\ SegmentIsChained(f.lines, keyFor, s)
  BY <1>2, FlawlessIsChained
<1>4. PICK k : IsChain(w, k)
  BY <1>1, OriginalIsChain
<1> QED
  BY <1>3, <1>4, ChainedIsCopy

\* Each segment of accepted evidence that nobody remade is the beginning of an original:
\* its last line carries the MAC of a line that was written, and so it is followed back
\* to the beginning.
LEMMA AcceptedIsOriginal == CustodyInv => AcceptedLinesAreOriginal
<1> SUFFICES ASSUME CustodyInv, act = "audit", exit = 0, NotRemade,
                    NEW f \in Evidence, NEW s \in Starts(f)
             PROVE  \E w \in Originals : Shows(f, s, w)
  BY Zenon DEF AcceptedLinesAreOriginal, NotRemade
<1>1. /\ CommandInv /\ ArgumentsInv /\ ProducerInv /\ GoodListing(entries)
  BY DEF CustodyInv, CustodyOfEvidence, CommandInv
<1>2. Flawless(f) /\ IsFile(f) /\ \E e \in DOMAIN entries : f = entries[e].file
  BY <1>1, AcceptedIsFlawless, EvidenceFiles, EvidenceLies
<1>3. /\ s \in Nat \ {0} /\ Len(f.lines) \in Nat /\ SegmentIsChained(f.lines, keyFor, s)
      /\ s \in SegmentLines(f.lines, s)
  BY <1>2, FlawlessIsChained
<1>4. PICK i \in SegmentLines(f.lines, s) : \A j \in SegmentLines(f.lines, s) : j <= i
  BY <1>3, LastLine, Zenon
<1>5. f.lines[i].mac \in OriginalMACs
  <2>1. i \in DOMAIN f.lines
    BY <1>2, <1>3, FileShape DEF SegmentLines
  <2> QED
    BY <1>1, <1>2, <2>1, Zenon DEF GoodListing, Sound, Traced
<1>6. f.lines[i].mac # Zero
  BY <1>3, ChainedMAC, EqualMACs
<1>7. PICK w \in Originals : \E m \in DOMAIN w : f.lines[i].mac = w[m].mac
  BY <1>5, <1>6 DEF OriginalMACs
<1>8. DOMAIN w = 1 .. Len(w)
  BY <1>1, OriginalIsChain, SeqShape DEF IsChain
<1>9. PICK m \in 1 .. Len(w) : f.lines[i].mac = w[m].mac
  BY <1>7, <1>8
<1>10. \A j \in SegmentLines(f.lines, s) :
         j <= i => /\ Number(f.lines, s, j) \in 1 .. Len(w)
                   /\ f.lines[j] = w[Number(f.lines, s, j)]
  BY <1>9, AcceptedIsCopy
<1> QED
  BY <1>4, <1>8, <1>10 DEF Shows

-----------------------------------------------------------------------------
(* Between two files that stand.                                           *)

\* A file, of those that the producer wrote.
LEMMA FileIsWritten ==
  ASSUME ProducerInv, NEW n \in DOMAIN files
  PROVE  /\ n \in Nat \ {0} /\ n - 1 \in Uint /\ Written(files[n], n - 1, Predecessor(n - 1))
         /\ files[n] \in Originals /\ Len(files[n]) \in Nat \ {0}
         /\ DOMAIN files[n] = 1 .. Len(files[n]) /\ DOMAIN files = 1 .. Len(files)
<1>1. FilesWritten
  BY DEF ProducerInv
<1>2. DOMAIN files = 1 .. Len(files) /\ Len(files) \in Nat
  BY <1>1, SeqShape DEF FilesWritten
<1>3. n - 1 \in 0 .. Len(files) - 1 /\ n - 1 + 1 = n
  BY <1>2
<1>4. Written(files[n - 1 + 1], n - 1, Predecessor(n - 1))
  BY <1>1, <1>3, Zenon DEF FilesWritten
<1>5. IsSeq(files[n]) /\ Len(files[n]) > 0
  BY <1>3, <1>4, Zenon DEF Written
<1>6. n - 1 \in Uint
  BY <1>3, FileNumber
<1> QED
  BY <1>2, <1>3, <1>4, <1>5, <1>6, SeqShape DEF Originals

\* What a standing start line of file n claims.
LEMMA StandingClaim ==
  ASSUME ProducerInv, NEW n \in DOMAIN files, NEW f, NEW s, f.lines[s] = files[n][1],
         NEW k, k = n - 1
  PROVE  LET c == Claim(f, s)
         IN /\ c.v = "2" /\ c.chain = ChainID /\ c.seq = k /\ c.prev = Predecessor(k)
<1>1. k \in Uint /\ Written(files[n], k, Predecessor(k))
  BY FileIsWritten, Zenon
<1>2. LET t == f.lines[s].text
      IN t.v = "2" /\ t.chain = ChainID /\ t.seq = k /\ t.prev = Predecessor(k)
  BY <1>1, Zenon DEF Written
<1>3. ParseUint(k) = k
  BY <1>1, WAssumption DEF Uint, ParseUint
<1> QED
  BY <1>2, <1>3, Zenon DEF Claim

\* What is claimed in a directory is claimed by the evidence.
LEMMA ClaimsAreEvidence ==
  ASSUME target = Directory, EvidenceIsFlawless
  PROVE  /\ \A f \in Evidence : \A s \in Starts(f) : Claim(f, s) \in AllClaims
         /\ \A c \in AllClaims : \E f \in Evidence : \E s \in Starts(f) : c = Claim(f, s)
         /\ AllUnbroken(AllClaims)
<1>1. Evidence = {e.file : e \in LogFiles} /\ AllUnbroken(AllClaims)
  BY DEF Evidence, EvidenceIsFlawless
<1> QED
  BY <1>1 DEF AllClaims, Claims, Starts

\* The file before one that stands stands to its last line, if any earlier file stands.
LEMMA StandingPredecessor ==
  ASSUME CustodyInv, act = "audit", exit = 0, target = Directory,
         NEW n \in DOMAIN files, NEW k \in DOMAIN files, k + 1 \in DOMAIN files, n <= k,
         Stands(n), Stands(k + 1)
  PROVE  StandsWhole(k)
<1>1. CommandInv /\ ArgumentsInv /\ ProducerInv /\ EvidenceIsFlawless
  BY AcceptedIsFlawless DEF CustodyInv, CommandInv
<1>2. PICK f \in Evidence : \E s \in Starts(f) : f.lines[s] = files[k + 1][1]
  BY DEF Stands
<1> PICK s \in Starts(f) : f.lines[s] = files[k + 1][1]
  BY <1>2
<1>3. PICK g \in Evidence : \E r \in Starts(g) : g.lines[r] = files[n][1]
  BY DEF Stands
<1> PICK r \in Starts(g) : g.lines[r] = files[n][1]
  BY <1>3
<1> DEFINE c == Claim(f, s)
           d == Claim(g, r)
           S == OfChain(AllClaims, ChainID)
<1>4. n \in Nat \ {0} /\ k \in Nat \ {0}
  BY <1>1, FileIsWritten
<1>5. c.v = "2" /\ c.chain = ChainID /\ c.seq = k /\ c.prev = Predecessor(k)
  <2>1. PICK b : b = k + 1
    OBVIOUS
  <2>2. b \in DOMAIN files /\ k = b - 1 /\ f.lines[s] = files[b][1]
    BY <1>4, <2>1
  <2> QED
    BY <1>1, <2>2, StandingClaim
<1>6. d.v = "2" /\ d.chain = ChainID /\ d.seq = n - 1
  BY <1>1, <1>3, StandingClaim
<1>7. c \in AllClaims /\ d \in AllClaims /\ AllUnbroken(AllClaims)
  BY <1>1, <1>2, <1>3, ClaimsAreEvidence, Zenon
<1> HIDE DEF c, d
<1>8. c.v # "" /\ d.v # ""
  BY <1>5, <1>6
<1>9. c \in S /\ d \in S /\ ChainID \in Chains(AllClaims)
  BY <1>5, <1>6, <1>7, <1>8, Zenon DEF OfChain, Linked, Chains
<1>10. Unbroken(S)
  BY <1>7, <1>9, Zenon DEF AllUnbroken
<1> HIDE DEF S
<1>11. d.seq < c.seq
  BY <1>4, <1>5, <1>6
<1>12. PICK p \in S : c.prev = p.final
  BY <1>9, <1>10, <1>11, Zenon DEF Unbroken
<1>13. p \in AllClaims
  BY Zenon DEF S, OfChain, Linked
<1>14. PICK h \in Evidence : \E q \in Starts(h) : p = Claim(h, q)
  BY <1>1, <1>13, ClaimsAreEvidence, Zenon
<1> PICK q \in Starts(h) : p = Claim(h, q)
  BY <1>14
<1> DEFINE L == h.lines
           mine == SegmentLines(L, q)
<1>15. Flawless(h) /\ IsFile(h)
  BY <1>1, EvidenceFiles, EvidenceLies
<1>16. q \in Nat \ {0} /\ Len(L) \in Nat /\ q \in mine
  BY <1>15, FlawlessIsChained
<1>17. PICK i \in mine : /\ \A j \in mine : j <= i
                         /\ Number(L, q, i) = Cardinality(mine)
  BY <1>16, LastLine
<1>18. p.final = {L[j].mac : j \in {a \in mine : \A b \in mine : b <= a}}
  BY <1>14, Zenon DEF Claim
<1>19. L[i].mac \in p.final
  BY <1>17, <1>18
<1>20. L[i].mac = files[k][Len(files[k])].mac
  BY <1>4, <1>5, <1>12, <1>19 DEF Predecessor, Closing
<1>21. /\ files[k] \in Originals /\ Len(files[k]) \in Nat \ {0}
       /\ DOMAIN files[k] = 1 .. Len(files[k])
  BY <1>1, FileIsWritten
<1>22. /\ Number(L, q, i) = Len(files[k])
       /\ \A j \in mine : j <= i => /\ Number(L, q, j) \in 1 .. Len(files[k])
                                    /\ L[j] = files[k][Number(L, q, j)]
  <2>1. Len(files[k]) \in 1 .. Len(files[k])
    BY <1>21
  <2> QED
    BY <1>20, <1>21, <2>1, AcceptedIsCopy
<1>23. Shows(h, q, files[k])
  BY <1>17, <1>21, <1>22 DEF Shows
<1> QED
  BY <1>14, <1>17, <1>22, <1>23 DEF StandsWhole

\* A file that stands to its last line stands.
LEMMA WholeStands ==
  ASSUME CustodyInv, act = "audit", exit = 0, NEW n, StandsWhole(n)
  PROVE  Stands(n)
<1>1. CommandInv /\ ArgumentsInv /\ EvidenceIsFlawless
  BY AcceptedIsFlawless DEF CustodyInv, CommandInv
<1>2. PICK f \in Evidence : \E s \in Starts(f) : Shows(f, s, files[n])
  BY DEF StandsWhole
<1> PICK s \in Starts(f) : Shows(f, s, files[n])
  BY <1>2
<1>3. Flawless(f) /\ IsFile(f)
  BY <1>1, EvidenceFiles, EvidenceLies
<1>4. s \in Nat \ {0} /\ s \in SegmentLines(f.lines, s)
  BY <1>3, FlawlessIsChained
<1>5. Number(f.lines, s, s) = 1
  BY <1>4, NumberOn DEF SegmentLines
<1> QED
  BY <1>2, <1>4, <1>5 DEF Shows, Stands

\* In every state the invariant admits, an accepted replay left nothing out between two
\* signed lines it accepted.
LEMMA NothingMissing == CustodyInv => NothingIsMissingBetween
<1> SUFFICES ASSUME CustodyInv, act = "audit", exit = 0, target = Directory,
                    NEW n \in DOMAIN files, NEW m \in DOMAIN files, n < m,
                    Stands(n), Stands(m)
             PROVE  \A k \in n .. m - 1 : StandsWhole(k)
  BY DEF NothingIsMissingBetween
<1> DEFINE T == {k \in n .. m - 1 : ~StandsWhole(k)}
<1>1. ProducerInv
  BY DEF CustodyInv
<1>2. DOMAIN files = 1 .. Len(files) /\ n \in Nat \ {0} /\ m \in Nat \ {0}
  BY <1>1, FileIsWritten
<1>3. Len(files) \in Nat
  BY <1>1, FilesAreSeqs
<1>4. SUFFICES ASSUME T # {} PROVE FALSE
  OBVIOUS
<1>5. T \subseteq 0 .. m
  BY <1>2
<1>6. PICK k \in T : \A j \in T : j <= k
  BY <1>2, <1>4, <1>5, Greatest
<1>7. k \in n .. m - 1 /\ ~StandsWhole(k)
  OBVIOUS
<1>8. k \in DOMAIN files /\ k + 1 \in DOMAIN files /\ n <= k /\ k \in Nat
  BY <1>2, <1>3, <1>7
<1>9. Stands(k + 1)
  <2>1. CASE k + 1 = m
    BY <2>1
  <2>2. CASE k + 1 # m
    <3>1. k + 1 \in n .. m - 1 /\ ~(k + 1 <= k)
      BY <1>2, <1>7, <2>2
    <3>2. StandsWhole(k + 1)
      BY <1>6, <3>1
    <3> QED
      BY <3>2, WholeStands
  <2> QED
    BY <2>1, <2>2
<1> QED
  BY <1>7, <1>8, <1>9, StandingPredecessor

-----------------------------------------------------------------------------
(* What an anchor shows.                                                   *)

\* An anchor that was issued, and the commitment in it.
LEMMA Issued ==
  ASSUME ProducerInv, NEW k \in DOMAIN anchors
  PROVE  IsAnchor(anchors[k]) /\ Commits(anchors[k].record)
<1>1. AnchorsIssued
  BY DEF ProducerInv
<1>2. k \in 1 .. Len(anchors)
  BY <1>1, SeqShape DEF AnchorsIssued
<1> QED
  BY <1>1, <1>2, Zenon DEF AnchorsIssued

\* What is no anchor does not verify.
LEMMA NoAnchorFails == \A pub : ~Verify(pub, NoAnchor)
<1>1. NoAnchor.record.chain = ""
  BY Zenon DEF NoAnchor
<1> QED
  BY <1>1, Zenon DEF Verify, Validate

\* The owner of a fingerprint.
LEMMA EqualFingerprints ==
  ASSUME NEW id, NEW id2, Fingerprint(id) = Fingerprint(id2)
  PROVE  id = id2
  BY DEF Fingerprint

\* The commitment of sa, as id makes it.
LEMMA SignedAgain ==
  ASSUME NEW sa, IsAnchor(sa)
  PROVE  /\ sa = SignedBy(Identity, sa.record)
         /\ sa.record.keyFp = Fingerprint(Identity)
         /\ sa.signature.word = Sign(Identity, sa.record)
         /\ sa.signature.spelling = {}
<1> DEFINE a == sa.record
<1>1. /\ sa = [record |-> a, signature |-> Plain(Sign(Identity, a))]
      /\ a = [keyFp |-> Fingerprint(Identity), chain |-> ChainID, seq |-> a.seq,
              lineCount |-> a.lineCount, mac |-> a.mac, final |-> a.final,
              anchorSeq |-> a.anchorSeq, prevAnchor |-> a.prevAnchor]
  BY Zenon DEF IsAnchor
<1> HIDE DEF a
<1>2. [a EXCEPT !.keyFp = Fingerprint(Identity)] = a
  BY <1>1
<1>3. sa = SignedBy(Identity, a)
  BY <1>1, <1>2, Zenon DEF SignedBy
<1>4. a.keyFp = Fingerprint(Identity)
  BY <1>1
<1>5. /\ sa.signature.word = Sign(Identity, a) /\ sa.signature.spelling = {}
  BY <1>1 DEF Plain
<1> QED
  BY <1>3, <1>4, <1>5 DEF a

\* An offered anchor that verifies is the commitment of one that was issued, signed by the
\* owner of the key it verifies under: altered after it was signed it would not verify.
LEMMA OfferedIsIssued ==
  ASSUME ProducerInv, NEW sa \in Offered, NEW pub, Verify(pub, sa)
  PROVE  \E k \in DOMAIN anchors :
           /\ sa = SignedBy(pub, anchors[k].record)
           /\ sa.record.seq = anchors[k].record.seq
           /\ sa.record.lineCount = anchors[k].record.lineCount
           /\ sa.record.mac = anchors[k].record.mac
<1>1. /\ sa.record.keyFp = Fingerprint(pub)
      /\ sa.signature.word = Sign(pub, sa.record)
  BY Zenon DEF Verify
<1>2. sa # NoAnchor
  BY NoAnchorFails
<1>3. PICK k \in DOMAIN anchors :
        LET a == anchors[k]
        IN \/ sa = a
           \/ sa = [a EXCEPT !.record.lineCount = 1]
           \/ sa = [a EXCEPT !.signature.word = Sign("other", a.record)]
           \/ sa = SignedBy("other", a.record)
  BY <1>2, Zenon DEF Offered
<1> DEFINE a == anchors[k]
           r == a.record
<1>4. IsAnchor(a)
  BY Issued, Zenon
<1>5. /\ a = SignedBy(Identity, r) /\ r.keyFp = Fingerprint(Identity)
      /\ a.signature.word = Sign(Identity, r)
  BY <1>4, SignedAgain, Zenon
<1>6. /\ a = [record |-> r, signature |-> a.signature]
      /\ a.signature = [word |-> a.signature.word, spelling |-> a.signature.spelling]
      /\ r = [keyFp |-> r.keyFp, chain |-> r.chain, seq |-> r.seq,
              lineCount |-> r.lineCount, mac |-> r.mac, final |-> r.final,
              anchorSeq |-> r.anchorSeq, prevAnchor |-> r.prevAnchor]
  BY <1>4 DEF IsAnchor, Plain
<1> HIDE DEF a, r
<1>7. ASSUME sa = a PROVE sa = SignedBy(pub, r) /\ sa.record = r
  <2>1. pub = Identity
    BY <1>1, <1>5, <1>7, EqualFingerprints DEF r
  <2> QED
    BY <1>5, <1>7, <2>1 DEF r
<1>8. CASE sa = a
  BY <1>7, <1>8 DEF a, r
<1>9. CASE sa = [a EXCEPT !.record.lineCount = 1]
  <2>1. /\ sa.signature = a.signature /\ sa.record.lineCount = 1
        /\ sa.record = [r EXCEPT !.lineCount = 1]
    BY <1>6, <1>9 DEF r
  <2>2. Sign(Identity, r) = Sign(pub, sa.record)
    BY <1>1, <1>5, <2>1
  <2>3. r.lineCount = 1
    <3>1. r.lineCount = sa.record.lineCount
      BY <2>2 DEF Sign, CanonicalBytes
    <3> QED
      BY <2>1, <3>1
  <2>4. sa.record = r
    BY <1>6, <2>1, <2>3
  <2>5. sa = [record |-> sa.record, signature |-> sa.signature]
    BY <1>6, <1>9
  <2>6. sa = a
    BY <1>6, <2>1, <2>4, <2>5
  <2> QED
    BY <1>7, <2>6 DEF a, r
<1>10. CASE sa = [a EXCEPT !.signature.word = Sign("other", r)]
  <2>1. /\ sa.signature = [a.signature EXCEPT !.word = Sign("other", r)]
        /\ sa.signature.word = Sign("other", r) /\ sa.record = r
        /\ sa = [record |-> sa.record, signature |-> sa.signature]
    BY <1>6, <1>10 DEF r
  <2>2. Identity = pub
    BY <1>1, <1>5, <2>1, EqualFingerprints
  <2>3. sa.signature.word = a.signature.word
    BY <1>1, <1>5, <2>1, <2>2
  <2>4. sa.signature = a.signature
    BY <1>6, <2>1, <2>3
  <2>5. sa = a
    BY <1>6, <2>1, <2>4
  <2> QED
    BY <1>7, <2>5 DEF a, r
<1>11. CASE sa = SignedBy("other", r)
  <2> DEFINE own == [r EXCEPT !.keyFp = Fingerprint("other")]
  <2>1. sa.record = own
    BY <1>11 DEF SignedBy
  <2>2. /\ own.keyFp = Fingerprint("other") /\ own.seq = r.seq
        /\ own.lineCount = r.lineCount /\ own.mac = r.mac
    BY <1>6
  <2>3. pub = "other"
    BY <1>1, <2>1, <2>2, EqualFingerprints
  <2>4. sa = SignedBy(pub, r)
    BY <1>11, <2>3
  <2> QED
    BY <2>1, <2>2, <2>4 DEF a, r
<1>12. \/ sa = a \/ sa = [a EXCEPT !.record.lineCount = 1]
       \/ sa = [a EXCEPT !.signature.word = Sign("other", r)]
       \/ sa = SignedBy("other", r)
  BY <1>3, Zenon DEF a, r
<1> QED
  BY <1>8, <1>9, <1>10, <1>11, <1>12

\* Where every line is signed, lines are numbered one after the other.
LEMMA NumberOfAll ==
  ASSUME NEW L, NEW s \in Nat \ {0}, NEW i \in Nat, s <= i, \A j \in s .. i : Signed(L, j)
  PROVE  Number(L, s, i) = i - s + 1
<1>1. {j \in s .. i : Signed(L, j)} = s .. i
  OBVIOUS
<1>2. Cardinality(s .. i) = i - s + 1
  BY FS_Interval
<1> QED
  BY <1>1, <1>2 DEF Number

\* Every line of a flawless file without blank lines is signed, if unsigned ones are not
\* allowed.
LEMMA StrictIsSigned ==
  ASSUME NEW f, IsFile(f), Flawless(f), ~opt.allowUnsigned,
         NEW i \in DOMAIN f.lines, f.lines[i].form # "blank"
  PROVE  Signed(f.lines, i)
<1> DEFINE L == f.lines
<1>1. IsLine(L[i]) /\ ~Bad(L, opt, keyFor, i)
  BY Zenon DEF IsFile, Flawless
<1>2. i \in Nat
  BY FileShape
<1>3. SUFFICES ASSUME ~Signed(L, i) PROVE FALSE
  OBVIOUS
<1>4. ~Unsigned(L, i) /\ L[i].form # "badmac"
  BY <1>1, <1>2, <1>3, UnsignedBad
<1> QED
  BY <1>1, <1>3, <1>4 DEF IsLine, Forms, Unsigned, Signed

\* A committed line that carries the MAC that was signed: the lines up to there are those
\* that the producer had written.
LEMMA CommittedStands ==
  ASSUME CustodyInv, act = "audit", exit = 0, ~opt.allowUnsigned,
         NEW n \in DOMAIN files, NEW count \in 1 .. Len(files[n]),
         NEW l \in CommittedLines, l.mac = files[n][count].mac
  PROVE  PrefixStands(n - 1, count)
<1>1. /\ CommandInv /\ ArgumentsInv /\ ProducerInv /\ GoodListing(entries) /\ EvidenceIsFlawless
  BY AcceptedIsFlawless DEF CustodyInv, CustodyOfEvidence, CommandInv
<1>2. PICK f \in Evidence : \E i \in DOMAIN f.lines : Committed(f, i) /\ l = f.lines[i]
  BY Zenon DEF CommittedLines
<1> DEFINE L == f.lines
<1>3. PICK i \in DOMAIN L : Committed(f, i) /\ l = L[i]
  BY <1>2
<1>4. PICK e \in DOMAIN entries : /\ f = entries[e].file /\ entries[e].open
                                 /\ e \in IF target = Directory THEN Logs ELSE {target}
  BY <1>1, EvidenceLies
<1>5. IsFile(f) /\ Flawless(f)
  BY <1>1, EvidenceFiles, EvidenceLies
<1>6. Len(L) \in Nat /\ DOMAIN L = 1 .. Len(L) /\ i \in 1 .. Len(L)
  BY <1>5, FileShape
<1>7. Signed(L, i) /\ \E s \in 1 .. i : Governs(L, s, i)
  BY <1>3, Zenon DEF Committed
<1>8. PICK s \in 1 .. i : Governs(L, s, i)
  BY <1>7
<1>9. s \in Starts(f) /\ i \in SegmentLines(L, s) /\ s \in Nat \ {0} /\ i \in Nat /\ s <= i
  BY <1>6, <1>7, <1>8 DEF Governs, Starts, SegmentLines
<1>10. \A j \in DOMAIN L : Signed(L, j)
  <2>1. \A j \in DOMAIN L : L[j].form # "blank"
    BY <1>1, <1>4, Zenon DEF GoodListing, Sound, Traced
  <2> QED
    BY <1>5, <2>1, StrictIsSigned
<1>11. \A j \in s .. i : /\ j \in SegmentLines(L, s) /\ j <= i
                         /\ Number(L, s, j) = j - s + 1
  <2> SUFFICES ASSUME NEW j \in s .. i
               PROVE  j \in SegmentLines(L, s) /\ Number(L, s, j) = j - s + 1 /\ j <= i
    OBVIOUS
  <2>1. j \in s .. Len(L) /\ s <= j /\ j \in Nat /\ \A b \in s .. j : b \in DOMAIN L
    BY <1>6, <1>9
  <2>2. Governs(L, s, j)
    BY <1>8, <1>9 DEF Governs
  <2>3. Number(L, s, j) = j - s + 1
    BY <1>9, <1>10, <2>1, NumberOfAll
  <2> QED
    BY <1>10, <2>1, <2>2, <2>3, <1>6, <1>9 DEF SegmentLines
<1>12. files[n] \in Originals /\ Len(files[n]) \in Nat /\ n \in Nat
  BY <1>1, FileIsWritten
<1>13. /\ Number(L, s, i) = count
       /\ \A j \in SegmentLines(L, s) : j <= i => L[j] = files[n][Number(L, s, j)]
  BY <1>3, <1>9, <1>12, AcceptedIsCopy
<1>14. count = i - s + 1 /\ \A j \in s .. i : L[j] = files[n][j - s + 1]
  <2>1. i \in s .. i
    BY <1>9
  <2> QED
    BY <1>11, <1>13, <2>1
<1> DEFINE k == s - 1
<1>15. k \in 0 .. Len(L) - count /\ k + 1 = s /\ k + count = i
  BY <1>6, <1>9, <1>14
<1>16. SubSeq(L, k + 1, k + count) = SubSeq(files[n], 1, count)
  <2> DEFINE S == {L[j] : j \in s .. i}
  <2>1. \A j \in s .. i : L[j] \in S
    OBVIOUS
  <2>2. \A j \in 1 .. count : /\ j + s - 1 \in s .. i
                              /\ files[n][j] = L[j + s - 1]
    BY <1>9, <1>14
  <2>3. \A j \in 1 .. count : files[n][j] \in S
    BY <2>1, <2>2
  <2> HIDE DEF S
  <2>4. /\ SubSeq(L, s, i) \in Seq(S) /\ Len(SubSeq(L, s, i)) = i - s + 1
        /\ \A j \in 1 .. i - s + 1 : SubSeq(L, s, i)[j] = L[s + j - 1]
    BY <1>9, <2>1, SubSeqProperties
  <2>5. /\ SubSeq(files[n], 1, count) \in Seq(S) /\ Len(SubSeq(files[n], 1, count)) = count
        /\ \A j \in 1 .. count : SubSeq(files[n], 1, count)[j] = files[n][j]
    <3>1. 1 <= count /\ count \in Int /\ 1 \in Int /\ count - 1 + 1 = count
      OBVIOUS
    <3>2. /\ SubSeq(files[n], 1, count) \in Seq(S)
          /\ Len(SubSeq(files[n], 1, count)) = IF 1 <= count THEN count - 1 + 1 ELSE 0
          /\ \A j \in 1 .. count - 1 + 1 : SubSeq(files[n], 1, count)[j] = files[n][1 + j - 1]
      BY <2>3, <3>1, SubSeqProperties
    <3> QED
      BY <3>1, <3>2
  <2>6. \A j \in 1 .. count : SubSeq(L, s, i)[j] = SubSeq(files[n], 1, count)[j]
    <3> SUFFICES ASSUME NEW j \in 1 .. count
                 PROVE  SubSeq(L, s, i)[j] = SubSeq(files[n], 1, count)[j]
      OBVIOUS
    <3>1. s + j - 1 = j + s - 1
      BY <1>9
    <3> QED
      BY <1>14, <2>2, <2>4, <2>5, <3>1
  <2>7. SubSeq(L, s, i) = SubSeq(files[n], 1, count)
    BY <1>14, <2>4, <2>5, <2>6, SeqEqual
  <2> QED
    BY <1>15, <2>7
<1>17. n - 1 + 1 = n
  BY <1>12
<1>18. e \in {d \in IF target = Directory THEN Logs ELSE {target} : entries[d].open}
  BY <1>4
<1> HIDE DEF k
<1>19. /\ k \in 0 .. Len(entries[e].file.lines) - count
       /\ SubSeq(entries[e].file.lines, k + 1, k + count) = SubSeq(files[n - 1 + 1], 1, count)
  BY <1>4, <1>15, <1>16, <1>17
<1> QED
  BY <1>18, <1>19, Zenon DEF PrefixStands

\* In every state the invariant admits, an anchor that was accepted shows the original.
LEMMA AnchorShown == CustodyInv => AnchorShowsTheOriginal
<1> SUFFICES ASSUME CustodyInv, Audited("anchor"), exit = 0
             PROVE  /\ \E id \in LoadPublicKey(pubKey), k \in DOMAIN anchors :
                         anchor = SignedBy(id, anchors[k].record)
                    /\ PrefixStands(anchor.record.seq, anchor.record.lineCount)
  BY Zenon DEF AnchorShowsTheOriginal
<1>1. act = "audit" /\ exit # NoExit /\ command = "anchor"
  BY Zenon DEF Audited
<1>2. CommandInv /\ QuestionInv /\ ProducerInv
  BY <1>1 DEF CustodyInv
<1>3. anchor \in Offered /\ ~opt.allowUnsigned
  BY <1>1, <1>2, Zenon DEF QuestionInv
<1>4. AnchorVerdictIsFounded
  BY <1>2, Zenon DEF CommandInv
<1>5. verdict = "exact match"
  BY <1>1, <1>4, Zenon DEF AnchorVerdictIsFounded
<1>6. /\ \E pub \in LoadPublicKey(pubKey) : Verify(pub, anchor)
      /\ \E l \in CommittedLines : l.mac = anchor.record.mac
  BY <1>1, <1>4, <1>5, Zenon DEF AnchorVerdictIsFounded
<1>7. PICK pub \in LoadPublicKey(pubKey) : Verify(pub, anchor)
  BY <1>6
<1>8. PICK l \in CommittedLines : l.mac = anchor.record.mac
  BY <1>6
<1>9. PICK k \in DOMAIN anchors :
        /\ anchor = SignedBy(pub, anchors[k].record)
        /\ anchor.record.seq = anchors[k].record.seq
        /\ anchor.record.lineCount = anchors[k].record.lineCount
        /\ anchor.record.mac = anchors[k].record.mac
  BY <1>2, <1>3, <1>7, OfferedIsIssued
<1>10. Commits(anchors[k].record) /\ anchors[k].record.seq \in Nat
  <2>1. AnchorsIssued /\ k \in DOMAIN anchors
    BY <1>2 DEF ProducerInv
  <2>2. k \in 1 .. Len(anchors)
    BY <2>1, SeqShape DEF AnchorsIssued
  <2> QED
    BY <2>1, <2>2, Zenon DEF AnchorsIssued
<1> DEFINE n == anchor.record.seq + 1
           count == anchor.record.lineCount
<1>11. /\ n \in DOMAIN files /\ count \in 1 .. Len(files[n])
       /\ l.mac = files[n][count].mac /\ n - 1 = anchor.record.seq
  <2>1. DOMAIN files = 1 .. Len(files)
    BY <1>2, FilesAreSeqs, SeqShape
  <2> QED
    BY <1>8, <1>9, <1>10, <2>1 DEF Commits
<1>12. PrefixStands(n - 1, count)
  <2> HIDE DEF n, count
  <2> QED
    BY <1>1, <1>3, <1>11, CommittedStands
<1> QED
  BY <1>7, <1>9, <1>11, <1>12

-----------------------------------------------------------------------------
(* What is handed over.                                                    *)

\* The entry that holds a file that does not belong to the chain.
Stray(other) == LogEntry(other, IF other = "v1" THEN V1File ELSE SiblingFile)

\* An entry is one, whatever the file system says of it.
LEMMA EntryKept ==
  ASSUME NEW x, IsEntry(x), NEW y,
         \/ y = [x EXCEPT !.lstat = "error"] \/ y = [x EXCEPT !.lstat = "symlink"]
         \/ y = [x EXCEPT !.open = FALSE] \/ y = [x EXCEPT !.log = FALSE]
         \/ y = [x EXCEPT !.dir = TRUE]
  PROVE  IsEntry(y) /\ y.file.source = x.file.source /\ y.file.lines = x.file.lines
  BY DEF IsEntry

\* Three sequences one after the other.
LEMMA Joined ==
  ASSUME NEW T, NEW A \in Seq(T), NEW B \in Seq(T), NEW C \in Seq(T)
  PROVE  /\ (A \o B) \o C \in Seq(T)
         /\ Len((A \o B) \o C) = Len(A) + Len(B) + Len(C)
         /\ \A i \in 1 .. Len(A) : ((A \o B) \o C)[i] = A[i]
         /\ \A i \in 1 .. Len(B) : ((A \o B) \o C)[Len(A) + i] = B[i]
         /\ \A i \in 1 .. Len(C) : ((A \o B) \o C)[Len(A) + Len(B) + i] = C[i]
<1> DEFINE AB == A \o B
           D == AB \o C
<1>1. Len(A) \in Nat /\ Len(B) \in Nat /\ Len(C) \in Nat
  OBVIOUS
<1>2. /\ AB \in Seq(T) /\ Len(AB) = Len(A) + Len(B)
      /\ \A i \in 1 .. Len(A) + Len(B) : AB[i] = IF i <= Len(A) THEN A[i] ELSE B[i - Len(A)]
  BY ConcatProperties
<1> HIDE DEF AB
<1>3. /\ D \in Seq(T) /\ Len(D) = Len(AB) + Len(C)
      /\ \A i \in 1 .. Len(AB) + Len(C) : D[i] = IF i <= Len(AB) THEN AB[i] ELSE C[i - Len(AB)]
  <2>1. AB \in Seq(T)
    BY <1>2, Zenon
  <2> QED
    BY <2>1, ConcatProperties
<1> HIDE DEF D
<1>4. ASSUME NEW i \in 1 .. Len(A) PROVE D[i] = A[i]
  BY <1>1, <1>2, <1>3
<1>5. ASSUME NEW i \in 1 .. Len(B) PROVE D[Len(A) + i] = B[i]
  <2>1. PICK j : j = Len(A) + i
    OBVIOUS
  <2>2. j \in 1 .. Len(A) + Len(B) /\ ~(j <= Len(A)) /\ j - Len(A) = i /\ j <= Len(AB)
        /\ j \in 1 .. Len(AB) + Len(C)
    BY <1>1, <1>2, <2>1
  <2>3. AB[j] = B[i] /\ D[j] = AB[j]
    BY <1>2, <1>3, <2>2
  <2> QED
    BY <2>1, <2>3
<1>6. ASSUME NEW i \in 1 .. Len(C) PROVE D[Len(A) + Len(B) + i] = C[i]
  <2>1. PICK j : j = Len(A) + Len(B) + i
    OBVIOUS
  <2>2. j \in 1 .. Len(AB) + Len(C) /\ ~(j <= Len(AB)) /\ j - Len(AB) = i
    BY <1>1, <1>2, <2>1
  <2>3. D[j] = C[i]
    BY <1>3, <2>2
  <2> QED
    BY <2>1, <2>3
<1> QED
  BY <1>2, <1>3, <1>4, <1>5, <1>6 DEF AB, D

\* The listing, entry by entry.
LEMMA DeliveredShape ==
  ASSUME ProducerInv, Started, NEW other
  PROVE  LET D == Delivered(other)
             N == Len(files)
         IN /\ N \in Nat \ {0} /\ IsSeq(D)
            /\ Len(D) = IF other = "" THEN N + 3 ELSE N + 4
            /\ \A n \in 1 .. N : D[n] = LogEntry(Names[n], files[n])
            /\ D[N + 1] = [LogEntry("live", files[N]) EXCEPT !.lstat = "symlink"]
            /\ D[N + 2] = [LogEntry("logid.key", <<>>) EXCEPT !.log = FALSE]
            /\ D[N + 3] = [LogEntry("old.jsonl", <<>>) EXCEPT !.dir = TRUE]
            /\ other # "" => D[N + 4] = Stray(other)
<1> DEFINE N == Len(files)
           A == [n \in 1 .. N |-> LogEntry(Names[n], files[n])]
           b1 == [LogEntry("live", files[N]) EXCEPT !.lstat = "symlink"]
           b2 == [LogEntry("logid.key", <<>>) EXCEPT !.log = FALSE]
           b3 == [LogEntry("old.jsonl", <<>>) EXCEPT !.dir = TRUE]
           B == <<b1, b2, b3>>
           c == Stray(other)
           C == IF other = "" THEN <<>> ELSE <<c>>
           T == {LogEntry(Names[n], files[n]) : n \in 1 .. N} \cup {b1, b2, b3, c}
           m == IF other = "" THEN 0 ELSE 1
<1>1. N \in Nat \ {0}
  <2>1. Len(files) \in Nat /\ seq \in Nat /\ Len(files) = seq + 1
    BY FilesAreSeqs DEF ProducerInv, InStep, Started
  <2> QED
    BY <2>1
<1>2. Delivered(other) = (A \o B) \o C
  BY Zenon DEF Delivered, Stray
<1>3. \A n \in 1 .. N : LogEntry(Names[n], files[n]) \in T
  OBVIOUS
<1>4. /\ \A n \in 1 .. N : A[n] = LogEntry(Names[n], files[n]) /\ A[n] \in T
      /\ A = [n \in 1 .. N |-> A[n]]
  BY <1>3, Zenon
<1>5. b1 \in T /\ b2 \in T /\ b3 \in T /\ c \in T
  BY Zenon
<1>6. /\ other = "" => C = <<>> /\ m = 0
      /\ other # "" => C = <<c>> /\ m = 1
  BY Zenon
<1>7. m = 0 \/ m = 1
  BY <1>6, Zenon
<1>8. /\ m = 0 <=> other = ""
      /\ m = 1 <=> other # ""
  <2>1. 0 # 1
    OBVIOUS
  <2> QED
    BY <1>6, <2>1, Zenon
<1>9. /\ m = 0 => C = <<>>
      /\ m = 1 => C = <<c>>
  BY <1>6, <1>8, Zenon
<1> HIDE DEF A, b1, b2, b3, c, C, T, m, N
<1>10. A \in Seq(T) /\ Len(A) = N
  BY <1>1, <1>4
<1>11. B \in Seq(T) /\ Len(B) = 3 /\ B[1] = b1 /\ B[2] = b2 /\ B[3] = b3
  BY <1>5
<1>12. C \in Seq(T) /\ Len(C) = m /\ (m = 1 => C[1] = c)
  <2>1. ASSUME m = 0 PROVE C \in Seq(T) /\ Len(C) = m /\ (m = 1 => C[1] = c)
    <3>1. C = <<>>
      BY <1>9, <2>1, Zenon
    <3> QED
      BY <2>1, <3>1
  <2>2. ASSUME m = 1 PROVE C \in Seq(T) /\ Len(C) = m /\ (m = 1 => C[1] = c)
    <3>1. C = <<c>>
      BY <1>9, <2>2, Zenon
    <3> QED
      BY <1>5, <2>2, <3>1
  <2> QED
    BY <1>7, <2>1, <2>2, Zenon
<1> HIDE DEF B
<1> DEFINE D == (A \o B) \o C
<1>13. /\ D \in Seq(T) /\ Len(D) = Len(A) + Len(B) + Len(C)
       /\ \A i \in 1 .. Len(A) : D[i] = A[i]
       /\ \A i \in 1 .. Len(B) : D[Len(A) + i] = B[i]
       /\ \A i \in 1 .. Len(C) : D[Len(A) + Len(B) + i] = C[i]
  <2>1. A \in Seq(T) /\ B \in Seq(T) /\ C \in Seq(T)
    BY <1>10, <1>11, <1>12, Zenon
  <2> QED
    BY <2>1, Joined
<1> HIDE DEF D
<1>14. Len(D) = N + 3 + m
  BY <1>10, <1>11, <1>12, <1>13
<1>15. IsSeq(D)
  BY <1>13, SeqIsSeq
<1>17. /\ \A n \in 1 .. N : D[n] = A[n]
       /\ D[N + 1] = b1 /\ D[N + 2] = b2 /\ D[N + 3] = b3
  <2>1. \A n \in 1 .. N : D[n] = A[n]
    BY <1>10, <1>13, Zenon
  <2>2. \A i \in 1 .. 3 : D[N + i] = B[i]
    BY <1>10, <1>11, <1>13, Zenon
  <2> QED
    BY <1>11, <2>1, <2>2
<1>18. m = 1 => D[N + 4] = c
  <2>1. \A i \in 1 .. m : D[N + 3 + i] = C[i]
    BY <1>10, <1>11, <1>12, <1>13, Zenon
  <2> QED
    BY <1>1, <1>12, <2>1
<1>19. /\ m = 0 => Len(D) = N + 3
       /\ m = 1 => Len(D) = N + 4
  BY <1>1, <1>14
<1>20. Len(D) = IF other = "" THEN N + 3 ELSE N + 4
  BY <1>8, <1>19, Zenon
<1>21. other # "" => D[N + 4] = Stray(other)
  BY <1>8, <1>18, Zenon DEF c
<1>22. \A n \in 1 .. N : D[n] = LogEntry(Names[n], files[n])
  BY <1>4, <1>17, Zenon
<1>23. D = Delivered(other)
  BY <1>2 DEF D
<1> QED
  BY <1>1, <1>15, <1>17, <1>20, <1>21, <1>22, <1>23, Zenon DEF N, b1, b2, b3

\* What lies in the files that are handed over.
LEMMA DeliveredFiles ==
  ASSUME ProducerInv, Started, NEW other
  PROVE  LET D == Delivered(other)
             N == Len(files)
         IN /\ \A e \in DOMAIN D : D[e].file.lines = <<>> \/ D[e].file.lines \in Originals
            /\ \A n \in 1 .. N : D[n].file.source = Names[n]
            /\ D[N + 1].file.source = "live" /\ D[N + 2].file.source = "logid.key"
            /\ D[N + 3].file.source = "old.jsonl"
            /\ other # "" => D[N + 4].file.source = other
            /\ DOMAIN D = 1 .. Len(D) /\ Len(D) \in Nat
            /\ \A e \in DOMAIN D : IsEntry(D[e])
<1> DEFINE D == Delivered(other)
           N == Len(files)
<1>1. /\ N \in Nat \ {0} /\ IsSeq(D)
      /\ Len(D) = IF other = "" THEN N + 3 ELSE N + 4
      /\ \A n \in 1 .. N : D[n] = LogEntry(Names[n], files[n])
      /\ D[N + 1] = [LogEntry("live", files[N]) EXCEPT !.lstat = "symlink"]
      /\ D[N + 2] = [LogEntry("logid.key", <<>>) EXCEPT !.log = FALSE]
      /\ D[N + 3] = [LogEntry("old.jsonl", <<>>) EXCEPT !.dir = TRUE]
      /\ other # "" => D[N + 4] = Stray(other)
  BY DeliveredShape, Zenon
<1> HIDE DEF D
<1>2. DOMAIN files = 1 .. N
  BY FilesAreSeqs, SeqShape DEF N
<1> HIDE DEF N
<1>3. /\ D[N + 1].file.source = "live" /\ D[N + 2].file.source = "logid.key"
      /\ D[N + 3].file.source = "old.jsonl"
      /\ D[N + 1].file.lines = files[N] /\ D[N + 2].file.lines = <<>>
      /\ D[N + 3].file.lines = <<>>
      /\ IsEntry(D[N + 1]) /\ IsEntry(D[N + 2]) /\ IsEntry(D[N + 3])
  <2>1. /\ D[N + 1] = [LogEntry("live", files[N]) EXCEPT !.lstat = "symlink"]
        /\ D[N + 2] = [LogEntry("logid.key", <<>>) EXCEPT !.log = FALSE]
        /\ D[N + 3] = [LogEntry("old.jsonl", <<>>) EXCEPT !.dir = TRUE]
    BY <1>1, Zenon
  <2>2. \A source, lines : IsEntry(LogEntry(source, lines))
    BY DEF LogEntry, IsEntry
  <2>3. IsEntry(D[N + 1])
    <3>1. PICK x : x = LogEntry("live", files[N])
      OBVIOUS
    <3>2. PICK y : y = D[N + 1]
      OBVIOUS
    <3>3. IsEntry(x) /\ y = [x EXCEPT !.lstat = "symlink"]
      BY <2>1, <2>2, <3>1, <3>2, Zenon
    <3> QED
      BY <3>2, <3>3, EntryKept
  <2>4. IsEntry(D[N + 2]) /\ IsEntry(D[N + 3])
    <3>1. PICK x : x = LogEntry("logid.key", <<>>)
      OBVIOUS
    <3>2. PICK z : z = LogEntry("old.jsonl", <<>>)
      OBVIOUS
    <3>3. PICK y : y = D[N + 2]
      OBVIOUS
    <3>4. PICK u : u = D[N + 3]
      OBVIOUS
    <3>5. IsEntry(x) /\ y = [x EXCEPT !.log = FALSE]
      BY <2>1, <2>2, <3>1, <3>3, Zenon
    <3>6. IsEntry(z) /\ u = [z EXCEPT !.dir = TRUE]
      BY <2>1, <2>2, <3>2, <3>4, Zenon
    <3>7. IsEntry(y)
      BY <3>5, EntryKept
    <3>8. IsEntry(u)
      BY <3>6, EntryKept
    <3> QED
      BY <3>3, <3>4, <3>7, <3>8
  <2>5. /\ D[N + 1].file.source = "live" /\ D[N + 2].file.source = "logid.key"
        /\ D[N + 3].file.source = "old.jsonl"
        /\ D[N + 1].file.lines = files[N] /\ D[N + 2].file.lines = <<>>
        /\ D[N + 3].file.lines = <<>>
    BY <2>1 DEF LogEntry
  <2> QED
    BY <2>3, <2>4, <2>5, Zenon
<1>4. ASSUME NEW n \in 1 .. N
      PROVE  /\ D[n].file.source = Names[n] /\ D[n].file.lines = files[n]
             /\ IsEntry(D[n])
  <2>1. D[n] = LogEntry(Names[n], files[n])
    BY <1>1, Zenon
  <2> QED
    BY <2>1 DEF LogEntry, IsEntry
<1>5. other # "" => /\ D[N + 4].file.source = other
                    /\ D[N + 4].file.lines \in {V1File, SiblingFile}
                    /\ IsEntry(D[N + 4])
  <2>1. \A x : /\ LogEntry(other, x).file.source = other /\ LogEntry(other, x).file.lines = x
              /\ IsEntry(LogEntry(other, x))
    <3> TAKE x
    <3>1. PICK a : a = LogEntry(other, x)
      OBVIOUS
    <3> QED
      BY <3>1 DEF LogEntry, IsEntry
  <2>2. \E x \in {V1File, SiblingFile} : Stray(other) = LogEntry(other, x)
    BY Zenon DEF Stray
  <2>3. other # "" => D[N + 4] = Stray(other)
    BY <1>1, Zenon
  <2>4. /\ Stray(other).file.source = other /\ Stray(other).file.lines \in {V1File, SiblingFile}
        /\ IsEntry(Stray(other))
    BY <2>1, <2>2, Zenon
  <2> QED
    BY <2>3, <2>4, Zenon
<1>6. /\ other = "" => Len(D) = N + 3
      /\ other # "" => Len(D) = N + 4
  BY <1>1, Zenon
<1>7. N \in Nat \ {0} /\ DOMAIN D = 1 .. Len(D) /\ Len(D) \in Nat
  BY <1>1, SeqShape, Zenon
<1>8. ASSUME NEW e \in DOMAIN D
      PROVE  /\ D[e].file.lines = <<>> \/ D[e].file.lines \in Originals
             /\ IsEntry(D[e])
  <2> DEFINE strange == other # ""
  <2>1. e \in 1 .. Len(D) /\ (strange \/ Len(D) = N + 3) /\ (~strange \/ Len(D) = N + 4)
    BY <1>6, <1>7, Zenon
  <2>2. strange => D[N + 4].file.lines \in {V1File, SiblingFile} /\ IsEntry(D[N + 4])
    BY <1>5, Zenon
  <2> HIDE DEF strange
  <2>3. e \in 1 .. N \/ e = N + 1 \/ e = N + 2 \/ e = N + 3 \/ (e = N + 4 /\ strange)
    <3>1. PICK m : m = Len(D)
      OBVIOUS
    <3>2. e \in 1 .. m /\ (strange \/ m = N + 3) /\ (~strange \/ m = N + 4)
      BY <2>1, <3>1, Zenon
    <3> QED
      BY <1>7, <3>2
  <2> QED
    BY <1>2, <1>3, <1>4, <1>7, <2>2, <2>3 DEF Originals
<1> QED
  BY <1>3, <1>4, <1>5, <1>7, <1>8, Zenon DEF D, N

\* The lines of an original are lines of a file, none of them blank, with MACs of their own.
LEMMA OriginalLines ==
  ASSUME ProducerInv, NEW w \in Originals
  PROVE  /\ IsSeq(w) /\ DOMAIN w = 1 .. Len(w) /\ Len(w) \in Nat
         /\ \A i \in DOMAIN w : /\ IsLine(w[i]) /\ w[i].form # "blank"
                                /\ w[i].mac \in OriginalMACs
<1>1. PICK k : IsChain(w, k)
  BY OriginalIsChain
<1>2. IsSeq(w) /\ DOMAIN w = 1 .. Len(w) /\ Len(w) \in Nat
  BY <1>1, SeqShape DEF IsChain
<1>3. \A i \in DOMAIN w : IsLine(w[i]) /\ w[i].form # "blank"
  BY <1>1, <1>2 DEF IsChain
<1>4. \A i \in DOMAIN w : w[i].mac \in OriginalMACs
  BY DEF OriginalMACs
<1> QED
  BY <1>2, <1>3, <1>4

\* The names in the listing differ.
LEMMA DeliveredIsDistinct ==
  ASSUME ProducerInv, Started, NEW other \in DOMAIN MaxDamage
  PROVE  Distinct(Delivered(other))
<1> DEFINE D == Delivered(other)
           N == Len(files)
           strange == other # ""
<1>1. /\ \A e \in DOMAIN D : D[e].file.lines = <<>> \/ D[e].file.lines \in Originals
      /\ \A n \in 1 .. N : D[n].file.source = Names[n]
      /\ D[N + 1].file.source = "live" /\ D[N + 2].file.source = "logid.key"
      /\ D[N + 3].file.source = "old.jsonl"
      /\ other # "" => D[N + 4].file.source = other
      /\ DOMAIN D = 1 .. Len(D) /\ Len(D) \in Nat
      /\ \A e \in DOMAIN D : IsEntry(D[e])
  BY DeliveredFiles, Zenon
<1>2. /\ N \in Nat \ {0} /\ Len(D) = IF other = "" THEN N + 3 ELSE N + 4
  BY DeliveredShape, Zenon
<1>3. (strange \/ Len(D) = N + 3) /\ (~strange \/ Len(D) = N + 4)
  BY <1>2, Zenon
<1>4. other = "" \/ other = "sibling" \/ other = "v1"
  BY CustodyAssumption, Zenon
<1>5. strange => other = "sibling" \/ other = "v1"
  BY <1>4, Zenon
<1>6. \A n \in 1 .. MaxSeq + 1 :
        /\ Names[n] \notin {"live", "logid.key", "old.jsonl", "sibling", "v1", "copy"}
        /\ \A m \in 1 .. MaxSeq + 1 : Names[m] = Names[n] => m = n
  BY CustodyAssumption, Zenon
<1>7. MaxSeq \in Nat
  <2>1. MaxSeq \in Uint
    BY ProducerAssumption, Zenon
  <2> QED
    BY <2>1, WAssumption DEF Uint
<1>8. \A n \in 1 .. N : n \in 1 .. MaxSeq + 1
  <2>1. seq \in 0 .. MaxSeq /\ N = seq + 1
    BY DEF ProducerInv, InStep, Started
  <2> QED
    BY <1>7, <2>1
<1>9. ASSUME NEW n \in 1 .. N
      PROVE  /\ D[n].file.source \notin {"live", "logid.key", "old.jsonl", "sibling", "v1"}
             /\ \A m \in 1 .. N : D[m].file.source = D[n].file.source => m = n
  <2>1. /\ D[n].file.source = Names[n] /\ n \in 1 .. MaxSeq + 1
        /\ \A m \in 1 .. N : D[m].file.source = Names[m] /\ m \in 1 .. MaxSeq + 1
    BY <1>1, <1>8, Zenon
  <2>2. \A m \in 1 .. N : D[m].file.source = D[n].file.source => m = n
    BY <1>6, <2>1, Zenon
  <2>3. Names[n] \notin {"live", "logid.key", "old.jsonl", "sibling", "v1", "copy"}
    BY <1>6, <2>1, Zenon
  <2> HIDE DEF D, N
  <2>4. D[n].file.source \notin {"live", "logid.key", "old.jsonl", "sibling", "v1"}
    BY <2>1, <2>3, Zenon
  <2> QED
    BY <2>2, <2>4, Zenon
<1>10. strange => D[N + 4].file.source \in {"sibling", "v1"}
  BY <1>1, <1>5, Zenon
<1>11. /\ N \in Nat \ {0} /\ DOMAIN D = 1 .. Len(D) /\ Len(D) \in Nat
       /\ D[N + 1].file.source = "live" /\ D[N + 2].file.source = "logid.key"
       /\ D[N + 3].file.source = "old.jsonl"
  BY <1>1, <1>2, Zenon
<1> HIDE DEF D, strange, N
<1>12. \A e \in DOMAIN D : e \in 1 .. N \/ e = N + 1 \/ e = N + 2 \/ e = N + 3
                           \/ (strange /\ e = N + 4)
  <2> TAKE e \in DOMAIN D
  <2>1. PICK m : m = Len(D)
    OBVIOUS
  <2>2. e \in 1 .. m /\ (strange \/ m = N + 3) /\ (~strange \/ m = N + 4)
    BY <1>3, <1>11, <2>1, Zenon
  <2> QED
    BY <1>11, <2>2
<1>13. ASSUME NEW i \in DOMAIN D, NEW j \in DOMAIN D, D[i].file.source = D[j].file.source
       PROVE  i = j
  BY <1>9, <1>10, <1>11, <1>12, <1>13
<1> QED
  BY <1>13, Zenon DEF Distinct, D

\* What is handed over is a listing of unaltered files.
LEMMA DeliveredIsGood ==
  ASSUME ProducerInv, Started, NEW other \in DOMAIN MaxDamage
  PROVE  GoodListing(Delivered(other))
<1> DEFINE D == Delivered(other)
<1>1. IsSeq(D)
  BY DeliveredShape, Zenon
<1>2. /\ \A e \in DOMAIN D : D[e].file.lines = <<>> \/ D[e].file.lines \in Originals
      /\ \A e \in DOMAIN D : IsEntry(D[e])
  BY DeliveredFiles, Zenon
<1>3. Distinct(D)
  BY DeliveredIsDistinct, Zenon
<1> HIDE DEF D
<1>4. ASSUME NEW e \in DOMAIN D
      PROVE  Sound(D[e].file.lines)
  <2>1. CASE D[e].file.lines = <<>>
    <3>1. DOMAIN <<>> = {} /\ <<>> \in Seq({})
      OBVIOUS
    <3>2. IsSeq(<<>>)
      BY <3>1, SeqIsSeq
    <3> QED
      BY <2>1, <3>1, <3>2, Zenon DEF Sound
  <2>2. CASE D[e].file.lines \in Originals
    <3> DEFINE w == D[e].file.lines
    <3>1. /\ IsSeq(w)
          /\ \A i \in DOMAIN w : /\ IsLine(w[i]) /\ w[i].form # "blank"
                                 /\ w[i].mac \in OriginalMACs
      BY <2>2, OriginalLines
    <3> QED
      BY <3>1, Zenon DEF Sound, Traced
  <2> QED
    BY <1>2, <2>1, <2>2
<1> QED
  BY <1>1, <1>2, <1>3, <1>4, Zenon DEF GoodListing, D

-----------------------------------------------------------------------------
(* An intact log.                                                          *)

\* A file that is a chain under the key the command has for it is flawless, and claims
\* what its start line states and its last line closes with.
LEMMA ChainIsFlawless ==
  ASSUME NEW f, NEW k, IsChain(f.lines, k), f.err = FALSE,
         k # {}, KeyAt(f.lines, keyFor, 1) = k
  PROVE  /\ Flawless(f) /\ Starts(f) = {1}
         /\ Claim(f, 1).final = {Closing(f.lines)}
<1> DEFINE L == f.lines
<1>1. /\ Len(L) \in Nat /\ Len(L) > 0 /\ DOMAIN L = 1 .. Len(L) /\ 1 \in DOMAIN L
  BY SeqShape DEF IsChain
<1>2. \A i \in DOMAIN L :
        /\ IsLine(L[i]) /\ L[i].form = "signed" /\ L[i].hex = "lower"
        /\ L[i].text.start <=> i = 1
        /\ L[i].mac = HMAC(k, L[i].text, IF i = 1 THEN Zero ELSE L[i - 1].mac)
  BY <1>1, Zenon DEF IsChain
<1>3. \A i \in DOMAIN L : Signed(L, i) /\ (IsStart(L, i) <=> i = 1)
  BY <1>2 DEF Signed, IsStart
<1>4. \A i \in DOMAIN L : Governs(L, 1, i)
  BY <1>1, <1>3 DEF Governs
<1>5. Starts(f) = {1}
  BY <1>1, <1>3 DEF Starts
<1>6. \A i \in DOMAIN L : Chained(L, keyFor, 1, i)
  <2> SUFFICES ASSUME NEW i \in DOMAIN L PROVE Chained(L, keyFor, 1, i)
    OBVIOUS
  <2>1. Matches(L[i], HMAC(k, L[i].text, IF i = 1 THEN Zero ELSE L[i - 1].mac))
    BY <1>2, Zenon DEF Matches
  <2>2. CASE i = 1
    BY <2>1, <2>2, StartChained
  <2>3. CASE i # 1
    <3>1. i \in Nat /\ i - 1 \in 1 .. i - 1 /\ i - 1 \in DOMAIN L
      BY <1>1, <2>3
    <3>2. Precedes(L, i - 1, i)
      BY <1>3, <3>1 DEF Precedes
    <3>3. Chained(L, keyFor, 1, i) <=>
            Matches(L[i], HMAC(KeyAt(L, keyFor, 1), L[i].text, L[i - 1].mac))
      BY <3>1, <3>2, LineChained
    <3> QED
      BY <2>1, <2>3, <3>3
  <2> QED
    BY <2>2, <2>3
<1>7. \A i \in DOMAIN L : ~Bad(L, opt, keyFor, i)
  <2> SUFFICES ASSUME NEW i \in DOMAIN L PROVE ~Bad(L, opt, keyFor, i)
    OBVIOUS
  <2>1. Bad(L, opt, keyFor, i) <=>
          (IF KeyAt(L, keyFor, 1) = {} THEN 1 = i ELSE ~Chained(L, keyFor, 1, i))
    <3>1. i \in Nat
      BY <1>1
    <3> QED
      BY <1>3, <1>4, <3>1, SignedBad, Zenon
  <2> QED
    BY <1>6, <2>1
<1>8. Flawless(f)
  <2>1. L[1].form # "blank"
    BY <1>1, <1>2
  <2> QED
    BY <1>1, <1>7, <2>1, Zenon DEF Flawless
<1>9. SegmentLines(L, 1) = 1 .. Len(L)
  BY <1>1, <1>3, <1>4 DEF SegmentLines
<1>10. {a \in SegmentLines(L, 1) : \A b \in SegmentLines(L, 1) : b <= a} = {Len(L)}
  <2>1. PICK m : m = Len(L)
    OBVIOUS
  <2>2. m \in Nat /\ m > 0 /\ SegmentLines(L, 1) = 1 .. m
    BY <1>1, <1>9, <2>1
  <2>3. {a \in 1 .. m : \A b \in 1 .. m : b <= a} = {m}
    BY <2>2
  <2> QED
    BY <2>1, <2>2, <2>3, Zenon
<1>11. Claim(f, 1).final
         = {L[i].mac : i \in {a \in SegmentLines(L, 1) : \A b \in SegmentLines(L, 1) : b <= a}}
  BY Zenon DEF Claim
<1>12. Claim(f, 1).final = {L[Len(L)].mac}
  BY <1>10, <1>11
<1> QED
  BY <1>5, <1>8, <1>12 DEF Closing

\* The owner of the identity in the key file gets the keys that the files were written with.
LEMMA OwnersKey ==
  ASSUME CommandInv, QuestionInv, HaveKey,
         NEW path \in keyArg.identity, NEW g \in path.itself \cup path.inside,
         g.public = Identity
  PROVE  keyFor = ChainKeys(Identity, ChainIDs)
<1>1. keyFor \in KeySource(keyArg, ChainIDs)
  BY KeyIsGiven DEF CommandInv
<1>2. keyArg.keyFile = {}
  BY <1>1 DEF KeySource
<1>3. keyFor \in {ChainKeys(id, ChainIDs) : id \in UNION {OpenIdentity(p) : p \in keyArg.identity}}
  BY <1>1, <1>2 DEF KeySource
<1>4. PICK p \in keyArg.identity : \E id \in OpenIdentity(p) : keyFor = ChainKeys(id, ChainIDs)
  BY <1>3
<1>5. p = path /\ \A a, b \in path.itself \cup path.inside : a = b
  BY Zenon DEF QuestionInv
<1>6. PICK id \in OpenIdentity(path) : keyFor = ChainKeys(id, ChainIDs)
  BY <1>4, <1>5
<1>7. PICK h \in path.itself \cup path.inside : id = h.private /\ h.public = h.private
  BY DEF OpenIdentity
<1>8. h = g
  BY <1>5
<1> QED
  BY <1>6, <1>7, <1>8

\* A number that fits is read as it is.
LEMMA ParsesBack == ASSUME NEW n \in Uint PROVE ParseUint(n) = n
  BY WAssumption DEF Uint, ParseUint

\* The key of a chain's file number n.
LEMMA ChainKeyAt ==
  ASSUME keyFor = ChainKeys(Identity, ChainIDs), NEW L, NEW chain \in ChainIDs, NEW n \in Uint,
         chain # "", L[1].text.chain = chain, L[1].text.seq = n
  PROVE  /\ KeyAt(L, keyFor, 1) = DerivedKey(Identity, chain, n)
         /\ DerivedKey(Identity, chain, n) # {}
<1>1. ParseUint(n) = n
  BY ParsesBack, Zenon
<1>2. keyFor[<<chain, n>>] = DerivedKey(Identity, chain, n)
  BY DEF ChainKeys
<1>3. DerivedKey(Identity, chain, n) # {}
  BY Zenon DEF DerivedKey
<1> QED
  BY <1>1, <1>2, <1>3, Zenon DEF KeyAt

\* The log files of an intact directory.
LEMMA IntactFiles ==
  ASSUME ProducerInv, Started, entries = Delivered(stranger), stranger \in DOMAIN MaxDamage,
         stranger # "v1", keyFor = ChainKeys(Identity, ChainIDs), NEW e \in Logs
  PROVE  /\ entries[e].open /\ Flawless(entries[e].file) /\ Starts(entries[e].file) = {1}
         /\ \/ e \in DOMAIN files /\ entries[e].file.lines = files[e]
            \/ entries[e].file.lines = SiblingFile
         /\ LET c == Claim(entries[e].file, 1)
            IN \/ /\ e \in DOMAIN files
                  /\ c.v = "2" /\ c.chain = ChainID /\ c.seq = e - 1
                  /\ c.prev = Predecessor(e - 1) /\ c.final = {Closing(files[e])}
               \/ /\ e = Len(files) + 4
                  /\ c.v = "2" /\ c.chain = Sibling /\ c.seq = 0
<1> DEFINE N == Len(files)
           D == entries
           strange == stranger # ""
           f == D[e].file
<1>1. /\ N \in Nat \ {0} /\ IsSeq(D)
      /\ Len(D) = IF stranger = "" THEN N + 3 ELSE N + 4
      /\ \A n \in 1 .. N : D[n] = LogEntry(Names[n], files[n])
      /\ D[N + 1] = [LogEntry("live", files[N]) EXCEPT !.lstat = "symlink"]
      /\ D[N + 2] = [LogEntry("logid.key", <<>>) EXCEPT !.log = FALSE]
      /\ D[N + 3] = [LogEntry("old.jsonl", <<>>) EXCEPT !.dir = TRUE]
      /\ stranger # "" => D[N + 4] = Stray(stranger)
  BY DeliveredShape, Zenon
<1>2. (strange \/ Len(D) = N + 3) /\ (~strange \/ Len(D) = N + 4)
  BY <1>1, Zenon
<1>3. DOMAIN files = 1 .. N
  BY FilesAreSeqs, SeqShape
<1>4. e \in DOMAIN D /\ ~D[e].dir /\ D[e].log /\ D[e].lstat = "file"
  BY DEF Logs, IsLogFile
<1>5. /\ D[N + 1].lstat = "symlink" /\ D[N + 2].log = FALSE /\ D[N + 3].dir = TRUE
  <2>1. /\ D[N + 1] = [LogEntry("live", files[N]) EXCEPT !.lstat = "symlink"]
        /\ D[N + 2] = [LogEntry("logid.key", <<>>) EXCEPT !.log = FALSE]
        /\ D[N + 3] = [LogEntry("old.jsonl", <<>>) EXCEPT !.dir = TRUE]
    BY <1>1, Zenon
  <2> QED
    BY <2>1 DEF LogEntry
<1>6. e \in DOMAIN files \/ (e = N + 4 /\ strange)
  <2>1. IsSeq(D) /\ N \in Nat \ {0}
    BY <1>1, Zenon
  <2>2. e \in 1 .. Len(D)
    BY <1>4, <2>1, SeqShape
  <2> HIDE DEF strange
  <2>3. e \in 1 .. N \/ e = N + 1 \/ e = N + 2 \/ e = N + 3 \/ (e = N + 4 /\ strange)
    BY <1>2, <2>1, <2>2
  <2> QED
    BY <1>3, <1>4, <1>5, <2>3
<1>7. CASE e \in DOMAIN files
  <2>1. /\ e - 1 \in Uint /\ Written(files[e], e - 1, Predecessor(e - 1))
    BY <1>7, FileIsWritten
  <2>2. D[e] = LogEntry(Names[e], files[e])
    BY <1>1, <1>3, <1>7, Zenon
  <2>3. f.lines = files[e] /\ f.err = FALSE /\ D[e].open = TRUE
    BY <2>2 DEF LogEntry
  <2>4. files[e][1].text.chain = ChainID /\ files[e][1].text.seq = e - 1
    BY <2>1, Zenon DEF Written
  <2> DEFINE k == DerivedKey(Identity, ChainID, e - 1)
  <2>5. KeyAt(files[e], keyFor, 1) = k /\ k # {}
    <3>1. ChainID \in ChainIDs /\ ChainID # ""
      BY CustodyAssumption, ProducerAssumption, Zenon
    <3> QED
      BY <2>1, <2>4, <3>1, ChainKeyAt, Zenon
  <2>6. IsChain(files[e], k)
    BY <2>1, WrittenIsChain
  <2>7. Flawless(f) /\ Starts(f) = {1} /\ Claim(f, 1).final = {Closing(f.lines)}
    <3> HIDE DEF k, f
    <3> QED
      BY <2>3, <2>5, <2>6, ChainIsFlawless
  <2>8. LET c == Claim(f, 1)
        IN c.v = "2" /\ c.chain = ChainID /\ c.seq = e - 1 /\ c.prev = Predecessor(e - 1)
    BY <1>7, <2>3, StandingClaim
  <2> QED
    BY <1>7, <2>3, <2>7, <2>8, Zenon
<1>8. CASE e = N + 4 /\ strange
  <2>1. stranger = "" \/ stranger = "sibling" \/ stranger = "v1"
    BY CustodyAssumption, Zenon
  <2>2. stranger = "sibling" /\ D[e] = Stray(stranger)
    BY <1>1, <1>8, <2>1, Zenon
  <2>3. "sibling" # "v1"
    OBVIOUS
  <2>4. D[e] = LogEntry(stranger, SiblingFile)
    BY <2>2, <2>3, Zenon DEF Stray
  <2>5. f.lines = SiblingFile /\ f.err = FALSE /\ D[e].open = TRUE
    BY <2>4 DEF LogEntry
  <2> DEFINE k == DerivedKey(Identity, Sibling, 0)
  <2>6. /\ IsChain(SiblingFile, k)
        /\ SiblingFile[1].text.v = "2" /\ SiblingFile[1].text.chain = Sibling
        /\ SiblingFile[1].text.seq = 0
    BY SiblingIsChain, Zenon
  <2>7. 0 \in Uint /\ ParseUint(0) = 0
    BY WAssumption DEF Uint, ParseUint
  <2>8. KeyAt(SiblingFile, keyFor, 1) = k /\ k # {}
    <3>1. Sibling \in ChainIDs /\ Sibling # ""
      BY CustodyAssumption, Zenon
    <3> QED
      BY <2>6, <2>7, <3>1, ChainKeyAt, Zenon
  <2>9. Flawless(f) /\ Starts(f) = {1}
    <3> HIDE DEF k, f
    <3> QED
      BY <2>5, <2>6, <2>8, ChainIsFlawless
  <2>10. LET c == Claim(f, 1) IN c.v = "2" /\ c.chain = Sibling /\ c.seq = 0
    BY <2>5, <2>6, <2>7, Zenon DEF Claim
  <2> QED
    BY <1>8, <2>5, <2>9, <2>10, Zenon
<1> QED
  BY <1>6, <1>7, <1>8

\* The files of the chain are log files.
LEMMA IntactLogs ==
  ASSUME ProducerInv, Started, entries = Delivered(stranger)
  PROVE  DOMAIN files \subseteq Logs /\ Logs # {}
<1> DEFINE N == Len(files)
           D == entries
<1>1. /\ N \in Nat \ {0} /\ IsSeq(D)
      /\ Len(D) = IF stranger = "" THEN N + 3 ELSE N + 4
      /\ \A n \in 1 .. N : D[n] = LogEntry(Names[n], files[n])
  BY DeliveredShape, Zenon
<1>2. Len(D) = N + 3 \/ Len(D) = N + 4
  BY <1>1, Zenon
<1>3. N \in Nat \ {0} /\ IsSeq(D)
  BY <1>1, Zenon
<1>4. \A n \in 1 .. N : n \in DOMAIN D
  BY <1>2, <1>3, SeqShape
<1>5. ASSUME NEW n \in 1 .. N PROVE ~D[n].dir /\ D[n].log /\ D[n].lstat = "file"
  <2>1. D[n] = LogEntry(Names[n], files[n])
    BY <1>1, Zenon
  <2> QED
    BY <2>1 DEF LogEntry
<1>6. DOMAIN files = 1 .. N
  BY FilesAreSeqs, SeqShape
<1>7. 1 .. N \subseteq Logs
  BY <1>4, <1>5 DEF Logs, IsLogFile
<1> QED
  BY <1>3, <1>6, <1>7

\* An intact directory is one unbroken run for each of its chains.
LEMMA IntactIsUnbroken ==
  ASSUME ProducerInv, Started, entries = Delivered(stranger), stranger \in DOMAIN MaxDamage,
         stranger # "v1", keyFor = ChainKeys(Identity, ChainIDs)
  PROVE  AllUnbroken(AllClaims)
<1> DEFINE C(e) == Claim(entries[e].file, 1)
           OfFile(e) == /\ e \in DOMAIN files
                        /\ C(e).v = "2" /\ C(e).chain = ChainID /\ C(e).seq = e - 1
                        /\ C(e).prev = Predecessor(e - 1)
                        /\ C(e).final = {Closing(files[e])}
           OfSibling(e) == /\ e = Len(files) + 4
                           /\ C(e).v = "2" /\ C(e).chain = Sibling /\ C(e).seq = 0
<1>1. \A e \in Logs : OfFile(e) \/ OfSibling(e)
  BY IntactFiles, Zenon
<1>2. /\ \A c \in AllClaims : \E e \in Logs : c = C(e)
      /\ \A e \in Logs : C(e) \in AllClaims
  <2>1. \A e \in Logs : Claims(entries[e].file) = {C(e)}
    <3> SUFFICES ASSUME NEW e \in Logs PROVE Claims(entries[e].file) = {C(e)}
      OBVIOUS
    <3>1. Starts(entries[e].file) = {1}
      BY IntactFiles, Zenon
    <3>2. Claims(entries[e].file) = {Claim(entries[e].file, s) : s \in Starts(entries[e].file)}
      BY DEF Claims, Starts
    <3> QED
      BY <3>1, <3>2
  <2>2. AllClaims = UNION {Claims(entries[e].file) : e \in Logs}
    BY DEF AllClaims, LogFiles
  <2> HIDE DEF C
  <2>3. \A c : c \in AllClaims <=> \E e \in Logs : c \in Claims(entries[e].file)
    BY <2>2, Zenon
  <2>4. ASSUME NEW c, NEW e \in Logs PROVE c \in Claims(entries[e].file) <=> c = C(e)
    BY <2>1
  <2> QED
    BY <2>3, <2>4, Zenon
<1>3. /\ \A n \in DOMAIN files : n \in Nat \ {0} /\ n \in Logs
      /\ DOMAIN files = 1 .. Len(files) /\ Len(files) \in Nat
  BY FileIsWritten, IntactLogs, FilesAreSeqs, SeqShape
<1>4. Sibling # ChainID
  BY CustodyAssumption, Zenon
<1> SUFFICES ASSUME NEW id PROVE Unbroken(OfChain(AllClaims, id))
  BY Zenon DEF AllUnbroken
<1> DEFINE S == OfChain(AllClaims, id)
<1> HIDE DEF C
<1>5. \A c \in S : c.chain = id /\ \E e \in Logs : c = C(e)
  BY <1>2, Zenon DEF OfChain, Linked
<1>6. \A e \in Logs : C(e).chain = id => C(e) \in S
  <2> SUFFICES ASSUME NEW e \in Logs, C(e).chain = id PROVE C(e) \in S
    OBVIOUS
  <2>1. C(e).v = "2"
    BY <1>1, Zenon
  <2>2. C(e).v # ""
    BY <2>1
  <2> QED
    BY <1>2, <2>2, Zenon DEF OfChain, Linked
<1> HIDE DEF S, OfFile, OfSibling
<1>7. ASSUME NEW c \in S, NEW d \in S, c.seq = d.seq PROVE c = d
  <2>1. PICK e \in Logs : c = C(e)
    BY <1>5
  <2>2. PICK g \in Logs : d = C(g)
    BY <1>5
  <2>3. C(e).chain = C(g).chain
    BY <1>5, <2>1, <2>2
  <2>4. CASE OfFile(e)
    <3>1. OfFile(g)
      BY <1>1, <1>4, <2>3, <2>4 DEF OfFile, OfSibling
    <3>2. e = g
      BY <1>3, <1>7, <2>1, <2>2, <2>4, <3>1 DEF OfFile
    <3> QED
      BY <2>1, <2>2, <3>2
  <2>5. CASE OfSibling(e)
    <3>1. OfSibling(g)
      BY <1>1, <1>4, <2>3, <2>5 DEF OfFile, OfSibling
    <3> QED
      BY <2>1, <2>2, <2>5, <3>1 DEF OfSibling
  <2> QED
    BY <1>1, <2>4, <2>5
<1>8. ASSUME NEW c \in S, NEW d \in S, d.seq < c.seq
      PROVE  \E p \in S : c.seq = p.seq + 1 /\ c.prev = p.final
  <2>1. PICK e \in Logs : c = C(e)
    BY <1>5
  <2>2. PICK g \in Logs : d = C(g)
    BY <1>5
  <2>3. C(e).chain = C(g).chain
    BY <1>5, <2>1, <2>2
  <2>4. OfFile(e) /\ OfFile(g)
    <3>1. ~(OfSibling(e) /\ OfSibling(g))
      BY <1>8, <2>1, <2>2 DEF OfSibling
    <3> QED
      BY <1>1, <1>4, <2>3, <3>1 DEF OfFile, OfSibling
  <2>5. e - 1 \in DOMAIN files /\ e \in Nat
    BY <1>3, <1>8, <2>1, <2>2, <2>4 DEF OfFile
  <2>6. e - 1 \in Logs /\ OfFile(e - 1)
    <3>1. e - 1 \in Logs /\ e - 1 # Len(files) + 4
      BY <1>3, <2>5
    <3> QED
      BY <1>1, <3>1 DEF OfSibling
  <2>7. /\ C(e).chain = ChainID /\ C(e).seq = e - 1 /\ C(e).prev = Predecessor(e - 1)
        /\ C(e - 1).chain = ChainID /\ C(e - 1).seq = (e - 1) - 1
        /\ C(e - 1).final = {Closing(files[e - 1])}
    BY <2>4, <2>6, Zenon DEF OfFile
  <2>8. C(e - 1) \in S
    BY <1>5, <1>6, <2>1, <2>6, <2>7
  <2>9. Predecessor(e - 1) = {Closing(files[e - 1])}
    BY <1>3, <2>5 DEF Predecessor
  <2>10. C(e).seq = C(e - 1).seq + 1 /\ C(e).prev = C(e - 1).final
    <3>1. PICK h : h = e - 1
      OBVIOUS
    <3>2. C(e).seq = h /\ C(h).seq = h - 1 /\ h \in Int
      BY <2>5, <2>7, <3>1
    <3>3. C(e).seq = C(h).seq + 1
      BY <3>2
    <3>4. C(e).prev = C(e - 1).final
      BY <2>7, <2>9, Zenon
    <3> QED
      BY <3>1, <3>3, <3>4
  <2> QED
    BY <2>1, <2>8, <2>10
<1>9. ASSUME NEW c \in S PROVE c.seq = 0 \/ c.prev # {}
  <2>1. PICK e \in Logs : c = C(e)
    BY <1>5
  <2>2. CASE OfFile(e)
    <3>1. e \in Nat /\ c.seq = e - 1 /\ c.prev = Predecessor(e - 1)
      BY <1>3, <2>1, <2>2 DEF OfFile
    <3> QED
      BY <3>1 DEF Predecessor
  <2>3. CASE OfSibling(e)
    BY <2>1, <2>3 DEF OfSibling
  <2> QED
    BY <1>1, <2>2, <2>3
<1> QED
  BY <1>7, <1>8, <1>9, Zenon DEF Unbroken, S

\* In every state the invariant admits, an intact log is not accused.
LEMMA NotAccused == CustodyInv => IntactLogIsNotAccused
<1> SUFFICES ASSUME CustodyInv, Audited("verify"), damage = <<>>, stranger # "v1", exit = 1,
                    NEW path \in keyArg.identity, NEW g \in path.itself \cup path.inside,
                    g.public = Identity
             PROVE  FALSE
  BY Zenon DEF IntactLogIsNotAccused
<1>1. act = "audit" /\ exit # NoExit /\ command = "verify"
  BY Zenon DEF Audited
<1>2. CommandInv /\ ArgumentsInv /\ QuestionInv /\ ProducerInv /\ CustodyOfEvidence
  BY <1>1 DEF CustodyInv, CommandInv
<1>3. Started /\ stranger \in DOMAIN MaxDamage /\ entries = Delivered(stranger)
  BY <1>2, Zenon DEF CustodyOfEvidence
<1>4. HaveKey
  <2>1. stage = "returned"
    BY <1>1, <1>2, Zenon DEF QuestionInv
  <2> QED
    BY <1>2, <2>1 DEF ArgumentsInv
<1>5. keyFor = ChainKeys(Identity, ChainIDs) /\ keyFor \in KeySource(keyArg, ChainIDs)
  BY <1>2, <1>4, OwnersKey, KeyIsGiven
<1>6. \A e \in Logs : entries[e].open /\ Flawless(entries[e].file)
  BY <1>2, <1>3, <1>5, IntactFiles, Zenon
<1>7. EvidenceIsFlawless
  <2>1. CASE target = Directory
    <3>1. LogFiles # {} /\ \A e \in LogFiles : e.open /\ Flawless(e.file)
      BY <1>2, <1>3, <1>6, IntactLogs DEF LogFiles
    <3>2. AllUnbroken(AllClaims)
      BY <1>2, <1>3, <1>5, IntactIsUnbroken, Zenon
    <3> QED
      BY <1>5, <2>1, <3>1, <3>2, Zenon DEF EvidenceIsFlawless
  <2>2. CASE target # Directory
    <3>1. target \in DOMAIN entries /\ IsLogFile(entries[target])
      BY <1>2, <2>2 DEF QuestionInv, ArgumentsInv
    <3>2. target \in Logs
      BY <3>1 DEF Logs
    <3> QED
      BY <1>5, <1>6, <2>2, <3>2, Zenon DEF EvidenceIsFlawless
  <2> QED
    BY <2>1, <2>2
<1>8. exit = 0
  <2>1. VerifyExitsZeroExactlyIfFlawless
    BY <1>2, Zenon DEF CommandInv
  <2> QED
    BY <1>1, <1>7, <2>1, Zenon DEF VerifyExitsZeroExactlyIfFlawless
<1> QED
  BY <1>8

-----------------------------------------------------------------------------
(* The damage.                                                             *)

\* A text with another message, or another predecessor, is one.
LEMMA TextAltered ==
  ASSUME NEW t, IsText(t), NEW b, NEW u,
         u = [t EXCEPT !.body = b] \/ u = [t EXCEPT !.prev = b]
  PROVE  IsText(u)
<1>1. t = [start |-> t.start, v |-> t.v, chain |-> t.chain, seq |-> t.seq, prev |-> t.prev,
           body |-> t.body]
  BY Zenon DEF IsText
<1>2. /\ u = [start |-> u.start, v |-> u.v, chain |-> u.chain, seq |-> u.seq, prev |-> u.prev,
              body |-> u.body]
      /\ u.start = t.start /\ u.v = t.v /\ u.seq = t.seq
  BY <1>1
<1> QED
  BY <1>2, Zenon DEF IsText

\* A line with another text, or another spelling of its MAC, is one.
LEMMA LineAltered ==
  ASSUME NEW l, IsLine(l), NEW t, IsText(t), NEW u,
         u = [l EXCEPT !.text = t] \/ u = [l EXCEPT !.hex = "upper"]
  PROVE  IsLine(u) /\ u.form = l.form /\ u.mac = l.mac
<1>1. l = [form |-> l.form, text |-> l.text, mac |-> l.mac, hex |-> l.hex]
  BY Zenon DEF IsLine
<1>2. /\ u = [form |-> u.form, text |-> u.text, mac |-> u.mac, hex |-> u.hex]
      /\ u.form = l.form /\ (u.text = t \/ u.text = l.text)
      /\ u.hex = "upper" \/ u.hex = l.hex
      /\ u.mac = l.mac
  BY <1>1
<1>3. "upper" \in HexForms
  BY Zenon DEF HexForms
<1> QED
  BY <1>2, <1>3, Zenon DEF IsLine

\* A line that lost its MAC.
LEMMA StrippedIsGood == Traced(Stripped)
<1> DEFINE t == [start |-> FALSE, v |-> "", chain |-> "", seq |-> 0, prev |-> {}, body |-> 0]
<1>1. IsText(t)
  BY OrdinaryText, Zenon
<1>2. Stripped = [form |-> "nomac", text |-> t, mac |-> Zero, hex |-> "lower"]
  BY Zenon DEF Stripped
<1> HIDE DEF t
<1>3. IsLine(Stripped) /\ Stripped.form # "blank" /\ Stripped.mac = Zero
  BY <1>1, <1>2 DEF IsLine, Forms, HexForms
<1>4. Zero \in OriginalMACs
  BY Zenon DEF OriginalMACs
<1> QED
  BY <1>3, <1>4, Zenon DEF Traced

\* What can be done to a sequence without changing its elements, but for one.
LEMMA Rearranged ==
  ASSUME NEW T, NEW ls \in Seq(T), NEW i \in 1 .. Len(ls), NEW x \in T
  PROVE  /\ [ls EXCEPT ![i] = x] \in Seq(T)
         /\ SubSeq(ls, 1, i - 1) \in Seq(T) /\ RemoveAt(ls, i) \in Seq(T)
         /\ InsertAt(ls, i, x) \in Seq(T) /\ InsertAt(ls, i + 1, x) \in Seq(T)
         /\ [ls EXCEPT ![i] = ls[(i % Len(ls)) + 1], ![(i % Len(ls)) + 1] = ls[i]] \in Seq(T)
<1>1. /\ Len(ls) \in Nat \ {0} /\ i \in Nat \ {0} /\ i <= Len(ls)
      /\ \A j \in 1 .. Len(ls) : ls[j] \in T
  OBVIOUS
<1>2. [ls EXCEPT ![i] = x] \in Seq(T)
  BY ExceptSeq
<1>3. ASSUME NEW a \in Nat \ {0}, NEW b \in Int, b <= Len(ls) PROVE SubSeq(ls, a, b) \in Seq(T)
  <2>1. \A j \in a .. b : ls[j] \in T
    BY <1>1, <1>3
  <2> QED
    BY <1>3, <2>1, SubSeqProperties
<1>4. SubSeq(ls, 1, i - 1) \in Seq(T) /\ SubSeq(ls, i + 1, Len(ls)) \in Seq(T)
      /\ SubSeq(ls, i, Len(ls)) \in Seq(T) /\ SubSeq(ls, 1, i) \in Seq(T)
  BY <1>1, <1>3
<1>5. \A a, b \in Seq(T) : a \o b \in Seq(T)
  BY ConcatProperties
<1>6. RemoveAt(ls, i) \in Seq(T)
  BY <1>4, <1>5, Zenon DEF RemoveAt
<1>7. <<x>> \in Seq(T)
  OBVIOUS
<1>8. InsertAt(ls, i, x) \in Seq(T)
  BY <1>4, <1>5, <1>7, Zenon DEF InsertAt
<1>9. InsertAt(ls, i + 1, x) \in Seq(T)
  <2>1. (i + 1) - 1 = i
    BY <1>1
  <2>2. InsertAt(ls, i + 1, x) = SubSeq(ls, 1, i) \o <<x>> \o SubSeq(ls, i + 1, Len(ls))
    BY <2>1, Zenon DEF InsertAt
  <2>3. SubSeq(ls, 1, i) \o <<x>> \in Seq(T)
    BY <1>4, <1>5, <1>7, Zenon
  <2> QED
    BY <1>4, <1>5, <2>2, <2>3
<1>10. [ls EXCEPT ![i] = ls[(i % Len(ls)) + 1], ![(i % Len(ls)) + 1] = ls[i]] \in Seq(T)
  <2>1. PICK j : j = (i % Len(ls)) + 1
    OBVIOUS
  <2>2. j \in 1 .. Len(ls)
    BY <1>1, <2>1
  <2>3. ls[j] \in T /\ ls[i] \in T
    BY <1>1, <2>2
  <2>4. PICK ks : ks = [ls EXCEPT ![i] = ls[j]]
    OBVIOUS
  <2>5. ks \in Seq(T) /\ Len(ks) = Len(ls)
    BY <2>3, <2>4, ExceptSeq
  <2>6. [ks EXCEPT ![j] = ls[i]] \in Seq(T)
    BY <2>2, <2>3, <2>5, ExceptSeq
  <2> QED
    BY <2>1, <2>4, <2>6
<1> QED
  BY <1>2, <1>4, <1>6, <1>8, <1>9, <1>10

\* A sequence of good lines is sound.
LEMMA SoundSeq == ASSUME NEW T, \A l \in T : Traced(l), NEW ls \in Seq(T) PROVE Sound(ls)
<1>1. IsSeq(ls)
  BY SeqIsSeq
<1>2. \A i \in DOMAIN ls : ls[i] \in T
  OBVIOUS
<1> QED
  BY <1>1, <1>2, Zenon DEF Sound

\* Damage to the lines of a file leaves lines that were there, or that nobody signed.
LEMMA DamagedIsSound ==
  ASSUME NEW ls, Sound(ls), NEW i \in 1 .. Len(ls), NEW kind \in LineDamages
  PROVE  Sound(Damaged(kind, ls, i))
<1> DEFINE t == [ls[i].text EXCEPT !.body = Altered(ls[i].text.body)]
           edited == [ls[i] EXCEPT !.text = t]
           upper == [ls[i] EXCEPT !.hex = "upper"]
           S == {ls[j] : j \in DOMAIN ls}
           T == S \cup {Stripped, edited, upper}
<1>1. IsSeq(ls) /\ i \in DOMAIN ls /\ ls[i] \in S
  BY SeqShape DEF Sound
<1>2. \A l \in S : Traced(l)
  BY DEF Sound
<1>3. IsLine(ls[i]) /\ ls[i].form # "blank" /\ (NotRemade => ls[i].mac \in OriginalMACs)
  BY <1>1, <1>2, Zenon DEF Traced
<1>4. IsText(t)
  <2>1. IsText(ls[i].text)
    BY <1>3, Zenon DEF IsLine
  <2> QED
    BY <2>1, TextAltered
<1> HIDE DEF S, t
<1>5. Traced(edited)
  <2>1. IsLine(edited) /\ edited.form = ls[i].form /\ edited.mac = ls[i].mac
    BY <1>3, <1>4, LineAltered
  <2> QED
    BY <1>3, <2>1 DEF Traced
<1>6. Traced(upper)
  <2>1. IsLine(upper) /\ upper.form = ls[i].form /\ upper.mac = ls[i].mac
    BY <1>3, <1>4, LineAltered
  <2> QED
    BY <1>3, <2>1 DEF Traced
<1>7. ls \in Seq(S)
  BY <1>1 DEF IsSeq, S
<1>8. \A l \in T : Traced(l)
  <2> HIDE DEF edited, upper
  <2> QED
    BY <1>2, <1>5, <1>6, StrippedIsGood
<1>9. edited = [ls[i] EXCEPT !.text.body = Altered(@)]
  BY Zenon DEF t
<1> HIDE DEF edited, upper
<1>10. ls \in Seq(T) /\ ls[i] \in T /\ Stripped \in T /\ edited \in T /\ upper \in T
  <2>1. S \subseteq T
    OBVIOUS
  <2>2. ls \in Seq(T)
    <3> HIDE DEF T
    <3> QED
      BY <1>7, <2>1, SeqMonotonic
  <2> QED
    BY <1>1, <2>2
<1> HIDE DEF T
<1>11. \A x \in T :
         /\ [ls EXCEPT ![i] = x] \in Seq(T)
         /\ SubSeq(ls, 1, i - 1) \in Seq(T) /\ RemoveAt(ls, i) \in Seq(T)
         /\ InsertAt(ls, i, x) \in Seq(T) /\ InsertAt(ls, i + 1, x) \in Seq(T)
         /\ [ls EXCEPT ![i] = ls[(i % Len(ls)) + 1], ![(i % Len(ls)) + 1] = ls[i]] \in Seq(T)
  BY <1>10, Rearranged
<1>12. Damaged(kind, ls, i) \in Seq(T)
  <2>1. CASE kind = "edit"
    <3>1. Damaged(kind, ls, i) = [ls EXCEPT ![i] = edited]
      BY <1>9, <2>1 DEF Damaged
    <3> QED
      BY <1>10, <1>11, <3>1, Zenon
  <2>2. CASE kind = "drop"
    <3>1. Damaged(kind, ls, i) = RemoveAt(ls, i)
      BY <2>2 DEF Damaged
    <3> QED
      BY <1>10, <1>11, <3>1, Zenon
  <2>3. CASE kind = "swap"
    <3>1. Damaged(kind, ls, i)
            = [ls EXCEPT ![i] = ls[(i % Len(ls)) + 1], ![(i % Len(ls)) + 1] = ls[i]]
      BY <2>3 DEF Damaged
    <3> QED
      BY <1>10, <1>11, <3>1, Zenon
  <2>4. CASE kind = "double"
    <3>1. Damaged(kind, ls, i) = InsertAt(ls, i, ls[i])
      BY <2>4 DEF Damaged
    <3> QED
      BY <1>10, <1>11, <3>1, Zenon
  <2>5. CASE kind = "strip"
    <3>1. Damaged(kind, ls, i) = [ls EXCEPT ![i] = Stripped]
      BY <2>5 DEF Damaged
    <3> QED
      BY <1>10, <1>11, <3>1, Zenon
  <2>6. CASE kind = "upper"
    <3>1. Damaged(kind, ls, i) = [ls EXCEPT ![i] = upper]
      BY <2>6 DEF Damaged, upper
    <3> QED
      BY <1>10, <1>11, <3>1, Zenon
  <2>7. CASE kind = "unsigned"
    <3>1. Damaged(kind, ls, i) = InsertAt(ls, i + 1, Stripped)
      BY <2>7 DEF Damaged
    <3> QED
      BY <1>10, <1>11, <3>1, Zenon
  <2>8. CASE kind = "tail"
    <3>1. Damaged(kind, ls, i) = SubSeq(ls, 1, i - 1)
      BY <2>8 DEF Damaged
    <3> QED
      BY <1>10, <1>11, <3>1, Zenon
  <2> QED
    BY <2>1, <2>2, <2>3, <2>4, <2>5, <2>6, <2>7, <2>8, Zenon DEF LineDamages
<1> QED
  BY <1>8, <1>12, SoundSeq

\* A listing whose entries are exchanged for others of the same name.
LEMMA Renewed ==
  ASSUME NEW es, GoodListing(es), NEW fs, fs = [d \in DOMAIN es |-> fs[d]],
         \A d \in DOMAIN es : /\ IsEntry(fs[d]) /\ fs[d].file.source = es[d].file.source
                              /\ Sound(fs[d].file.lines)
  PROVE  GoodListing(fs)
<1>1. IsSeq(es) /\ Distinct(es)
  BY Zenon DEF GoodListing
<1>2. IsSeq(fs) /\ DOMAIN fs = DOMAIN es
  BY <1>1, SameDomain
<1>3. Distinct(fs)
  BY <1>1, <1>2, Zenon DEF Distinct
<1> QED
  BY <1>2, <1>3, Zenon DEF GoodListing

\* An entry with another file under the same name.
LEMMA EntryAltered ==
  ASSUME NEW x, IsEntry(x), NEW f, NEW y, y = [x EXCEPT !.file = f],
         f = [source |-> x.file.source, lines |-> f.lines, err |-> f.err]
  PROVE  IsEntry(y) /\ y.file.source = x.file.source /\ y.file.lines = f.lines
<1>1. x = [log |-> x.log, dir |-> x.dir, lstat |-> x.lstat, open |-> x.open, file |-> x.file]
  BY DEF IsEntry
<1>2. y = [log |-> y.log, dir |-> y.dir, lstat |-> y.lstat, open |-> y.open, file |-> y.file]
      /\ y.file = f
  BY <1>1
<1>3. f.source = x.file.source
  OBVIOUS
<1> QED
  BY <1>2, <1>3 DEF IsEntry

\* One entry is exchanged for another one of the same name.
LEMMA OneRenewed ==
  ASSUME GoodListing(entries), NEW e \in DOMAIN entries, NEW y,
         IsEntry(y), y.file.source = entries[e].file.source, Sound(y.file.lines)
  PROVE  GoodListing([entries EXCEPT ![e] = y])
<1> DEFINE fs == [entries EXCEPT ![e] = y]
<1>1. fs = [d \in DOMAIN entries |-> fs[d]]
  BY SeqShape DEF GoodListing
<1>2. \A d \in DOMAIN entries : fs[d] = IF d = e THEN y ELSE entries[d]
  BY SeqShape DEF GoodListing
<1> HIDE DEF fs
<1>3. \A d \in DOMAIN entries : /\ IsEntry(fs[d]) /\ fs[d].file.source = entries[d].file.source
                                /\ Sound(fs[d].file.lines)
  BY <1>2, Zenon DEF GoodListing
<1>4. GoodListing(fs)
  BY <1>1, <1>3, Renewed, Zenon
<1> QED
  BY <1>4 DEF fs

\* Damage to the lines of one file.
LEMMA LinesDamaged ==
  ASSUME GoodListing(entries), NEW kind \in LineDamages, NEW e \in DOMAIN entries,
         NEW i \in 1 .. Len(entries[e].file.lines), DamageLines(kind, e, i)
  PROVE  GoodListing(entries')
<1> DEFINE x == entries[e]
           ls == Damaged(kind, x.file.lines, i)
           f == [x.file EXCEPT !.lines = ls]
           y == [x EXCEPT !.file = f]
<1>1. IsEntry(x) /\ Sound(x.file.lines)
  BY Zenon DEF GoodListing
<1>2. Sound(ls)
  BY <1>1, DamagedIsSound
<1>3. entries' = [entries EXCEPT ![e] = y]
  BY DEF DamageLines, WithLines
<1> HIDE DEF x, ls
<1>4. IsEntry(y) /\ y.file.source = x.file.source /\ y.file.lines = ls
  <2>1. x.file = [source |-> x.file.source, lines |-> x.file.lines, err |-> x.file.err]
    BY <1>1, Zenon DEF IsEntry
  <2>2. f = [source |-> x.file.source, lines |-> f.lines, err |-> f.err] /\ f.lines = ls
    BY <2>1
  <2> HIDE DEF f
  <2>3. y = [x EXCEPT !.file = f]
    BY Zenon
  <2> HIDE DEF y
  <2> QED
    BY <1>1, <2>2, <2>3, EntryAltered
<1> HIDE DEF y
<1>5. GoodListing([entries EXCEPT ![e] = y])
  BY <1>2, <1>4, OneRenewed DEF x
<1> QED
  BY <1>3, <1>5

\* A file is gone.
LEMMA FileDropped ==
  ASSUME GoodListing(entries), NEW e \in 1 .. Len(entries)
  PROVE  GoodListing(RemoveAt(entries, e))
<1> DEFINE S == {entries[d] : d \in DOMAIN entries}
           n == Len(entries)
           a == SubSeq(entries, 1, e - 1)
           b == SubSeq(entries, e + 1, n)
<1>1. /\ n \in Nat /\ DOMAIN entries = 1 .. n /\ e \in Nat \ {0} /\ e <= n
      /\ entries \in Seq(S) /\ \A d \in 1 .. n : entries[d] \in S
  BY SeqShape DEF GoodListing, IsSeq
<1> HIDE DEF S, n
<1>2. /\ a \in Seq(S) /\ Len(a) = e - 1
      /\ \A d \in 1 .. e - 1 : a[d] = entries[d]
  <2>1. \A d \in 1 .. e - 1 : entries[d] \in S
    BY <1>1
  <2>2. /\ a \in Seq(S) /\ Len(a) = IF 1 <= e - 1 THEN e - 1 - 1 + 1 ELSE 0
        /\ \A d \in 1 .. e - 1 - 1 + 1 : a[d] = entries[1 + d - 1]
    BY <1>1, <2>1, SubSeqProperties
  <2>3. Len(a) = e - 1
    BY <1>1, <2>2
  <2>4. ASSUME NEW d \in 1 .. e - 1 PROVE a[d] = entries[d]
    <3>1. d \in 1 .. e - 1 - 1 + 1 /\ 1 + d - 1 = d
      BY <1>1
    <3>2. a[d] = entries[1 + d - 1]
      BY <2>2, <3>1, Zenon
    <3> QED
      BY <3>1, <3>2
  <2> QED
    BY <2>2, <2>3, <2>4
<1>3. /\ b \in Seq(S) /\ Len(b) = n - e
      /\ \A d \in 1 .. n - e : b[d] = entries[e + d]
  <2>1. \A d \in e + 1 .. n : entries[d] \in S
    BY <1>1
  <2>2. /\ b \in Seq(S) /\ Len(b) = IF e + 1 <= n THEN n - (e + 1) + 1 ELSE 0
        /\ \A d \in 1 .. n - (e + 1) + 1 : b[d] = entries[e + 1 + d - 1]
    BY <1>1, <2>1, SubSeqProperties
  <2>3. Len(b) = n - e
    BY <1>1, <2>2
  <2>4. ASSUME NEW d \in 1 .. n - e PROVE b[d] = entries[e + d]
    <3>1. d \in 1 .. n - (e + 1) + 1 /\ e + 1 + d - 1 = e + d
      BY <1>1
    <3>2. b[d] = entries[e + 1 + d - 1]
      BY <2>2, <3>1, Zenon
    <3> QED
      BY <3>1, <3>2
  <2> QED
    BY <2>2, <2>3, <2>4
<1> DEFINE r == a \o b
<1> HIDE DEF a, b
<1>4. /\ r \in Seq(S) /\ Len(r) = (e - 1) + (n - e)
      /\ \A d \in 1 .. (e - 1) + (n - e) : r[d] = IF d <= e - 1 THEN a[d] ELSE b[d - (e - 1)]
  <2>1. a \in Seq(S) /\ b \in Seq(S)
    BY <1>2, <1>3, Zenon
  <2>2. /\ r \in Seq(S) /\ Len(r) = Len(a) + Len(b)
        /\ \A d \in 1 .. Len(a) + Len(b) : r[d] = IF d <= Len(a) THEN a[d] ELSE b[d - Len(a)]
    BY <2>1, ConcatProperties
  <2>3. Len(a) = e - 1 /\ Len(b) = n - e
    BY <1>2, <1>3, Zenon
  <2> HIDE DEF r
  <2> QED
    BY <2>2, <2>3
<1> HIDE DEF r
<1>5. DOMAIN r = 1 .. n - 1 /\ IsSeq(r)
  BY <1>1, <1>4, SeqIsSeq
<1> DEFINE at(d) == IF d < e THEN d ELSE d + 1
<1>6. ASSUME NEW d \in DOMAIN r PROVE at(d) \in DOMAIN entries /\ r[d] = entries[at(d)]
  <2>1. d \in Nat \ {0} /\ d <= n - 1 /\ d \in 1 .. (e - 1) + (n - e)
    BY <1>1, <1>5
  <2>2. CASE d < e
    BY <1>1, <1>2, <1>4, <2>1, <2>2
  <2>3. CASE ~(d < e)
    <3>1. PICK c : c = d - (e - 1)
      OBVIOUS
    <3>2. c \in 1 .. n - e /\ e + c = d + 1 /\ ~(d <= e - 1)
      BY <1>1, <2>1, <2>3, <3>1
    <3>3. r[d] = b[c] /\ b[c] = entries[e + c]
      BY <1>3, <1>4, <2>1, <3>1, <3>2
    <3> QED
      BY <1>1, <2>1, <2>3, <3>2, <3>3
  <2> QED
    BY <2>2, <2>3
<1>7. \A c, d \in DOMAIN r : at(c) = at(d) => c = d
  BY <1>1, <1>5
<1> HIDE DEF at
<1>8. Distinct(r)
  <2>1. ASSUME NEW c \in DOMAIN r, NEW d \in DOMAIN r, r[c].file.source = r[d].file.source
        PROVE  c = d
    <3>1. entries[at(c)].file.source = entries[at(d)].file.source
      BY <1>6, <2>1
    <3>2. at(c) \in DOMAIN entries /\ at(d) \in DOMAIN entries
      BY <1>6
    <3>3. at(c) = at(d)
      BY <3>1, <3>2, Zenon DEF GoodListing, Distinct
    <3> QED
      BY <1>7, <3>3
  <2> QED
    BY <2>1, Zenon DEF Distinct
<1>9. GoodListing(r)
  BY <1>5, <1>6, <1>8, Zenon DEF GoodListing
<1> QED
  BY <1>9 DEF RemoveAt, r, a, b, n

\* A copy of a file under another name.
LEMMA FileCopied ==
  ASSUME GoodListing(entries), NEW e \in DOMAIN entries,
         \A d \in 1 .. Len(entries) : entries[d].file.source # "copy",
         entries' = Append(entries, [entries[e] EXCEPT !.file.source = "copy"])
  PROVE  GoodListing(entries')
<1> DEFINE x == entries[e]
           f == [x.file EXCEPT !.source = "copy"]
           y == [x EXCEPT !.file = f]
           n == Len(entries)
<1>1. IsEntry(x) /\ Sound(x.file.lines)
  BY Zenon DEF GoodListing
<1>2. IsEntry(y) /\ y.file.source = "copy" /\ y.file.lines = x.file.lines
  <2> HIDE DEF x
  <2>1. /\ x = [log |-> x.log, dir |-> x.dir, lstat |-> x.lstat, open |-> x.open, file |-> x.file]
        /\ x.file = [source |-> x.file.source, lines |-> x.file.lines, err |-> x.file.err]
    BY <1>1, Zenon DEF IsEntry
  <2>2. f = [source |-> f.source, lines |-> f.lines, err |-> f.err]
        /\ f.source = "copy" /\ f.lines = x.file.lines
    BY <2>1
  <2> HIDE DEF f
  <2>3. y = [log |-> y.log, dir |-> y.dir, lstat |-> y.lstat, open |-> y.open, file |-> y.file]
        /\ y.file = f
    BY <2>1
  <2> QED
    BY <2>2, <2>3 DEF IsEntry
<1>3. entries' = Append(entries, y)
  OBVIOUS
<1> HIDE DEF x, y
<1>4. IsSeq(entries) /\ n \in Nat /\ DOMAIN entries = 1 .. n
  BY SeqShape DEF GoodListing
<1>5. /\ IsSeq(entries') /\ Len(entries') = n + 1
      /\ \A d \in 1 .. n : entries'[d] = entries[d]
      /\ entries'[n + 1] = y
  <2>1. IsSeq(entries)
    BY <1>4
  <2> QED
    BY <1>3, <2>1, AppendGrows
<1>6. DOMAIN entries' = 1 .. n + 1
  BY <1>5, SeqShape
<1>7. ASSUME NEW d \in DOMAIN entries' PROVE d \in DOMAIN entries \/ (d = n + 1 /\ entries'[d] = y)
  BY <1>4, <1>5, <1>6
<1>8. \A d \in DOMAIN entries : entries'[d] = entries[d] /\ entries[d].file.source # "copy"
  BY <1>4, <1>5
<1>9. \A d \in DOMAIN entries' : IsEntry(entries'[d]) /\ Sound(entries'[d].file.lines)
  BY <1>1, <1>2, <1>7, <1>8, Zenon DEF GoodListing
<1>10. ASSUME NEW c \in DOMAIN entries', NEW d \in DOMAIN entries',
              entries'[c].file.source = entries'[d].file.source
       PROVE  c = d
  <2>1. CASE c \in DOMAIN entries /\ d \in DOMAIN entries
    <3>1. entries[c].file.source = entries[d].file.source
      BY <1>8, <1>10, <2>1
    <3> QED
      BY <2>1, <3>1, Zenon DEF GoodListing, Distinct
  <2>2. CASE c \notin DOMAIN entries
    <3>1. c = n + 1 /\ entries'[c].file.source = "copy"
      BY <1>2, <1>7, <2>2
    <3>2. d \notin DOMAIN entries
      BY <1>8, <1>10, <3>1
    <3> QED
      BY <1>7, <3>1, <3>2
  <2>3. CASE d \notin DOMAIN entries
    <3>1. d = n + 1 /\ entries'[d].file.source = "copy"
      BY <1>2, <1>7, <2>3
    <3>2. c \notin DOMAIN entries
      BY <1>8, <1>10, <3>1
    <3> QED
      BY <1>7, <3>1, <3>2
  <2> QED
    BY <2>1, <2>2, <2>3
<1> QED
  BY <1>5, <1>9, <1>10, Zenon DEF GoodListing, Distinct

\* Two files exchanged under each other's names.
LEMMA FilesExchanged ==
  ASSUME GoodListing(entries), NEW e \in DOMAIN entries, NEW d \in DOMAIN entries, d # e,
         entries' = [entries EXCEPT ![d].file.lines = entries[e].file.lines,
                                    ![e].file.lines = entries[d].file.lines]
  PROVE  GoodListing(entries')
<1> DEFINE x == entries[e]
           z == entries[d]
           f == [x.file EXCEPT !.lines = z.file.lines]
           g == [z.file EXCEPT !.lines = x.file.lines]
           y == [x EXCEPT !.file = f]
           u == [z EXCEPT !.file = g]
<1>1. IsEntry(x) /\ Sound(x.file.lines) /\ IsEntry(z) /\ Sound(z.file.lines)
  BY Zenon DEF GoodListing
<1>2. entries' = [[entries EXCEPT ![d] = u] EXCEPT ![e] = y]
  OBVIOUS
<1> HIDE DEF x, z
<1>3. IsEntry(y) /\ y.file.source = x.file.source /\ y.file.lines = z.file.lines
  <2>1. x.file = [source |-> x.file.source, lines |-> x.file.lines, err |-> x.file.err]
    BY <1>1, Zenon DEF IsEntry
  <2>2. f = [source |-> x.file.source, lines |-> f.lines, err |-> f.err]
        /\ f.lines = z.file.lines
    BY <2>1
  <2> HIDE DEF f
  <2>3. y = [x EXCEPT !.file = f]
    BY Zenon
  <2> HIDE DEF y
  <2> QED
    BY <1>1, <2>2, <2>3, EntryAltered
<1>4. IsEntry(u) /\ u.file.source = z.file.source /\ u.file.lines = x.file.lines
  <2>1. z.file = [source |-> z.file.source, lines |-> z.file.lines, err |-> z.file.err]
    BY <1>1, Zenon DEF IsEntry
  <2>2. g = [source |-> z.file.source, lines |-> g.lines, err |-> g.err]
        /\ g.lines = x.file.lines
    BY <2>1
  <2> HIDE DEF g
  <2>3. u = [z EXCEPT !.file = g]
    BY Zenon
  <2> HIDE DEF u
  <2> QED
    BY <1>1, <2>2, <2>3, EntryAltered
<1> HIDE DEF y, u
<1>5. \A c \in DOMAIN entries :
        entries'[c] = IF c = e THEN y ELSE IF c = d THEN u ELSE entries[c]
  BY <1>2
<1>6. entries' = [c \in DOMAIN entries |-> entries'[c]]
  BY <1>2, SeqShape DEF GoodListing
<1>7. \A c \in DOMAIN entries : /\ IsEntry(entries'[c])
                                /\ entries'[c].file.source = entries[c].file.source
                                /\ Sound(entries'[c].file.lines)
  <2> TAKE c \in DOMAIN entries
  <2>1. CASE c = e
    BY <1>1, <1>3, <1>5, <2>1 DEF x
  <2>2. CASE c = d /\ c # e
    BY <1>1, <1>4, <1>5, <2>2 DEF z
  <2>3. CASE c # d /\ c # e
    BY <1>5, <2>3, Zenon DEF GoodListing
  <2> QED
    BY <2>1, <2>2, <2>3
<1>8. PICK fs : fs = entries'
  OBVIOUS
<1>9. /\ fs = [c \in DOMAIN entries |-> fs[c]]
      /\ \A c \in DOMAIN entries : /\ IsEntry(fs[c])
                                   /\ fs[c].file.source = entries[c].file.source
                                   /\ Sound(fs[c].file.lines)
  BY <1>6, <1>7, <1>8, Zenon
<1>10. GoodListing(fs)
  BY <1>9, Renewed, Zenon
<1> QED
  BY <1>8, <1>10

\* A file that can no longer be looked at, opened, or read to its end.
LEMMA FileFails ==
  ASSUME GoodListing(entries), NEW e \in DOMAIN entries,
         NEW i \in 1 .. Len(entries[e].file.lines),
         \/ entries' = [entries EXCEPT ![e].lstat = "error"]
         \/ entries' = [entries EXCEPT ![e].open = FALSE]
         \/ entries' = [entries EXCEPT ![e].file.lines = SubSeq(@, 1, i - 1),
                                       ![e].file.err = TRUE]
  PROVE  GoodListing(entries')
<1> DEFINE x == entries[e]
           ls == SubSeq(x.file.lines, 1, i - 1)
           f == [[x.file EXCEPT !.lines = ls] EXCEPT !.err = TRUE]
<1>1. IsEntry(x) /\ Sound(x.file.lines)
  BY Zenon DEF GoodListing
<1>2. Sound(ls)
  <2>1. ls = Damaged("tail", x.file.lines, i)
    BY DEF Damaged
  <2>2. "tail" \in LineDamages
    BY Zenon DEF LineDamages
  <2> HIDE DEF ls
  <2> QED
    BY <1>1, <2>1, <2>2, DamagedIsSound
<1>3. CASE entries' = [entries EXCEPT ![e].lstat = "error"]
  <2> DEFINE y == [x EXCEPT !.lstat = "error"]
  <2>1. entries' = [entries EXCEPT ![e] = y]
    BY <1>3
  <2> HIDE DEF x
  <2>2. IsEntry(y) /\ y.file.source = x.file.source /\ y.file.lines = x.file.lines
    BY <1>1, EntryKept
  <2> HIDE DEF y
  <2>3. GoodListing([entries EXCEPT ![e] = y])
    BY <1>1, <2>2, OneRenewed DEF x
  <2> QED
    BY <2>1, <2>3
<1>4. CASE entries' = [entries EXCEPT ![e].open = FALSE]
  <2> DEFINE y == [x EXCEPT !.open = FALSE]
  <2>1. entries' = [entries EXCEPT ![e] = y]
    BY <1>4
  <2> HIDE DEF x
  <2>2. IsEntry(y) /\ y.file.source = x.file.source /\ y.file.lines = x.file.lines
    BY <1>1, EntryKept
  <2> HIDE DEF y
  <2>3. GoodListing([entries EXCEPT ![e] = y])
    BY <1>1, <2>2, OneRenewed DEF x
  <2> QED
    BY <2>1, <2>3
<1>5. CASE entries' = [entries EXCEPT ![e].file.lines = SubSeq(@, 1, i - 1),
                                      ![e].file.err = TRUE]
  <2> DEFINE y == [x EXCEPT !.file = f]
  <2>1. entries' = [entries EXCEPT ![e] = y]
    <3>1. y = [[x EXCEPT !.file.lines = ls] EXCEPT !.file.err = TRUE]
      <4>1. x = [log |-> x.log, dir |-> x.dir, lstat |-> x.lstat, open |-> x.open,
                 file |-> x.file]
        BY <1>1, Zenon DEF IsEntry
      <4> HIDE DEF x, ls
      <4> QED
        BY <4>1
    <3>2. entries' = [[entries EXCEPT ![e] = [x EXCEPT !.file.lines = ls]]
                        EXCEPT ![e] = [@ EXCEPT !.file.err = TRUE]]
      BY <1>5
    <3> HIDE DEF x, y, f
    <3> QED
      BY <3>1, <3>2
  <2> HIDE DEF x
  <2>2. IsEntry(y) /\ y.file.source = x.file.source /\ y.file.lines = ls
    <3> HIDE DEF ls
    <3>1. x.file = [source |-> x.file.source, lines |-> x.file.lines, err |-> x.file.err]
      BY <1>1, Zenon DEF IsEntry
    <3>2. f = [source |-> x.file.source, lines |-> f.lines, err |-> f.err] /\ f.lines = ls
      <4>1. PICK yes : yes = TRUE
        OBVIOUS
      <4>2. f = [[x.file EXCEPT !.lines = ls] EXCEPT !.err = yes]
        BY <4>1
      <4> HIDE DEF f
      <4> QED
        BY <3>1, <4>2
    <3> HIDE DEF f
    <3>3. y = [x EXCEPT !.file = f]
      BY Zenon
    <3> HIDE DEF y
    <3> QED
      BY <1>1, <3>2, <3>3, EntryAltered
  <2> HIDE DEF y
  <2>3. GoodListing([entries EXCEPT ![e] = y])
    BY <1>2, <2>2, OneRenewed DEF x
  <2> QED
    BY <2>1, <2>3
<1> QED
  BY <1>3, <1>4, <1>5

\* A remade file consists of lines.
LEMMA RemadeShape ==
  ASSUME ProducerInv, NEW n \in DOMAIN files
  PROVE  /\ IsSeq(Remade(n))
         /\ \A i \in DOMAIN Remade(n) : IsLine(Remade(n)[i]) /\ Remade(n)[i].form # "blank"
<1> DEFINE L == files[n]
           prev == IF n = 1 THEN {} ELSE {RemadeMACs[n - 1][Len(files[n - 1])]}
           r == [i \in 1 .. Len(L) |-> [L[i] EXCEPT !.text = RemadeText(n, i, prev),
                                                    !.mac = RemadeMACs[n][i]]]
<1>1. PICK k : IsChain(L, k)
  BY FileIsWritten, WrittenIsChain
<1>2. /\ Len(L) \in Nat /\ Len(L) > 0
      /\ \A i \in 1 .. Len(L) : IsLine(L[i]) /\ L[i].form = "signed"
  BY <1>1, SeqShape DEF IsChain
<1>3. Remade(n) = r
  BY Zenon DEF Remade
<1>4. ASSUME NEW i \in 1 .. Len(L)
      PROVE  IsLine(r[i]) /\ r[i].form # "blank"
  <2> DEFINE t == RemadeText(n, i, prev)
  <2>1. IsText(t)
    <3>1. IsText(L[i].text) /\ IsText(L[1].text)
      <4>1. IsLine(L[i]) /\ IsLine(L[1])
        BY <1>2
      <4> QED
        BY <4>1, Zenon DEF IsLine
    <3>2. CASE i = 1
      <4>1. t = [L[1].text EXCEPT !.prev = prev]
        BY <3>2, Zenon DEF RemadeText
      <4> HIDE DEF t, prev
      <4> QED
        BY <3>1, <4>1, TextAltered
    <3>3. CASE i # 1
      <4> DEFINE b == Altered(Altered(L[i].text.body))
      <4>1. t = [L[i].text EXCEPT !.body = b]
        BY <3>3, Zenon DEF RemadeText
      <4> HIDE DEF t, b
      <4> QED
        BY <3>1, <4>1, TextAltered
    <3> QED
      BY <3>2, <3>3
  <2>2. PICK l : l = L[i] /\ IsLine(l) /\ l.form = "signed"
    BY <1>2
  <2>3. PICK m : m = RemadeMACs[n][i]
    OBVIOUS
  <2>4. r[i] = [l EXCEPT !.text = t, !.mac = m]
    BY <2>2, <2>3
  <2> HIDE DEF t, r
  <2>5. PICK u : u = r[i]
    OBVIOUS
  <2>6. u = [l EXCEPT !.text = t, !.mac = m]
    BY <2>4, <2>5
  <2>7. PICK x : x = t
    OBVIOUS
  <2>8. IsLine(l) /\ IsText(x) /\ u = [l EXCEPT !.text = x, !.mac = m]
    BY <2>1, <2>2, <2>6, <2>7, Zenon
  <2>9. IsLine(u) /\ u.form = l.form
    <3>1. l = [form |-> l.form, text |-> l.text, mac |-> l.mac, hex |-> l.hex]
      BY <2>8, Zenon DEF IsLine
    <3>2. /\ u = [form |-> u.form, text |-> u.text, mac |-> u.mac, hex |-> u.hex]
          /\ u.form = l.form /\ u.text = x /\ u.hex = l.hex
      BY <2>8, <3>1
    <3> QED
      BY <2>8, <3>2, Zenon DEF IsLine
  <2>10. u.form # "blank"
    BY <2>2, <2>9
  <2> QED
    BY <2>5, <2>9, <2>10
<1>5. r = [i \in 1 .. Len(L) |-> r[i]]
  BY Zenon
<1> HIDE DEF r
<1>6. IsSeq(r) /\ DOMAIN r = 1 .. Len(L)
  BY <1>2, <1>5, FunctionIsSeq DEF IsSeq
<1> QED
  BY <1>3, <1>4, <1>6

\* What is written stays as it is after the evidence was handed over.
LEMMA OriginalsStay ==
  ASSUME UNCHANGED producerVars
  PROVE  /\ files' = files /\ seq' = seq /\ anchors' = anchors /\ (Started' <=> Started)
         /\ OriginalMACs' = OriginalMACs /\ Offered' = Offered
         /\ \A other : Delivered(other)' = Delivered(other)
<1>1. files' = files /\ seq' = seq /\ anchors' = anchors
  BY DEF producerVars
<1>2. V1File' = V1File
  BY <1>1, Zenon DEF V1File, V1Line, SignedLine, ChainKey
<1>3. Originals' = Originals
  BY <1>1, <1>2 DEF Originals
<1> QED
  BY <1>1, <1>2, <1>3 DEF OriginalMACs, Offered, Started, Delivered

\* The producer's promises hold on, too.
LEMMA ProducerRests == ASSUME ProducerInv, UNCHANGED producerVars PROVE ProducerInv'
  BY ProducerStep

\* A good listing stays good as long as nobody remakes it.
LEMMA StaysGood ==
  ASSUME OriginalMACs' = OriginalMACs, NotRemade' => NotRemade, GoodListing(entries')
  PROVE  GoodListing(entries)'
  BY Zenon DEF GoodListing, Sound, Traced

\* A remade history is made of lines.
LEMMA HistoryRemade ==
  ASSUME ProducerInv, GoodListing(entries), ~(NotRemade'),
         entries' = [n \in 1 .. Len(entries) |->
                       IF n <= Len(files) THEN [entries[n] EXCEPT !.file.lines = Remade(n)]
                       ELSE entries[n]]
  PROVE  GoodListing(entries)'
<1>1. IsSeq(entries) /\ Distinct(entries) /\ DOMAIN entries = 1 .. Len(entries)
      /\ Len(entries) \in Nat
  BY SeqShape DEF GoodListing
<1>2. Len(files) \in Nat /\ DOMAIN files = 1 .. Len(files)
  BY FilesAreSeqs, SeqShape
<1>3. ASSUME NEW n \in DOMAIN entries
      PROVE  /\ IsEntry(entries'[n]) /\ entries'[n].file.source = entries[n].file.source
             /\ IsSeq(entries'[n].file.lines)
             /\ \A i \in DOMAIN entries'[n].file.lines :
                  /\ IsLine(entries'[n].file.lines[i])
                  /\ entries'[n].file.lines[i].form # "blank"
  <2> DEFINE x == entries[n]
             ls == Remade(n)
             f == [x.file EXCEPT !.lines = ls]
             y == [x EXCEPT !.file = f]
  <2>1. IsEntry(x) /\ Sound(x.file.lines)
    BY Zenon DEF GoodListing
  <2>2. CASE n <= Len(files)
    <3>1. entries'[n] = y
      BY <1>1, <2>2
    <3> HIDE DEF x
    <3>2. IsSeq(ls) /\ \A i \in DOMAIN ls : IsLine(ls[i]) /\ ls[i].form # "blank"
      <4>1. n \in DOMAIN files
        BY <1>1, <1>2, <2>2
      <4> QED
        BY <4>1, RemadeShape
    <3> HIDE DEF ls
    <3>3. IsEntry(y) /\ y.file.source = x.file.source /\ y.file.lines = ls
      <4>1. x.file = [source |-> x.file.source, lines |-> x.file.lines, err |-> x.file.err]
        BY <2>1, Zenon DEF IsEntry
      <4>2. f = [source |-> x.file.source, lines |-> f.lines, err |-> f.err] /\ f.lines = ls
        BY <4>1
      <4> HIDE DEF f
      <4>3. y = [x EXCEPT !.file = f]
        BY Zenon
      <4> HIDE DEF y
      <4> QED
        BY <2>1, <4>2, <4>3, EntryAltered
    <3> HIDE DEF y
    <3> QED
      BY <3>1, <3>2, <3>3 DEF x
  <2>3. CASE ~(n <= Len(files))
    <3>1. entries'[n] = x
      BY <1>1, <2>3
    <3> HIDE DEF x
    <3> QED
      BY <2>1, <3>1, Zenon DEF Sound, Traced, x
  <2> QED
    BY <2>2, <2>3
<1>4. entries' = [n \in DOMAIN entries |-> entries'[n]]
  BY <1>1
<1>5. IsSeq(entries') /\ DOMAIN entries' = DOMAIN entries
  <2>1. PICK fs : fs = entries'
    OBVIOUS
  <2>2. fs = [n \in DOMAIN entries |-> fs[n]]
    BY <1>4, <2>1, Zenon
  <2>3. IsSeq(fs)
    BY <1>1, <2>2, SameDomain, Zenon
  <2> QED
    BY <1>4, <2>1, <2>3
<1>6. Distinct(entries')
  <2>1. ASSUME NEW c \in DOMAIN entries, NEW d \in DOMAIN entries,
               entries'[c].file.source = entries'[d].file.source
        PROVE  c = d
    <3>1. entries[c].file.source = entries[d].file.source
      BY <1>3, <2>1
    <3> QED
      BY <1>1, <3>1, Zenon DEF Distinct
  <2> QED
    BY <1>5, <2>1, Zenon DEF Distinct
<1>7. ASSUME NEW n \in DOMAIN entries'
      PROVE  IsEntry(entries'[n]) /\ Sound(entries[n].file.lines)'
  <2>1. n \in DOMAIN entries
    BY <1>5
  <2>2. /\ IsEntry(entries'[n]) /\ IsSeq(entries'[n].file.lines)
        /\ \A i \in DOMAIN entries'[n].file.lines :
             /\ IsLine(entries'[n].file.lines[i])
             /\ entries'[n].file.lines[i].form # "blank"
    BY <1>3, <2>1
  <2> QED
    BY <2>2, Zenon DEF Sound, Traced
<1> QED
  BY <1>5, <1>6, <1>7, Zenon DEF GoodListing

\* Damage keeps the invariant.
LEMMA DamagingKeeps == ASSUME CustodyInv, Damaging PROVE CustodyInv'
<1>1. /\ act = "custody" /\ CustodyOfEvidence /\ ProducerInv /\ IsSeq(damage) /\ Idle
      /\ UNCHANGED <<vars, paths, stage, next, result, commandVars, act, stranger, producerVars>>
      /\ Len(damage) < MaxDamage[stranger]
  BY DEF CustodyInv, Damaging
<1>2. PICK kind \in Damages, e \in 1 .. Len(entries) :
        /\ \E i \in 1 .. Len(entries[e].file.lines) :
             /\ kind \notin LineDamages \cup {"cut"} => i = 1
             /\ IF kind \in LineDamages THEN DamageLines(kind, e, i)
                ELSE DamageFile(kind, e, i)
        /\ damage' = Append(damage, kind)
  BY DEF Damaging
<1>3. PICK i \in 1 .. Len(entries[e].file.lines) :
        IF kind \in LineDamages THEN DamageLines(kind, e, i) ELSE DamageFile(kind, e, i)
  BY <1>2
<1>4. GoodListing(entries) /\ Started /\ stranger \in DOMAIN MaxDamage
  BY <1>1, Zenon DEF CustodyOfEvidence
<1>5. Len(entries) \in Nat /\ DOMAIN entries = 1 .. Len(entries) /\ e \in DOMAIN entries
  BY <1>4, SeqShape DEF GoodListing
<1>6. Len(damage) \in Nat /\ DOMAIN damage = 1 .. Len(damage)
  BY <1>1, SeqShape
<1>7. /\ IsSeq(damage') /\ Len(damage') = Len(damage) + 1
      /\ \A k \in 1 .. Len(damage) : damage'[k] = damage[k]
      /\ damage'[Len(damage) + 1] = kind
  BY <1>1, <1>2, AppendGrows
<1>8. DOMAIN damage' = 1 .. Len(damage) + 1
  BY <1>7, SeqShape
<1>9. NotRemade' => NotRemade /\ kind # "remake"
  BY <1>6, <1>7, <1>8 DEF NotRemade
<1>10. OriginalMACs' = OriginalMACs /\ (Started' <=> Started)
  BY <1>1, OriginalsStay
<1>11. GoodListing(entries)'
  <2>1. CASE kind \in LineDamages
    <3>1. GoodListing(entries')
      BY <1>3, <1>4, <1>5, <2>1, LinesDamaged
    <3> QED
      BY <1>9, <1>10, <3>1, StaysGood
  <2>2. CASE kind \notin LineDamages /\ kind # "remake"
    <3>1. DamageFile(kind, e, i)
      BY <1>3, <2>2
    <3>2. GoodListing(entries')
      <4>1. CASE entries' = RemoveAt(entries, e)
        BY <1>4, <4>1, FileDropped
      <4>2. CASE /\ \A d \in 1 .. Len(entries) : entries[d].file.source # "copy"
                 /\ entries' = Append(entries, [entries[e] EXCEPT !.file.source = "copy"])
        BY <1>4, <1>5, <4>2, FileCopied
      <4>3. CASE \E d \in 1 .. Len(entries) :
                   /\ d < e
                   /\ entries' = [entries EXCEPT ![d].file.lines = entries[e].file.lines,
                                                 ![e].file.lines = entries[d].file.lines]
        <5>1. PICK d \in 1 .. Len(entries) :
                   /\ d < e
                   /\ entries' = [entries EXCEPT ![d].file.lines = entries[e].file.lines,
                                                 ![e].file.lines = entries[d].file.lines]
          BY <4>3
        <5>2. d # e /\ d \in DOMAIN entries
          BY <1>5, <5>1
        <5> QED
          BY <1>4, <1>5, <5>1, <5>2, FilesExchanged
      <4>4. CASE \/ entries' = [entries EXCEPT ![e].lstat = "error"]
                 \/ entries' = [entries EXCEPT ![e].open = FALSE]
                 \/ entries' = [entries EXCEPT ![e].file.lines = SubSeq(@, 1, i - 1),
                                               ![e].file.err = TRUE]
        BY <1>4, <1>5, <4>4, FileFails
      <4> QED
        BY <2>2, <3>1, <4>1, <4>2, <4>3, <4>4, Zenon DEF DamageFile
    <3> QED
      BY <1>9, <1>10, <3>2, StaysGood
  <2>3. CASE kind = "remake"
    <3>1. DamageFile(kind, e, i)
      BY <1>3, <2>3 DEF LineDamages
    <3>2. entries' = [n \in 1 .. Len(entries) |->
                        IF n <= Len(files) THEN [entries[n] EXCEPT !.file.lines = Remade(n)]
                        ELSE entries[n]]
      BY <2>3, <3>1 DEF DamageFile
    <3> QED
      BY <1>1, <1>4, <1>9, <2>3, <3>2, HistoryRemade
  <2> QED
    BY <2>1, <2>2, <2>3
<1>12. Len(damage') <= MaxDamage[stranger] /\ damage' # <<>>
  <2>1. MaxDamage[stranger] \in Nat
    BY <1>4, CustodyAssumption, Zenon
  <2>2. Len(damage') <= MaxDamage[stranger]
    BY <1>1, <1>6, <1>7, <2>1
  <2>3. Len(damage') # 0 /\ Len(<<>>) = 0
    BY <1>6, <1>7
  <2> QED
    BY <2>2, <2>3
<1>13. CustodyOfEvidence'
  BY <1>1, <1>4, <1>10, <1>11, <1>12 DEF CustodyOfEvidence
<1>14. ProducerInv'
  BY <1>1, ProducerRests
<1>15. Idle'
  BY <1>1, Zenon DEF Idle, vars, commandVars
<1> QED
  BY <1>1, <1>7, <1>13, <1>14, <1>15 DEF CustodyInv

-----------------------------------------------------------------------------
(* The other steps.                                                        *)

\* The producer writes while nobody looks at the log.
LEMMA ProducingKeeps == ASSUME CustodyInv, Producing PROVE CustodyInv'
<1>1. /\ act = "produce" /\ ProducerInv /\ Idle /\ damage = <<>> /\ IsSeq(damage)
      /\ ProducerNext /\ UNCHANGED <<act, stranger, damage, allVars, commandVars>>
  BY DEF CustodyInv, Producing
<1>2. ProducerInv'
  BY <1>1, ProducerStep
<1>3. Idle'
  BY <1>1, Zenon DEF Idle, allVars, dirVars, vars, commandVars
<1> QED
  BY <1>1, <1>2, <1>3 DEF CustodyInv

\* The log is handed over.
LEMMA HandOverKeeps == ASSUME CustodyInv, HandOver PROVE CustodyInv'
<1>1. /\ act = "produce" /\ ProducerInv /\ Idle /\ damage = <<>> /\ IsSeq(damage) /\ Started
      /\ act' = "custody" /\ stranger' \in DOMAIN MaxDamage /\ entries' = Delivered(stranger')
      /\ UNCHANGED <<vars, paths, stage, next, result, commandVars, damage, producerVars>>
  BY DEF CustodyInv, HandOver
<1>2. ProducerInv'
  BY <1>1, ProducerRests
<1>3. Idle'
  BY <1>1, Zenon DEF Idle, vars, commandVars
<1>4. PICK other \in DOMAIN MaxDamage : other = stranger'
  BY <1>1
<1>5. /\ (Started' <=> Started) /\ OriginalMACs' = OriginalMACs
      /\ Delivered(other)' = Delivered(other)
  BY <1>1, OriginalsStay
<1>6. entries' = Delivered(other)
  BY <1>1, <1>4, Zenon
<1>7. GoodListing(Delivered(other))
  BY <1>1, DeliveredIsGood
<1>8. NotRemade' => NotRemade
  BY <1>1, Zenon DEF NotRemade
<1>9. GoodListing(entries)'
  <2>1. GoodListing(entries')
    BY <1>6, <1>7
  <2> QED
    BY <1>5, <1>8, <2>1, StaysGood
<1>10. Delivered(stranger)' = Delivered(other)
  BY <1>4, <1>5, Zenon
<1>11. Len(damage') <= MaxDamage[stranger']
  <2>1. MaxDamage[other] \in Nat
    BY CustodyAssumption, Zenon
  <2>2. Len(damage') = 0
    BY <1>1
  <2>3. 0 <= MaxDamage[other]
    BY <2>1
  <2> QED
    BY <1>4, <2>2, <2>3, Zenon
<1>12. CustodyOfEvidence'
  BY <1>1, <1>5, <1>6, <1>9, <1>10, <1>11, Zenon DEF CustodyOfEvidence
<1> QED
  BY <1>1, <1>2, <1>3, <1>12 DEF CustodyInv

\* The evidence is kept while a command looks at it.
LEMMA EvidenceRests ==
  ASSUME CustodyOfEvidence, ProducerInv, IsSeq(damage),
         UNCHANGED <<entries, stranger, damage, producerVars>>
  PROVE  CustodyOfEvidence' /\ ProducerInv' /\ IsSeq(damage)' /\ Offered' = Offered
<1>1. /\ (Started' <=> Started) /\ OriginalMACs' = OriginalMACs /\ Offered' = Offered
      /\ \A other : Delivered(other)' = Delivered(other)
  BY OriginalsStay
<1>2. UNCHANGED <<entries, stranger, damage>>
  OBVIOUS
<1>3. GoodListing(entries)'
  BY <1>1, <1>2, Zenon DEF CustodyOfEvidence, NotRemade, GoodListing, Sound, Traced
<1>4. Delivered(stranger)' = Delivered(stranger)
  <2>1. PICK other : other = stranger
    OBVIOUS
  <2>2. Delivered(other)' = Delivered(other)
    BY <1>1
  <2> QED
    BY <1>2, <2>1, <2>2, Zenon
<1>5. CustodyOfEvidence'
  BY <1>1, <1>2, <1>3, <1>4, Zenon DEF CustodyOfEvidence
<1> QED
  BY <1>1, <1>2, <1>5, ProducerRests

\* A command is asked a question.
LEMMA AskKeeps == ASSUME CustodyInv, Ask PROVE CustodyInv'
<1>1. /\ act = "custody" /\ CustodyOfEvidence /\ ProducerInv /\ IsSeq(damage) /\ Idle
      /\ act' = "audit" /\ stage' = "list"
      /\ UNCHANGED <<phase, keyFor, entries, next, result, anchorOK, reached, verdict, exit,
                     stranger, damage, producerVars>>
  BY DEF CustodyInv, Ask
<1>2. GoodListing(entries) /\ stranger \in DOMAIN MaxDamage /\ Len(damage) <= MaxDamage[stranger]
  BY <1>1, Zenon DEF CustodyOfEvidence
<1>3. PICK q \in Asked[Len(damage)] :
       /\ command' = q.command /\ keyArg' = q.key /\ opt' = q.opt /\ pubKey' = q.pub
       /\ IF q.target = "dir" THEN target' = Directory
          ELSE target' \in {e \in 1 .. Len(entries) : IsLogFile(entries[e])}
       /\ IF q.command = "anchor" THEN anchor' \in Offered ELSE anchor' = NoAnchor
  BY Zenon DEF Ask
<1>4. IsQuestion(q)
  <2>1. /\ MaxDamage[stranger] \in Nat /\ 0 .. MaxDamage[stranger] \subseteq DOMAIN Asked
        /\ \A n \in DOMAIN Asked : \A p \in Asked[n] : IsQuestion(p)
    BY <1>2, CustodyAssumption, Zenon
  <2>2. Len(damage) \in Nat
    BY <1>1, SeqShape
  <2>3. Len(damage) \in DOMAIN Asked
    BY <1>2, <2>1, <2>2
  <2> QED
    BY <1>3, <2>1, <2>3, Zenon
<1>5. /\ command' \in {"verify", "anchor"} /\ opt' \in Options
      /\ command' = "anchor" => opt' = [allowUnsigned |-> FALSE, stopOnFirst |-> FALSE]
      /\ \A path, other \in keyArg'.identity : path = other
      /\ \A path \in keyArg'.identity : \A f, g \in path.itself \cup path.inside : f = g
  BY <1>3, <1>4, Zenon DEF IsQuestion
<1>6. IsListing(entries) /\ Distinct(entries) /\ DOMAIN entries = 1 .. Len(entries)
  <2>1. DOMAIN entries = 1 .. Len(entries)
    BY <1>2, SeqShape DEF GoodListing
  <2> QED
    BY <1>2, <2>1, Zenon DEF GoodListing, IsListing, IsSeq, IsFile, Sound, Traced
<1>7. /\ target' \in {Directory} \cup DOMAIN entries
      /\ target' # Directory => IsLogFile(entries[target'])
  BY <1>3, <1>6, Zenon
<1>8. /\ phase = "done" /\ keyFor = <<>> /\ next = 1 /\ result = NoResult
      /\ anchorOK = FALSE /\ reached = {} /\ verdict = "" /\ exit = NoExit
  BY <1>1, Zenon DEF Idle
<1>9. FreshDir'
  BY <1>1, <1>5, <1>6, <1>8 DEF FreshDir, IsListing, Distinct
<1>10. FreshCommand'
  BY <1>1, <1>5, <1>7, <1>8, <1>9, Zenon DEF FreshCommand
<1>11. CommandInv'
  BY <1>10, CommandInitInv, PTL
<1>12. CustodyOfEvidence' /\ ProducerInv' /\ IsSeq(damage)' /\ Offered' = Offered
  BY <1>1, EvidenceRests
<1>13. command' = "anchor" => anchor' \in Offered' /\ ~opt'.allowUnsigned
  <2>1. command' = "anchor" => anchor' \in Offered
    BY <1>3, Zenon
  <2>2. command' = "anchor" => ~opt'.allowUnsigned
    BY <1>5
  <2> QED
    BY <1>12, <2>1, <2>2, Zenon
<1>14. exit' # 1
  <2>1. exit' = NoExit
    BY <1>1, <1>8, Zenon
  <2>2. NoExit # 1
    BY DEF NoExit
  <2> QED
    BY <2>1, <2>2
<1>15. IsLogFile(entries[target'])  => IsLogFile(entries[target])'
  BY <1>1, Zenon DEF IsLogFile
<1>16. QuestionInv'
  BY <1>5, <1>7, <1>13, <1>14, <1>15, Zenon DEF QuestionInv
<1> QED
  BY <1>1, <1>11, <1>12, <1>16, Zenon DEF CustodyInv

\* A step of a command.
LEMMA AuditingKeeps == ASSUME CustodyInv, Auditing PROVE CustodyInv'
<1>1. /\ act = "audit" /\ CustodyOfEvidence /\ ProducerInv /\ IsSeq(damage)
      /\ CommandInv /\ QuestionInv /\ CommandStep
      /\ UNCHANGED <<act, stranger, damage, producerVars>>
  BY DEF CustodyInv, Auditing, custodyVars
<1>2. CommandInv'
  BY <1>1, CommandStepKeeps DEF CommandNext
<1>3. exit = NoExit
  BY <1>1 DEF CommandStep, BadArguments, CheckAnchor, NoKey, GetKey, OpenTarget, FileReturns,
              Verifying, NothingThere, ReportVerify, ReportAnchor, Ready, AnchorChecked, Running
<1>4. /\ UNCHANGED <<entries, opt, command, target, keyArg, pubKey, anchor>>
      /\ (command = "verify" /\ exit' = 1) => stage' = "returned"
  <2>1. ASSUME NEW code, NEW v, Finish(code, v)
        PROVE  /\ exit' = code
               /\ UNCHANGED <<stage, entries, opt, command, target, keyArg, pubKey, anchor>>
    BY <2>1, Zenon DEF Finish, allVars, dirVars, vars
  <2>2. NoExit # 1 /\ 2 # 1 /\ 0 # 1
    BY DEF NoExit
  <2>3. CASE BadArguments
    BY <2>1, <2>2, <2>3, Zenon DEF BadArguments
  <2>4. CASE CheckAnchor
    <3>1. command = "anchor"
      BY <2>4, Zenon DEF CheckAnchor
    <3>2. UNCHANGED <<entries, opt, command, target, keyArg, pubKey, anchor>>
      BY <2>1, <2>4, Zenon DEF CheckAnchor, allVars, dirVars, vars
    <3>3. "anchor" # "verify"
      OBVIOUS
    <3> QED
      BY <3>1, <3>2, <3>3, Zenon
  <2>5. CASE NoKey
    BY <2>1, <2>2, <2>5, Zenon DEF NoKey
  <2>6. CASE GetKey
    BY <1>3, <2>2, <2>6, Zenon DEF GetKey, dirVars, commandVars
  <2>7. CASE OpenTarget
    BY <1>3, <2>1, <2>2, <2>7, Zenon DEF OpenTarget, Begin, commandVars
  <2>8. CASE FileReturns
    BY <1>3, <2>2, <2>8, Zenon DEF FileReturns, vars, commandVars
  <2>9. CASE Verifying
    BY <1>1, <1>3, <2>2, <2>9, VerifyingReads, Zenon DEF Verifying
  <2>10. CASE NothingThere
    BY <2>1, <2>2, <2>10, Zenon DEF NothingThere
  <2>11. CASE ReportVerify
    BY <2>1, <2>2, <2>11, Zenon DEF ReportVerify
  <2>12. CASE ReportAnchor
    <3>1. command = "anchor" /\ "anchor" # "verify"
      BY <2>12 DEF ReportAnchor
    <3>2. UNCHANGED <<entries, opt, command, target, keyArg, pubKey, anchor>>
      BY <2>1, <2>12, Zenon DEF ReportAnchor
    <3> QED
      BY <3>1, <3>2, Zenon
  <2> QED
    BY <1>1, <2>3, <2>4, <2>5, <2>6, <2>7, <2>8, <2>9, <2>10, <2>11, <2>12, Zenon DEF CommandStep
<1>5. CustodyOfEvidence' /\ ProducerInv' /\ IsSeq(damage)' /\ Offered' = Offered
  BY <1>1, <1>4, EvidenceRests
<1>6. QuestionInv'
  BY <1>1, <1>4, <1>5, Zenon DEF QuestionInv, IsLogFile
<1> QED
  BY <1>1, <1>2, <1>5, <1>6, Zenon DEF CustodyInv

\* Nothing happens.
LEMMA RestKeeps == ASSUME CustodyInv, UNCHANGED everything PROVE CustodyInv'
<1>1. /\ UNCHANGED <<allVars, commandVars>>
      /\ UNCHANGED <<act, stranger, damage, producerVars>>
  BY DEF everything, custodyVars
<1>2. UNCHANGED <<phase, keyFor, stage, next, result, entries, opt>>
  BY <1>1, Zenon DEF allVars, dirVars, vars
<1>3. UNCHANGED <<command, target, keyArg, pubKey, anchor, anchorOK, reached, verdict, exit>>
  BY <1>1, Zenon DEF commandVars
<1>4. ProducerInv' /\ IsSeq(damage)'
  BY <1>1, ProducerRests DEF CustodyInv
<1>5. CASE act = "produce"
  <2>1. Idle'
    BY <1>2, <1>3, <1>5, Zenon DEF CustodyInv, Idle
  <2> QED
    BY <1>1, <1>4, <1>5, <2>1 DEF CustodyInv
<1>6. CASE act # "produce"
  <2>1. CustodyOfEvidence' /\ Offered' = Offered
    BY <1>1, <1>2, <1>6, EvidenceRests DEF CustodyInv
  <2>2. act # "audit" => Idle'
    BY <1>2, <1>3, Zenon DEF CustodyInv, Idle
  <2>3. act = "audit" => CommandInv'
    BY <1>1, NothingKeeps DEF CustodyInv
  <2>4. act = "audit" => QuestionInv'
    BY <1>2, <1>3, <2>1, Zenon DEF CustodyInv, QuestionInv, IsLogFile
  <2> QED
    BY <1>1, <1>4, <1>6, <2>1, <2>2, <2>3, <2>4, Zenon DEF CustodyInv
<1> QED
  BY <1>5, <1>6

\* Before anything is written the invariant holds.
LEMMA CustodyBegins == Init0 => CustodyInv
<1> SUFFICES ASSUME Init0 PROVE CustodyInv
  OBVIOUS
<1>1. ProducerInv
  BY NewChainInv DEF Init0, ProducerInit
<1>2. Idle
  BY Zenon DEF Init0, Idle
<1>3. IsSeq(<<>>)
  BY SeqIsSeq, EmptySeq
<1>4. act = "produce" /\ damage = <<>>
  BY Zenon DEF Init0
<1> QED
  BY <1>1, <1>2, <1>3, <1>4 DEF CustodyInv

-----------------------------------------------------------------------------
(* The theorems.                                                           *)

\* The invariant is inductive.
LEMMA CustodyInvariant == CustodySpec => []CustodyInv
<1>1. CustodyInv /\ [CustodyNext]_everything => CustodyInv'
  BY ProducingKeeps, HandOverKeeps, DamagingKeeps, AskKeeps, AuditingKeeps, RestKeeps
     DEF CustodyNext
<1> QED
  BY CustodyBegins, <1>1, PTL DEF CustodySpec

\* Whoever has the key file of an intact log's producer is never told by verify that the log
\* was altered, however long it is and whatever else lies in the directory.
THEOREM IntactIsNotAccused == CustodySpec => []IntactLogIsNotAccused
  BY CustodyInvariant, NotAccused, PTL

\* If the anchor command exits 0, the owner of the public key signed the anchor, and the
\* lines it commits to stand as the producer had written them, whatever was done to the
\* evidence, and by whom.
THEOREM AnchorIsShown == CustodySpec => []AnchorShowsTheOriginal
  BY CustodyInvariant, AnchorShown, PTL

\* Whatever a command accepts consists of beginnings of files that were written, line by
\* line, unless a holder of the key rewrote the history.
THEOREM AcceptedAreOriginal == CustodySpec => []AcceptedLinesAreOriginal
  BY CustodyInvariant, AcceptedIsOriginal, PTL

\* In a directory that a command accepts, no line is missing between the beginning of one
\* file of the chain that stands there and a later file, not even after a rewriting.
THEOREM NothingMissingBetween == CustodySpec => []NothingIsMissingBetween
  BY CustodyInvariant, NothingMissing, PTL
=============================================================================
