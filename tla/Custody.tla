------------------------------ MODULE Custody ------------------------------
(***************************************************************************)
(* The whole life of a log: a producer writes a chain of files, the files  *)
(* lie in a directory where they may be damaged, and somebody runs a       *)
(* command of logverify on what is left.  The damage is that of the        *)
(* conformance corpus and the tests: lines edited, removed, reordered or   *)
(* stripped of their MAC, files removed, copied, exchanged, cut short or   *)
(* made unreadable, and, by a holder of the key, a history rewritten and   *)
(* MACed again.                                                            *)
(***************************************************************************)
EXTENDS Commands, Producer

CONSTANTS Names,       \* what the files of the chain are called, in order
          Sibling,     \* the id of another chain of the same identity
          MaxDamage,   \* bound: how often the evidence is damaged, for each kind of
                       \* stranger that lies among the files: "", "sibling" or "v1"
          Damages,     \* the kinds of damage that are considered
          Asked        \* the questions asked after 0, 1, ... damages: which command,
                       \* on a directory or a file, with which options and keys

\* A question a command can be asked: an argument is given once or not at all, a path
\* is that of a file or of a directory with one key file in it, and only verify has
\* options.
IsQuestion(q) ==
  /\ q.command \in {"verify", "anchor"} /\ q.opt \in Options
  /\ q.command = "anchor" => q.opt = [allowUnsigned |-> FALSE, stopOnFirst |-> FALSE]
  /\ \A path, other \in q.key.identity : path = other
  /\ \A path \in q.key.identity : \A f, g \in path.itself \cup path.inside : f = g

\* The names in a directory differ from one another, and the chains are different ones.
ASSUME CustodyAssumption ==
  /\ Sibling # ChainID /\ Sibling # ""
  /\ ChainID \in ChainIDs /\ Sibling \in ChainIDs
  /\ \A n \in 1 .. MaxSeq + 1 :
       /\ Names[n] \notin {"live", "logid.key", "old.jsonl", "sibling", "v1", "copy"}
       /\ \A m \in 1 .. MaxSeq + 1 : Names[m] = Names[n] => m = n
  /\ \A s \in DOMAIN MaxDamage : /\ s \in {"", "sibling", "v1"} /\ MaxDamage[s] \in Nat
                               /\ 0 .. MaxDamage[s] \subseteq DOMAIN Asked
  /\ \A n \in DOMAIN Asked : \A q \in Asked[n] : IsQuestion(q)

VARIABLES
  act,                     \* "produce", "custody" or "audit"
  stranger,                \* what lies among the files of the chain
  damage                   \* the damage done so far, a sequence of kinds

custodyVars == <<act, stranger, damage, producerVars>>
everything == <<allVars, commandVars, custodyVars>>

-----------------------------------------------------------------------------
Producing ==
  /\ act = "produce"
  /\ ProducerNext
  /\ UNCHANGED <<act, stranger, damage, allVars, commandVars>>

LogEntry(source, lines) ==
  [log |-> TRUE, dir |-> FALSE, lstat |-> "file", open |-> TRUE,
   file |-> [source |-> source, lines |-> lines, err |-> FALSE]]

\* The first file of another chain of the same identity.
SiblingFile ==
  LET k     == DerivedKey(Identity, Sibling, 0)
      start == [start |-> TRUE, v |-> "2", chain |-> Sibling, seq |-> 0, prev |-> {}, body |-> 50]
      text  == [start |-> FALSE, v |-> "", chain |-> "", seq |-> 0, prev |-> {}, body |-> 51]
      mac   == HMAC(k, start, Zero)
  IN <<[form |-> "signed", text |-> start, mac |-> mac, hex |-> "lower"],
       [form |-> "signed", text |-> text, mac |-> HMAC(k, text, mac), hex |-> "lower"]>>

\* A file in format version 1, written with the key of the current file.
V1File == LET start == V1Line(TRUE, 60, Zero)
          IN <<start, V1Line(FALSE, 61, start.mac)>>

\* What Build leaves behind: the files, named in chain order, the symlink that
\* producers keep on the current one and the identity; a directory that is called
\* like a log; and perhaps a file of another chain or of version 1.
Delivered(other) ==
  [n \in 1 .. Len(files) |-> LogEntry(Names[n], files[n])]
  \o <<[LogEntry("live", files[Len(files)]) EXCEPT !.lstat = "symlink"],
       [LogEntry("logid.key", <<>>) EXCEPT !.log = FALSE],
       [LogEntry("old.jsonl", <<>>) EXCEPT !.dir = TRUE]>>
  \o (IF other = "" THEN <<>>
      ELSE <<LogEntry(other, IF other = "v1" THEN V1File ELSE SiblingFile)>>)

HandOver ==
  /\ act = "produce" /\ Started
  /\ act' = "custody"
  /\ stranger' \in DOMAIN MaxDamage
  /\ entries' = Delivered(stranger')
  /\ UNCHANGED <<vars, paths, stage, next, result, commandVars, damage, producerVars>>

-----------------------------------------------------------------------------
\* Damage.  The text of an altered line is one nobody wrote.
Altered(body) == body + 100

Stripped == [form |-> "nomac",
             text |-> [start |-> FALSE, v |-> "", chain |-> "", seq |-> 0,
                       prev |-> {}, body |-> 0],
             mac |-> Zero, hex |-> "lower"]

WithLines(e, ls) == [entries EXCEPT ![e].file.lines = ls]

\* The history a holder of the key puts in place of the original: the same files,
\* with other messages and the right MACs.
RemadeText(n, i, prev) ==
  IF i = 1 THEN [files[n][1].text EXCEPT !.prev = prev]
  ELSE [files[n][i].text EXCEPT !.body = Altered(Altered(@))]

RemadeMACs[n \in 1 .. MaxSeq + 1] ==
  LET prev == IF n = 1 THEN {} ELSE {RemadeMACs[n - 1][Len(files[n - 1])]}
      mac[i \in 1 .. Len(files[n])] ==
        HMAC(DerivedKey(Identity, ChainID, n - 1), RemadeText(n, i, prev),
             IF i = 1 THEN Zero ELSE mac[i - 1])
  IN mac

Remade(n) ==
  LET prev == IF n = 1 THEN {} ELSE {RemadeMACs[n - 1][Len(files[n - 1])]}
  IN [i \in 1 .. Len(files[n]) |->
        [files[n][i] EXCEPT !.text = RemadeText(n, i, prev), !.mac = RemadeMACs[n][i]]]

\* The lines ls of a file after damage at line i.
Damaged(kind, ls, i) ==
  CASE kind = "edit"     -> [ls EXCEPT ![i].text.body = Altered(@)]
    [] kind = "drop"     -> RemoveAt(ls, i)
    [] kind = "swap"     -> [ls EXCEPT ![i] = ls[(i % Len(ls)) + 1],
                                       ![(i % Len(ls)) + 1] = ls[i]]
    [] kind = "double"   -> InsertAt(ls, i, ls[i])
    [] kind = "strip"    -> [ls EXCEPT ![i] = Stripped]
    [] kind = "upper"    -> [ls EXCEPT ![i].hex = "upper"]
    [] kind = "unsigned" -> InsertAt(ls, i + 1, Stripped)
    [] kind = "tail"     -> SubSeq(ls, 1, i - 1)

DamageLines(kind, e, i) ==
  entries' = WithLines(e, Damaged(kind, entries[e].file.lines, i))

DamageFile(kind, e, i) ==
  \/ kind = "drop file" /\ entries' = RemoveAt(entries, e)
  \/ /\ kind = "copy" /\ \A d \in 1 .. Len(entries) : entries[d].file.source # "copy"
     /\ entries' = Append(entries, [entries[e] EXCEPT !.file.source = "copy"])
  \/ /\ kind = "exchange"
     /\ \E d \in 1 .. Len(entries) :
          /\ d < e /\ IsLogFile(entries[d])
          /\ entries' = [entries EXCEPT ![d].file.lines = entries[e].file.lines,
                                        ![e].file.lines = entries[d].file.lines]
  \/ kind = "vanished" /\ entries' = [entries EXCEPT ![e].lstat = "error"]
  \/ kind = "unreadable" /\ entries' = [entries EXCEPT ![e].open = FALSE]
  \/ kind = "cut" /\ entries' = [entries EXCEPT ![e].file.lines = SubSeq(@, 1, i - 1),
                                                ![e].file.err = TRUE]
  \/ /\ kind = "remake" /\ e = 1 /\ damage = <<>>
     /\ entries' = [n \in 1 .. Len(entries) |->
                      IF n <= Len(files) THEN [entries[n] EXCEPT !.file.lines = Remade(n)]
                      ELSE entries[n]]

LineDamages == {"edit", "drop", "swap", "double", "strip", "upper", "unsigned", "tail"}

Damaging ==
  /\ act = "custody" /\ Len(damage) < MaxDamage[stranger]
  /\ \E kind \in Damages, e \in 1 .. Len(entries) :
       /\ IsLogFile(entries[e])
       /\ \E i \in 1 .. Len(entries[e].file.lines) :
            /\ kind \notin LineDamages \cup {"cut"} => i = 1
            /\ IF kind \in LineDamages THEN DamageLines(kind, e, i)
               ELSE DamageFile(kind, e, i)
       /\ damage' = Append(damage, kind)
  /\ UNCHANGED <<vars, paths, stage, next, result, commandVars, act, stranger, producerVars>>

-----------------------------------------------------------------------------
\* The commitment r, as id makes it.
SignedBy(id, r) ==
  LET own == [r EXCEPT !.keyFp = Fingerprint(id)]
  IN [record |-> own, signature |-> Plain(Sign(id, own))]

\* The anchors somebody may check the log against: none that can be read, one the
\* producer signed, one with a field altered afterwards, one signed by somebody else
\* in the producer's name or in his own.
Offered ==
  LET signed == {anchors[k] : k \in DOMAIN anchors}
  IN {NoAnchor} \cup signed
     \cup {[a EXCEPT !.record.lineCount = 1] : a \in signed}
     \cup {[a EXCEPT !.signature.word = Sign("other", a.record)] : a \in signed}
     \cup {SignedBy("other", a.record) : a \in signed}

Ask ==
  /\ act = "custody" /\ act' = "audit"
  /\ stage' = "list"
  /\ \E q \in Asked[Len(damage)] :
       /\ command' = q.command /\ keyArg' = q.key /\ opt' = q.opt /\ pubKey' = q.pub
       /\ IF q.target = "dir" THEN target' = Directory
          ELSE target' \in {e \in 1 .. Len(entries) : IsLogFile(entries[e])}
       /\ IF q.command = "anchor" THEN anchor' \in Offered ELSE anchor' = NoAnchor
  /\ UNCHANGED <<file, keyFor, phase, pos, lineNum, prevMAC, key, cur, segments,
                 issues, calls, truncated, entries, paths, next, result, anchorOK, reached,
                 verdict, exit, stranger, damage, producerVars>>

Auditing ==
  /\ act = "audit"
  /\ CommandStep
  /\ UNCHANGED custodyVars

-----------------------------------------------------------------------------
Init0 ==
  /\ file = [source |-> "", lines |-> <<>>, err |-> FALSE]
  /\ opt = [allowUnsigned |-> FALSE, stopOnFirst |-> FALSE]
  /\ keyFor = <<>>
  /\ phase = "done" /\ pos = 1 /\ lineNum = 0
  /\ prevMAC = Zero /\ key = {} /\ cur = NoSegment
  /\ segments = {} /\ issues = {} /\ calls = {} /\ truncated = FALSE
  /\ entries = <<>> /\ paths = <<>> /\ stage = "waiting" /\ next = 1
  /\ result = NoResult
  /\ command = "verify" /\ target = Directory /\ keyArg = [identity |-> {}, keyFile |-> {}]
  /\ pubKey = {}
  /\ anchor = NoAnchor /\ anchorOK = FALSE /\ reached = {} /\ verdict = ""
  /\ exit = NoExit
  /\ act = "produce" /\ stranger = "" /\ damage = <<>>
  /\ ProducerInit

CustodyNext == Producing \/ HandOver \/ Damaging \/ Ask \/ Auditing

CustodySpec == Init0 /\ [][CustodyNext]_everything
FairCustody == CustodySpec /\ WF_everything(Auditing)

-----------------------------------------------------------------------------
(* What may be concluded from an exit code.                                *)
IsCounted(l) == ~(opt.allowUnsigned /\ l.form = "nomac")

\* The lines of a file that a replay does not pass over.
Content(e) == SelectSeq(entries[e].file.lines, IsCounted)

Readable(e) == /\ entries[e].open /\ ~entries[e].file.err
               /\ entries[e].file.lines # <<>>

\* The original, and what a holder of the key would put in its place.
Histories == {files, [n \in 1 .. Len(files) |-> Remade(n)]}

\* The command has the key that file n of a chain was written with.
HasKey(chain, n) ==
  HaveKey /\ keyFor[<<chain, n>>] = IF chain = "" THEN DerivedKey(Identity, ChainID, seq)
                                    ELSE DerivedKey(Identity, chain, n)

\* The segments of file e: it begins with a start line, and from each start line to
\* the next its lines are a prefix of one file that was written.
SegmentsOf(e, history) ==
  LET L       == Content(e)
      starts  == {i \in 1 .. Len(L) : L[i].text.start}
      written == {<<ChainID, n - 1, history[n]>> : n \in 1 .. Len(history)}
                 \cup {<<Sibling, 0, SiblingFile>>, <<"", 0, V1File>>}
  IN /\ 1 \in starts
     /\ \A s \in starts :
          \E t \in s .. Len(L), w \in written :
            /\ t = Len(L) \/ t + 1 \in starts
            /\ \A i \in s + 1 .. t : i \notin starts
            /\ IsPrefix(SubSeq(L, s, t), w[3]) /\ HasKey(w[1], w[2])

\* The files of each chain that lie in the directory are a run of consecutive files
\* of its history, each of them whole but for the last, which may have lost lines at
\* its end; files of version 1 are made of segments; and the command has all the keys.
RunOf(history) ==
  LET S          == {e \in Logs : Content(e) # <<>>}
      own(chain) == {e \in S : Content(e)[1].text.chain = chain}
  IN /\ HaveKey /\ Logs # {}
     /\ \A e \in Logs : Readable(e) /\ (Content(e) = <<>> => opt.allowUnsigned)
     /\ \A e \in own("") : SegmentsOf(e, history)
     /\ \A chain \in {ChainID, Sibling} :
          LET h == IF chain = Sibling THEN <<SiblingFile>> ELSE history
          IN \E lo, hi \in 0 .. Len(h), f \in [own(chain) -> 1 .. Len(h)] :
               /\ {f[e] : e \in own(chain)} = lo + 1 .. hi
               /\ Cardinality(own(chain)) = hi - lo
               /\ \A e \in own(chain) : /\ IsPrefix(Content(e), h[f[e]])
                                        /\ f[e] < hi => Content(e) = h[f[e]]
                                        /\ HasKey(chain, f[e] - 1)

Audited(c) == act = "audit" /\ exit # NoExit /\ command = c

\* "verify -dir" exits 0 exactly when the directory holds such a run: nothing that
\* was edited, removed, added or reordered inside it passes, whatever its file is
\* called, and a log that only lost its oldest files or its newest lines does pass,
\* also next to other chains and version 1 files, which are judged by themselves.
\* The leaked key of one file verifies that file only.
VerifyAcceptsExactlyTheRuns ==
  (Audited("verify") /\ target = Directory) =>
     (exit = 0 <=> \E history \in Histories : RunOf(history))

\* "verify -file" exits 0 exactly when the file is made of such segments: it
\* cannot see what a directory pass sees.
FileVerifyAcceptsExactlySegments ==
  (Audited("verify") /\ target # Directory) =>
     (exit = 0 <=> /\ HaveKey /\ Readable(target)
                   /\ \/ \E history \in Histories : SegmentsOf(target, history)
                      \/ Content(target) = <<>> /\ opt.allowUnsigned)

\* An intact log is not reported as altered to somebody whose key file names its
\* producer, even if the halves of that file do not belong together ("a confident
\* report that every line has been tampered with", identity.Open): a key that is
\* no good is refused before the evidence is judged.
IntactLogIsNotAccused ==
  (Audited("verify") /\ damage = <<>> /\ stranger # "v1" /\ exit = 1) =>
     \A path \in keyArg.identity : \A f \in path.itself \cup path.inside : f.public # Identity

\* The first lines of file n of the original stand, unaltered, in a file that the
\* command looked at.
PrefixStands(n, count) ==
  \E e \in {d \in IF target = Directory THEN Logs ELSE {target} : entries[d].open} :
    \E k \in 0 .. Len(entries[e].file.lines) - count :
      SubSeq(entries[e].file.lines, k + 1, k + count) = SubSeq(files[n + 1], 1, count)

\* "anchor" exits 0 exactly for an anchor that the owner of the given public key
\* signed, over evidence that verifies, when the lines the anchor commits to stand as
\* the producer had written them when it was signed: a history rewritten by a holder of
\* the key, right MACs and all, does not pass, and writing on after the anchor was
\* signed does not matter.
AnchorAcceptsExactlyTheOriginal ==
  Audited("anchor") =>
    (exit = 0 <=>
       /\ \E id \in LoadPublicKey(pubKey), k \in DOMAIN anchors :
            anchor = SignedBy(id, anchors[k].record)
       /\ PrefixStands(anchor.record.seq, anchor.record.lineCount)
       /\ \E history \in Histories :
            IF target = Directory THEN RunOf(history)
            ELSE Readable(target) /\ SegmentsOf(target, history))

\* What was signed holds whatever was done to the evidence, and however often, by a holder
\* of the key too: if "anchor" exits 0, the owner of the given public key signed the anchor,
\* and the lines it commits to stand as the producer had written them.
AnchorShowsTheOriginal ==
  (Audited("anchor") /\ exit = 0) =>
    /\ \E id \in LoadPublicKey(pubKey), k \in DOMAIN anchors :
         anchor = SignedBy(id, anchors[k].record)
    /\ PrefixStands(anchor.record.seq, anchor.record.lineCount)

\* The files that were written.
Originals == {files[n] : n \in DOMAIN files} \cup {SiblingFile, V1File}

Starts(f) == {s \in DOMAIN f.lines : IsStart(f.lines, s)}

\* The number of line i in the segment that starts at line s.
Number(L, s, i) == Cardinality({j \in s .. i : Signed(L, j)})

\* The segment of file f that starts at line s holds the first lines of w, in order, and
\* no other signed line.
Shows(f, s, w) ==
  \A i \in SegmentLines(f.lines, s) :
    Number(f.lines, s, i) \in DOMAIN w /\ f.lines[i] = w[Number(f.lines, s, i)]

\* Whatever else was done to the evidence, and however often, as long as nobody who holds
\* the key rewrote it: in what a command accepts each segment consists of the first lines
\* of one file that was written, unaltered, in order and without a gap.
AcceptedLinesAreOriginal ==
  (act = "audit" /\ exit = 0 /\ \A k \in DOMAIN damage : damage[k] # "remake") =>
    \A f \in Evidence : \A s \in Starts(f) : \E w \in Originals : Shows(f, s, w)

Stands(n) == \E f \in Evidence : \E s \in Starts(f) : f.lines[s] = files[n][1]

StandsWhole(n) ==
  \E f \in Evidence : \E s \in Starts(f) :
    Shows(f, s, files[n]) /\ Cardinality(SegmentLines(f.lines, s)) = Len(files[n])

\* In a directory that a command accepts, nothing is missing between a file that stands
\* there and a later one: the earlier one and all in between stand to their last lines.
NothingIsMissingBetween ==
  (act = "audit" /\ exit = 0 /\ target = Directory) =>
    \A n, m \in DOMAIN files :
      (n < m /\ Stands(n) /\ Stands(m)) => \A k \in n .. m - 1 : StandsWhole(k)

\* A command that was asked always ends with an exit code.
EveryCommandExits == act = "audit" ~> exit # NoExit

-----------------------------------------------------------------------------
(* What the documentation says and the code does not do.                   *)

\* "The anchor matched, so the anchored prefix is intact" (runAnchor).
MatchedPrefixIsIntact ==
  (Audited("anchor") /\ verdict = "prefix matches") =>
    PrefixStands(anchor.record.seq, anchor.record.lineCount)

\* "Problems found elsewhere in the file set do not invalidate the anchored prefix, and
\* must be reported separately rather than folded into the anchor verdict" (SPEC.md 7.3):
\* neither "altered" nor "not all here" is said of anchored lines that stand in a file
\* that could be opened, whatever else is wrong with the evidence.
NoFalseAccusationOfThePrefix ==
  (Audited("anchor") /\ verdict \in {"altered", "not reached"}) =>
    ~PrefixStands(anchor.record.seq, anchor.record.lineCount)

\* A break means "a file has been altered, replaced or reordered", and is not
\* looked for in a set that was not read to its end (SPEC.md 7.4).
BreaksAreNotInvented ==
  \A i \in result.issues :
    i.reason = "broken" => \A e \in Logs : ~entries[e].file.err
=============================================================================
