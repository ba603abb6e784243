# A verification of logverify in TLA+

logverify checks tamper-evident logs offline. A producer writes a chain of
JSONL files in which every line carries an HMAC over itself and the MAC of the
line before; an auditor who holds the producer's identity replays the chain and
reports what does not fit. This directory holds models of that program, the TLC
runs that check them, and TLAPS proofs about it: from the replay of one file over
the directory pass to the exit codes of both commands, about what a producer
writes, about what an exit code says of a log that was damaged in between or goes on
growing meanwhile, and about the runs of anchors a reader is handed.

The source is the reference: paths and line numbers below are those of the
repository (`chain/chain.go:230` is `src/chain/chain.go`, line 230).
`PROJECT.json` names for every definition the lines it stands for.

## The system

| Component | State | Operations | Talks to |
|---|---|---|---|
| chain replay, `chain/chain.go` | line counter, running MAC, key and open segment; the `Result` under construction | `VerifyReader` | a `KeyFunc` for every start line, `OnLine` for every line that was checked |
| link check, `chain/chain.go` | none, a function of the segments | `LinkIssues` | called once by `VerifyDir` |
| directory pass, `chain/chain.go` | list of paths, combined `Result` | `VerifyDir`, `VerifyFile` | file system; `VerifyReader` file by file |
| anchors, `anchor/anchor.go` | none: signed records that form a succession | `Validate`, `Verify`, `Digest`, `FollowsFrom` | the producer signs, `runAnchor` verifies |
| commands, `cmd/logverify` | the captured MAC, exit code | `verify`, `anchor` (and `version`, `help`) | identity and key files, `VerifyDir` or `VerifyFile`, `anchor.Verify` |
| producer, `internal/corpus` | file number, running MAC, closing MAC of the last file, anchor counters | `New`, `StartSegment`, `Line`, `V1Line`, `Rotate`, `Anchor`, `Build` | writes the directory that the rest reads |
| identity, `identity/identity.go` | the private key | `Open`, `DeriveChainKey`, `ChainKeys`, `InterpretKeyMaterial` | gives the `KeyFunc` |
| observation batches, `observation` | none: signed batches that form a succession | `Canonicalize`, `Validate`, `Verify`, `FollowsFrom`, `VerifyChain` | independent of the chain |

The verifier is one goroutine: nothing in it is concurrent. What is hard is
elsewhere:

- **Order.** The verdict on a line depends on the lines before it, through three
  pieces of state (key, running MAC, open segment) that different lines set and
  reset; the verdict on a set of files depends on how they are sorted.
- **Partial failure.** A file that cannot be opened, a read that fails in the
  middle, an early stop, a missing key: each leaves a partial result that the
  next stage reads.
- **Independent parties.** The producer goes on writing, rotating and compressing
  while the log is read, and after an anchor was signed; files get lost or are
  rewritten between writing and verifying; statements pass through hands that may
  withhold, repeat, reorder or respell them; a monitor may start again from
  nothing with the same key.
- **Numbers.** File numbers are `uint64` that are parsed from text with the
  error dropped and are subtracted from one another; anchor numbers wrap around;
  a time is signed as the 64 bits of its nanoseconds.

What makes each part correct:

- *replay*: it reports exactly the lines that are wrong, one altered line
  condemns one line, and an empty report means that every line was chained
  under a key;
- *link check and directory pass*: a clean directory is a run of consecutive
  undamaged files, whatever the files are called and in whatever order ties come
  out;
- *anchor check*: exit 0 means that the committed prefix is the one that was
  signed, also against somebody who holds the HMAC keys;
- *producer*: it writes what the verifier takes for one chain, and never writes
  anything again that an anchor commits to;
- *keys*: an intact log is not reported as altered because of a key file that
  is no good, and a leaked key of one file verifies that file only;
- *signed statements*: a run of batches or anchors from whose middle nothing is
  missing is accepted, one that lacks, repeats or reorders a statement is not, and is
  said to fail where it does;
- *commands*: they end, with the exit code the evidence deserves; of a log that
  goes on growing, whatever was there at the start is verified.

The full list of hazards, each at its line and with the properties that watch
it, is under `hazards` in `PROJECT.json`.

## The modules

| Module | Models | |
|---|---|---|
| `Uint` | `uint64` of width `W` and `ParseUint` with its error dropped | |
| `Keys` | spelling of texts; `identity.Open`, `Fingerprint`, `DeriveChainKey`, `ChainKeys`, `InterpretKeyMaterial`; `keySource`, `loadPublicKey` | extends `Uint` |
| `ChainFormat` | lines, HMACs; what a file says about itself (`Governs`, `Precedes`, `Chained`, `Bad`) | extends `Keys` |
| `LineReport` | **abstract specification**: a judge without memory that takes the lines in order and decides each from the file alone | extends `ChainFormat` |
| `ChainReplay` | `VerifyReader`, one action for each way through the loop body | implements `LineReport` |
| `Link` | `LinkIssues`, as a function of the segments and of the order the sort left | |
| `VerifyDir` | `VerifyDir`, `VerifyFile`; what a directory claims (`Flawless`, `AllClaims`) | `ChainReplay` step by step, and `Link` |
| `AnchorFormat` | `Validate`, `Verify`, `Digest`, `FollowsFrom` of an anchor | extends `Keys` |
| `Observation` | the package `observation` | extends `Keys` |
| `Producer` | `corpus.Producer` | |
| `Commands` | `runVerify`, `runAnchor` and their exit codes | `VerifyDir` and `AnchorFormat` |
| `Custody` | the whole life of a log: written, damaged, audited | `Producer` and `Commands` |
| `Live` | a log that is written to while it is audited | `Producer` and `Commands` |
| `Relay` | batches and anchors on their way to a reader | `Producer` and `Observation` |
| `MCReplay`, `MCDirectory`, `MCCommands`, `MCCustody`, `MCLive`, `MCRelay` | the instances TLC checks | |
| `ChainReplayProofs` | theorems about the replay: findings, and the judge it implements | |
| `ReplayAccountProofs` | theorems about the replay: segments, calls of `OnLine`, early stops | extends `ChainReplayProofs` |
| `DirectoryProofs` | theorems about `LinkIssues` and `VerifyDir` | extends `ReplayAccountProofs` |
| `CommandProofs` | theorems about `verify` and `anchor` | extends `DirectoryProofs` |
| `ProducerProofs` | theorems about the producer | |
| `RelayProofs` | theorems about runs of anchors | extends `ProducerProofs` |
| `CustodyProofs` | theorems about what a command says of a log that was damaged | extends `CommandProofs` and `ProducerProofs` |
| `LiveProofs` | theorems about what a command says of a log that is being written | extends `CommandProofs` and `ProducerProofs` |

### Replay (`ChainReplay`)

The variables are the locals of `VerifyReader` (`lineNum`, `prevMAC`, `key`,
`cur`) and the fields of its result (`segments`, `issues`, `truncated`); `calls`
collects the calls made to `OnLine`, and `pos` is the scanner. `key` and the
closing MAC are sets of at most one element, since the code distinguishes nil
from every value. Issues, segments and calls carry in addition the physical line
`at`, which no action reads: the properties need it, because `lineNum` does not
count blank lines.

The actions are the outcomes of the loop body in its order: a blank line
(`SkipBlank`); a line without a brace or a MAC where that is allowed
(`SkipUnsigned`) or not (`RejectLine`, also for a MAC field of the wrong
length); a line before any start line (`Orphan`); a line of a segment without a
key (`KeylessLine`); the MAC check (`CheckLine`); a start line
(`StartSegment`), which closes the open segment, opens its own, asks for a key
and then runs the same MAC check; and the end of the input (`EndOfInput`), which
is also where a read error surfaces. `Report` is `add` with the `stop` that
follows it under `StopOnFirst`.

Text is abstracted to what parsing finds: the form of the line, the fields of a
start line, the MAC as 32 bytes together with how it is written. The latter
matters because the code compares the *text* with lower case hexadecimal. HMAC
is symbolic: equal MACs mean equal key, equal text and equal predecessor.

### Links, directories, commands

`Link` keeps the pairwise comparison of `LinkIssues` in arithmetic modulo `W`.
`sort.Slice` is not stable, so `Orders` is the set of all results it may leave,
and `LinkUp` picks one.

`VerifyDir` keeps the entries of the directory in the order of their names, which
is the order `os.ReadDir` and `sort.Strings` leave; `ListDir` takes the n-th of
those that are logs (`Nth`) as the n-th path. It goes from `ListDir` over `OpenFile` (or `OpenFails`, which reports
and goes on), the steps of the replay and `Accumulate` for each file to
`LinkUp`, which is skipped if a replay was truncated. `Commands` wraps it:
`BadArguments`, then `CheckAnchor` before the key is asked for and before
anything is read, `GetKey` or `NoKey`, `Capture` as the `OnLine` callback in the
same step as the call, then the exit code. Both modules can be run on their own
(`DirSpec`, `CommandSpec`), on any entries at all, whoever wrote them; `Custody` and
`Live` take their steps and let the entries come from a producer.

### Keys and texts

An identity is its private key, and what is derived from different things is
different. A text is a word together with how it is spelled, because the code
trims and lowers some texts and not others: a batch's signature may be padded or
in upper case and still be named by its successor, an anchor's may not
(anchor.go:157, :175). `KeySource` is the function that `keySource` returns, or
none: two sources, a path without a key file, a file that does not parse, keys of
the wrong size, halves that do not belong together, blank material. Material that
spells 32 bytes is one key for every file, other material a passphrase.

### Producer and custody

`Producer` has an action for each method, with the guards the method has and the
bounds; `files` and `anchors` keep what the methods hand out. `ProducerNext` drives it
as `Build` and the tests do: in any order, but no file is anchored (`AnchorStarted`) or
rotated away (`RotateStarted`) before it is started (`StartFile`). The code does not
ask for that: see below. The running MAC is `macNow`, since `prevMAC` is the replay's.

`Custody` lets the producer write, hands the directory over (`Delivered`: the files
under their `Names`, the symlink on the live file, the identity, a directory that is
called like a log and, perhaps, a `stranger`: a file of another chain of the same
identity, or one of version 1), does at most `MaxDamage` of the kinds of damage the
tests and the corpus do, and then runs one command with some key.
`Remade` is the history that a holder of the HMAC keys would put in place of the
original.

### A live log

In `Live` nothing is damaged, but the producer does not stop for the audit: a file
appears before its start line does, a line can be seen half written, a file is
closed and the next one begun, and a closed file may be compressed, so that the
name it was listed under is gone. `VerifyDir` reads the names first, asks what each
of them is (`Lstat`), and opens the files after that; a file may go away in either
gap. What happens between the listing and the `Lstat` of a file happens here while the
first file has not been taken: `Compress` then may mark the file as `overlooked`, and
`PassOver` goes on to the next file without a word where `OpenFails` reports
(`NothingFound` if there is no other). The command reads the files one after the other,
each as it is by then (`DirectoryChanges`): a line that is completed between two
reads is seen whole. Once the reader has taken a torn line for the last one
(`AtEnd`), it has reached the end of the input and sees nothing that comes after.

### Statements on their way

`Relay` publishes batches (chained to one another, over lives of the monitor that
each start from number 1 under the same key) or lets `Producer` sign anchors, and
hands them to a reader who checks the run he has whenever a message arrives.
`HandOn` passes on any published message, so that withholding, repeating and
reordering need no action of their own; `Tamper` respells, alters or signs again.
`Arrive` keeps what `VerifyChain` does to its argument: the batches it came to are
left in canonical form, and the next check starts from there; `arrived` keeps them as
they came. `Unaltered` says of arrived batches that there is nothing wrong with them by
any reading of the documentation, `SameStatements` that what they say was said. A run
that fails is not the first, one that is accepted is the second; between the two lie
the spellings and times that the code lets pass and the documentation does not
(two of the runs below, and `prevBatch`). For anchors the pass
is the one of the tests, `Verify` on each and `FollowsFrom` on neighbours.
Targets and services are sequences of character codes there, because their order
and their concatenation with `|` decide what happens.

## What is checked

| Run | Shows |
|---|---|
| `replay` | Over every file of the menu, both options and a failing read: a replay reports exactly the bad lines, a clean one has chained every line, segments describe the file as it is on disk, `OnLine` gets every line once and numbered from 1, an early stop has one finding, nothing is taken back, and the replay implements `LineReport` (liveness included) |
| `commands` | on evidence of unknown origin: the directory pass finds nothing exactly if every log file can be opened and is flawless and the segments claim to be one unbroken run for each chain; a jump counts the files that are absent; `verify` exits 0 exactly if there is a key and the evidence is flawless, whichever finding, unreadable file, early stop or missing key comes first; each verdict of `anchor` is founded on the lines the anchor commits to. The right sides speak of the files alone, without a replay |
| `custody_verify` | `verify -dir` exits 0 exactly for a run of consecutive undamaged files of each chain, `verify -file` exactly for a file made of prefixes of files of the history (all that one file can show): on an intact directory with every option and every kind of key, after one damage with every option and with the leaked key of a file, after two damages so that one may hide another, and, with one damage, beside a stranger. What is accepted consists of the first lines of files that were written, and nothing is missing between two files that stand. An intact log is not said to be altered to somebody whose key file names its producer |
| `custody_anchor` | `anchor`, on a file or a directory, exits 0 exactly if the evidence verifies, the anchor is signed by the owner of the public key and the committed lines are the original ones, also against a remade history; and it always exits |
| `relay` | a run of anchors fails exactly at its first break; a run of batches that came as they were signed, one after the other, does not fail, one that lacks, repeats, reorders or restates anything does, and it fails where that is; the check does not depend on having been made before; every interleaving of lines, rotations and anchors writes one chain; anchors commit to prefixes that stay and form one succession, also across the wrap-around |
| `live` | a log that is only being written is accused of nothing but its last line or its emptiness, at the end of the newest listed file, or of a file that was compressed before it was opened; what was there when the command was started, and was not compressed away, has been verified when it exits; an anchor signed before is matched |
| `find_*` | the six disagreements below |

Every property of a passing run comes with a mutant of the code that breaks it
(`mutants` in `PROJECT.json`); the mutated operators stand before the
definitions they replace.

`RunOf` in `Custody` is the exact meaning of "verify succeeded": for each chain,
the files are consecutive files of one history, each whole but the last, which may
have lost lines at its end, and the command had their keys. The characterisation is
an equivalence, so it also tells what `verify` does *not* see: oldest files that are
gone, newest files that are gone, and a shortened last file. The comment on
`LinkIssues` ("the check that makes deleting a WHOLE FILE visible") holds for files
in the middle. That is what anchors are for.

`HealthyLogIsNotAccused` is exact in the same way: a file that is rotated into its
compressed form between the listing and its turn is reported as unreadable, and
the file after it as following a gap, on a log nobody has touched (chain.go:284 to
:313). A verifier of a live directory has to expect that; the exit code is 1.

### Bounds

- `W = 4` in place of 2^64: the file numbers in use are 0 to 2, so
  that a successor, a gap, equal numbers and a wrap-around of the subtraction
  all occur; the menu of `replay` has a number out of range and one that is not
  a number. In `relay` a chain of anchors may begin at number 2, so that the third
  anchor wraps to 1, and a batch may claim a time one wrap later.
- `replay`: files of three lines over fourteen kinds of line. The verdict on a
  line depends on its start line, the signed line before it and itself
  (`ChainFormat!Bad`), so three lines hold every combination of them, and
  a blank, unsigned or malformed line between a start line and the next one; the
  proofs cover all lengths.
- `commands`: for `verify` two files of any of 24 contents, or three of seven that
  include every way to follow, skip, repeat or contradict a file; one of two may be a
  symlink or not be openable. Links are between neighbours and a replay is of one
  file, so a third file is only needed to have one between two others. Files come in
  every order, so that the sort matters. For `anchor`, and for `-file`, two files
  of fifteen contents, or one whose name is no log's, and an anchor over a line that
  is there, that is another one, or that is missing, a forged one, one that cannot be
  and none; with each option, and with a right identity, a wrong one, one of unrelated
  halves and a raw key.
- `custody_*`: up to three files of two lines or two files of three, which have
  a first, a middle and a last file, and a first, a middle and a last line. One
  damage at every place, two for `verify` where no stranger lies about (`MaxDamage`);
  questions by the number of damages (`Asked`). The proofs have any number of each.
- `relay`: runs of three messages (`MaxRun`), the least that has a middle; three
  batches (`MaxBatches`) in at most two lives (`MaxLives`), one of them unfit to be
  stated (`MaxUnfit`), one message tampered with (`MaxForged`), three anchors
  (`MaxAnchors`) over two files. Batches have at most three entries and a bitmap two
  characters in place of 2048 and 512. The menu of statements has a sorted and an
  unsorted pair, a target with a bar in it, a pair that is not told apart, and one
  statement for each reason to refuse. The two runs about what is accepted too widely
  need two batches.
- `live`: up to three files of two lines, one anchor, two compressions
  (`MaxCompressed`), so that all closed files may go, one unseen by `Lstat` and the
  other unseen by `Open`. `verify` is asked where no anchor was signed and `anchor` where
  one was, which halves the states and loses nothing: `verify` reads no anchor.
- `MaxAnchors`, `MaxSeq`, `MaxLines` bound the producer everywhere; a producer that
  reached a bound just stops.

### Fairness and deadlock

A command is a sequential program that nobody waits for and that waits for
nobody: it keeps running until it returns. Hence weak fairness on the next step
of the replay (`WF_vars(ReplayStep)`) and, in `Custody`, of the command
(`WF_everything(Auditing)`), and on nothing else; the producer need not write
and nobody has to ask. `Live` has no fairness and no liveness property: nothing in the
code makes the reader of a file end that grows as fast as it is read (chain.go:132), and
that it does end within the bounds of `live` would say nothing. `replay` and
`commands` check for deadlock (a replay that has returned and a command that has
exited stutter explicitly, and nothing else may stop). The runs of `Custody`,
`Live` and `Relay` do not: there the system may stop, when the producer has
reached its bounds, the reader has his run or the command has exited.
In `Custody`, `EveryCommandExits` takes the place of the deadlock check.

### Where the code and its words part

Six have a run that ends in a counterexample; the quotations are in
`PROJECT.json` under `findings`.

- `find_match`: "the anchored prefix is intact" is printed when only the MAC at
  the committed line is; an edited line below it is reported elsewhere.
- `find_accused`: problems elsewhere "must be reported separately rather than folded
  into the anchor verdict" (SPEC.md 7.3), but the last call of `OnLine` decides: a copy
  of the file that lost a line makes the log "NOT match the anchor", though the anchored
  lines stand in the original beside it. It takes two damages.
- `find_invented`: a read error leaves a segment with a MAC that is not its
  closing MAC, and the *next* file is blamed for a broken link.
- `find_overlooked`: `VerifyDir` "replays every signed log file in dir", but one that is
  compressed after `ReadDir` and before `Lstat` is passed over without a word, and if
  it is the oldest, `verify` exits 0.
- `find_digest_text`: the digest of a batch is "over the hexadecimal signature text",
  "the same construction as the anchor digest" (SPEC.md 10.5), but is taken over the
  text in lower case and trimmed; so a batch may be handed on respelled, and still be
  succeeded, where an anchor may not.
- `find_wrapped_time`: "nobody has altered it since" (SPEC.md 10.1) does not hold of
  the time of a batch, of which the low 64 bits are signed; one 2^64 ns away is
  accepted.

Smaller ones have no run of their own. Three are exceptions that a property of a
passing run has to name:

- two segments that state one number are reported as a jump of 2^64 - 1 missing files
  (`JumpsCountTheAbsentFiles`; chain.go:367);
- an honest batch whose targets or services contain a bar may be refused for a
  repetition that is none, as its entries are told apart by three strings joined with
  bars (`ToldApart`, in `BatchRunFailsAtItsFirstBreak`; observation.go:243);
- `prevBatch` and `keyFp` are "64 hex characters", lowered but not trimmed (SPEC.md
  10.4, 10.6), and the code trims them (`SpelledAsSpecified`, in the same property;
  observation.go:122).

The others can be read off the model:

- blank lines are passed over before they are counted, so the line number of an issue
  is not that of the line in its file (`SkipBlank`; chain.go:134, against :50);
- "one unbroken chain" is said of the files of two chains, and of files of version 1
  that are not linked at all (`Orders` is by chain; verify.go:103, against :16);
- `Anchor` commits to "everything written in the current segment so far", but one signed
  after `Rotate` and before the next `StartSegment` says of the next file what is true
  of the closed one; nothing in the repository calls it like that (`AnchorStarted`;
  corpus.go:159);
- `anchor` needs an HMAC key (`NoKey`), against its usage text;
- `StopOnFirst` ends the replay of one file and the directory pass goes on to the next
  (chain.go:89, :309);
- a file of a directory that cannot be opened is a finding, with exit 1, where `-file`
  and the comment at main.go:14 have exit 2.

## What is proved

The theorems hold for every value of the constants: every set of lines, every file
of any length, directories of any size, every key function and every option, any
number of lines, files, damages, anchors and messages, every width of the integers.

| Theorem | Statement |
|---|---|
| `ChainReplayProofs!TypeCorrect` | `Spec => []TypeOK` |
| `ChainReplayProofs!ReportIsExact` | the lines that were reported are those the file shows to be bad |
| `ChainReplayProofs!CleanIsChained` | an empty report means that the file was read to its end and every line chained under a key |
| `ChainReplayProofs!ReplayOnlyAdds` | no issue, segment or call is taken back |
| `ChainReplayProofs!ReplayImplementsJudge` | each step of the replay is a step of `LineReport` or leaves its variables alone |
| `ReplayAccountProofs!SegmentsAreDescribed` | the recorded segments are those of the file, with their number of lines, closing MAC and order |
| `ReplayAccountProofs!OnLineCounts` | `OnLine` gets every line of a segment with a key once, numbered from its start line, with the MAC on disk |
| `ReplayAccountProofs!TruncatedIsOneFinding` | `Truncated` is set exactly by an early stop, and then there is one finding |
| `DirectoryProofs!LinkIsExact` | `LinkIssues` is empty exactly if each chain is a run of consecutive numbers that name their predecessor's closing MAC |
| `DirectoryProofs!LinkIgnoresTheOrder` | whether it is empty does not depend on the order the sort leaves |
| `DirectoryProofs!DirectoryIsExact` | `VerifyDir` finds nothing exactly if every log file can be opened and is flawless and the claims of all files link up |
| `CommandProofs!PassIsExact` | the same, as a part of a command |
| `CommandProofs!VerifyIsExact` | `verify` exits 0 exactly if there is a key and the evidence is flawless |
| `CommandProofs!AnchorIsFounded` | each verdict of `anchor` is founded on the lines the anchor commits to |
| `ProducerProofs!ProducerWrites` | what the producer has written is one chain |
| `ProducerProofs!ProducerAnchors` | anchors commit to prefixes that stay, and form one succession |
| `ProducerProofs!ProducerIsNotAccused` | no line of an untouched log is bad |
| `RelayProofs!RelayedAnchors` | a run of anchors fails exactly at its first break |
| `RelayProofs!RelayWrites`, `RelayAnchors` | the two producer invariants, behind a relay |
| `CustodyProofs!IntactIsNotAccused` | an intact log is not said to be altered to somebody whose key file names its producer |
| `CustodyProofs!AcceptedAreOriginal` | what a command accepts is made of the first lines of files that were written, unless the history was remade with the key |
| `CustodyProofs!NothingMissingBetween` | in an accepted directory, nothing is missing between a file that stands there and a later one |
| `CustodyProofs!AnchorIsShown` | `anchor` exits 0 only if the anchor was signed and the committed lines are the original ones, also against a remade history |
| `LiveProofs!HealthyIsNotAccused` | a log that is only being written, rotated and compressed is accused of nothing else |
| `LiveProofs!AllThatWasThereIsRead` | what was there when the command was started, and was not compressed away, has been verified when it exits |
| `LiveProofs!AnchorIsReached` | an anchor signed before that is matched |

The chain of results reads from the bottom: a producer writes no bad line
(`ProducerIsNotAccused`), a replay reports the bad lines and no others
(`ReportIsExact`), the directory pass finds exactly what the replays report and what
does not link up (`DirectoryIsExact`), and the commands turn that, and what
`OnLine` delivers, into their exit code (`VerifyIsExact`, `AnchorIsFounded`).
`CustodyProofs` joins the two ends: what an exit code says of the evidence, and what
that says of the log as it was written. `LiveProofs` does so for a log that nobody
damages but that does not hold still.

**Assumptions.** `W` is a natural number greater than 1 (`WAssumption`); lines are
well formed (`LineAssumption`); the producer's chain has an id
(`ProducerAssumption`: `Build` fills in one where none is given, fixture.go:45, and
`DeriveChainKey` refuses an empty one, identity.go:133; version 1, which has none, is
another format); a forger's identity is not the producer's (`RelayAssumption`);
the names in a directory differ, the producer's other chain is another one, and a
question is one that the command line can ask, with one key file under a path
(`CustodyAssumption`; `DirInit` says the first of an unknown directory); the files of a
growing chain have different names, its id is among those the keys are derived for, and
only `verify` has options (`LiveAssumption`). TLC checks them
on the runs.
Behind all of it stands the symbolic reading of HMAC and of signatures.

**The invariants.** None of the properties is inductive alone. Each strengthening
below was checked by TLC as an invariant of the run before it was proved.

- `ReplayInv`. What the code knows when it judges a line is its local state, what
  the property speaks of is the file. `OpenSegment` ties them together: if a segment
  is open, the line it was opened at is the start line that governs the next line,
  `key` is the key the file calls for there, and `prevMAC` is, if the segment has a
  key, what the last signed line states on disk (unless that cannot be decoded). With
  it, `CheckOutcome` shows that the MAC check in the code decides `Chained`, and so
  whether `Bad` holds. `FlagsWhatWasRead` keeps issues at or below the position of
  the scanner; `CleanSoFar` and `CleanEndsAtTheEnd` carry the absence of issues from
  `scan` to `done`. `StepReads` summarises what any step does to a report, from one
  lemma per action, so that each part is argued once, not eight times.
- `AccountInv` adds what is counted: the open segment is described as far as it was
  read, closed ones to their end (`OpenIsDescribed`, `ClosedAreDescribed`), each has
  what the start line it stems from says (`SegmentsStem`; the number is the one
  nearest to the text, which is how `SegmentsDescribeTheFile` says what becomes of a
  number that is out of range or none), and calls and lines handed over are in bijection (`CallsTell`, by cardinality).
  `StepAccounts` plays the part of `StepReads`.
- `FileInv` adds when a finding is about no line (`FileFindings`); from it
  follows that a replay finds nothing exactly in a flawless file (`FileIsExact`) and
  records what the file claims (`FileIsRecorded`).
- `DirInv` carries this from file to file: as long as nothing was found, the files so
  far were flawless, and the segments recorded so far are, one to one, what these
  files claim (`Recorded`). "One to one" is needed because `LinkIssues` compares
  neighbours, and two segments that say the same are two. Distinct names and one
  start line for each segment give it. `LinkIsExact` then decides the last step.
- `CommandInv` adds what the key and the signature check establish before anything is
  read, and `CaptureInv`: what was captured is the MAC of a committed line among
  those read so far, and is nothing if there was none. It does not say of *which* of
  several committed lines, for the code takes the last. That lines have been *read*,
  and not only that nothing was found, needs `ReadsThrough`, and holds because the
  anchor command never stops early.
- `ProducerInv` ties the producer's fields (`prevMAC`, `lineCount`, `lastMAC`) to the
  files (`InStep`), says what stands in a file (`FilesWritten`) and that every anchor
  was issued over lines that are there (`AnchorsIssued`), with numbers that run on
  modulo `W`.
- `RelayInv` adds that two anchors of the producer differ, although their numbers may
  be equal once they have wrapped (`AnchorsDiffer`: each names the digest of the one
  before it, back to the first, which names none of them), and that the verdict on a
  run belongs to the run as it is (`RunChecked`).
- `CustodyInv` is the producer's invariant and, while a command runs, the command's,
  with what ties them: before any damage the directory is what the producer
  `Delivered`; after any, its lines are lines, and each states a MAC that stands in a
  file that was written (`Traced`), unless the history was remade. No damage but that one
  makes a MAC, and this is all the invariant says of them: lines may be repeated,
  exchanged, altered and lost in any number. It is enough because of `ChainedIsCopy`. In
  a flawless file each line's MAC is over its text and the MAC of the line before it; if
  a MAC is one that the producer wrote, so are the text and the MAC before it (equal
  MACs mean equal everything), and so on down to the start line, whose predecessor is
  the zero MAC and no other line's. So the lines up to there are the producer's, in his
  order. For an anchor one MAC is known to be his, the committed one, whatever the other
  lines are; for `NothingIsMissingBetween` the closing MAC that a later file's start line
  names, so that both hold after a remaking too. Which segment follows which is taken
  from `LinkIsExact`, going down from the later file to the earlier one (`Greatest` in
  place of an induction). `NotAccused` goes the other way: a `Delivered` directory is
  flawless and links up, so that `VerifyIsExact` excludes exit 1.
- `LiveInv` speaks of a file by how many of its lines have been read, because the file
  itself does not stay. While file n is replayed, `Opened(c)` says that the open
  segment is that of its first c lines, and `InWhole(c)` or `PastTorn(c)` that the
  reader stands in what is visible by now, or has taken the torn line for the last one
  and sees no more. A read file has had `Enough`: all that was there when the command
  was started, and, unless it is the newest listed, all it will ever have. For that the
  invariant has to say which files are closed: all but the last listed one, as files
  are listed only up to the current one and each is listed before it is read
  (`PathsInv`). What `Lstat` overlooked is gone, so a file that is passed over is one
  the properties except. `Excused` is the property said of an issue before the pass is over,
  `CaptureDone` that the anchored line was captured if it has been read. The proof has
  two halves that never meet: `MeanwhileKeeps` for what the producer and the rotation
  do, while the command stands still, and one lemma per action of the command, while the
  log stands still (`Still`). Files grow at their end only (`Kept`, from
  `ProducerProofs`), which makes all that was read stay as it was.

**Only model-checked.**

- Liveness (that a replay and a command end, and the fair part of the refinement) is out of the prover's reach.
- `VerifyAcceptsExactlyTheRuns`, `FileVerifyAcceptsExactlySegments` and
  `AnchorAcceptsExactlyTheOriginal` are equivalences, and say which damaged directories
  pass as well as which do not. Their right sides take the lines that are not passed
  over (`Content`, a `SelectSeq`, which is recursive) and the remade history (which
  has its MACs from a recursion over files and lines), so that both need an induction
  over data. The proved properties are the direction that an auditor relies on, said
  without either.
- `BatchRunFailsAtItsFirstBreak`: the canonical form of a batch sorts its entries by
  rank, and what sorting does to a sequence of any length takes an induction over
  data.

## What is not modelled

- **Flags, printing, JSON, gzip**: flags that contradict one another end in exit 2
  before anything is read, and are left out; so is the layout of reports. A
  compressed file delivers lines, or a read error, as an uncompressed one does.
- **Cryptography**: symbolic throughout. Domain separation between anchors and
  batches is therefore assumed, not shown.
- **What a bitmap says**: the code never looks into one, so neither "down is a
  subset of probed" nor the supersession of earlier batches (SPEC.md 10.3) is
  anything the program does.
- **`SegmentAt`, `Short`, `PublicKeyBase64`, `String`**: lookups and formatting that
  change nothing and decide nothing.
- **Compressing while a file is being read**: an open file stays readable when its
  name goes.

## What is left

Every part of the verifier and the producer is modelled, and each that keeps state has
its theorems. Of what is only model-checked, one thing could be proved with the present
provers: that the runs of `RunOf` pass (the direction of `VerifyAcceptsExactlyTheRuns`
that is proved for an intact log only), once `Content` is said without a recursion.
