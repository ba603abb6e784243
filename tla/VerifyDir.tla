----------------------------- MODULE VerifyDir -----------------------------
(***************************************************************************)
(* chain.VerifyDir: discover the signed log files of a directory, replay   *)
(* each of them, accumulate what the replays return, and check that the    *)
(* segments link up unless a replay was truncated.  The replay of a file   *)
(* is ChainReplay's, step by step, on the variables of that module.        *)
(***************************************************************************)
EXTENDS ChainReplay, Link, SequencesExt

VARIABLES
  entries,       \* os.ReadDir(dir), in name order
  paths,         \* the entries that are log files, in path order
  stage,         \* "list", "files", "replay", "returned" or "error"
  next,          \* index in paths of the file to verify next
  result         \* combined

dirVars == <<entries, paths, stage, next, result>>
allVars == <<vars, dirVars>>

\* A directory entry: does the name end in .jsonl or .jsonl.gz, is it a
\* directory, what does Lstat say ("file", "symlink" or "error"), can it be
\* opened (and, for .gz, does it start with a gzip header), and what does
\* reading it deliver.
Entry == [log : BOOLEAN, dir : BOOLEAN, lstat : {"file", "symlink", "error"},
          open : BOOLEAN, file : File]

\* Mutant: a symlink counts as a file.
IsLogFileLinked(e) == ~e.dir /\ e.log /\ e.lstat # "error"

IsLogFile(e) == ~e.dir /\ e.log /\ e.lstat = "file"

NoResult == [files |-> 0, lines |-> 0, segments |-> {}, issues |-> {},
             truncated |-> FALSE]

-----------------------------------------------------------------------------
\* The places, in the listing, of the entries that are neither directories nor
\* symlinks and have the suffix.
Logs == {i \in DOMAIN entries : IsLogFile(entries[i])}

\* The k-th of them.
Nth(k) == CHOOSE i \in Logs : Cardinality({j \in Logs : j <= i}) = k

\* The log files; the names in a directory are listed in order, so sort.Strings(paths)
\* leaves them in this order.  Without any, the call fails.
ListDir ==
  /\ stage = "list"
  /\ paths' = [k \in 1 .. Cardinality(Logs) |-> entries[Nth(k)]]
  /\ stage' = IF Logs = {} THEN "error" ELSE "files"
  /\ UNCHANGED <<vars, entries, next, result>>

\* Mutant: the loop does not go on to the next file.
OpenFailsAgain ==
  /\ stage = "files" /\ next <= Len(paths)
  /\ ~paths[next].open
  /\ result' = [result EXCEPT !.issues = @ \cup
                  {[source |-> paths[next].file.source, line |-> 0, at |-> 0,
                    reason |-> "cannot open"]}]
  /\ UNCHANGED <<vars, entries, paths, stage, next>>

\* VerifyFile fails to open the file: reported, and the next one is taken.
OpenFails ==
  /\ stage = "files" /\ next <= Len(paths)
  /\ ~paths[next].open
  /\ result' = [result EXCEPT !.issues = @ \cup
                  {[source |-> paths[next].file.source, line |-> 0, at |-> 0,
                    reason |-> "cannot open"]}]
  /\ next' = next + 1
  /\ UNCHANGED <<vars, entries, paths, stage>>

\* VerifyFile opens the file and calls VerifyReader.
OpenFile ==
  /\ stage = "files" /\ next <= Len(paths)
  /\ paths[next].open
  /\ Begin(paths[next].file)
  /\ stage' = "replay"
  /\ UNCHANGED <<entries, paths, next, result>>

ReplayFile ==
  /\ stage = "replay"
  /\ ReplayStep
  /\ UNCHANGED dirVars

\* Mutant: the segments of the file before are forgotten.
AccumulateLast ==
  /\ stage = "replay" /\ phase = "done"
  /\ result' = [files     |-> result.files + 1,
                lines     |-> result.lines + lineNum,
                segments  |-> segments,
                issues    |-> result.issues \cup issues,
                truncated |-> result.truncated \/ truncated]
  /\ next' = next + 1
  /\ stage' = "files"
  /\ UNCHANGED <<vars, entries, paths>>

\* VerifyReader has returned: its result is added to the combined one.
Accumulate ==
  /\ stage = "replay" /\ phase = "done"
  /\ result' = [files     |-> result.files + 1,
                lines     |-> result.lines + lineNum,
                segments  |-> result.segments \cup segments,
                issues    |-> result.issues \cup issues,
                truncated |-> result.truncated \/ truncated]
  /\ next' = next + 1
  /\ stage' = "files"
  /\ UNCHANGED <<vars, entries, paths>>

\* All files are done: the cross file checks, unless a replay was truncated.
LinkUp ==
  /\ stage = "files" /\ next > Len(paths)
  /\ stage' = "returned"
  /\ \/ result.truncated /\ UNCHANGED result
     \/ /\ ~result.truncated
        /\ \E order \in Orders(result.segments) :
             result' = [result EXCEPT !.issues = @ \cup LinkIssues(order)]
  /\ UNCHANGED <<vars, entries, paths, next>>

DirStep == ListDir \/ OpenFails \/ OpenFile \/ ReplayFile \/ Accumulate \/ LinkUp

-----------------------------------------------------------------------------
\* VerifyDir is called; the names in a directory differ from one another.
DirInit ==
  /\ entries \in Seq(Entry)
  /\ \A i, j \in DOMAIN entries : entries[i].file.source = entries[j].file.source => i = j
  /\ opt \in Options
  /\ file = [source |-> "", lines |-> <<>>, err |-> FALSE]
  /\ phase = "done" /\ pos = 1 /\ lineNum = 0
  /\ prevMAC = Zero /\ key = {} /\ cur = NoSegment
  /\ segments = {} /\ issues = {} /\ calls = {} /\ truncated = FALSE
  /\ paths = <<>> /\ stage = "list" /\ next = 1 /\ result = NoResult

\* VerifyDir has returned: nothing more happens.
DirReturned == stage \in {"returned", "error"} /\ UNCHANGED allVars

DirNext == DirStep \/ DirReturned

DirSpec == DirInit /\ [][DirNext]_allVars

-----------------------------------------------------------------------------
(* What a directory says about itself, without replaying anything.         *)

\* The file can be read to its end, holds something, and no line of it is bad.
Flawless(f) ==
  /\ ~f.err
  /\ \E i \in DOMAIN f.lines : f.lines[i].form # "blank"
  /\ \A i \in DOMAIN f.lines : ~Bad(f.lines, opt, keyFor, i)

\* The lines of the segment that starts at line s.
SegmentLines(L, s) == {i \in s .. Len(L) : Signed(L, i) /\ Governs(L, s, i)}

\* What the segment that starts at line s claims: what its start line states, and the
\* MAC that stands on its last line.
Claim(f, s) ==
  LET t    == f.lines[s].text
      mine == SegmentLines(f.lines, s)
  IN [v |-> t.v, chain |-> t.chain, seq |-> ParseUint(t.seq), prev |-> t.prev,
      final |-> {f.lines[i].mac : i \in {k \in mine : \A j \in mine : j <= k}},
      source |-> f.source, at |-> s]

Claims(f) == {Claim(f, s) : s \in {i \in DOMAIN f.lines : IsStart(f.lines, i)}}

LogFiles == {entries[i] : i \in Logs}

AllClaims == UNION {Claims(e.file) : e \in LogFiles}

\* VerifyDir finds nothing exactly when every log file of the directory can be opened
\* and is flawless and, for each chain, the segments of all files claim to be one
\* unbroken run: whatever the files are called, however many segments lie in one of
\* them, and in whatever order the sort leaves segments that state the same number.
FindsNothingExactlyIfUnbroken ==
  stage = "returned" =>
    (result.issues = {} <=> /\ \A e \in LogFiles : e.open /\ Flawless(e.file)
                            /\ AllUnbroken(AllClaims))

\* "N file(s) are missing between": a jump is reported at a segment that has another one
\* of its chain below it, or beside it, and says how many numbers between it and the
\* nearest one below belong to no segment, which is at least one.  Segments that state
\* the same number are the exception: between them the code counts 2^64 - 1 files.
JumpsCountTheAbsentFiles ==
  \A i \in result.issues : i.reason = "jump" =>
    \E s \in Linked(result.segments) :
      LET others == {t.seq : t \in OfChain(result.segments, s.chain) \ {s}}
          absent == {n \in Uint : n < s.seq /\ \A m \in others : m < s.seq => m < n}
      IN /\ s.source = i.source /\ s.at = i.at
         /\ \/ i.missing = Cardinality(absent) /\ absent # {}
            \/ i.missing = Minus(0, 1) /\ s.seq \in others
=============================================================================
