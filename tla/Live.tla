-------------------------------- MODULE Live --------------------------------
(***************************************************************************)
(* A log directory is verified while its producer goes on writing: lines   *)
(* become visible half written, files appear empty, and a closed file is   *)
(* compressed, so that the name it was listed under is gone.  Nothing is   *)
(* damaged.  VerifyDir first reads the names in the directory, then asks   *)
(* what each of them is, and then opens and reads the files one after the  *)
(* other, each as it is by then.  Here ListDir reads the names, and what   *)
(* happens to a file before its Lstat happens before the first file is     *)
(* taken.                                                                  *)
(***************************************************************************)
EXTENDS Commands, Producer

CONSTANTS Names,           \* what the files of the chain are called, in order
          MaxCompressed,   \* bound: how many files are compressed during the audit
          Questions        \* the commands and options that are asked

\* The producer's chain is one that the auditor's key function knows, names differ, and
\* only verify has options.
ASSUME LiveAssumption ==
  /\ ChainID \in ChainIDs
  /\ \A n, m \in 1 .. MaxSeq + 1 : Names[n] = Names[m] => n = m
  /\ \A q \in Questions :
       /\ q.command \in {"verify", "anchor"} /\ q.opt \in Options
       /\ q.command = "anchor" => q.opt = [allowUnsigned |-> FALSE, stopOnFirst |-> FALSE]

VARIABLES
  created,    \* the current file exists
  torn,       \* "whole", or the form that the line being written shows
  gone,       \* the sources of the files whose listed name is no longer there
  overlooked, \* those of them whose name was gone by the time of the Lstat
  asked       \* the files as they were when the command was started, <<>> before

everything == <<allVars, commandVars, producerVars, created, torn, gone, overlooked, asked>>

\* -identity, pointed at the data directory of the producer.
OwnIdentity ==
  [identity |-> {[blank |-> FALSE, dir |-> TRUE, itself |-> {},
                  inside |-> {[parses |-> TRUE, sized |-> TRUE, private |-> Identity,
                               public |-> Identity]}]},
   keyFile |-> {}]

\* -pubkey, with the public key of the producer.
OwnPublicKey == {[base64 |-> TRUE, sized |-> TRUE, key |-> Identity]}

Auditor == <<opt, keyFor, phase, pos, lineNum, prevMAC, key, cur, segments, issues, calls,
             truncated, stage, next, result, commandVars>>

-----------------------------------------------------------------------------
(* The directory.                                                          *)
TornLine == [form |-> torn,
             text |-> [start |-> FALSE, v |-> "", chain |-> "", seq |-> 0, prev |-> {},
                       body |-> 0],
             mac |-> Zero, hex |-> "lower"]

Count == IF created THEN seq + 1 ELSE seq

\* The whole lines of file n, and all that can be seen of it at the moment.
Whole(n) == IF n <= Len(files) THEN files[n] ELSE <<>>

Shown(n) == IF n = seq + 1 /\ torn # "whole" THEN Append(Whole(n), TornLine) ELSE Whole(n)

LogEntry(source, lines) ==
  [log |-> TRUE, dir |-> FALSE, lstat |-> "file", open |-> TRUE,
   file |-> [source |-> source, lines |-> lines, err |-> FALSE]]

\* The files, named in chain order, and the symlink on the current one.
Listing == [n \in 1 .. Count |-> LogEntry(Names[n], Shown(n))]
           \o (IF Count = 0 THEN <<>>
               ELSE <<[LogEntry("live", Shown(Count)) EXCEPT !.lstat = "symlink"]>>)

\* The reader took a torn line for the last one, at the end of the input.
AtEnd == pos > Len(file.lines) /\ file.lines # <<>>
         /\ file.lines[Len(file.lines)].form \in {"nobrace", "nomac"}

\* Every file that is not read to its end yet will be read as it has become.
DirectoryChanges ==
  /\ entries' = Listing'
  /\ paths' = [i \in DOMAIN paths |-> [paths[i] EXCEPT !.file.lines = Shown(i)']]
  /\ file' = IF stage = "replay" /\ phase = "scan" /\ ~AtEnd
             THEN [file EXCEPT !.lines = Shown(next)'] ELSE file

-----------------------------------------------------------------------------
CreateFile ==
  /\ ~created /\ created' = TRUE
  /\ UNCHANGED <<Auditor, producerVars, torn, gone, overlooked, asked>>
  /\ DirectoryChanges

\* A part of the next line can be seen.
HalfWrite ==
  /\ created /\ torn = "whole" /\ (Started => lineCount < MaxLines)
  /\ torn' \in {"nobrace", "nomac"}
  /\ UNCHANGED <<Auditor, producerVars, created, gone, overlooked, asked>>
  /\ DirectoryChanges

\* The whole line can be seen.
Write ==
  /\ created /\ (StartFile \/ WriteLine)
  /\ torn' = "whole"
  /\ UNCHANGED <<Auditor, created, gone, overlooked, asked>>
  /\ DirectoryChanges

RotateFile ==
  /\ torn = "whole" /\ RotateStarted
  /\ created' = FALSE
  /\ UNCHANGED <<allVars, commandVars, torn, gone, overlooked, asked>>

SignAnchor ==
  /\ torn = "whole" /\ asked = <<>> /\ AnchorStarted(FALSE)
  /\ UNCHANGED <<allVars, commandVars, created, torn, gone, overlooked, asked>>

\* A closed file is replaced by its compressed form while it waits to be opened, or
\* even before its Lstat.
Compress ==
  /\ Cardinality(gone) < MaxCompressed
  /\ \E i \in DOMAIN paths :
       /\ i < Count /\ paths[i].open
       /\ i > next \/ (i = next /\ stage = "files")
       /\ paths' = [paths EXCEPT ![i].open = FALSE]
       /\ gone' = gone \cup {paths[i].file.source}
       /\ \/ overlooked' = overlooked
          \/ /\ stage = "files" /\ next = 1
             /\ overlooked' = overlooked \cup {paths[i].file.source}
  /\ UNCHANGED <<vars, entries, stage, next, result, commandVars, producerVars, created, torn, asked>>

Ask ==
  /\ asked = <<>> /\ files # <<>> /\ asked' = files
  /\ stage' = "list"
  /\ \E q \in Questions :
       /\ command' = q.command /\ opt' = q.opt
       /\ IF q.command = "anchor" THEN anchor' \in ToSet(anchors)
          ELSE anchors = <<>> /\ UNCHANGED anchor   \* of no use to verify
  /\ UNCHANGED <<file, keyFor, phase, pos, lineNum, prevMAC, key, cur, segments, issues,
                 calls, truncated, entries, paths, next, result, target, keyArg, pubKey,
                 anchorOK, reached, verdict, exit, producerVars, created, torn, gone, overlooked>>

IsOverlooked(i) == paths[i].file.source \in overlooked

NextIsOverlooked == stage = "files" /\ next \in DOMAIN paths /\ IsOverlooked(next)

\* What Lstat does not find is no path: without a word, the loop goes on to the next.
PassOver ==
  /\ NextIsOverlooked /\ \E i \in DOMAIN paths : ~IsOverlooked(i)
  /\ next' = next + 1
  /\ UNCHANGED <<vars, entries, paths, stage, result, commandVars>>

\* Lstat found nothing at all.
NothingFound ==
  /\ NextIsOverlooked /\ \A i \in DOMAIN paths : IsOverlooked(i)
  /\ stage' = "error"
  /\ UNCHANGED <<vars, entries, paths, next, result, commandVars>>

Auditing ==
  /\ asked # <<>>
  /\ PassOver \/ NothingFound \/ (~NextIsOverlooked /\ CommandStep)
  /\ UNCHANGED <<producerVars, created, torn, gone, overlooked, asked>>

LiveInit ==
  /\ file = [source |-> "", lines |-> <<>>, err |-> FALSE]
  /\ opt = [allowUnsigned |-> FALSE, stopOnFirst |-> FALSE]
  /\ keyFor = <<>>
  /\ phase = "done" /\ pos = 1 /\ lineNum = 0
  /\ prevMAC = Zero /\ key = {} /\ cur = NoSegment
  /\ segments = {} /\ issues = {} /\ calls = {} /\ truncated = FALSE
  /\ entries = <<>> /\ paths = <<>> /\ stage = "waiting" /\ next = 1
  /\ result = NoResult
  /\ command = "verify" /\ target = Directory /\ keyArg = OwnIdentity /\ pubKey = OwnPublicKey
  /\ anchor = NoAnchor
  /\ anchorOK = FALSE /\ reached = {} /\ verdict = "" /\ exit = NoExit
  /\ ProducerInit
  /\ created = FALSE /\ torn = "whole" /\ gone = {} /\ overlooked = {} /\ asked = <<>>

LiveNext == CreateFile \/ HalfWrite \/ Write \/ RotateFile \/ SignAnchor \/ Compress \/ Ask \/ Auditing

LiveSpec == LiveInit /\ [][LiveNext]_everything

-----------------------------------------------------------------------------
NewestListed == Names[Len(paths)]

\* A log that nobody has touched is not accused of anything but the line that is
\* being written, or the lack of any, at the end of the newest listed file - unless
\* a listed file was compressed before it was opened, which is reported, together
\* with a gap where that file is.
HealthyLogIsNotAccused ==
  \A i \in result.issues :
    \/ i.reason = "cannot open" /\ i.source \in gone
    \/ /\ i.reason \in {"jump", "broken"}
       /\ \E n \in 2 .. Len(paths) : i.source = Names[n] /\ Names[n - 1] \in gone
    \/ /\ i.source = NewestListed
       /\ \/ i.reason = "no lines" /\ Len(paths) > Len(asked)
          \/ /\ i.reason \in {"nobrace", "nomac"}
             /\ Len(paths) = Len(asked) => i.at > Len(asked[Len(asked)])

\* Whatever was in the log when the command was started has been verified when it
\* exits, unless it stopped at a finding or a file could not be opened.
WhatWasThereIsRead ==
  (exit # NoExit /\ ~result.truncated) =>
    \A n \in DOMAIN asked :
      \/ Names[n] \in gone
      \/ \E s \in result.segments : s.seq = n - 1 /\ s.count >= Len(asked[n])

\* An anchor that was signed before the command was started is matched, however the
\* log goes on, as long as its file can be opened.
AnchorBeforeIsReached ==
  (exit # NoExit /\ command = "anchor" /\ Names[anchor.record.seq + 1] \notin gone) =>
    verdict \in {"exact match", "prefix matches"}

-----------------------------------------------------------------------------
(* What the documentation says and the code does not do.                   *)

\* "VerifyDir replays every signed log file in dir and then checks that the segments form
\* one unbroken chain" (chain.VerifyDir): when verify has exited with 0, every file that
\* was there when it was started has been replayed.
EveryFileIsReplayed ==
  exit = 0 => \A n \in DOMAIN asked : \E s \in result.segments : s.seq = n - 1
=============================================================================
