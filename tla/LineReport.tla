----------------------------- MODULE LineReport -----------------------------
(***************************************************************************)
(* What a replay promises about the lines of a file: every line is judged  *)
(* once, in order, and the judgement is a fact about the file alone, about *)
(* the line, the start line of its segment and the signed line before it.  *)
(* No running MAC, no state carried from line to line: one altered line    *)
(* implicates one line.  (After a stated MAC that cannot be decoded there  *)
(* is no value on disk to go on from, and either judgement is allowed.)    *)
(***************************************************************************)
EXTENDS ChainFormat

VARIABLES file, opt, keyFor,
          stage,     \* "judging" or "over"
          next,      \* the line to judge
          flagged    \* the lines found wrong

vars == <<file, opt, keyFor, stage, next, flagged>>

Init == stage = "judging" /\ next = 1 /\ flagged = {}

Judge ==
  /\ stage = "judging" /\ next <= Len(file.lines)
  /\ next' = next + 1
  /\ UNCHANGED <<file, opt, keyFor>>

\* The next line is good.
Pass ==
  /\ Judge
  /\ \/ ~Bad(file.lines, opt, keyFor, next)
     \/ AfterUndecodable(file.lines, next)
  /\ UNCHANGED <<stage, flagged>>

\* The next line is wrong; under StopOnFirst nothing after it is judged.
Accuse ==
  /\ Judge
  /\ \/ Bad(file.lines, opt, keyFor, next)
     \/ AfterUndecodable(file.lines, next)
  /\ flagged' = flagged \cup {next}
  /\ stage' = IF opt.stopOnFirst THEN "over" ELSE stage

Finish ==
  /\ stage = "judging" /\ next > Len(file.lines)
  /\ stage' = "over"
  /\ UNCHANGED <<file, opt, keyFor, next, flagged>>

Next == Pass \/ Accuse \/ Finish

Spec == Init /\ [][Next]_vars /\ WF_vars(Pass \/ Accuse \/ Finish)
=============================================================================
