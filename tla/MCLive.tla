------------------------------- MODULE MCLive -------------------------------
(***************************************************************************)
(* Small live logs for TLC.                                                *)
(***************************************************************************)
EXTENDS Live

MCNames == <<"f0", "f1", "f2">>

Strict == [allowUnsigned |-> FALSE, stopOnFirst |-> FALSE]

MCQuestions == [command : {"verify"}, opt : {Strict, [Strict EXCEPT !.allowUnsigned = TRUE],
                                             [Strict EXCEPT !.stopOnFirst = TRUE]}]
               \cup [command : {"anchor"}, opt : {Strict}]

\* Never used: a replay is started on the lines of the directory.
MCLine == {}
=============================================================================
