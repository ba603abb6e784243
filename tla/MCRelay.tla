------------------------------ MODULE MCRelay ------------------------------
(***************************************************************************)
(* Small relays for TLC.                                                   *)
(***************************************************************************)
EXTENDS Relay

Entry(target, service, day, down) ==
  [target |-> Plain(target), service |-> Plain(service), day |-> Plain(day),
   probed |-> Plain(1), down |-> Plain(down)]

a == 97
b == 98
Bar == 124

Head1 == Entry(<<a>>, <<b>>, 1, 0)

\* Two entries to be sorted, one of them with a bar in its target; two that are not told
\* apart, (day, a|b, b) and (day, a, b|b); and what must not be stated: a triple twice,
\* with another in between, nothing, too much, a day that is no date, no service, a
\* bitmap that is too long.
MCStatements ==
  { <<Entry(<<a, Bar>>, <<b>>, 1, 0), Head1>>,
    <<Entry(<<a, Bar, b>>, <<b>>, 1, 0), Entry(<<a>>, <<b, Bar, b>>, 1, 0)>>,
    <<Head1, Entry(<<a>>, <<a>>, 1, 0), Entry(<<a>>, <<b>>, 1, 1)>>,
    <<>>, [i \in 1 .. 4 |-> Entry(<<a>>, <<b>>, i, 0)],
    <<Entry(<<a>>, <<b>>, 0, 0)>>, <<Entry(<<a>>, <<>>, 1, 0)>>, <<Entry(<<a>>, <<b>>, 1, 3)>> }

OneStatement == { <<Head1>> }

MCMonitors == {"mon-1", "mon-2"}
OneMonitor == {"mon-1"}
=============================================================================
