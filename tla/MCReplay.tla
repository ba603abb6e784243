------------------------------ MODULE MCReplay ------------------------------
(***************************************************************************)
(* Every file of at most MaxLines lines over a menu of lines: start lines  *)
(* of two segments of a chain, of a chain nobody has the key for and of    *)
(* format version 1; body lines that continue the chain, that were edited, *)
(* whose MAC is written in upper case or cannot be decoded; unsigned and   *)
(* malformed lines; blank lines.                                           *)
(***************************************************************************)
EXTENDS ChainReplay, Functions

CONSTANT MaxLines

MCKeyFor == [c \in {"", "A", "B"} \X (Uint) |->
               IF c[1] = "B" THEN {} ELSE {<<"key", c[1], c[2]>>}]

Text(start, v, chain, seq, prev, body) ==
  [start |-> start, v |-> v, chain |-> chain, seq |-> seq, prev |-> prev,
   body |-> body]
NoText == Text(FALSE, "", "", 0, {}, 0)

Other(form) == [form |-> form, text |-> NoText, mac |-> Zero, hex |-> "lower"]
SignedLine(text, mac, hex) ==
  [form |-> "signed", text |-> text, mac |-> mac, hex |-> hex]

Starts == { Text(TRUE, "2", "A", 0, {}, 0), Text(TRUE, "2", "A", 9, {<<"x">>}, 0),
            Text(TRUE, "2", "B", 0, {}, 0), Text(TRUE, "", "", -1, {}, 0) }
Body   == Text(FALSE, "", "", 0, {}, 1)
Edited == Text(FALSE, "", "", 0, {}, 2)

\* What the next line of a file may be; "end" adds none.
Menu ==
  {<<form, NoText, "lower">> : form \in (Forms \cup {"end"}) \ {"signed"}}
  \cup {<<"signed", t, "lower">> : t \in Starts \cup {Body, Edited}}
  \cup {<<"signed", Body, "upper">>, <<"signed", Body, "none">>}

\* A file under construction, with the key and the MAC its writer goes on from.
\* An edited line keeps the MAC of the line it replaces.
Extend(f, m) ==
  LET form == m[1]
      text == m[2]
      hex  == m[3]
      k    == IF text.start THEN MCKeyFor[<<text.chain, ParseUint(text.seq)>>]
              ELSE f.key
      mac  == IF text.start THEN HMAC(k, text, Zero) ELSE HMAC(k, Body, f.mac)
  IN CASE form = "end"    -> f
       [] form = "signed" -> [lines |-> Append(f.lines, SignedLine(text, mac, hex)),
                              key |-> k, mac |-> mac]
       [] OTHER           -> [f EXCEPT !.lines = Append(@, Other(form))]

Drafts[n \in 0 .. MaxLines] ==
  IF n = 0 THEN {[lines |-> <<>>, key |-> {<<"key", "A", 3>>}, mac |-> Zero]}
  ELSE {Extend(f, m) : f \in Drafts[n - 1], m \in Menu}

\* What the HMACs of these files are taken over.
Macs[n \in 0 .. MaxLines] ==
  IF n = 0 THEN {Zero}
  ELSE Macs[n - 1]
       \cup {HMAC(MCKeyFor[<<t.chain, ParseUint(t.seq)>>], t, Zero) : t \in Starts}
       \cup {HMAC(k, Body, m) : k \in Range(MCKeyFor), m \in Macs[n - 1]}

MCLine == [form : Forms, text : Starts \cup {Body, Edited, NoText},
           mac : Macs[MaxLines], hex : HexForms]

MCInit ==
  /\ file \in [source : {"f"}, lines : {f.lines : f \in Drafts[MaxLines]},
               err : BOOLEAN]
  /\ keyFor = MCKeyFor
  /\ Init

MCSpec == MCInit /\ [][Next]_vars /\ WF_vars(ReplayStep)
=============================================================================
