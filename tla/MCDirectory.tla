---------------------------- MODULE MCDirectory ----------------------------
(***************************************************************************)
(* Small directories of arbitrary files: files that continue one another,  *)
(* that state the same number, that skip one or name the wrong             *)
(* predecessor, files of two segments, of a chain without a key, of format *)
(* version 1, with an edited line, a blank line, an unsigned line, nothing *)
(* in them, or a read error.                                               *)
(***************************************************************************)
EXTENDS VerifyDir

\* The keys the lines are MACed with: those that an identity implies, and for format
\* version 1, which has none, a raw key.
MCKeyFor == [c \in {"", "A", "B"} \X Uint |->
               IF c[1] = "" THEN DerivedKey("producer", "A", 0)
               ELSE DerivedKey("producer", c[1], c[2])]

Text(start, v, chain, seq, prev, body) ==
  [start |-> start, v |-> v, chain |-> chain, seq |-> seq, prev |-> prev, body |-> body]

Other(form) == [form |-> form, text |-> Text(FALSE, "", "", 0, {}, 0), mac |-> Zero,
                hex |-> "lower"]

Start(v, chain, seq, prev) ==
  LET text == Text(TRUE, v, chain, seq, prev, 0)
  IN [form |-> "signed", text |-> text, hex |-> "lower",
      mac |-> HMAC(MCKeyFor[<<chain, ParseUint(seq)>>], text, Zero)]

\* A line that follows l, the start line of a segment; an edited one keeps its MAC.
Body(l, edited) ==
  LET text == Text(FALSE, "", "", 0, {}, 1)
  IN [form |-> "signed", text |-> IF edited THEN [text EXCEPT !.body = 2] ELSE text,
      mac |-> HMAC(MCKeyFor[<<l.text.chain, ParseUint(l.text.seq)>>], text, l.mac),
      hex |-> "lower"]

A(seq, prev) == Start("2", "A", seq, prev)

\* Files 0, 1 and 2 of a chain, and another file 0.
F0   == <<A(0, {}), Body(A(0, {}), FALSE)>>
F0s  == <<A(0, {})>>
F1   == <<A(1, {F0[2].mac})>>
F1s  == <<A(1, {F0s[1].mac})>>
F2   == <<A(2, {F1[1].mac})>>

\* What lies in a file, and whether reading it fails at the end.
Contents ==
  {<<ls, FALSE>> : ls \in
     { F0, F0s, F1, F1s, F2, F0 \o F1, F1 \o F0, F1 \o F2, F0 \o F0s,
       <<A(1, {})>>, <<A(0, {F2[1].mac})>>, <<A(9, {F2[1].mac})>>, <<A(3, {})>>,
       <<A(0, {}), Body(A(0, {}), TRUE)>>,
       <<Other("blank"), A(0, {})>>, <<A(0, {}), Other("nomac")>>,
       <<>>, <<Other("blank")>>, <<Other("nobrace")>>,
       <<Start("2", "B", 0, {})>>, <<Start("", "", -1, {})>>,
       <<Start("", "", -1, {}), A(1, {F0[2].mac})>> }}
  \cup {<<F0s, TRUE>>, <<F1, TRUE>>}

\* The files that three of a directory are chosen from.
Core == {<<ls, FALSE>> : ls \in {F0, F1, F2, F0s, F1s, F0 \o F1, <<Other("blank"), A(0, {})>>}}

Named(name, c) ==
  [log |-> TRUE, dir |-> FALSE, lstat |-> "file", open |-> TRUE,
   file |-> [source |-> name, lines |-> c[1], err |-> c[2]]]

\* Two files of any kind, or three of the core; one of two may be a symlink, or of
\* those that cannot be opened.
Directories ==
  {<<Named("f0", c), Named("f1", d)>> : c, d \in Contents}
  \cup {<<Named("f0", c), Named("f1", d), Named("f2", e)>> : c, d, e \in Core}
  \cup {<<[Named("f0", c) EXCEPT !.open = FALSE], Named("f1", d)>> : c, d \in Core}
  \cup {<<Named("f0", c), [Named("f1", d) EXCEPT !.lstat = "symlink"]>> : c, d \in Core}
  \cup {<<>>}

MCLine == UNION {{c[1][i] : i \in DOMAIN c[1]} : c \in Contents}
=============================================================================
