----------------------------- MODULE MCCustody -----------------------------
(***************************************************************************)
(* Small custodies for TLC.                                                *)
(***************************************************************************)
EXTENDS Custody

MCNames == <<"f0", "f1", "f2", "f3">>

MCFileDamages == {"drop file", "copy", "exchange", "vanished", "unreadable", "cut",
                  "remake"}
MCDamages     == LineDamages \cup MCFileDamages

EditLine   == {"edit"}
CutFile    == {"cut"}
CopyThenDrop == {"copy", "drop"}

\* How often the evidence is damaged.
Once         == [s \in {""} |-> 1]
Twice        == [s \in {""} |-> 2]
TwiceUnmixed == [s \in {"", "sibling", "v1"} |-> IF s = "" THEN 2 ELSE 1]

-----------------------------------------------------------------------------
(* Keys.                                                                   *)
KeyFile(private, public) ==
  [parses |-> TRUE, sized |-> TRUE, private |-> private, public |-> public]

NoPath == [blank |-> FALSE, dir |-> FALSE, itself |-> {}, inside |-> {}]

At(path)     == [identity |-> {path}, keyFile |-> {}]
Material(ms) == [identity |-> {}, keyFile |-> {ms}]

RightKey == At([NoPath EXCEPT !.dir = TRUE, !.inside = {KeyFile("producer", "producer")}])

\* The raw key of the first file, as it may leak.
LeakedKey == Material({[spells |-> "hex", text |-> <<"producer", "A", 0>>]})

WrongKeys ==
  { At([NoPath EXCEPT !.itself = {KeyFile("other", "other")}]),
    Material({[spells |-> "text", text |-> <<"passphrase">>]}),
    Material({[spells |-> "text", text |-> <<"producer", "A", 0>>]}) }

\* No key at all, two of them, no file, blank arguments, and key files that are broken
\* or whose halves do not belong together.
NoKeys ==
  { [identity |-> {}, keyFile |-> {}],
    [identity |-> RightKey.identity, keyFile |-> LeakedKey.keyFile],
    At(NoPath), At([NoPath EXCEPT !.dir = TRUE]), At([NoPath EXCEPT !.blank = TRUE]),
    At([NoPath EXCEPT !.itself = {[KeyFile("producer", "producer") EXCEPT !.parses = FALSE]}]),
    At([NoPath EXCEPT !.itself = {[KeyFile("producer", "producer") EXCEPT !.sized = FALSE]}]),
    At([NoPath EXCEPT !.itself = {KeyFile("producer", "other")}]),
    At([NoPath EXCEPT !.itself = {KeyFile("other", "producer")}]),
    Material({}), Material({[spells |-> "blank", text |-> <<>>]}) }

-----------------------------------------------------------------------------
(* Questions.                                                              *)
PublicKey(id) == {[base64 |-> TRUE, sized |-> TRUE, key |-> id]}

\* The wrong key, none, and texts that are no key.
WrongPublicKeys ==
  {PublicKey("other"), {}, {[base64 |-> FALSE, sized |-> TRUE, key |-> "producer"]},
   {[base64 |-> TRUE, sized |-> FALSE, key |-> "producer"]}}

Strict == [allowUnsigned |-> FALSE, stopOnFirst |-> FALSE]

Question(commands, targets, opts, keys) ==
  [command : commands, target : targets, opt : opts, key : keys, pub : {PublicKey("producer")}]

VerifyDirectory == Question({"verify"}, {"dir"}, {Strict}, {RightKey})
CheckAnchors    == Question({"anchor"}, {"dir", "file"}, {Strict}, {RightKey})

\* Everything of an undamaged directory; every option, and the leaked key, after one
\* damage; whether the directory verifies after two.
MCAskVerify ==
  [n \in 0 .. 2 |->
     CASE n = 0 -> Question({"verify"}, {"dir", "file"}, Options,
                            {RightKey, LeakedKey} \cup WrongKeys \cup NoKeys)
       [] n = 1 -> Question({"verify"}, {"dir", "file"}, Options, {RightKey})
                   \cup Question({"verify"}, {"dir", "file"}, {Strict}, {LeakedKey})
       [] n = 2 -> VerifyDirectory]

MCAskAnchor ==
  [n \in 0 .. 1 |-> CheckAnchors \cup
     IF n = 0 THEN Question({"anchor"}, {"dir", "file"}, {Strict}, {LeakedKey} \cup WrongKeys \cup NoKeys)
                   \cup [command : {"anchor"}, target : {"dir", "file"}, opt : {Strict}, key : {RightKey},
                         pub : WrongPublicKeys]
     ELSE {}]

AskVerifyDirectory == [n \in 0 .. 1 |-> VerifyDirectory]
AskAnchors         == [n \in 0 .. 1 |-> CheckAnchors]
AskAnchorsDamaged  == [n \in 0 .. 2 |-> IF n = 2 THEN CheckAnchors ELSE {}]

\* Never used: a replay is started on the lines of the directory.
MCLine == {}
=============================================================================
