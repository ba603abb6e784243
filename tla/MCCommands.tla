----------------------------- MODULE MCCommands -----------------------------
(***************************************************************************)
(* verify on the directories of MCDirectory, and verify and anchor on      *)
(* small directories and single files of the same kind, with every option, *)
(* right and wrong keys, and anchors over lines that are there, that are   *)
(* other ones, or that are missing.                                        *)
(***************************************************************************)
EXTENDS Commands, MCDirectory

KeyFile(private, public) ==
  [parses |-> TRUE, sized |-> TRUE, private |-> private, public |-> public]

At(ks) == [identity |-> {[blank |-> FALSE, dir |-> FALSE, itself |-> ks, inside |-> {}]},
           keyFile  |-> {}]

\* The identity of the producer, that of somebody else, a file whose halves do not
\* belong together, and one key for every file.
KeyArgs ==
  {At({KeyFile("producer", "producer")}), At({KeyFile("other", "other")}),
   At({KeyFile("producer", "other")}),
   [identity |-> {}, keyFile |-> {{[spells |-> "hex", text |-> <<"producer", "A", 0>>]}}]}

PublicKey(id) == {[base64 |-> TRUE, sized |-> TRUE, key |-> id]}

AnchorOver(id, seq, count, mac) ==
  LET r == [keyFp |-> Fingerprint("producer"), chain |-> "A", seq |-> seq,
            lineCount |-> count, mac |-> mac, final |-> FALSE, anchorSeq |-> 0,
            prevAnchor |-> {}]
  IN [record |-> r, signature |-> Plain(Sign(id, r))]

Anchors ==
  { NoAnchor, AnchorOver("other", 0, 1, F0[1].mac), AnchorOver("producer", 0, 0, F0[1].mac),
    AnchorOver("producer", 0, 1, F0[1].mac), AnchorOver("producer", 0, 2, F0[2].mac),
    AnchorOver("producer", 0, 2, F0[1].mac), AnchorOver("producer", 1, 1, F1[1].mac) }

\* A body line whose MAC is written in upper case, or is no hexadecimal.
Written(hex) == <<F0[1], [F0[2] EXCEPT !.hex = hex]>>

\* What is audited.
Found ==
  Core \cup {<<ls, FALSE>> : ls \in
    { <<>>, F1 \o F0, <<A(0, {}), Body(A(0, {}), TRUE)>>, <<A(0, {}), Other("nomac")>>,
      Written("upper"), Written("none"), <<Start("2", "B", 0, {})>> }}
  \cup {<<F0, TRUE>>}

Audits ==
  {<<Named("f0", c), Named("f1", d)>> : c, d \in Found}
  \cup {<<[Named("f0", c) EXCEPT !.open = FALSE], Named("f1", d)>> : c, d \in Core}
  \cup {<<[Named("f0", c) EXCEPT !.log = FALSE]>> : c \in Core}

MCCommandLine == MCLine \cup UNION {{c[1][i] : i \in DOMAIN c[1]} : c \in Found}

MCCommandInit ==
  /\ \/ entries \in Audits
     \/ entries \in Directories /\ command = "verify" /\ target = Directory
  /\ keyArg \in KeyArgs /\ opt \in Options /\ keyFor = <<>>
  /\ \/ command = "verify" /\ anchor = NoAnchor /\ pubKey = {}
     \/ command = "anchor" /\ anchor \in Anchors /\ pubKey = PublicKey("producer")
  /\ CommandInit

MCCommandSpec == MCCommandInit /\ [][CommandNext]_<<allVars, commandVars>>
=============================================================================
