---------------------------- MODULE ChainFormat ----------------------------
(***************************************************************************)
(* The vocabulary of a signed log file: what a line holds once it has been *)
(* split into its signable region and its stated MAC, what an HMAC is, and *)
(* what a file says about itself, independently of how it is replayed.     *)
(*                                                                         *)
(* HMAC-SHA256 is symbolic: equal MACs have equal key, signable region and *)
(* previous MAC, which is the collision resistance the format relies on.   *)
(* An optional value (a key, prev_mac, a closing MAC) is a set with at     *)
(* most one element, so that "absent" differs from every value.            *)
(***************************************************************************)
EXTENDS Keys, Sequences

-----------------------------------------------------------------------------
\* The 32 zero bytes every segment starts from.
Zero == <<>>

\* Mutant: every line is authenticated by itself.
HMACUnchained(key, signable, prev) == <<key, signable, Zero>>

\* HMAC-SHA256(key, signable || prev); key is the singleton of a key.
HMAC(key, signable, prev) == <<key, signable, prev>>

-----------------------------------------------------------------------------
(* Lines.  "form" is what the parsing steps of VerifyReader find:           *)
(*   blank    only white space                                              *)
(*   nobrace  does not end in a closing brace                               *)
(*   nomac    no mac (or sig) field                                         *)
(*   badmac   the field is not 64 characters and a quote                    *)
(*   signed   a signable region and a 64 character stated MAC               *)
(* "text" is the signable region with the fields read from it; "mac" the    *)
(* 32 bytes the stated MAC decodes to and "hex" how it is written: in lower *)
(* case, with an upper case digit, or not as hexadecimal at all.            *)
Forms == {"blank", "nobrace", "nomac", "badmac", "signed"}
HexForms == {"lower", "upper", "none"}

IsText(t) ==
  /\ t = [start |-> t.start, v |-> t.v, chain |-> t.chain, seq |-> t.seq,
          prev |-> t.prev, body |-> t.body]
  /\ t.start \in BOOLEAN
  /\ t.v \in {"", "2"}
  /\ t.seq \in Int

IsLine(l) ==
  /\ l = [form |-> l.form, text |-> l.text, mac |-> l.mac, hex |-> l.hex]
  /\ l.form \in Forms
  /\ IsText(l.text)
  /\ l.hex \in HexForms

\* Mutant: the bytes are compared, not the texts.
MatchesAnyCase(l, want) == l.hex # "none" /\ l.mac = want

\* stated == hex.EncodeToString(want): a comparison of texts, so the right
\* bytes written in upper case do not match.
Matches(l, want) == l.hex = "lower" /\ l.mac = want

\* Mutant: the chain goes on from the value that should have been there.
ClaimedComputed(l, want) == want

\* The value the chain goes on from after a mismatch: what the file states
\* when it can be decoded, the computed value otherwise.
Claimed(l, want) == IF l.hex = "none" THEN want ELSE l.mac

-----------------------------------------------------------------------------
(* What the lines of a file say, without replaying anything.               *)
Signed(L, i)   == L[i].form = "signed"
IsStart(L, i)  == Signed(L, i) /\ L[i].text.start
Unsigned(L, i) == L[i].form \in {"nobrace", "nomac"}

\* s is the start line of the segment that line i belongs to.
Governs(L, s, i) ==
  /\ s \in 1 .. i /\ IsStart(L, s)
  /\ \A j \in s + 1 .. i : ~IsStart(L, j)

\* p is the last signed line before line i.
Precedes(L, p, i) ==
  /\ p \in 1 .. i - 1 /\ Signed(L, p)
  /\ \A j \in p + 1 .. i - 1 : ~Signed(L, j)

\* The key of the segment that starts at line s, {} when there is none.
KeyAt(L, keyFor, s) == keyFor[<<L[s].text.chain, ParseUint(L[s].text.seq)>>]

\* Line i carries the MAC that the line before it, as it stands on disk, calls
\* for in the segment that starts at line s.
Chained(L, keyFor, s, i) ==
  IF s = i
  THEN Matches(L[i], HMAC(KeyAt(L, keyFor, s), L[i].text, Zero))
  ELSE \E p \in s .. i - 1 :
         /\ Precedes(L, p, i)
         /\ Matches(L[i], HMAC(KeyAt(L, keyFor, s), L[i].text, L[p].mac))

\* Line i follows, in one segment, a line whose stated MAC cannot be decoded.
AfterUndecodable(L, i) ==
  /\ Signed(L, i) /\ ~IsStart(L, i)
  /\ \E p \in 1 .. i - 1 : Precedes(L, p, i) /\ L[p].hex = "none"

\* Line i, taken with the two lines it depends on, is not a good line.
Bad(L, opt, keyFor, i) ==
  \/ Unsigned(L, i) /\ ~opt.allowUnsigned
  \/ L[i].form = "badmac"
  \/ Signed(L, i) /\ ~\E s \in 1 .. i : Governs(L, s, i)
  \/ \E s \in 1 .. i :
       /\ Signed(L, i) /\ Governs(L, s, i)
       /\ IF KeyAt(L, keyFor, s) = {} THEN s = i ELSE ~Chained(L, keyFor, s, i)
=============================================================================
