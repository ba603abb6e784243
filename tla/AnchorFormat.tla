---------------------------- MODULE AnchorFormat ----------------------------
(***************************************************************************)
(* Signed anchors.  Ed25519 and SHA-256 are symbolic: a signature is made  *)
(* by an identity over exactly the fields of a record, and a digest is     *)
(* that of exactly one signature text.  Service and the times are left     *)
(* out: nothing but the signature depends on them.                         *)
(***************************************************************************)
EXTENDS Keys

\* Every field, each one delimited, so that records with equal bytes are equal.
CanonicalBytes(a) == <<a.keyFp, a.chain, a.seq, a.lineCount, a.mac, a.final,
                       a.anchorSeq, a.prevAnchor>>

Sign(id, a) == <<"signature", id, CanonicalBytes(a)>>

\* An anchor that names no chain or covers no lines is refused.  That the service is not
\* empty and that ChainMAC is 64 hexadecimal digits (anchor.go:121, :130) is left out with
\* the texts themselves: here every MAC is one, and no property tells a malformed one from
\* one that fits nothing.
Validate(a) == a.chain # "" /\ a.lineCount # 0

\* Mutant: the named signer is taken at its word.
VerifyNameOnly(pub, sa) ==
  Validate(sa.record) /\ sa.record.keyFp = Fingerprint(pub)

\* nil only for a valid anchor that names pub as its signer and is signed by it.  The
\* signature text decodes in either case, but not with white space around it.
Verify(pub, sa) ==
  /\ Validate(sa.record)
  /\ sa.record.keyFp = Fingerprint(pub)
  /\ sa.signature.word = Sign(pub, sa.record) /\ "padded" \notin sa.signature.spelling

\* Taken over the text of the signature, which commits to every field.
Digest(sa) == <<"digest", sa.signature>>

\* Mutant: the numbers are enough.
FollowsFromNumber(sa, prev) ==
  /\ sa.record.keyFp = prev.record.keyFp
  /\ sa.record.anchorSeq = Plus(prev.record.anchorSeq, 1)

FollowsFrom(sa, prev) ==
  /\ sa.record.keyFp = prev.record.keyFp
  /\ sa.record.anchorSeq = Plus(prev.record.anchorSeq, 1)
  /\ sa.record.prevAnchor = {Digest(prev)}
=============================================================================
