-------------------------------- MODULE Keys --------------------------------
(***************************************************************************)
(* Texts, identities, and where the key a log is verified with comes from. *)
(* SHA-256, HKDF and Ed25519 are symbolic: an identity is its private key, *)
(* and what is computed from different things is different.  An optional   *)
(* value is a set of at most one element.                                  *)
(***************************************************************************)
EXTENDS Uint

(* Texts: a word, and how it is spelled - with white space around it, in upper case. *)
Plain(w)   == [word |-> w, spelling |-> {}]
Trim(t)    == [t EXCEPT !.spelling = @ \ {"padded"}]
ToLower(t) == [t EXCEPT !.spelling = @ \ {"upper"}]

-----------------------------------------------------------------------------
\* The hex SHA-256 of the public key: as good as the identity's name.
Fingerprint(id) == <<"fingerprint", id>>

\* HKDF-SHA256 over the private key, salted with the chain id and the file number.  A
\* chain without an id (format version 1) has no derived key.
DerivedKey(id, chain, n) == IF chain = "" THEN {} ELSE {<<id, chain, n>>}

\* The function from (chain, file number) to a key that an identity implies.
ChainKeys(id, chains) == [c \in chains \X Uint |-> DerivedKey(id, c[1], c[2])]

\* One key for every file.
StaticKey(k, chains) == [c \in chains \X Uint |-> {k}]

-----------------------------------------------------------------------------
\* Mutant: the halves are not compared.
OpenIdentityTrusting(path) ==
  {f.private : f \in {g \in (IF path.dir THEN path.inside ELSE path.itself) :
                        ~path.blank /\ g.parses /\ g.sized}}

\* The identity in the key file that a path names, directly or as the logid.key
\* of a directory, provided the file can be read, parses, holds keys of the
\* right size, and its public half belongs to its private half.
OpenIdentity(path) ==
  {f.private : f \in {g \in (IF path.dir THEN path.inside ELSE path.itself) :
                        /\ ~path.blank /\ g.parses /\ g.sized
                        /\ g.public = g.private}}

PassphraseKey(text) == <<"sha256", text>>

\* Text that spells 32 bytes in hex or base64 is that key; other text is a passphrase.
InterpretKeyMaterial(m) ==
  IF m.spells \in {"hex", "base64"} THEN m.text ELSE PassphraseKey(m.text)

\* The arguments: -identity with its path, -key-file with what reading it delivers
\* (nothing when that fails, "-" included); each is {} when not given.  The key
\* function that results, if any does.
KeySource(arg, chains) ==
  IF arg.identity # {} /\ arg.keyFile # {} THEN {}
  ELSE {ChainKeys(id, chains) : id \in UNION {OpenIdentity(p) : p \in arg.identity}}
       \cup {StaticKey(InterpretKeyMaterial(m), chains) :
               m \in {n \in UNION arg.keyFile : n.spells # "blank"}}

\* -pubkey: the text given or, after an @, what its file delivers, {} when there is
\* none.  The identity whose public key that is.
LoadPublicKey(text) == {t.key : t \in {u \in text : u.base64 /\ u.sized}}
=============================================================================
