------------------------------- MODULE Crypto -------------------------------
(***************************************************************************)
(* The primitives compiler and secure element are built from, in the       *)
(* ideal, symbolic form their callers rely on: a ciphertext is the tuple   *)
(* of what went into it, decryption succeeds exactly when key, nonce and   *)
(* associated data are the ones it was made with, and two hashes are equal *)
(* only if what was hashed is.  What schwaemm.c and esch.c do with the     *)
(* bytes is modelled in Schwaemm and Esch; the sealed boxes are            *)
(* libsodium's.                                                            *)
(***************************************************************************)

\* crypto_aead_encrypt(), and when crypto_aead_decrypt() returns 0.
AEAD(key, nonce, ad, m) ==
  [key |-> key, nonce |-> nonce, ad |-> ad, msg |-> m]

Opens(c, key, nonce, ad) ==
  c.key = key /\ c.nonce = nonce /\ c.ad = ad

\* crypto_hash on a message that starts with a prefix; H_0 is all zeros.
Hash(prefix, m) == <<prefix, m>>
ZeroHash == <<>>

\* crypto_box_seal: a key sealed for the owner of a public key.
Seal(pub, k) == [pub |-> pub, sealed |-> k]
Unseals(c, pub) == c.pub = pub
=============================================================================
