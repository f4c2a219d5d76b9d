----------------------------- MODULE Signatures -----------------------------
(***************************************************************************)
(* Signers, verifiers and the algorithm registry of pkg/signature, as      *)
(* operators: which hash function a call uses, which calls are refused,    *)
(* what a signature binds, which signer a key and its options load.        *)
(*                                                                         *)
(* A digest stands for the hash function and the message it was made with; *)
(* a signature for its scheme, its key and what it was made over.  Go's    *)
(* crypto packages are external: their signatures verify exactly with what *)
(* they were made with, in either of ECDSA's encodings.                    *)
(***************************************************************************)
EXTENDS Integers, FiniteSets

CONSTANTS
    None,   \* an option or a reader that is not given
    Error   \* a call returned an error

\* crypto.Hash(0): the message itself.
NoHash == "none"

Hashes == {"SHA1", "SHA224", "SHA256", "SHA384", "SHA512"}

Size == [SHA1 |-> 20, SHA224 |-> 28, SHA256 |-> 32, SHA384 |-> 48, SHA512 |-> 64]

-----------------------------------------------------------------------------
(* message.go: the digest of a call, with the SignOptions or VerifyOptions *)
(* opts: the digest and the hash function it names, None when it does not. *)

NoOptions == [digest |-> None, hash |-> None]

HashFunc(default, opts) == IF opts.hash = None THEN default ELSE opts.hash

\* Variant: the length of a given digest is not compared.
DigestibleOfAnyLength(msg, default, supported, opts) ==
    HashFunc(default, opts) \in supported /\ (opts.digest = None => msg # None)

Digestible(msg, default, supported, opts) ==
    LET hf == HashFunc(default, opts) IN
    /\ hf \in supported
    /\ opts.digest = None => msg # None
    /\ opts.digest # None /\ hf # NoHash => Size[opts.digest.hash] = Size[hf]

\* The digest given is taken whatever the message is.
Digest(msg, default, opts) ==
    IF opts.digest # None THEN opts.digest ELSE [hash |-> HashFunc(default, opts), msg |-> msg]

-----------------------------------------------------------------------------
(* The schemes: which calls of SignMessage and VerifySignature go on to    *)
(* the crypto package, and the signature over msg.  s is what was loaded:  *)
(* the key and the hash function.                                          *)

Signature(scheme, key, hash, digest) ==
    [scheme |-> scheme, key |-> key, hash |-> hash, digest |-> digest]

ecdsaSupportedHashFuncs       == {"SHA224", "SHA256", "SHA384", "SHA512"}
ecdsaSupportedVerifyHashFuncs == ecdsaSupportedHashFuncs \cup {"SHA1"}

\* An ECDSA signature does not tell which hash function made the digest.
ECDSASigns(s, msg, opts)     == Digestible(msg, s.hash, ecdsaSupportedHashFuncs, opts)
ECDSASignature(s, msg, opts) == Signature("ecdsa", s.key, None, Digest(msg, s.hash, opts))
ECDSAVerifies(s, sig, msg, opts) ==
    /\ Digestible(msg, s.hash, ecdsaSupportedVerifyHashFuncs, opts)
    /\ sig = ECDSASignature(s, msg, opts)

rsaSupportedHashFuncs       == {"SHA256", "SHA384", "SHA512"}
rsaSupportedVerifyHashFuncs == rsaSupportedHashFuncs \cup {"SHA1"}

PKCS1v15Signs(s, msg, opts) == Digestible(msg, s.hash, rsaSupportedHashFuncs, opts)
PKCS1v15Signature(s, msg, opts) ==
    Signature("pkcs1v15", s.key, HashFunc(s.hash, opts), Digest(msg, s.hash, opts))

\* Variant: the verifier always takes the hash function it was loaded with.
VerifiesLoadedHash(s, sig, msg, opts) == sig = PKCS1v15Signature(s, msg, [opts EXCEPT !.hash = None])

PKCS1v15Verifies(s, sig, msg, opts) ==
    /\ Digestible(msg, s.hash, rsaSupportedVerifyHashFuncs, opts)
    /\ sig = PKCS1v15Signature(s, msg, opts)

PSSSigns(s, msg, opts) == Digestible(msg, s.hash, rsaSupportedHashFuncs, opts)
PSSSignature(s, msg, opts) ==
    Signature("pss", s.key, HashFunc(s.hash, opts), Digest(msg, s.hash, opts))
PSSVerifies(s, sig, msg, opts) ==
    /\ Digestible(msg, s.hash, rsaSupportedVerifyHashFuncs, opts)
    /\ sig = PSSSignature(s, msg, opts)

\* All options are ignored.
ED25519Signs(s, msg, opts)     == Digestible(msg, NoHash, {NoHash}, NoOptions)
ED25519Signature(s, msg, opts) == Signature("ed25519", s.key, NoHash, Digest(msg, NoHash, NoOptions))
ED25519Verifies(s, sig, msg, opts) ==
    ED25519Signs(s, msg, opts) /\ sig = ED25519Signature(s, msg, opts)

ED25519phSigns(s, msg, opts)     == Digestible(msg, "SHA512", {"SHA512"}, opts)
ED25519phSignature(s, msg, opts) == Signature("ed25519ph", s.key, "SHA512", Digest(msg, "SHA512", opts))
ED25519phVerifies(s, sig, msg, opts) ==
    ED25519phSigns(s, msg, opts) /\ sig = ED25519phSignature(s, msg, opts)

\* The method of whichever type was loaded.
Signs(s, msg, opts) ==
    \/ s.scheme = "ecdsa"     /\ ECDSASigns(s, msg, opts)
    \/ s.scheme = "pkcs1v15"  /\ PKCS1v15Signs(s, msg, opts)
    \/ s.scheme = "pss"       /\ PSSSigns(s, msg, opts)
    \/ s.scheme = "ed25519"   /\ ED25519Signs(s, msg, opts)
    \/ s.scheme = "ed25519ph" /\ ED25519phSigns(s, msg, opts)

SignatureOf(s, msg, opts) ==
    CASE s.scheme = "ecdsa"     -> ECDSASignature(s, msg, opts)
      [] s.scheme = "pkcs1v15"  -> PKCS1v15Signature(s, msg, opts)
      [] s.scheme = "pss"       -> PSSSignature(s, msg, opts)
      [] s.scheme = "ed25519"   -> ED25519Signature(s, msg, opts)
      [] s.scheme = "ed25519ph" -> ED25519phSignature(s, msg, opts)

VerifySignature(s, sig, msg, opts) ==
    \/ s.scheme = "ecdsa"     /\ ECDSAVerifies(s, sig, msg, opts)
    \/ s.scheme = "pkcs1v15"  /\ PKCS1v15Verifies(s, sig, msg, opts)
    \/ s.scheme = "pss"       /\ PSSVerifies(s, sig, msg, opts)
    \/ s.scheme = "ed25519"   /\ ED25519Verifies(s, sig, msg, opts)
    \/ s.scheme = "ed25519ph" /\ ED25519phVerifies(s, sig, msg, opts)
=============================================================================
