----------------------------- MODULE KMSClients -----------------------------
(***************************************************************************)
(* Programs that use a key management service through kms.Get, with the    *)
(* provider their reference names, and what holds of them whatever the     *)
(* rotations, the processes that die and the requests that fail.           *)
(***************************************************************************)
EXTENDS AWSKMS, AzureKMS, HashiVault, CLIPlugin

Next ==
    \/ Rotate \/ SetMinimum
    \/ \E c \in Clients : Expire(c) \/ Kill(c)
    \/ \E t \in Threads : AWSNext(t) \/ AzureNext(t) \/ VaultNext(t) \/ PluginNext(t)

Spec == Init /\ [][Next]_vars

-----------------------------------------------------------------------------
(* Properties                                                              *)

\* The keys that the reference has named.
Known == IF Pinned THEN {Named} \ {None} ELSE named

\* How often the key was replaced.  Azure's CreateKey makes a version whenever its lookup
\* has found none, and so replaces the key of another creator.
Replacements ==
    CASE Pinned -> 0
      [] ~Pinned /\ Of("azurekms") -> IF keys = 0 THEN 0 ELSE keys - 1
      [] OTHER -> rotated

AnswerOf(c) == IF c.op \in {"public", "create"} THEN c.result ELSE None

Store == INSTANCE KeyStore WITH
    key <- Named, named <- Known, rotations <- Replacements,
    answer <- [t \in Threads |-> AnswerOf(call[t])]

\* createKey of AWS, Vault and localkms, with their caches, orphans of a creator that
\* died and half-written files, gets or creates one key for all who ask for it.
GetsOrCreates == Store!Spec

\* "If provided, all key operations will specify this version": what a client of AWS
\* or Azure that was given a key or a version returns is of that one.
PinnedExact ==
    Pinned =>
        /\ \A c \in Clients : cache[c] # None => cache[c].pub = ref.pin
        /\ \A t \in Threads :
            /\ call[t].op \in {"public", "create"} => call[t].result \in {None, Error, ref.pin}
            /\ call[t].op = "sign" /\ call[t].result \notin {None, Error} =>
                    call[t].result.value.key = ref.pin

Signed(t) == call[t].op = "sign" /\ call[t].result \notin {None, Error}

\* The verifier loaded with the public key of k, which takes its hash function from the
\* algorithm of the key or from the options.
VerifierOfKey(k) ==
    Loaded(Alg(k).scheme, k, IF ref.scheme \in {"hashivault", "localkms"} THEN HashFunction ELSE Alg(k).hash, None)

VerifiesWithKey(t, k) == VerifySignature(VerifierOfKey(k), call[t].result.value, Message, call[t].opts)

\* The services, and the clients of AWS and Vault, also sign with options that no verifier
\* of the scheme takes: a hash function that it does not support, or a digest of another
\* length than that of the hash function given with it.
Verifiable(k, opts) ==
    Digestible(Message, VerifierOfKey(k).hash,
               IF Alg(k).scheme = "ecdsa" THEN ecdsaSupportedVerifyHashFuncs ELSE rsaSupportedVerifyHashFuncs,
               opts)

\* SignMessage looks the key up twice and then names it in its request: what it returns
\* is nevertheless, whenever the key is rotated, a signature of the message or the digest
\* by one key, which the verifier of that key takes with the same options.
SignatureOfOneKey ==
    \A t \in Threads : Signed(t) /\ call[t].result.value.scheme # "asn1" =>
        LET k == call[t].result.value.key
        IN  Verifiable(k, call[t].opts) => VerifiesWithKey(t, k)

FreshEntry == [pub |-> Named, meta |-> Named]

\* VerifySignature of a client whose cache is empty, with the options of the call.
Verifies(sig, opts) ==
    CASE ref.scheme = "awskms" -> AWSVerifies(FreshEntry, sig, opts)
      [] ref.scheme = "azurekms" ->
            AzureVerifies(Named, sig, Digest(Message, Alg(Named).hash, opts))
      [] ref.scheme = "hashivault" -> VaultVerifies(VerifyVersion(opts), sig, opts)
      [] ref.scheme = "localkms" -> sig.value = LocalSignature(current, PackMessageOptions(opts))

\* The options or the client of a call name the version of both signing and verification.
VersionNamed(opts) == SignVersion(opts) # 0 /\ (opts.version # None \/ KeyPrefix = None)

\* VerifySignature, with the options that SignMessage was called with, accepts the signature
\* it returned.  In AWS, Azure and localkms as long as the reference names the key, for an
\* AWS key with options that its verifiers take, for an Azure signature without an integer
\* that starts with a zero byte; in Vault, for an ECDSA key (RSA signatures it
\* rejects, see VaultVerifies) and a call that names the version, through all rotations until
\* the version is older than the minimum to verify.
RoundTrip ==
    \A t \in Threads : Signed(t) /\ ~call[t].result.short =>
        LET sig == call[t].result
            k   == sig.value.key
            o   == call[t].opts
            Covered ==
                CASE ref.scheme = "hashivault" ->
                        VersionNamed(o) /\ k >= oldest.verify /\ Alg(k).scheme = "ecdsa"
                  [] ref.scheme = "awskms" -> k = Named /\ Verifiable(k, o)
                  [] OTHER -> k = Named
        IN  Covered => Verifies(sig, o)

\* "a value of 0 will use the latest version of the key (default)", of both signing and
\* verification.
DefaultVersionVerifies ==
    \A t \in Threads : Signed(t) /\ call[t].opts = NoCallOptions =>
        (call[t].result.value.key = Named => Verifies(call[t].result, NoCallOptions))
=============================================================================
