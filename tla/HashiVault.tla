----------------------------- MODULE HashiVault -----------------------------
(***************************************************************************)
(* The client of pkg/signature/kms/hashivault, for the RSA and ECDSA keys  *)
(* of a transit secrets engine, which keeps the versions of a key.  A      *)
(* client may be loaded with a version; requests to sign and to verify     *)
(* name one, the lookup of the public key is of the latest.                *)
(***************************************************************************)
EXTENDS KMS

hvSupportedHashFuncs == {"SHA224", "SHA256", "SHA384", "SHA512", NoHash}

VaultDigests(opts) == Digestible(Message, HashFunction, hvSupportedHashFuncs, opts)

VaultDigest(opts) == Digest(Message, HashFunction, opts)

\* The version option, or the client's; 0 is the latest.
SignVersion(opts) ==
    IF opts.version # None THEN opts.version ELSE IF ref.pin # None THEN ref.pin ELSE 0

\* Variant: the client's version is not used.
IgnoresClientVersion(opts) ==
    IF opts.version # None THEN opts.version ELSE IF KeyPrefix # None THEN KeyPrefix ELSE 1

\* The prefix put before a signature to verify: the version option, VAULT_KEY_PREFIX,
\* the client's version or vault:v1.
VerifyVersion(opts) ==
    CASE opts.version # None -> opts.version
      [] opts.version = None /\ KeyPrefix # None -> KeyPrefix
      [] opts.version = None /\ KeyPrefix = None /\ ref.pin # None -> ref.pin
      [] OTHER -> 1

\* A call that fails before its first request goes no further.
VaultCall(op, opts, sig) ==
    IF VaultDigests(opts) /\ (op = "verify" => VerifyVersion(opts) # 0)
    THEN NewCall(op, "key", opts, sig)
    ELSE Done(NewCall(op, "done", opts, sig), Error)

VaultStart(t) ==
    /\ At(t, {"done"})
    /\ \/ \E o \in CallOptions["hashivault"] : Set(t, VaultCall("sign", o, None))
       \/ \E o \in CallOptions["hashivault"], s \in SignaturesAround : Set(t, VaultCall("verify", o, s))
       \/ Set(t, NewCall("public", "key", NoCallOptions, None))
       \/ Set(t, NewCall("create", "make", NoCallOptions, None))
    /\ UNCHANGED <<program, service, cache>>

VaultHave(c, e) ==
    IF c.op \in {"public", "create"} THEN Done(c, e.pub) ELSE To(c, "request")

VaultHit(t) ==
    /\ CanHit(t)
    /\ Set(t, VaultHave(call[t], Entry(t)))
    /\ UNCHANGED <<program, service, cache>>

VaultStore(t) ==
    /\ CanStore(t)
    /\ StoreEntry(t)
    /\ Set(t, VaultHave(call[t], call[t].load))
    /\ UNCHANGED <<program, service>>

-----------------------------------------------------------------------------
(* Requests                                                                *)

\* The version that signs, 0 being the latest: none that is older than the minimum.
SigningVersion(v) ==
    CASE v = 0 -> current
      [] v # 0 -> IF v \in oldest.sign..keys THEN v ELSE None

\* The versions that verify.
VerifyingVersions == oldest.verify..keys

\* An RSA key signs with the algorithm asked for; the hash function of the request is
\* that of the digest.
VaultSignature(k, algorithm, opts) ==
    RemoteSignature(k, [scheme |-> IF Alg(k).scheme = "ecdsa" THEN "ecdsa" ELSE algorithm,
                        hash   |-> HashFunc(HashFunction, opts)],
                    VaultDigest(opts))

\* The request to verify asks for no algorithm, and Vault takes pss for an RSA key.
VaultVerifies(v, sig, opts) ==
    v \in VerifyingVersions /\ sig.value = VaultSignature(v, "pss", opts)

\* The request to sign asks for pkcs1v15.
VaultSign(t) ==
    LET k == SigningVersion(SignVersion(call[t].opts)) IN
    /\ At(t, {"request"}) /\ call[t].op = "sign"
    /\ Set(t, Done(call[t], IF k = None THEN Error
                            ELSE Sig(VaultSignature(k, "pkcs1v15", call[t].opts), FALSE)))
    /\ UNCHANGED <<program, service, cache>>

VaultVerify(t) ==
    LET c == call[t] IN
    /\ At(t, {"request"}) /\ c.op = "verify"
    /\ Set(t, Done(c, Verdict(VaultVerifies(VerifyVersion(c.opts), c.sig, c.opts))))
    /\ UNCHANGED <<program, service, cache>>

\* Vault leaves a key that exists as it is.
VaultCreateKey(t) ==
    /\ At(t, {"make"})
    /\ IF current = None THEN NameNew ELSE UNCHANGED <<keys, current, named>>
    /\ \E lost \in Losses : Set(t, IF lost THEN Done(call[t], Error) ELSE To(call[t], "created"))
    /\ UNCHANGED <<program, rotated, oldest, cache>>

\* min_encryption_version and min_decryption_version are set, in one step or two; the first,
\* when it is 0, counts as the second.
SetMinimum ==
    /\ Of("hashivault") /\ current # None
    /\ \E v \in 1..keys : \E s \in v..keys : oldest' = [sign |-> s, verify |-> v]
    /\ UNCHANGED <<program, keys, current, named, rotated, cache, call>>

VaultNext(t) ==
    /\ Of("hashivault")
    /\ \/ VaultStart(t)
       \/ VaultHit(t) \/ Fetch(t) \/ VaultStore(t) \/ NotFound(t) \/ Fail(t)
       \/ VaultSign(t) \/ VaultVerify(t) \/ VaultCreateKey(t)
=============================================================================
