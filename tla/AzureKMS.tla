------------------------------ MODULE AzureKMS ------------------------------
(***************************************************************************)
(* The client of pkg/signature/kms/azure: Key Vault keeps the versions of  *)
(* a key, of which a reference may pin one.  The algorithm of a request    *)
(* follows from the public key.                                            *)
(***************************************************************************)
EXTENDS KMS

azureSupportedHashFuncs == {"SHA256", "SHA384", "SHA512"}

AzureStart(t) ==
    /\ At(t, {"done"})
    /\ \/ \E o \in CallOptions["azurekms"] : Set(t, NewCall("sign", "hash", o, None))
       \/ \E o \in CallOptions["azurekms"], s \in SignaturesAround :
            Set(t, NewCall("verify", "hash", o, s))
       \/ Set(t, NewCall("public", "key", NoCallOptions, None))
       \/ Set(t, NewCall("create", "probe", NoCallOptions, None))
    /\ UNCHANGED <<program, service, cache>>

AzureDigests(e, opts) == Digestible(Message, Alg(e.pub).hash, azureSupportedHashFuncs, opts)

\* The digest; then the call looks the key up again.
AzureHash(c, e) ==
    IF AzureDigests(e, c.opts)
    THEN [To(c, "key") EXCEPT !.digest = Digest(Message, Alg(e.pub).hash, c.opts)]
    ELSE Done(c, Error)

AzureHave(c, e) ==
    LET keyAsked == c.op \in {"public", "create"} IN
    CASE keyAsked -> Done(c, e.pub)
      [] ~keyAsked /\ c.step = "hash" -> AzureHash(c, e)
      [] OTHER -> [To(c, "request") EXCEPT !.entry = e]

AzureHit(t) ==
    /\ CanHit(t)
    /\ Set(t, AzureHave(call[t], Entry(t)))
    /\ UNCHANGED <<program, service, cache>>

AzureStore(t) ==
    /\ CanStore(t)
    /\ StoreEntry(t)
    /\ Set(t, AzureHave(call[t], call[t].load))
    /\ UNCHANGED <<program, service>>

-----------------------------------------------------------------------------
(* Requests                                                                *)

AzureRequestOK(c, k) ==
    /\ k # None /\ Alg(k) = Alg(c.entry.pub)
    /\ Size[c.digest.hash] = Size[Alg(k).hash]

\* What Key Vault returns is cut in two halves, which become the integers of an ASN.1
\* sequence: right for ECDSA, and no signature any RSA verifier takes.
AzureSignature(k, digest) ==
    LET s == RemoteSignature(k, Alg(k), digest) IN
    IF s.scheme = "ecdsa" THEN s ELSE [s EXCEPT !.scheme = "asn1"]

\* Verified after the way back, which does not pad the integers.
AzureVerifies(k, sig, digest) == sig.value = AzureSignature(k, digest) /\ ~sig.short

AzureRequest(t) ==
    /\ At(t, {"request"})
    /\ LET c == call[t] IN
       IF ~AzureRequestOK(c, Named) THEN Set(t, Done(c, Error))
       ELSE IF c.op = "sign"
            THEN \E short \in BOOLEAN : Set(t, Done(c, Sig(AzureSignature(Named, c.digest), short)))
            ELSE Set(t, Done(c, Verdict(AzureVerifies(Named, c.sig, c.digest))))
    /\ UNCHANGED <<program, service, cache>>

\* getKey, without the cache; Not Found is one thing, any other error another (Fail).
AzureGetKey(t) ==
    /\ At(t, {"probe"})
    /\ Set(t, To(call[t], IF Named = None THEN "make" ELSE "created"))
    /\ UNCHANGED <<program, service, cache>>

\* Key Vault makes a new version when there is a key of that name.
AzureCreateKey(t) ==
    /\ At(t, {"make"})
    /\ NameNew
    /\ \E lost \in Losses : Set(t, IF lost THEN Done(call[t], Error) ELSE To(call[t], "created"))
    /\ UNCHANGED <<program, rotated, oldest, cache>>

AzureQuota(t) ==
    /\ At(t, {"make"}) /\ keys = MaxKey
    /\ Set(t, Done(call[t], Error))
    /\ UNCHANGED <<program, service, cache>>

AzureNext(t) ==
    /\ Of("azurekms")
    /\ \/ AzureStart(t)
       \/ AzureHit(t) \/ Fetch(t) \/ AzureStore(t) \/ NotFound(t) \/ Fail(t)
       \/ AzureRequest(t) \/ AzureGetKey(t) \/ AzureCreateKey(t) \/ AzureQuota(t)
=============================================================================
