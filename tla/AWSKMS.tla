------------------------------- MODULE AWSKMS -------------------------------
(***************************************************************************)
(* The client of pkg/signature/kms/aws.  Its entry is the public key and   *)
(* the metadata of the key, of two requests.  A reference is an alias, or  *)
(* the ID of a key, which it pins.                                         *)
(***************************************************************************)
EXTENDS KMS

awsSupportedHashFuncs == {"SHA256", "SHA384", "SHA512"}

AWSStart(t) ==
    /\ At(t, {"done"})
    /\ \/ \E o \in CallOptions["awskms"] : Set(t, NewCall("sign", "hash", o, None))
       \/ \E o \in CallOptions["awskms"], s \in SignaturesAround :
            Set(t, NewCall("verify", IF o.remote THEN "hash" ELSE "key", o, s))
       \/ Set(t, NewCall("public", "key", NoCallOptions, None))
       \/ ref.pin = None /\ Set(t, NewCall("create", "exists", NoCallOptions, None))
       \/ ref.pin # None /\ Set(t, Done(NewCall("create", "done", NoCallOptions, None), Error))
    /\ UNCHANGED <<program, service, cache>>

\* (*cmk).Verifier: by the algorithm of the metadata, for a public key of its type.
AWSVerifier(e) ==
    LET rsa(k) == Alg(k).scheme \in {"pss", "pkcs1v15"} IN
    IF rsa(e.pub) = rsa(e.meta)
    THEN Loaded(Alg(e.meta).scheme, e.pub, Alg(e.meta).hash, None)
    ELSE Error

AWSVerifies(e, sig, opts) ==
    AWSVerifier(e) # Error /\ VerifySignature(AWSVerifier(e), sig.value, Message, opts)

\* A digest that is given is taken as it is.
AWSDigests(e, opts) ==
    opts.digest # None \/ HashFunc(Alg(e.meta).hash, opts) \in awsSupportedHashFuncs

\* Variant: a digest that is given is not used.
DigestsMessage(e, opts) == Digest(Message, Alg(e.meta).hash, NoOptions)

AWSDigest(e, opts) == Digest(Message, Alg(e.meta).hash, opts)

\* getHashFunc, for a digest; then the call looks the key up again.
AWSHash(c, e) ==
    IF AWSDigests(e, c.opts)
    THEN [To(c, "key") EXCEPT !.digest = AWSDigest(e, c.opts)]
    ELSE Done(c, Error)

\* What follows a lookup that found e.
AWSHave(c, e) ==
    LET keyAsked == c.op \in {"public", "create"} IN
    CASE keyAsked -> Done(c, e.pub)
      [] ~keyAsked /\ c.step = "hash" -> AWSHash(c, e)
      [] c.step = "key" /\ c.op = "verify" /\ ~c.opts.remote ->
            Done(c, Verdict(AWSVerifies(e, c.sig, c.opts)))
      [] OTHER -> [To(c, "request") EXCEPT !.entry = e]

AWSHit(t) ==
    /\ CanHit(t)
    /\ Set(t, AWSHave(call[t], Entry(t)))
    /\ UNCHANGED <<program, service, cache>>

\* fetchCMK: the alias may come to name another key in between.
AWSFetchPublicKey(t) ==
    /\ CanFetch(t) /\ Named # None
    /\ Set(t, [call[t] EXCEPT !.load = [pub |-> Named, meta |-> None]])
    /\ UNCHANGED <<program, service, cache>>

AWSFetchKeyMetadata(t) ==
    /\ call[t].load # None /\ call[t].load.meta = None
    /\ Set(t, [call[t] EXCEPT !.load.meta = Named])
    /\ UNCHANGED <<program, service, cache>>

AWSStore(t) ==
    /\ CanStore(t)
    /\ StoreEntry(t)
    /\ Set(t, AWSHave(call[t], call[t].load))
    /\ UNCHANGED <<program, service>>

\* createKey makes a key only when the lookup says that there is none.
AWSNotFound(t) ==
    /\ CanFetch(t) /\ Named = None
    /\ Set(t, IF At(t, {"exists"}) THEN To(call[t], "make") ELSE Done(call[t], Error))
    /\ UNCHANGED <<program, service, cache>>

-----------------------------------------------------------------------------
(* Requests                                                                *)

\* AWS refuses an algorithm that is not the key's, and a digest of another length.
AWSRequestOK(c) ==
    /\ Named # None /\ Alg(Named) = Alg(c.entry.meta)
    /\ Size[c.digest.hash] = Size[Alg(Named).hash]

AWSSignature(c) == RemoteSignature(Named, Alg(c.entry.meta), c.digest)

AWSRequest(t) ==
    /\ At(t, {"request"})
    /\ Set(t, Done(call[t],
          IF ~AWSRequestOK(call[t]) THEN Error
          ELSE IF call[t].op = "sign" THEN Sig(AWSSignature(call[t]), FALSE)
          ELSE Verdict(call[t].sig.value = AWSSignature(call[t]))))
    /\ UNCHANGED <<program, service, cache>>

\* The alias does not name the key yet.
AWSCreateKey(t) ==
    /\ At(t, {"make"})
    /\ \/ /\ keys < MaxKey
          /\ keys' = keys + 1
          /\ \E lost \in Losses :
                Set(t, IF lost THEN Done(call[t], Error)
                       ELSE [To(call[t], "alias") EXCEPT !.made = keys + 1])
       \/ keys = MaxKey /\ Set(t, Done(call[t], Error)) /\ UNCHANGED keys
    /\ UNCHANGED <<program, current, named, rotated, oldest, cache>>

\* AWS refuses an alias that exists: UpdateAlias would change it.
AWSCreateAlias(t) ==
    /\ At(t, {"alias"}) /\ current = None
    /\ current' = call[t].made /\ named' = named \cup {call[t].made}
    /\ \E lost \in Losses :
          Set(t, IF lost THEN Done(call[t], Error)
                 ELSE [To(call[t], "created") EXCEPT !.made = None])
    /\ UNCHANGED <<program, keys, rotated, oldest, cache>>

AWSAliasExists(t) ==
    /\ At(t, {"alias"}) /\ current # None
    /\ Set(t, Done(call[t], Error))
    /\ UNCHANGED <<program, service, cache>>

AWSNext(t) ==
    /\ Of("awskms")
    /\ \/ AWSStart(t)
       \/ AWSHit(t) \/ AWSFetchPublicKey(t) \/ AWSFetchKeyMetadata(t) \/ AWSStore(t)
       \/ AWSNotFound(t) \/ Fail(t)
       \/ AWSRequest(t) \/ AWSCreateKey(t) \/ AWSCreateAlias(t) \/ AWSAliasExists(t)
=============================================================================
