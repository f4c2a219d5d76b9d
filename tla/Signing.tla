------------------------------ MODULE Signing ------------------------------
(***************************************************************************)
(* Goroutines that sign with signers loaded by pkg/signature, alone or     *)
(* through the DSSE wrappers of pkg/signature/dsse.                        *)
(*                                                                         *)
(* Signers keep no state, save one: an RSAPSSSigner stores the hash        *)
(* function of a call in the rsa.PSSOptions it was loaded with, which its  *)
(* other calls, and other signers loaded with the same options, share.     *)
(***************************************************************************)
EXTENDS AlgorithmRegistry, Sequences

CONSTANTS
    Threads,     \* goroutines
    Signers,     \* the signers the program has loaded, in the order of a multi-signer
    Loads,       \* signer -> how it was loaded, [key, opts, by]: the possible programs
    PSSOptions,  \* rsa.PSSOptions values -> the hash function the caller put there
    Messages,    \* messages and payloads
    PayloadType, \* of the DSSE wrappers
    CallOptions, \* options of a call of SignMessage
    Digests,     \* digests given to crypto.Signer's Sign
    CallHashes   \* and the hash functions given with them

ASSUME SigningAssumption ==
    /\ IsFiniteSet(Signers) /\ Signers # {} /\ None \notin Hashes
    /\ PSSOptions \in [DOMAIN PSSOptions -> Hashes \cup {NoHash}] /\ None \notin DOMAIN PSSOptions
    /\ \A l \in Loads : \A i \in Signers :
        /\ l[i].by \in {"hash", "opts", "both", "file", "default", "pss"}
        /\ l[i].opts.pss \in DOMAIN PSSOptions \cup {None}
        /\ DOMAIN l[i].opts = DOMAIN LoadOptions(None, FALSE, None)
        /\ l[i].by = "pss" => l[i].key.type = RSA

VARIABLES
    load,   \* signer -> how it was loaded
    pss,    \* rsa.PSSOptions value -> its field Hash now
    call    \* goroutine -> the call it is in, or was in

vars == <<load, pss, call>>

\* The signer that a load gives, and its verifier.
SignerOf(l) ==
    CASE l.by = "hash"    -> LoadSigner(l.key, l.opts.hash)
      [] l.by = "opts"    -> LoadSignerWithOpts(l.key, l.opts)
      [] l.by = "both"    -> LoadSignerVerifierWithOpts(l.key, l.opts)
      [] l.by = "file"    -> LoadSignerFromPEMFileWithOpts(l.key, l.opts)
      [] l.by = "default" -> LoadDefaultSigner(l.key, l.opts)
      [] l.by = "pss"     -> LoadRSAPSSSigner(l.key, l.opts.hash, None)

VerifierOf(l) ==
    CASE l.by = "hash"    -> LoadVerifier(l.key, l.opts.hash)
      [] l.by = "opts"    -> LoadVerifierWithOpts(l.key, l.opts)
      [] l.by = "both"    -> LoadSignerVerifierWithOpts(l.key, l.opts)
      [] l.by = "file"    -> LoadVerifierFromPEMFileWithOpts(l.key, l.opts)
      [] l.by = "default" -> LoadDefaultVerifier(l.key, l.opts)
      [] l.by = "pss"     -> LoadRSAPSSSigner(l.key, l.opts.hash, None)

signer(i) == SignerOf(load[i])

\* Nothing is known of a call before it starts.
Idle == [kind   |-> "none", \* SignMessage, crypto.Signer's Sign, an envelope of one or of all signers
         todo   |-> <<>>,   \* the signers it has yet to use
         busy   |-> FALSE,  \* inside rsa.SignPSS
         msg    |-> None,
         opts   |-> NoOptions,
         sigs   |-> {},     \* the signatures made: [by, sig]
         raced  |-> FALSE,  \* another call set the same PSSOptions meanwhile
         failed |-> FALSE]

TypeOK ==
    /\ load \in Loads /\ \A i \in Signers : signer(i) # Error
    /\ DOMAIN pss = DOMAIN PSSOptions /\ \A o \in DOMAIN pss : pss[o] \in Hashes \cup {NoHash}
    /\ \A t \in Threads :
        /\ DOMAIN call[t] = DOMAIN Idle
        /\ call[t].kind \in {"none", "message", "digest", "dsse", "multi"}
        /\ \A n \in DOMAIN call[t].todo : call[t].todo[n] \in Signers
        /\ call[t].busy => call[t].todo # <<>> /\ signer(Head(call[t].todo)).pss # None
        /\ \A s \in call[t].sigs : s.by \in Signers
        /\ call[t].failed => call[t].todo # <<>> /\ call[t].sigs = {} /\ ~call[t].busy

Init ==
    /\ load \in {l \in Loads : \A i \in Signers : SignerOf(l[i]) # Error}
    /\ pss = PSSOptions
    /\ call = [t \in Threads |-> Idle]

-----------------------------------------------------------------------------
Ended(t) == call[t].todo = <<>> \/ call[t].failed

Start(t, kind, todo, msg, opts) ==
    /\ Ended(t)
    /\ call' = [call EXCEPT ![t] = [Idle EXCEPT !.kind = kind, !.todo = todo,
                                                !.msg = msg, !.opts = opts]]
    /\ UNCHANGED <<load, pss>>

Plain(m) == [type |-> None, payload |-> m]

\* dsse.PAE
PAE(m) == [type |-> PayloadType, payload |-> m]

\* SignMessage, without a message when None.
StartSignMessage(t, i, m, opts) ==
    Start(t, "message", <<i>>, IF m = None THEN None ELSE Plain(m), opts)

\* crypto.Signer's Sign: the digest is passed as an option, to Ed25519 it is the
\* message; the Ed25519 signers ignore the hash function it is given with.
StartSign(t, i, digest, hash) ==
    Start(t, "digest", <<i>>,
          IF signer(i).scheme = "ed25519" THEN digest ELSE None,
          [digest |-> digest,
           hash   |-> IF signer(i).scheme \in {"ed25519", "ed25519ph"} THEN None ELSE hash])

\* Variant: the payload itself is signed.
SignsPayload(t, i, m, opts) == Start(t, "dsse", <<i>>, Plain(m), opts)

\* wrappedSigner passes the options on, wrappedMultiSigner drops them.
StartEnvelope(t, i, m, opts) == Start(t, "dsse", <<i>>, PAE(m), opts)
StartMultiEnvelope(t, order, m) == Start(t, "multi", order, PAE(m), NoOptions)

-----------------------------------------------------------------------------
(* One signature of the call                                               *)

Current(t) == signer(Head(call[t].todo))

MaySign(t) == Signs(Current(t), call[t].msg, call[t].opts)

Made(t) == SignatureOf(Current(t), call[t].msg, call[t].opts)

\* Variant: an envelope keeps the signatures made before the error.
KeepsSignatures(t) == [call[t] EXCEPT !.busy = FALSE, !.failed = TRUE]

\* Any signer's error fails the call.
Fails(t) == [call[t] EXCEPT !.sigs = {}, !.busy = FALSE, !.failed = TRUE]

Succeeds(t) == [call[t] EXCEPT !.todo = Tail(@), !.busy = FALSE,
                               !.sigs = @ \cup {[by |-> Head(call[t].todo), sig |-> Made(t)]}]

Refuse(t) ==
    /\ ~Ended(t) /\ ~call[t].busy /\ ~MaySign(t)
    /\ call' = [call EXCEPT ![t] = Fails(t)]
    /\ UNCHANGED <<load, pss>>

\* Every signer but an RSAPSSSigner that was given options shares nothing.
SignAlone(t) ==
    /\ ~Ended(t) /\ ~call[t].busy /\ MaySign(t)
    /\ Current(t).pss = None
    /\ call' = [call EXCEPT ![t] = Succeeds(t)]
    /\ UNCHANGED <<load, pss>>

\* Variant: the hash function is not stored.
SharesNothing(t) == pss

\* pssOpts.Hash = hf
SetHash(t) == [pss EXCEPT ![Current(t).pss] = HashFunc(Current(t).hash, call[t].opts)]

InSignPSS(t, o) == call[t].busy /\ Current(t).pss = o

\* The RSAPSSSigner has its digest and calls rsa.SignPSS.
EnterSignPSS(t) ==
    /\ ~Ended(t) /\ ~call[t].busy /\ MaySign(t)
    /\ Current(t).pss # None
    /\ pss' = SetHash(t)
    /\ call' = [u \in Threads |->
          IF u = t THEN [call[t] EXCEPT !.busy = TRUE, !.raced = FALSE]
          ELSE [call[u] EXCEPT !.raced = @ \/ InSignPSS(u, Current(t).pss)]]
    /\ UNCHANGED load

\* rsa.SignPSS takes the hash function of the options, where there is one, and
\* refuses a digest of another length.
LeaveSignPSS(t) ==
    LET hf == pss[Current(t).pss] IN
    /\ call[t].busy
    /\ call' = [call EXCEPT ![t] =
          IF hf = NoHash \/ Size[hf] = Size[Made(t).digest.hash] THEN Succeeds(t) ELSE Fails(t)]
    /\ UNCHANGED <<load, pss>>

Sign(t) == Refuse(t) \/ SignAlone(t) \/ EnterSignPSS(t) \/ LeaveSignPSS(t)

Orders == {s \in [1..Cardinality(Signers) -> Signers] : \A i \in Signers : \E n \in DOMAIN s : s[n] = i}

Next == \E t \in Threads :
    \/ \E i \in Signers, m \in Messages \cup {None}, o \in CallOptions : StartSignMessage(t, i, m, o)
    \/ \E i \in Signers, d \in Digests, h \in CallHashes : StartSign(t, i, d, h)
    \/ \E i \in Signers, m \in Messages, o \in CallOptions : StartEnvelope(t, i, m, o)
    \/ \E s \in Orders, m \in Messages : StartMultiEnvelope(t, s, m)
    \/ Sign(t)

Spec == Init /\ [][Next]_vars

-----------------------------------------------------------------------------
(* DSSE envelopes                                                          *)

Envelope(m, sigs) == [type |-> PayloadType, payload |-> m, sigs |-> sigs]

\* The signatures of a call in an envelope: with a key ID when a multi-signer made it.
EnvelopeSigs(t) ==
    {[keyid |-> IF call[t].kind = "multi" THEN signer(s.by).key ELSE None, sig |-> s.sig] :
        s \in call[t].sigs}

\* go-securesystemslib: the keys of the verifiers (signer -> verifier) that accept a
\* signature of the envelope, which has no key ID or theirs.
AcceptedKeys(vs, env) ==
    {vs[i].key : i \in {j \in DOMAIN vs : \E s \in env.sigs :
        /\ s.keyid \in {None, vs[j].key}
        /\ VerifySignature(vs[j], s.sig, PAE(env.payload), NoOptions)}}

\* Variant: verifiers are counted, not keys.
CountsVerifiers(vs, threshold, env) ==
    /\ env.sigs # {} /\ threshold \in 1..Cardinality(DOMAIN vs)
    /\ Cardinality({j \in DOMAIN vs : vs[j].key \in AcceptedKeys(vs, env)}) >= threshold

MultiVerify(vs, threshold, env) ==
    /\ env.sigs # {} /\ threshold \in 1..Cardinality(DOMAIN vs)
    /\ Cardinality(AcceptedKeys(vs, env)) >= threshold

WrappedVerify(v, env) == MultiVerify([i \in {1} |-> v], 1, env)

-----------------------------------------------------------------------------
(* Properties                                                              *)

Returned(t, kinds) == call[t].kind \in kinds /\ Ended(t)

verifiers == [i \in Signers |-> VerifierOf(load[i])]

\* A signature that SignMessage or Sign returns, to whatever interleaving, verifies
\* with the verifier loaded in the same way, given the same message and options.
RoundTrip ==
    \A t \in Threads : Returned(t, {"message", "digest"}) =>
        \A s \in call[t].sigs :
            VerifySignature(verifiers[s.by], s.sig, call[t].msg, call[t].opts)

\* "checked on VerifySignature. Supports SHA1 verification": no signer signs a SHA1
\* digest, computed or given, with whatever hash function it is given, so that the
\* verifiers of LoadUnsafeVerifier accept nothing that is signed today.
NoSHA1Signed ==
    \A t \in Threads : \A s \in call[t].sigs :
        LET key == signer(s.by).key IN
        /\ s.sig.digest.hash # "SHA1"
        /\ key.type # ED25519 =>
            ~VerifySignature(LoadUnsafeVerifier(key), s.sig, call[t].msg, NoOptions)

\* A call that fails although its signer accepts its options and has its digest was
\* raced by another that set the same PSSOptions: alone, it signs.
AloneSigns ==
    \A t \in Threads : call[t].failed /\ ~call[t].raced => ~MaySign(t)

\* A signer loaded by default signs with an algorithm that a service permits whose
\* flag names the key's default algorithm, whatever the WithHash it was loaded with.
DefaultPermitted ==
    \A t \in Threads : \A s \in call[t].sigs :
        LET l    == load[s.by]
            flag == FormatSignatureAlgorithmFlag(GetDefaultPublicKeyDetails(l.key, l.opts))
        IN l.by = "default" /\ call[t].opts = NoOptions =>
            IsAlgorithmPermitted(NewAlgorithmRegistryConfig({ParseSignatureAlgorithmFlag(flag)}),
                                 l.key, s.sig.digest.hash)

\* An envelope verifies with the verifiers of all that signed it.
EnvelopeRoundTrip ==
    \A t \in Threads :
        LET env  == Envelope(call[t].msg.payload, EnvelopeSigs(t))
            keys == {signer(s.by).key : s \in call[t].sigs}
        IN Returned(t, {"dsse", "multi"}) /\ ~call[t].failed /\ call[t].opts = NoOptions =>
            /\ MultiVerify(verifiers, Cardinality(keys), env)
            /\ \A s \in call[t].sigs : WrappedVerify(verifiers[s.by], env)

\* Signatures of several envelopes put into one count for as many keys as signed its
\* payload: not for those of another payload, nor twice for a key of two verifiers.
ThresholdCountsKeys ==
    \A t, u \in Threads :
        LET env  == Envelope(call[t].msg.payload, EnvelopeSigs(t) \cup EnvelopeSigs(u))
            keys == {signer(s.by).key : s \in
                        call[t].sigs \cup (IF call[u].msg = call[t].msg THEN call[u].sigs ELSE {})}
        IN /\ Returned(t, {"dsse", "multi"}) /\ Returned(u, {"dsse", "multi"})
           /\ call[t].opts = NoOptions /\ call[u].opts = NoOptions
           => \A n \in 0..Cardinality(Signers) + 1 :
                MultiVerify(verifiers, n, env) <=> n >= 1 /\ n <= Cardinality(keys)
=============================================================================
