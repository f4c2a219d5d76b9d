--------------------------- MODULE SigningProofs ---------------------------
(***************************************************************************)
(* Safety of Signing for all sets of goroutines and signers, loaded in     *)
(* every way, and for all messages, options and digests.                   *)
(***************************************************************************)
EXTENDS Signing, FiniteSetTheorems, TLAPS

Schemes == {"ecdsa", "pkcs1v15", "pss", "ed25519", "ed25519ph"}

-----------------------------------------------------------------------------
(* The inductive invariant                                                 *)

\* What a call holds: the signatures its signers make of its message, and for a
\* call that failed or is inside rsa.SignPSS what its current signer says of it.
CallOK(c) ==
    /\ c = [kind |-> c.kind, todo |-> c.todo, busy |-> c.busy, msg |-> c.msg, opts |-> c.opts,
            sigs |-> c.sigs, raced |-> c.raced, failed |-> c.failed]
    /\ c.kind \in {"none", "message", "digest", "dsse", "multi"}
    /\ c.todo \in Seq(Signers) /\ {c.busy, c.raced, c.failed} \subseteq BOOLEAN
    /\ c.kind = "none" => c.todo = <<>> /\ c.sigs = {}
    /\ c.kind # "none" /\ ~c.failed => c.todo # <<>> \/ c.sigs # {}
    /\ c.kind \in {"dsse", "multi"} => c.msg = PAE(c.msg.payload)
    /\ \A s \in c.sigs :
        /\ s.by \in Signers
        /\ Signs(signer(s.by), c.msg, c.opts)
        /\ s.sig = SignatureOf(signer(s.by), c.msg, c.opts)
    /\ c.busy =>
        /\ c.todo # <<>> /\ ~c.failed
        /\ signer(Head(c.todo)).pss # None
        /\ Signs(signer(Head(c.todo)), c.msg, c.opts)
    /\ c.failed =>
        /\ c.todo # <<>> /\ c.sigs = {} /\ ~c.busy
        /\ ~c.raced => ~Signs(signer(Head(c.todo)), c.msg, c.opts)

\* Inside rsa.SignPSS the options hold the call's own hash function, unless raced.
HashSet(c) ==
    c.busy /\ ~c.raced =>
        pss[signer(Head(c.todo)).pss] = HashFunc(signer(Head(c.todo)).hash, c.opts)

Inv ==
    /\ load \in Loads /\ \A i \in Signers : signer(i) # Error
    /\ pss \in [DOMAIN PSSOptions -> Hashes \cup {NoHash}]
    /\ call = [t \in Threads |-> call[t]]
    /\ \A t \in Threads : CallOK(call[t]) /\ HashSet(call[t])

-----------------------------------------------------------------------------
(* Signers                                                                 *)

\* What LoadSignerWithOpts loads: its scheme follows from the type of the key.
LEMMA LoadedSigner ==
    ASSUME NEW key, NEW opts, LoadSignerWithOpts(key, opts) # Error
    PROVE  /\ LoadSignerWithOpts(key, opts).key = key
           /\ LoadSignerWithOpts(key, opts).pss \in {None, opts.pss}
           /\ LoadSignerWithOpts(key, opts).pss # None => LoadSignerWithOpts(key, opts).scheme = "pss"
           /\ key.type \in {RSA, ECDSA, ED25519}
<1> USE DEF LoadSignerWithOpts, LoadRSAPSSSigner, LoadRSAPKCS1v15Signer, LoadECDSASigner,
            LoadED25519phSigner, LoadED25519Signer, Loaded, RSA, ECDSA, ED25519
<1>1. CASE key.type = RSA /\ opts.pss # None
  BY <1>1
<1>2. CASE key.type = RSA /\ opts.pss = None
  BY <1>2
<1>3. CASE key.type = ECDSA
  BY <1>3
<1>4. CASE key.type = ED25519
  BY <1>4
<1> QED BY <1>1, <1>2, <1>3, <1>4

\* The same for every way to load a signer; its verifier is loaded alike.
LEMMA SignerLoaded ==
    ASSUME NEW l \in Loads, NEW i \in Signers, SignerOf(l[i]) # Error
    PROVE  /\ SignerOf(l[i]).key = l[i].key
           /\ SignerOf(l[i]).pss # None =>
                SignerOf(l[i]).scheme = "pss" /\ SignerOf(l[i]).pss \in DOMAIN PSSOptions
           /\ l[i].key.type \in {RSA, ECDSA, ED25519}
           /\ VerifierOf(l[i]) = SignerOf(l[i])
<1> DEFINE k == l[i]
<1> SUFFICES /\ SignerOf(k).key = k.key
             /\ SignerOf(k).pss # None => SignerOf(k).scheme = "pss" /\ SignerOf(k).pss \in DOMAIN PSSOptions
             /\ k.key.type \in {RSA, ECDSA, ED25519}
             /\ VerifierOf(k) = SignerOf(k)
  OBVIOUS
<1>1. /\ k.by \in {"hash", "opts", "both", "file", "default", "pss"}
      /\ k.opts.pss \in DOMAIN PSSOptions \cup {None}
      /\ k.by = "pss" => k.key.type = RSA
      /\ SignerOf(k) # Error
  BY SigningAssumption
<1> HIDE DEF k
<1>2. CASE k.by = "hash"
  <2> DEFINE o == LoadOptions(k.opts.hash, FALSE, None)
  <2>1. SignerOf(k) = LoadSignerWithOpts(k.key, o) /\ VerifierOf(k) = LoadSignerWithOpts(k.key, o) /\ o.pss = None
    BY <1>2 DEF SignerOf, VerifierOf, LoadSigner, LoadVerifier, LoadVerifierWithOpts, LoadOptions
  <2> HIDE DEF o
  <2> QED BY <2>1, <1>1, LoadedSigner
<1>3. CASE k.by \in {"opts", "both"}
  <2>1. /\ SignerOf(k) = LoadSignerWithOpts(k.key, k.opts)
        /\ VerifierOf(k) = LoadSignerWithOpts(k.key, k.opts)
    BY <1>3, <1>1 DEF SignerOf, VerifierOf, LoadVerifierWithOpts, LoadSignerVerifierWithOpts
  <2> QED BY <2>1, <1>1, LoadedSigner
<1>4. CASE k.by = "file"
  <2>1. /\ SignerOf(k) = LoadSignerWithOpts(k.key, k.opts)
        /\ VerifierOf(k) = LoadSignerWithOpts(k.key, k.opts)
    BY <1>4, <1>1 DEF SignerOf, VerifierOf, LoadVerifierWithOpts, LoadSignerFromPEMFileWithOpts, LoadVerifierFromPEMFileWithOpts
  <2> QED BY <2>1, <1>1, LoadedSigner
<1>5. CASE k.by = "default"
  <2> DEFINE d == GetDefaultAlgorithmDetails(k.key, k.opts)
             o == GetOptsFromAlgorithmDetails(d, k.opts)
  <2>1. d # Error /\ SignerOf(k) = LoadSignerWithOpts(k.key, o) /\ VerifierOf(k) = LoadSignerWithOpts(k.key, o)
    BY <1>5, <1>1 DEF SignerOf, VerifierOf, LoadDefaultSigner, LoadDefaultVerifier, LoadVerifierWithOpts,
       LoadSignerFromAlgorithmDetails, LoadVerifierFromAlgorithmDetails
  <2>2. o.pss = k.opts.pss
    BY DEF GetOptsFromAlgorithmDetails
  <2> QED BY <2>1, <2>2, <1>1, LoadedSigner
<1>6. CASE k.by = "pss"
  BY <1>6, <1>1 DEF SignerOf, VerifierOf, LoadRSAPSSSigner, Loaded
<1> QED BY <1>1, <1>2, <1>3, <1>4, <1>5, <1>6

\* A signer's own verifier takes what it signs.
LEMMA SignedVerifies ==
    ASSUME NEW s, NEW msg, NEW opts, Signs(s, msg, opts)
    PROVE  VerifySignature(s, SignatureOf(s, msg, opts), msg, opts)
<1> USE DEF Signs, VerifySignature, SignatureOf
<1>1. CASE s.scheme = "ecdsa"
  BY <1>1 DEF ECDSASigns, ECDSAVerifies, Digestible, ecdsaSupportedVerifyHashFuncs
<1>2. CASE s.scheme = "pkcs1v15"
  BY <1>2 DEF PKCS1v15Signs, PKCS1v15Verifies, Digestible, rsaSupportedVerifyHashFuncs
<1>3. CASE s.scheme = "pss"
  BY <1>3 DEF PSSSigns, PSSVerifies, Digestible, rsaSupportedVerifyHashFuncs
<1>4. CASE s.scheme = "ed25519"
  BY <1>4 DEF ED25519Verifies
<1>5. CASE s.scheme = "ed25519ph"
  BY <1>5 DEF ED25519phVerifies
<1> QED BY <1>1, <1>2, <1>3, <1>4, <1>5

\* No digest of SHA1's length fits a hash function that signs.
LEMMA SignedDigest ==
    ASSUME NEW s, NEW msg, NEW opts, Signs(s, msg, opts)
    PROVE  SignatureOf(s, msg, opts).digest.hash # "SHA1"
<1> DEFINE fits(supported) == Digestible(msg, s.hash, supported, opts)
<1>1. ASSUME NEW default, NEW supported \in SUBSET {"SHA224", "SHA256", "SHA384", "SHA512"},
             Digestible(msg, default, supported, opts)
      PROVE  Digest(msg, default, opts).hash # "SHA1"
  <2> DEFINE hf == HashFunc(default, opts)
  <2>1. hf \in {"SHA224", "SHA256", "SHA384", "SHA512"} /\ hf # NoHash
    BY <1>1 DEF Digestible, NoHash
  <2>2. Size[hf] # Size["SHA1"]
    BY <2>1 DEF Size
  <2>3. CASE opts.digest = None
    BY <2>1, <2>3 DEF Digest
  <2>4. CASE opts.digest # None
    BY <1>1, <2>1, <2>2, <2>4 DEF Digest, Digestible
  <2> QED BY <2>3, <2>4
<1>2. CASE s.scheme = "ecdsa"
  BY <1>1, <1>2 DEF Signs, SignatureOf, ECDSASigns, ECDSASignature, Signature, ecdsaSupportedHashFuncs
<1>3. CASE s.scheme = "pkcs1v15"
  BY <1>1, <1>3 DEF Signs, SignatureOf, PKCS1v15Signs, PKCS1v15Signature, Signature, rsaSupportedHashFuncs
<1>4. CASE s.scheme = "pss"
  BY <1>1, <1>4 DEF Signs, SignatureOf, PSSSigns, PSSSignature, Signature, rsaSupportedHashFuncs
<1>5. CASE s.scheme = "ed25519"
  BY <1>5 DEF SignatureOf, ED25519Signature, Signature, Digest, NoOptions, NoHash, HashFunc
<1>6. CASE s.scheme = "ed25519ph"
  BY <1>1, <1>6 DEF Signs, SignatureOf, ED25519phSigns, ED25519phSignature, Signature
<1> QED BY <1>2, <1>3, <1>4, <1>5, <1>6 DEF Signs

\* A PSS signature has a digest of the length of its hash function.
LEMMA PSSFits ==
    ASSUME NEW s, NEW msg, NEW opts, Signs(s, msg, opts), s.scheme = "pss"
    PROVE  /\ HashFunc(s.hash, opts) \in Hashes \ {NoHash}
           /\ Size[SignatureOf(s, msg, opts).digest.hash] = Size[HashFunc(s.hash, opts)]
<1>1. HashFunc(s.hash, opts) \in rsaSupportedHashFuncs
  BY DEF Signs, PSSSigns, Digestible
<1>2. HashFunc(s.hash, opts) \in Hashes \ {NoHash}
  BY <1>1 DEF rsaSupportedHashFuncs, Hashes, NoHash
<1>3. SignatureOf(s, msg, opts).digest = Digest(msg, s.hash, opts)
  BY DEF SignatureOf, PSSSignature, Signature
<1> QED BY <1>2, <1>3 DEF Signs, PSSSigns, Digestible, Digest

-----------------------------------------------------------------------------
(* The invariant holds                                                     *)

\* A step of one goroutine's call leaves the others as they were.
LEMMA OneCall ==
    ASSUME Inv, NEW t \in Threads, NEW c, load' = load,
           call' = [call EXCEPT ![t] = c],
           pss' = pss,
           CallOK(c), HashSet(c)
    PROVE  Inv'
<1>1. call' = [u \in Threads |-> call'[u]] /\ call'[t] = c /\ \A u \in Threads \ {t} : call'[u] = call[u]
  BY DEF Inv
<1>2. \A u \in Threads : CallOK(call[u])' /\ HashSet(call[u])'
  <2> TAKE u \in Threads
  <2>1. CASE u = t
    BY <1>1, <2>1 DEF CallOK, HashSet, signer
  <2>2. CASE u # t
    BY <1>1, <2>2 DEF Inv, CallOK, HashSet, signer
  <2> QED BY <2>1, <2>2
<1> QED BY <1>1, <1>2 DEF Inv, signer

\* Idle, field by field.
LEMMA IdleCall ==
    /\ Idle = [kind |-> Idle.kind, todo |-> Idle.todo, busy |-> Idle.busy, msg |-> Idle.msg, opts |-> Idle.opts,
               sigs |-> Idle.sigs, raced |-> Idle.raced, failed |-> Idle.failed]
    /\ Idle.kind = "none" /\ Idle.todo = <<>> /\ Idle.sigs = {}
    /\ Idle.busy = FALSE /\ Idle.raced = FALSE /\ Idle.failed = FALSE
  BY DEF Idle

\* Initially no call is known, and the options are the caller's.
LEMMA InvInit == Init => Inv
<1> SUFFICES ASSUME Init PROVE Inv
  OBVIOUS
<1>1. <<>> \in Seq(Signers)
  OBVIOUS
<1>2. \A t \in Threads : call[t] = Idle
  BY DEF Init
<1>3. ASSUME NEW t \in Threads PROVE CallOK(call[t]) /\ HashSet(call[t])
  BY <1>1, <1>2, IdleCall DEF CallOK, HashSet
<1> QED BY <1>3, SigningAssumption DEF Init, Inv, signer

\* A new call has something to sign.
LEMMA StartStep ==
    ASSUME Inv, NEW t \in Threads, NEW kind \in {"message", "digest", "dsse", "multi"},
           NEW todo \in Seq(Signers), todo # <<>>, NEW msg, NEW opts,
           kind \in {"dsse", "multi"} => msg = PAE(msg.payload),
           Start(t, kind, todo, msg, opts)
    PROVE  Inv'
<1> DEFINE c == [Idle EXCEPT !.kind = kind, !.todo = todo, !.msg = msg, !.opts = opts]
<1>1. c = [kind |-> kind, todo |-> todo, busy |-> FALSE, msg |-> msg, opts |-> opts,
           sigs |-> {}, raced |-> FALSE, failed |-> FALSE]
  <2> DEFINE z == Idle
  <2>1. z = [kind |-> z.kind, todo |-> z.todo, busy |-> z.busy, msg |-> z.msg, opts |-> z.opts,
             sigs |-> z.sigs, raced |-> z.raced, failed |-> z.failed]
    BY IdleCall
  <2>2. /\ c = [z EXCEPT !.kind = kind, !.todo = todo, !.msg = msg, !.opts = opts]
        /\ z.busy = FALSE /\ z.sigs = {} /\ z.raced = FALSE /\ z.failed = FALSE
    BY IdleCall
  <2> HIDE DEF z, c
  <2>3. c = [kind |-> kind, todo |-> todo, busy |-> z.busy, msg |-> msg, opts |-> opts,
             sigs |-> z.sigs, raced |-> z.raced, failed |-> z.failed]
    BY <2>1, <2>2
  <2> QED BY <2>2, <2>3
<1>2. call' = [call EXCEPT ![t] = c] /\ load' = load /\ pss' = pss
  BY DEF Start
<1> HIDE DEF c
<1>3. CallOK(c) /\ HashSet(c)
  BY <1>1 DEF CallOK, HashSet
<1> QED BY <1>2, <1>3, OneCall

\* The four ways a call starts.
LEMMA NewCallStep ==
    ASSUME Inv, NEW t \in Threads,
           \/ \E i \in Signers, m \in Messages \cup {None}, o \in CallOptions : StartSignMessage(t, i, m, o)
           \/ \E i \in Signers, d \in Digests, h \in CallHashes : StartSign(t, i, d, h)
           \/ \E i \in Signers, m \in Messages, o \in CallOptions : StartEnvelope(t, i, m, o)
           \/ \E s \in Orders, m \in Messages : StartMultiEnvelope(t, s, m)
    PROVE  Inv'
<1>1. ASSUME NEW i \in Signers PROVE <<i>> \in Seq(Signers) /\ <<i>> # <<>>
  OBVIOUS
<1>2. ASSUME NEW i \in Signers, NEW m, NEW o, StartSignMessage(t, i, m, o) PROVE Inv'
  BY <1>1, <1>2, StartStep DEF StartSignMessage
<1>3. ASSUME NEW i \in Signers, NEW d, NEW h, StartSign(t, i, d, h) PROVE Inv'
  BY <1>1, <1>3, StartStep DEF StartSign
<1>4. ASSUME NEW i \in Signers, NEW m, NEW o, StartEnvelope(t, i, m, o) PROVE Inv'
  <2>1. PAE(m) = PAE(PAE(m).payload)
    BY DEF PAE
  <2> QED BY <1>1, <1>4, <2>1, StartStep DEF StartEnvelope
<1>5. ASSUME NEW s \in Orders, NEW m, StartMultiEnvelope(t, s, m) PROVE Inv'
  <2>1. PAE(m) = PAE(PAE(m).payload)
    BY DEF PAE
  <2>2. Cardinality(Signers) \in Nat /\ Cardinality(Signers) # 0
    BY SigningAssumption, FS_CardinalityType, FS_EmptySet
  <2>3. s \in Seq(Signers) /\ s # <<>>
    BY <2>2 DEF Orders
  <2> QED BY <1>5, <2>1, <2>3, StartStep DEF StartMultiEnvelope
<1> QED BY <1>2, <1>3, <1>4, <1>5

\* The call as it is when its current signer has failed, or has signed.
LEMMA EndOfSignature ==
    ASSUME Inv, NEW t \in Threads, ~Ended(t)
    PROVE  /\ Fails(t) = [kind |-> call[t].kind, todo |-> call[t].todo, busy |-> FALSE, msg |-> call[t].msg,
                          opts |-> call[t].opts, sigs |-> {}, raced |-> call[t].raced, failed |-> TRUE]
           /\ Succeeds(t) = [kind |-> call[t].kind, todo |-> Tail(call[t].todo), busy |-> FALSE,
                             msg |-> call[t].msg, opts |-> call[t].opts,
                             sigs |-> call[t].sigs \cup {[by |-> Head(call[t].todo), sig |-> Made(t)]},
                             raced |-> call[t].raced, failed |-> FALSE]
           /\ Head(call[t].todo) \in Signers /\ Tail(call[t].todo) \in Seq(Signers)
           /\ ~call[t].failed /\ call[t].todo # <<>> /\ call[t].kind # "none"
<1> DEFINE c == call[t]
<1>1. /\ c = [kind |-> c.kind, todo |-> c.todo, busy |-> c.busy, msg |-> c.msg, opts |-> c.opts,
              sigs |-> c.sigs, raced |-> c.raced, failed |-> c.failed]
      /\ c.todo \in Seq(Signers) /\ c.failed \in BOOLEAN
      /\ c.kind = "none" => c.todo = <<>>
  BY DEF Inv, CallOK
<1>2. ~c.failed /\ c.todo # <<>>
  BY DEF Ended
<1>3. c.failed = FALSE
  BY <1>1, <1>2
<1>4. Head(c.todo) \in Signers /\ Tail(c.todo) \in Seq(Signers)
  BY <1>1, <1>2
<1>5. Fails(t) = [c EXCEPT !.sigs = {}, !.busy = FALSE, !.failed = TRUE]
  BY DEF Fails
<1>6. Succeeds(t) = [c EXCEPT !.todo = Tail(c.todo), !.busy = FALSE,
                              !.sigs = c.sigs \cup {[by |-> Head(c.todo), sig |-> Made(t)]}]
  BY DEF Succeeds
<1> HIDE DEF c
<1>7. Fails(t) = [kind |-> c.kind, todo |-> c.todo, busy |-> FALSE, msg |-> c.msg,
                  opts |-> c.opts, sigs |-> {}, raced |-> c.raced, failed |-> TRUE]
  BY <1>1, <1>5
<1>8. Succeeds(t) = [kind |-> c.kind, todo |-> Tail(c.todo), busy |-> FALSE, msg |-> c.msg, opts |-> c.opts,
                     sigs |-> c.sigs \cup {[by |-> Head(c.todo), sig |-> Made(t)]},
                     raced |-> c.raced, failed |-> FALSE]
  BY <1>1, <1>3, <1>6
<1> QED BY <1>1, <1>2, <1>4, <1>7, <1>8 DEF c

\* A failure is accounted for when the signer refuses or the call was raced.
LEMMA FailsOK ==
    ASSUME Inv, NEW t \in Threads, ~Ended(t), MaySign(t) => call[t].raced
    PROVE  CallOK(Fails(t)) /\ HashSet(Fails(t))
<1> DEFINE c == call[t]
           f == Fails(t)
<1>1. /\ f = [kind |-> c.kind, todo |-> c.todo, busy |-> FALSE, msg |-> c.msg,
              opts |-> c.opts, sigs |-> {}, raced |-> c.raced, failed |-> TRUE]
      /\ c.todo # <<>>
  BY EndOfSignature
<1>2. CallOK(c)
  BY DEF Inv
<1>3. Signs(signer(Head(c.todo)), c.msg, c.opts) => c.raced
  BY DEF MaySign, Current
<1> HIDE DEF c, f
<1>4. CallOK(f) /\ HashSet(f)
  BY <1>1, <1>2, <1>3 DEF CallOK, HashSet
<1> QED BY <1>4 DEF f

\* A signature that is made is the signer's over the call's message.
LEMMA SucceedsOK ==
    ASSUME Inv, NEW t \in Threads, ~Ended(t), MaySign(t)
    PROVE  CallOK(Succeeds(t)) /\ HashSet(Succeeds(t))
<1> DEFINE c == call[t]
           f == Succeeds(t)
           new == [by |-> Head(c.todo), sig |-> Made(t)]
<1>1. /\ f = [kind |-> c.kind, todo |-> Tail(c.todo), busy |-> FALSE, msg |-> c.msg,
              opts |-> c.opts, sigs |-> c.sigs \cup {new}, raced |-> c.raced, failed |-> FALSE]
      /\ Head(c.todo) \in Signers /\ Tail(c.todo) \in Seq(Signers) /\ c.kind # "none"
  BY EndOfSignature
<1>2. CallOK(c)
  BY DEF Inv
<1>3. /\ new.by \in Signers
      /\ Signs(signer(new.by), c.msg, c.opts)
      /\ new.sig = SignatureOf(signer(new.by), c.msg, c.opts)
  BY <1>1 DEF MaySign, Current, Made
<1> HIDE DEF c, f, new
<1>4. CallOK(f) /\ HashSet(f)
  BY <1>1, <1>2, <1>3 DEF CallOK, HashSet
<1> QED BY <1>4 DEF f

LEMMA RefuseStep ==
    ASSUME Inv, NEW t \in Threads, Refuse(t)
    PROVE  Inv'
<1>1. CallOK(Fails(t)) /\ HashSet(Fails(t))
  BY FailsOK DEF Refuse
<1> QED BY <1>1, OneCall DEF Refuse

LEMMA SignAloneStep ==
    ASSUME Inv, NEW t \in Threads, SignAlone(t)
    PROVE  Inv'
<1>1. CallOK(Succeeds(t)) /\ HashSet(Succeeds(t))
  BY SucceedsOK DEF SignAlone
<1> QED BY <1>1, OneCall DEF SignAlone

\* rsa.SignPSS refuses only what was raced: otherwise the options hold the call's own
\* hash function, whose length its digest has.
LEMMA LeaveStep ==
    ASSUME Inv, NEW t \in Threads, LeaveSignPSS(t)
    PROVE  Inv'
<1> DEFINE s == Current(t)
           fits == pss[s.pss] = NoHash \/ Size[pss[s.pss]] = Size[Made(t).digest.hash]
<1>1. /\ call[t].busy /\ call[t].todo # <<>> /\ ~call[t].failed
      /\ s.pss # None /\ MaySign(t) /\ HashSet(call[t]) /\ Head(call[t].todo) \in Signers
  <2>1. CallOK(call[t]) /\ HashSet(call[t]) /\ call[t].busy
    BY DEF LeaveSignPSS, Inv
  <2> QED BY <2>1 DEF CallOK, Current, MaySign
<1>2. ~Ended(t)
  BY <1>1 DEF Ended
<1>3. s.scheme = "pss"
  BY <1>1, SignerLoaded DEF Inv, Current, signer
<1>4. ~fits => call[t].raced
  <2> SUFFICES ASSUME ~call[t].raced PROVE fits
    OBVIOUS
  <2>1. pss[s.pss] = HashFunc(s.hash, call[t].opts)
    BY <1>1 DEF HashSet, Current
  <2>2. Size[Made(t).digest.hash] = Size[HashFunc(s.hash, call[t].opts)]
    BY <1>1, <1>3, PSSFits DEF Made, MaySign
  <2> QED BY <2>1, <2>2
<1>5. /\ load' = load /\ pss' = pss
      /\ call' = [call EXCEPT ![t] = IF fits THEN Succeeds(t) ELSE Fails(t)]
  BY DEF LeaveSignPSS
<1> HIDE DEF fits
<1>6. CASE fits
  BY <1>1, <1>2, <1>5, <1>6, SucceedsOK, OneCall
<1>7. CASE ~fits
  BY <1>2, <1>4, <1>5, <1>7, FailsOK, OneCall
<1> QED BY <1>6, <1>7

\* Another call's hash function is overwritten only if that call is raced.
LEMMA EnterStep ==
    ASSUME Inv, NEW t \in Threads, EnterSignPSS(t)
    PROVE  Inv'
<1> DEFINE s == Current(t)
           hf == HashFunc(s.hash, call[t].opts)
           r(u) == call[u].raced \/ InSignPSS(u, s.pss)
<1>1. /\ ~Ended(t) /\ MaySign(t) /\ s.pss # None
      /\ load' = load /\ pss' = [pss EXCEPT ![s.pss] = hf]
      /\ call' = [u \in Threads |-> IF u = t THEN [call[t] EXCEPT !.busy = TRUE, !.raced = FALSE]
                                    ELSE [call[u] EXCEPT !.raced = r(u)]]
  BY DEF EnterSignPSS, SetHash
<1>2. /\ Head(call[t].todo) \in Signers /\ ~call[t].failed /\ call[t].todo # <<>>
      /\ s.scheme = "pss" /\ s.pss \in DOMAIN PSSOptions
  BY <1>1, EndOfSignature, SignerLoaded DEF Inv, Current, signer
<1>3. hf \in Hashes \cup {NoHash}
  BY <1>1, <1>2, PSSFits DEF MaySign
<1>4. pss' \in [DOMAIN PSSOptions -> Hashes \cup {NoHash}]
  BY <1>1, <1>3 DEF Inv
<1>5. pss'[s.pss] = hf /\ \A o \in DOMAIN PSSOptions \ {s.pss} : pss'[o] = pss[o]
  BY <1>1, <1>2 DEF Inv
<1>6. CallOK(call[t])' /\ HashSet(call[t])'
  <2> DEFINE c == call[t]
             f == [c EXCEPT !.busy = TRUE, !.raced = FALSE]
  <2>1. CallOK(c)
    BY DEF Inv
  <2>2. call'[t] = f /\ Signs(signer(Head(c.todo)), c.msg, c.opts) /\ signer(Head(c.todo)).pss # None
    BY <1>1 DEF MaySign, Current
  <2>3. pss'[signer(Head(c.todo)).pss] = HashFunc(signer(Head(c.todo)).hash, c.opts)
    BY <1>5 DEF Current
  <2> HIDE DEF c, f
  <2>4. f = [kind |-> c.kind, todo |-> c.todo, busy |-> TRUE, msg |-> c.msg, opts |-> c.opts,
             sigs |-> c.sigs, raced |-> FALSE, failed |-> c.failed]
    <3>1. c = [kind |-> c.kind, todo |-> c.todo, busy |-> c.busy, msg |-> c.msg, opts |-> c.opts,
               sigs |-> c.sigs, raced |-> c.raced, failed |-> c.failed]
      BY <2>1 DEF CallOK
    <3>2. f = [c EXCEPT !.busy = TRUE, !.raced = FALSE]
      BY DEF f
    <3> QED BY <3>1, <3>2
  <2>5. c.todo # <<>> /\ ~c.failed
    BY <1>2 DEF c
  <2>6. \A i : signer(i)' = signer(i)
    BY <1>1 DEF signer
  <2>7. CallOK(call[t])'
    BY <2>1, <2>2, <2>4, <2>5, <2>6 DEF CallOK
  <2>8. HashSet(call[t])'
    BY <2>2, <2>3, <2>4, <2>6 DEF HashSet
  <2> QED BY <2>7, <2>8
<1>7. ASSUME NEW u \in Threads \ {t} PROVE CallOK(call[u])' /\ HashSet(call[u])'
  <2> DEFINE c == call[u]
             f == [c EXCEPT !.raced = r(u)]
  <2>1. CallOK(c) /\ HashSet(c)
    BY DEF Inv
  <2>2. call'[u] = f /\ r(u) \in BOOLEAN
    <3>1. c.raced \in BOOLEAN /\ c.busy \in BOOLEAN
      BY <2>1 DEF CallOK
    <3> QED BY <1>1, <3>1 DEF InSignPSS
  <2>3. c.raced => r(u)
    OBVIOUS
  <2>4. c.busy /\ ~r(u) => signer(Head(c.todo)).pss # s.pss
    BY DEF InSignPSS, Current
  <2>5. c.busy => Head(c.todo) \in Signers /\ signer(Head(c.todo)).pss \in DOMAIN PSSOptions
    <3> SUFFICES ASSUME c.busy PROVE Head(c.todo) \in Signers /\ signer(Head(c.todo)).pss \in DOMAIN PSSOptions
      OBVIOUS
    <3>1. c.todo \in Seq(Signers) /\ c.todo # <<>> /\ signer(Head(c.todo)).pss # None
      BY <2>1 DEF CallOK
    <3>2. Head(c.todo) \in Signers
      BY <3>1
    <3> QED BY <3>1, <3>2, SignerLoaded DEF Inv, signer
  <2>6. \A i : signer(i)' = signer(i)
    BY <1>1 DEF signer
  <2>7. c.busy /\ ~r(u) => pss'[signer(Head(c.todo)).pss] = HashFunc(signer(Head(c.todo)).hash, c.opts)
    BY <1>5, <2>1, <2>3, <2>4, <2>5 DEF HashSet
  <2> DEFINE b == r(u)
  <2> HIDE DEF c, f, b
  <2>8. f = [kind |-> c.kind, todo |-> c.todo, busy |-> c.busy, msg |-> c.msg, opts |-> c.opts,
             sigs |-> c.sigs, raced |-> b, failed |-> c.failed]
    BY <2>1 DEF CallOK, f, b
  <2>9. CallOK(call[u])'
    BY <2>1, <2>2, <2>3, <2>6, <2>8 DEF CallOK, b
  <2>10. HashSet(call[u])'
    <3>1. /\ call'[u].busy = c.busy /\ call'[u].todo = c.todo /\ call'[u].opts = c.opts
          /\ call'[u].raced = b
      BY <2>2, <2>8
    <3>2. call'[u].busy /\ ~call'[u].raced => c.busy /\ ~r(u)
      BY <3>1 DEF b
    <3> QED BY <2>6, <2>7, <3>1, <3>2 DEF HashSet
  <2> QED BY <2>9, <2>10
<1>8. call' = [u \in Threads |-> call'[u]]
  BY <1>1
<1> QED BY <1>1, <1>4, <1>6, <1>7, <1>8 DEF Inv, signer

LEMMA InvStep == Inv /\ [Next]_vars => Inv'
<1> SUFFICES ASSUME Inv, [Next]_vars PROVE Inv'
  OBVIOUS
<1>1. ASSUME NEW t \in Threads, Sign(t) PROVE Inv'
  BY <1>1, RefuseStep, SignAloneStep, EnterStep, LeaveStep DEF Sign
<1>2. CASE Next
  BY <1>1, <1>2, NewCallStep DEF Next
<1>3. CASE UNCHANGED vars
  <2>1. load' = load /\ pss' = pss /\ call' = call
    BY <1>3 DEF vars
  <2> QED BY <2>1 DEF Inv, CallOK, HashSet, signer
<1> QED BY <1>2, <1>3

\* The invariant that the theorems below follow from.
THEOREM Invariance == Spec => []Inv
  BY InvInit, InvStep, PTL DEF Spec

-----------------------------------------------------------------------------
(* What follows                                                            *)

\* Type correctness; of a failed call no signature is left.
THEOREM TypeCorrect == Spec => []TypeOK
<1>1. Inv => TypeOK
  <2> SUFFICES ASSUME Inv PROVE TypeOK
    OBVIOUS
  <2>1. DOMAIN pss = DOMAIN PSSOptions /\ \A o \in DOMAIN pss : pss[o] \in Hashes \cup {NoHash}
    BY DEF Inv
  <2>2. ASSUME NEW t \in Threads
        PROVE  /\ DOMAIN call[t] = DOMAIN Idle
               /\ call[t].kind \in {"none", "message", "digest", "dsse", "multi"}
               /\ \A n \in DOMAIN call[t].todo : call[t].todo[n] \in Signers
               /\ call[t].busy => call[t].todo # <<>> /\ signer(Head(call[t].todo)).pss # None
               /\ \A s \in call[t].sigs : s.by \in Signers
               /\ call[t].failed => call[t].todo # <<>> /\ call[t].sigs = {} /\ ~call[t].busy
    <3>1. CallOK(call[t])
      BY DEF Inv
    <3>2. DOMAIN call[t] = {"kind", "todo", "busy", "msg", "opts", "sigs", "raced", "failed"}
      BY <3>1 DEF CallOK
    <3>3. DOMAIN Idle = {"kind", "todo", "busy", "msg", "opts", "sigs", "raced", "failed"}
      BY DEF Idle
    <3>4. \A n \in DOMAIN call[t].todo : call[t].todo[n] \in Signers
      BY <3>1 DEF CallOK
    <3> QED BY <3>1, <3>2, <3>3, <3>4 DEF CallOK
  <2> QED BY <2>1, <2>2 DEF TypeOK, Inv
<1> QED BY <1>1, Invariance, PTL

\* What SignMessage and Sign return verifies, whatever signs at the same time.
THEOREM RoundTripTheorem == Spec => []RoundTrip
<1>1. Inv => RoundTrip
  <2> SUFFICES ASSUME Inv, NEW t \in Threads, NEW s \in call[t].sigs
               PROVE  VerifySignature(verifiers[s.by], s.sig, call[t].msg, call[t].opts)
    BY DEF RoundTrip
  <2>1. /\ s.by \in Signers /\ Signs(signer(s.by), call[t].msg, call[t].opts)
        /\ s.sig = SignatureOf(signer(s.by), call[t].msg, call[t].opts)
    BY DEF Inv, CallOK
  <2>2. verifiers[s.by] = signer(s.by)
    BY <2>1, SignerLoaded DEF Inv, verifiers, signer
  <2> QED BY <2>1, <2>2, SignedVerifies
<1> QED BY <1>1, Invariance, PTL

\* A call that no other raced fails only when its signer refuses it.
THEOREM AloneSignsTheorem == Spec => []AloneSigns
<1>1. Inv => AloneSigns
  BY DEF Inv, CallOK, AloneSigns, MaySign, Current
<1> QED BY <1>1, Invariance, PTL

\* No SHA1 digest is signed, so that no signature passes the verifiers for SHA1.
THEOREM NoSHA1SignedTheorem == Spec => []NoSHA1Signed
<1>1. Inv => NoSHA1Signed
  <2> SUFFICES ASSUME Inv, NEW t \in Threads, NEW s \in call[t].sigs
               PROVE  /\ s.sig.digest.hash # "SHA1"
                      /\ signer(s.by).key.type # ED25519 =>
                           ~VerifySignature(LoadUnsafeVerifier(signer(s.by).key), s.sig, call[t].msg, NoOptions)
    BY DEF NoSHA1Signed
  <2> DEFINE key == signer(s.by).key
             v == LoadUnsafeVerifier(key)
  <2>1. s.by \in Signers /\ s.sig.digest.hash # "SHA1"
    BY SignedDigest DEF Inv, CallOK
  <2>2. key.type \in {RSA, ECDSA, ED25519}
    BY <2>1, SignerLoaded DEF Inv, signer
  <2>3. ASSUME key.type # ED25519, VerifySignature(v, s.sig, call[t].msg, NoOptions)
        PROVE  FALSE
    <3>1. v.hash = "SHA1" /\ v.scheme \in {"pkcs1v15", "ecdsa"}
      BY <2>2, <2>3 DEF LoadUnsafeVerifier, Loaded, RSA, ECDSA, ED25519
    <3> HIDE DEF v
    <3>2. s.sig.digest = Digest(call[t].msg, "SHA1", NoOptions)
      BY <2>3, <3>1 DEF VerifySignature, PKCS1v15Verifies, PKCS1v15Signature, ECDSAVerifies, ECDSASignature, Signature
    <3> QED BY <2>1, <3>2 DEF Digest, HashFunc, NoOptions
  <2> QED BY <2>1, <2>3
<1> QED BY <1>1, Invariance, PTL
-----------------------------------------------------------------------------
(* Envelopes                                                               *)

\* Without options, a signature verifies for its own key and message only.
LEMMA VerifiedBinds ==
    ASSUME NEW s, NEW msg, NEW v, NEW m, Signs(s, msg, NoOptions),
           VerifySignature(v, SignatureOf(s, msg, NoOptions), m, NoOptions)
    PROVE  v.key = s.key /\ m = msg
<1> DEFINE sig == SignatureOf(s, msg, NoOptions)
<1>1. s.scheme \in Schemes /\ v.scheme \in Schemes
  BY DEF Signs, VerifySignature, Schemes
<1>2. \A x, h : Digest(x, h, NoOptions).msg = x
  BY DEF Digest, NoOptions
<1>3. sig.key = s.key /\ sig.digest.msg = msg
  BY <1>1, <1>2 DEF Schemes, SignatureOf, Signature, ECDSASignature, PKCS1v15Signature,
     PSSSignature, ED25519Signature, ED25519phSignature
<1>4. sig = SignatureOf(v, m, NoOptions)
  BY <1>1 DEF Schemes, SignatureOf, VerifySignature, ECDSAVerifies, PKCS1v15Verifies,
     PSSVerifies, ED25519Verifies, ED25519phVerifies
<1>5. SignatureOf(v, m, NoOptions).key = v.key /\ SignatureOf(v, m, NoOptions).digest.msg = m
  BY <1>1, <1>2 DEF Schemes, SignatureOf, Signature, ECDSASignature, PKCS1v15Signature,
     PSSSignature, ED25519Signature, ED25519phSignature
<1> QED BY <1>3, <1>4, <1>5

\* The keys of the loaded signers are no more than the signers.
LEMMA KeysOfSigners ==
    ASSUME NEW S \in SUBSET {signer(i).key : i \in Signers}
    PROVE  IsFiniteSet(S) /\ Cardinality(S) \in Nat /\ Cardinality(S) <= Cardinality(Signers)
           /\ Cardinality(Signers) \in Nat
<1> DEFINE T == {signer(i).key : i \in Signers}
           f == [i \in Signers |-> signer(i).key]
<1>1. f \in Surjection(Signers, T)
  BY DEF Surjection
<1>2. IsFiniteSet(T) /\ Cardinality(T) <= Cardinality(Signers)
  BY <1>1, FS_Surjection, SigningAssumption
<1> HIDE DEF T, f
<1>3. S \in SUBSET T
  BY DEF T
<1>4. IsFiniteSet(S) /\ Cardinality(S) <= Cardinality(T)
  BY <1>2, <1>3, FS_Subset
<1>5. Cardinality(S) \in Nat /\ Cardinality(T) \in Nat /\ Cardinality(Signers) \in Nat
  BY <1>2, <1>4, FS_CardinalityType, SigningAssumption
<1> QED BY <1>2, <1>4, <1>5

\* The signatures of a call of the DSSE wrappers, made without options.
DSSE(t) == call[t].kind \in {"dsse", "multi"} /\ call[t].opts = NoOptions

\* Of the signatures of two calls, the verifiers accept those over the payload of
\* the first, each with the key of its signer.
LEMMA AcceptedAreSigners ==
    ASSUME Inv, NEW t \in Threads, NEW u \in Threads, DSSE(t), DSSE(u)
    PROVE  AcceptedKeys(verifiers, Envelope(call[t].msg.payload, EnvelopeSigs(t) \cup EnvelopeSigs(u)))
             = {signer(s.by).key :
                  s \in call[t].sigs \cup (IF call[u].msg = call[t].msg THEN call[u].sigs ELSE {})}
<1> DEFINE msg == call[t].msg
           env == Envelope(msg.payload, EnvelopeSigs(t) \cup EnvelopeSigs(u))
           signed == call[t].sigs \cup (IF call[u].msg = msg THEN call[u].sigs ELSE {})
           accepts(j, e) == /\ e.keyid \in {None, verifiers[j].key}
                            /\ VerifySignature(verifiers[j], e.sig, msg, NoOptions)
           e(w, s) == [keyid |-> IF call[w].kind = "multi" THEN signer(s.by).key ELSE None, sig |-> s.sig]
<1>1. DOMAIN verifiers = Signers /\ \A i \in Signers : verifiers[i] = signer(i)
  BY SignerLoaded DEF Inv, verifiers, signer
<1>2. msg = PAE(msg.payload)
  BY DEF Inv, CallOK, DSSE
<1>3. env.payload = msg.payload /\ env.sigs = EnvelopeSigs(t) \cup EnvelopeSigs(u)
  BY DEF Envelope
<1>4. \A w \in {t, u} : EnvelopeSigs(w) = {e(w, s) : s \in call[w].sigs}
  BY DEF EnvelopeSigs
<1>5. ASSUME NEW w \in {t, u}, NEW s \in call[w].sigs
      PROVE  /\ s.by \in Signers /\ Signs(signer(s.by), call[w].msg, NoOptions)
             /\ s.sig = SignatureOf(signer(s.by), call[w].msg, NoOptions)
  BY DEF Inv, CallOK, DSSE
<1> HIDE DEF env, signed, msg
<1>6. AcceptedKeys(verifiers, env)
        = {verifiers[i].key : i \in {j \in Signers : \E x \in env.sigs : accepts(j, x)}}
  BY <1>1, <1>2, <1>3 DEF AcceptedKeys
<1>7. ASSUME NEW k \in AcceptedKeys(verifiers, env)
      PROVE  k \in {signer(s.by).key : s \in signed}
  <2>1. PICK j \in Signers, x \in env.sigs : k = signer(j).key /\ accepts(j, x)
    BY <1>1, <1>6, <1>7
  <2>2. PICK w \in {t, u} : \E s \in call[w].sigs : x = e(w, s)
    BY <1>3, <1>4, <2>1
  <2>3. PICK s \in call[w].sigs : x = e(w, s)
    BY <2>2
  <2>4. VerifySignature(signer(j), SignatureOf(signer(s.by), call[w].msg, NoOptions), msg, NoOptions)
    <3>1. x.sig = s.sig
      BY <2>3
    <3> QED BY <1>1, <1>5, <2>1, <3>1
  <2>5. signer(j).key = signer(s.by).key /\ call[w].msg = msg
    BY <1>5, <2>4, VerifiedBinds
  <2>6. s \in signed
    BY <2>5 DEF signed, msg
  <2> QED BY <2>1, <2>5, <2>6
<1>8. ASSUME NEW s \in signed
      PROVE  signer(s.by).key \in AcceptedKeys(verifiers, env)
  <2>1. PICK w \in {t, u} : s \in call[w].sigs /\ call[w].msg = msg
    BY <1>8 DEF signed, msg
  <2>2. s.by \in Signers /\ VerifySignature(signer(s.by), s.sig, msg, NoOptions)
    BY <1>5, <2>1, SignedVerifies
  <2>3. e(w, s) \in env.sigs
    BY <1>3, <1>4, <2>1
  <2>4. accepts(s.by, e(w, s))
    BY <1>1, <2>2
  <2> QED BY <1>1, <1>6, <2>2, <2>3, <2>4
<1>9. AcceptedKeys(verifiers, env) = {signer(s.by).key : s \in signed}
  BY <1>7, <1>8
<1> QED BY <1>9 DEF env, signed, msg

\* However many verifiers hold a key, it counts once, and for no other payload.
THEOREM ThresholdTheorem == Spec => []ThresholdCountsKeys
<1>1. Inv => ThresholdCountsKeys
  <2> DEFINE env(t, u) == Envelope(call[t].msg.payload, EnvelopeSigs(t) \cup EnvelopeSigs(u))
             signed(t, u) == call[t].sigs \cup (IF call[u].msg = call[t].msg THEN call[u].sigs ELSE {})
             keys(t, u) == {signer(s.by).key : s \in signed(t, u)}
  <2> SUFFICES ASSUME Inv, NEW t \in Threads, NEW u \in Threads, DSSE(t), DSSE(u),
                      NEW n \in 0..Cardinality(Signers) + 1
               PROVE  MultiVerify(verifiers, n, env(t, u)) <=> n >= 1 /\ n <= Cardinality(keys(t, u))
    BY DEF ThresholdCountsKeys, Returned, DSSE
  <2>1. AcceptedKeys(verifiers, env(t, u)) = keys(t, u) /\ DOMAIN verifiers = Signers
    BY AcceptedAreSigners DEF verifiers
  <2>2. \A s \in call[t].sigs \cup call[u].sigs : s.by \in Signers
    BY DEF Inv, CallOK
  <2>3. keys(t, u) \in SUBSET {signer(i).key : i \in Signers}
    BY <2>2
  <2>4. keys(t, u) # {} => env(t, u).sigs # {}
    <3>1. keys(t, u) # {} => call[t].sigs # {} \/ call[u].sigs # {}
      OBVIOUS
    <3>2. \A w \in {t, u} : call[w].sigs # {} => EnvelopeSigs(w) # {}
      BY DEF EnvelopeSigs
    <3>3. env(t, u).sigs = EnvelopeSigs(t) \cup EnvelopeSigs(u)
      BY DEF Envelope
    <3> HIDE DEF keys, env
    <3> QED BY <3>1, <3>2, <3>3
  <2> HIDE DEF keys, env
  <2>5. IsFiniteSet(keys(t, u)) /\ Cardinality(keys(t, u)) \in Nat
        /\ Cardinality(keys(t, u)) <= Cardinality(Signers) /\ Cardinality(Signers) \in Nat
    BY <2>3, KeysOfSigners
  <2>6. Cardinality(keys(t, u)) >= 1 => keys(t, u) # {}
    BY FS_EmptySet
  <2>7. n \in Nat
    BY <2>5
  <2> QED BY <2>1, <2>4, <2>5, <2>6, <2>7 DEF MultiVerify
<1> QED BY <1>1, Invariance, PTL

\* The envelope of all signers passes a threshold of all their keys, and each of
\* their verifiers alone.
THEOREM EnvelopeTheorem == Spec => []EnvelopeRoundTrip
<1>1. Inv => EnvelopeRoundTrip
  <2> DEFINE env(t) == Envelope(call[t].msg.payload, EnvelopeSigs(t))
             keys(t) == {signer(s.by).key : s \in call[t].sigs}
  <2> SUFFICES ASSUME Inv, NEW t \in Threads, DSSE(t), Ended(t), ~call[t].failed
               PROVE  /\ MultiVerify(verifiers, Cardinality(keys(t)), env(t))
                      /\ \A s \in call[t].sigs : WrappedVerify(verifiers[s.by], env(t))
    BY DEF EnvelopeRoundTrip, Returned, DSSE
  <2>1. AcceptedKeys(verifiers, env(t)) = keys(t) /\ DOMAIN verifiers = Signers
    <3>1. EnvelopeSigs(t) \cup EnvelopeSigs(t) = EnvelopeSigs(t)
      OBVIOUS
    <3>2. call[t].sigs \cup (IF call[t].msg = call[t].msg THEN call[t].sigs ELSE {}) = call[t].sigs
      OBVIOUS
    <3> QED BY <3>1, <3>2, AcceptedAreSigners DEF verifiers
  <2>2. call[t].sigs # {} /\ \A s \in call[t].sigs : s.by \in Signers
    BY DEF Inv, CallOK, Ended, DSSE
  <2>3. keys(t) \in SUBSET {signer(i).key : i \in Signers} /\ keys(t) # {}
    BY <2>2
  <2>4. env(t).sigs # {} /\ env(t).sigs = EnvelopeSigs(t) /\ env(t).payload = call[t].msg.payload
    BY <2>2 DEF Envelope, EnvelopeSigs
  <2> HIDE DEF keys, env
  <2>5. IsFiniteSet(keys(t)) /\ Cardinality(keys(t)) \in Nat
        /\ Cardinality(keys(t)) <= Cardinality(Signers) /\ Cardinality(Signers) \in Nat
    BY <2>3, KeysOfSigners
  <2>6. Cardinality(keys(t)) # 0
    BY <2>3, <2>5, FS_EmptySet
  <2>7. MultiVerify(verifiers, Cardinality(keys(t)), env(t))
    BY <2>1, <2>4, <2>5, <2>6 DEF MultiVerify
  <2>8. ASSUME NEW s \in call[t].sigs PROVE WrappedVerify(verifiers[s.by], env(t))
    <3> DEFINE v == verifiers[s.by]
               vs == [i \in {1} |-> v]
               x == [keyid |-> IF call[t].kind = "multi" THEN signer(s.by).key ELSE None, sig |-> s.sig]
    <3>1. v = signer(s.by)
      BY <2>2, SignerLoaded DEF Inv, verifiers, signer
    <3>2. VerifySignature(v, s.sig, PAE(env(t).payload), NoOptions)
      BY <2>4, <3>1, SignedVerifies DEF Inv, CallOK, DSSE
    <3>3. x \in env(t).sigs /\ x.keyid \in {None, v.key} /\ x.sig = s.sig
      BY <2>4, <3>1 DEF EnvelopeSigs
    <3> HIDE DEF v, x
    <3>4. DOMAIN vs = {1} /\ vs[1] = v
      OBVIOUS
    <3> HIDE DEF vs
    <3>5. AcceptedKeys(vs, env(t)) = {v.key}
      BY <3>2, <3>3, <3>4 DEF AcceptedKeys
    <3>6. Cardinality({v.key}) = 1 /\ Cardinality(DOMAIN vs) = 1
      BY <3>4, FS_Singleton
    <3>7. MultiVerify(vs, 1, env(t))
      BY <2>4, <3>5, <3>6 DEF MultiVerify
    <3> QED BY <3>7 DEF WrappedVerify, vs, v
  <2> QED BY <2>7, <2>8
<1> QED BY <1>1, Invariance, PTL
-----------------------------------------------------------------------------
(* Default algorithms                                                      *)

\* A name and a flag belong to one row of the table.
LEMMA RowsDistinct ==
    ASSUME NEW a \in supportedAlgorithms, NEW b \in supportedAlgorithms
    PROVE  (a.known = b.known => a = b) /\ (a.flag = b.flag => a = b)
  BY SMTT(60) DEF supportedAlgorithms, Details

\* What the two functions that search the table find.
LEMMA RowFound ==
    ASSUME NEW a \in supportedAlgorithms
    PROVE  /\ a.known \in KnownAlgorithms
           /\ GetAlgorithmDetails(a.known) = a
           /\ ParseSignatureAlgorithmFlag(FormatSignatureAlgorithmFlag(a.known)) = a.known
<1>1. a.known \in KnownAlgorithms
  BY DEF KnownAlgorithms
<1>2. GetAlgorithmDetails(a.known) = a
  BY <1>1, RowsDistinct DEF GetAlgorithmDetails
<1>3. FormatSignatureAlgorithmFlag(a.known) = a.flag
  BY <1>1, <1>2 DEF FormatSignatureAlgorithmFlag
<1>4. ParseSignatureAlgorithmFlag(a.flag) = a.known
  BY RowsDistinct DEF ParseSignatureAlgorithmFlag
<1> QED BY <1>1, <1>2, <1>3, <1>4

\* The default algorithm of a key is a row of the table that is for that key.
LEMMA DefaultRow ==
    ASSUME NEW key, NEW opts, GetDefaultPublicKeyDetails(key, opts) # Error
    PROVE  \E a \in supportedAlgorithms :
              /\ GetDefaultPublicKeyDetails(key, opts) = a.known
              /\ checkKey(a, key)
              /\ key.type # ED25519 => a.hash # NoHash
              /\ key.type = ED25519 => a.hash = IF opts.ph THEN "SHA512" ELSE NoHash
<1> DEFINE known == GetDefaultPublicKeyDetails(key, opts)
<1>1. CASE key.type = RSA /\ opts.pss = None /\ key.param \in DOMAIN DefaultOfPKCS1v15
  <2> DEFINE Row(n, flag) == Details(DefaultOfPKCS1v15[n], RSA, "SHA256", n, flag)
  <2>1. known = DefaultOfPKCS1v15[key.param]
    BY <1>1 DEF GetDefaultPublicKeyDetails, RSA, ECDSA, ED25519
  <2>2. key.param \in {2048, 3072, 4096}
    BY <1>1 DEF DefaultOfPKCS1v15
  <2>3. /\ Row(2048, "rsa-sign-pkcs1-2048-sha256") \in supportedAlgorithms
        /\ Row(3072, "rsa-sign-pkcs1-3072-sha256") \in supportedAlgorithms
        /\ Row(4096, "rsa-sign-pkcs1-4096-sha256") \in supportedAlgorithms
    BY SMTT(60) DEF DefaultOfPKCS1v15, supportedAlgorithms
  <2>4. PICK flag : Row(key.param, flag) \in supportedAlgorithms
    BY <2>2, <2>3
  <2> QED BY <1>1, <2>1, <2>4 DEF Details, checkKey, NoHash, RSA, ED25519
<1>2. CASE key.type = RSA /\ opts.pss # None /\ key.param \in DOMAIN DefaultOfPSS
  <2> DEFINE Row(n, flag) == Details(DefaultOfPSS[n], RSA, "SHA256", n, flag)
  <2>1. known = DefaultOfPSS[key.param]
    BY <1>2 DEF GetDefaultPublicKeyDetails, RSA, ECDSA, ED25519
  <2>2. key.param \in {2048, 3072, 4096}
    BY <1>2 DEF DefaultOfPSS
  <2>3. /\ Row(2048, "rsa-sign-pss-2048-sha256") \in supportedAlgorithms
        /\ Row(3072, "rsa-sign-pss-3072-sha256") \in supportedAlgorithms
        /\ Row(4096, "rsa-sign-pss-4092-sha256") \in supportedAlgorithms
    BY SMTT(60) DEF DefaultOfPSS, supportedAlgorithms
  <2>4. PICK flag : Row(key.param, flag) \in supportedAlgorithms
    BY <2>2, <2>3
  <2> QED BY <1>2, <2>1, <2>4 DEF Details, checkKey, NoHash, RSA, ED25519
<1>3. CASE key.type = ECDSA /\ key.param \in DOMAIN DefaultOfCurve
  <2> DEFINE Row(c, hash, flag) == Details(DefaultOfCurve[c], ECDSA, hash, c, flag)
  <2>1. known = DefaultOfCurve[key.param]
    BY <1>3 DEF GetDefaultPublicKeyDetails, RSA, ECDSA, ED25519
  <2>2. key.param \in {"P256", "P384", "P521"}
    BY <1>3 DEF DefaultOfCurve
  <2>3. /\ Row("P256", "SHA256", "ecdsa-sha2-256-nistp256") \in supportedAlgorithms
        /\ Row("P384", "SHA384", "ecdsa-sha2-384-nistp384") \in supportedAlgorithms
        /\ Row("P521", "SHA512", "ecdsa-sha2-512-nistp521") \in supportedAlgorithms
    BY SMTT(60) DEF DefaultOfCurve, supportedAlgorithms
  <2>4. PICK hash \in {"SHA256", "SHA384", "SHA512"} : \E flag : Row(key.param, hash, flag) \in supportedAlgorithms
    BY <2>2, <2>3
  <2> QED BY <1>3, <2>1, <2>4 DEF Details, checkKey, NoHash, ECDSA, ED25519
<1>4. CASE key.type = ED25519
  <2>1. known = IF opts.ph THEN "ED25519_PH" ELSE "ED25519"
    BY <1>4 DEF GetDefaultPublicKeyDetails, RSA, ECDSA, ED25519
  <2>2. \E a \in supportedAlgorithms : /\ a.known = known /\ a.type = ED25519
                                       /\ a.hash = IF opts.ph THEN "SHA512" ELSE NoHash
    BY <2>1, SMTT(60) DEF supportedAlgorithms, Details
  <2> QED BY <1>4, <2>2 DEF checkKey
<1> QED BY <1>1, <1>2, <1>3, <1>4 DEF GetDefaultPublicKeyDetails

\* Without options a signer loaded with the default algorithm's hash function
\* makes its digest with that function.
LEMMA DefaultDigest ==
    ASSUME NEW key, NEW opts, NEW a \in supportedAlgorithms, NEW msg, None \notin Hashes,
           "hash" \in DOMAIN opts,
           checkKey(a, key),
           key.type # ED25519 => a.hash # NoHash,
           key.type = ED25519 => a.hash = IF opts.ph THEN "SHA512" ELSE NoHash,
           LoadSignerFromAlgorithmDetails(key, a, opts) # Error
    PROVE  SignatureOf(LoadSignerFromAlgorithmDetails(key, a, opts), msg, NoOptions).digest.hash = a.hash
<1> DEFINE o == [opts EXCEPT !.hash = a.hash]
           s == LoadSignerWithOpts(key, o)
<1>1. s = LoadSignerFromAlgorithmDetails(key, a, opts) /\ s # Error
  BY DEF LoadSignerFromAlgorithmDetails, GetOptsFromAlgorithmDetails
<1>2. a.hash \in {"SHA256", "SHA384", "SHA512", NoHash} /\ a.type \in {RSA, ECDSA, ED25519}
  BY SMTT(60) DEF supportedAlgorithms, Details
<1>3. key.type = a.type /\ o.hash = a.hash /\ o.ph = opts.ph
  BY DEF checkKey
<1> HIDE DEF o
<1>4. \A h : Digest(msg, h, NoOptions).hash = h
  BY DEF Digest, NoOptions, HashFunc
<1>5. CASE key.type # ED25519
  <2>1. LoadHash(o) = a.hash
    BY <1>2, <1>3, <1>5 DEF LoadHash, Hashes
  <2>2. s.hash = a.hash /\ s.scheme \in {"pss", "pkcs1v15", "ecdsa"}
    BY <1>1, <1>2, <1>3, <1>5, <2>1 DEF LoadSignerWithOpts, LoadRSAPSSSigner, LoadRSAPKCS1v15Signer,
       LoadECDSASigner, Loaded, RSA, ECDSA, ED25519
  <2> HIDE DEF s
  <2> QED BY <1>1, <1>4, <2>2 DEF SignatureOf, PSSSignature, PKCS1v15Signature, ECDSASignature, Signature
<1>6. CASE key.type = ED25519
  <2>1. /\ opts.ph => s.scheme = "ed25519ph" /\ a.hash = "SHA512"
        /\ ~opts.ph => s.scheme = "ed25519" /\ a.hash = NoHash
    BY <1>1, <1>3, <1>6 DEF LoadSignerWithOpts, LoadED25519phSigner, LoadED25519Signer, Loaded, RSA, ECDSA, ED25519
  <2> HIDE DEF s
  <2> QED BY <1>1, <1>4, <2>1 DEF SignatureOf, ED25519phSignature, ED25519Signature, Signature
<1> QED BY <1>5, <1>6

\* What a signer loaded by default signs, a registry that permits the algorithm
\* named by the flag of the key's default permits.
THEOREM DefaultPermittedTheorem == Spec => []DefaultPermitted
<1>1. Inv => DefaultPermitted
  <2> SUFFICES ASSUME Inv, NEW t \in Threads, NEW s \in call[t].sigs,
                      load[s.by].by = "default", call[t].opts = NoOptions
               PROVE  IsAlgorithmPermitted(
                        NewAlgorithmRegistryConfig({ParseSignatureAlgorithmFlag(FormatSignatureAlgorithmFlag(
                            GetDefaultPublicKeyDetails(load[s.by].key, load[s.by].opts)))}),
                        load[s.by].key, s.sig.digest.hash)
    BY DEF DefaultPermitted
  <2> DEFINE l == load[s.by]
             known == GetDefaultPublicKeyDetails(l.key, l.opts)
  <2>1. /\ s.by \in Signers /\ s.sig = SignatureOf(SignerOf(l), call[t].msg, NoOptions)
        /\ SignerOf(l) # Error
    BY DEF Inv, CallOK, signer
  <2>2. "hash" \in DOMAIN l.opts /\ None \notin Hashes
    BY <2>1, SigningAssumption DEF Inv, LoadOptions
  <2>3. SignerOf(l) = LoadDefaultSigner(l.key, l.opts)
    BY DEF SignerOf
  <2> HIDE DEF l
  <2>4. known # Error
    BY <2>1, <2>3 DEF LoadDefaultSigner, GetDefaultAlgorithmDetails
  <2>5. PICK a \in supportedAlgorithms :
              /\ known = a.known
              /\ checkKey(a, l.key)
              /\ l.key.type # ED25519 => a.hash # NoHash
              /\ l.key.type = ED25519 => a.hash = IF l.opts.ph THEN "SHA512" ELSE NoHash
    BY <2>4, DefaultRow
  <2>6. /\ known \in KnownAlgorithms /\ GetAlgorithmDetails(known) = a
        /\ ParseSignatureAlgorithmFlag(FormatSignatureAlgorithmFlag(known)) = known
    BY <2>5, RowFound
  <2>7. SignerOf(l) = LoadSignerFromAlgorithmDetails(l.key, a, l.opts)
    BY <2>1, <2>3, <2>4, <2>6 DEF LoadDefaultSigner, GetDefaultAlgorithmDetails
  <2>8. s.sig.digest.hash = a.hash
    BY <2>1, <2>2, <2>5, <2>7, DefaultDigest
  <2> HIDE DEF known
  <2>9. NewAlgorithmRegistryConfig({known}) = {a}
    BY <2>6 DEF NewAlgorithmRegistryConfig
  <2> QED BY <2>5, <2>6, <2>8, <2>9 DEF IsAlgorithmPermitted, checkHash, known, l
<1> QED BY <1>1, Invariance, PTL
=============================================================================
