------------------------- MODULE KMSSignatureProofs -------------------------
(***************************************************************************)
(* What the clients of KMSClients sign: type correctness, and that every   *)
(* signature is one key's, of the message or the digest that was given,    *)
(* however the key is rotated during the call.                             *)
(***************************************************************************)
EXTENDS KMSProofs

-----------------------------------------------------------------------------
(* The inductive invariant                                                 *)

Ops == {"sign", "verify", "public", "create"}
Steps == {"done"} \cup Lookups \cup Requests

\* The digest that the lookup of key k makes for the options o.
DigestFor(k, o) == Digest(Message, Alg(k).hash, o)

\* s is the signature of key k for the options o, by the provider's way to sign.
MadeBy(k, s, o) ==
    /\ Of("awskms") => s = RemoteSignature(k, Alg(k), DigestFor(k, o))
    /\ Of("azurekms") => s = AzureSignature(k, DigestFor(k, o))
    /\ Of("awskms") \/ Of("azurekms") => Size[DigestFor(k, o).hash] = Size[Alg(k).hash]
    /\ Of("hashivault") => s = VaultSignature(k, "pkcs1v15", o) /\ (SignVersion(o) # 0 => k = SignVersion(o))
    /\ Of("localkms") => s = LocalSignature(k, PackMessageOptions(o))
    /\ ref.scheme \in {"awskms", "azurekms", "hashivault", "localkms"}

\* A call when the service has made n keys: a digest was made for one of them, a
\* signature by one of them.
CallType(c, n) ==
    /\ Shape(c)
    /\ c.op \in Ops \cup {"none"} /\ c.step \in Steps
    /\ c.op = "none" => c.step = "done"
    /\ c.load # None => c.load.pub \in 1..n /\ c.load.meta \in 1..n \cup {None} /\ c.step \in Lookups
    /\ c.entry # None => c.entry.pub \in 1..n
    /\ c.made \in 1..n \cup {None}
    /\ c.result # None <=> c.step = "done" /\ c.op # "none"
    /\ c.op \in {"public", "create"} => c.result \in 1..n \cup {None, Error}
    /\ c.op = "verify" => c.result \in {None, Error, Accepted, Rejected}
    /\ c.op = "sign" /\ c.result # Error => c.opts \in CallOptions[ref.scheme]
    /\ c.op = "sign" /\ c.step \in {"key", "request"} /\ (Of("awskms") \/ Of("azurekms")) =>
          \E k \in 1..n : c.digest = DigestFor(k, c.opts)
    /\ c.op = "sign" /\ c.result \notin {None, Error} => \E k \in 1..n : MadeBy(k, c.result.value, c.opts)

\* Vault's minima are versions, and what signs also verifies.
MinimumOK == oldest \in [sign : Keys, verify : Keys] /\ oldest.verify <= oldest.sign

CacheTyped == \A c \in Clients : cache[c] # None => cache[c].pub \in 1..keys /\ cache[c].meta \in 1..keys

SInv ==
    /\ Get(ref) # Error /\ client \in Sharings
    /\ rotated \in 0..keys
    /\ CacheTyped
    /\ \A t \in Threads : CallType(call[t], keys)

-----------------------------------------------------------------------------
(* Digests and signatures                                                  *)

LEMMA SizeInjective == \A g, h \in Hashes : Size[g] = Size[h] => g = h
BY DEF Hashes, Size

\* The constants of the reference in use.
LEMMA RefFacts ==
    ASSUME Inv, SInv
    PROVE  /\ \A k \in Keys :
                /\ Alg(k).scheme \in RemoteSchemes /\ Alg(k).hash \in Hashes
                /\ Of("localkms") => Alg(k).scheme = "pkcs1v15"
                /\ Of("hashivault") => Alg(k).scheme # "pss"
           /\ \A o \in CallOptions[ref.scheme] :
                /\ o.digest # None => o.digest.hash \in Hashes
                /\ o.hash \in Hashes \cup {NoHash, None} /\ o.version \in Nat \cup {None}
           /\ keys \in Nat /\ 1..keys \subseteq Keys
           /\ HashFunction \in Hashes
<1>1. ref \in References /\ Get(ref) # Error
  BY DEF Inv, SInv
<1>2. keys \in Nat /\ keys <= MaxKey /\ MaxKey \in Nat
  BY KMSAssumption DEF Inv, ServiceOK
<1>3. 1..keys \subseteq Keys
  BY <1>2 DEF Keys
<1>4. HashFunction \in Hashes
  BY KMSAssumption
<1> QED BY <1>1, <1>2, <1>3, <1>4, ServicesAssumption DEF Alg, Of

\* A digest made for one key, of the length that another key signs, is what would have been
\* made for that one.
LEMMA SameDigest ==
    ASSUME NEW j, NEW k, Alg(j).hash \in Hashes, Alg(k).hash \in Hashes, NEW o,
           Size[DigestFor(j, o).hash] = Size[Alg(k).hash]
    PROVE  DigestFor(j, o) = DigestFor(k, o)
<1>1. CASE o.digest = None /\ o.hash = None
  <2>1. DigestFor(j, o) = [hash |-> Alg(j).hash, msg |-> Message]
        /\ DigestFor(k, o) = [hash |-> Alg(k).hash, msg |-> Message]
    BY <1>1 DEF DigestFor, Digest, HashFunc
  <2>2. Size[Alg(j).hash] = Size[Alg(k).hash]
    BY <2>1
  <2> QED BY <2>1, <2>2, SizeInjective
<1>2. CASE ~(o.digest = None /\ o.hash = None)
  BY <1>2 DEF DigestFor, Digest, HashFunc
<1> QED BY <1>1, <1>2

\* The fields of a signature.
LEMMA RemoteFields ==
    ASSUME NEW k, NEW a, NEW d
    PROVE  /\ RemoteSignature(k, a, d) = [scheme |-> a.scheme, key |-> k,
                                          hash |-> IF a.scheme = "ecdsa" THEN None ELSE a.hash, digest |-> d]
BY DEF RemoteSignature, Signature

LEMMA AzureFields ==
    ASSUME NEW k, NEW d
    PROVE  AzureSignature(k, d) = [scheme |-> IF Alg(k).scheme = "ecdsa" THEN "ecdsa" ELSE "asn1", key |-> k,
                                   hash |-> IF Alg(k).scheme = "ecdsa" THEN None ELSE Alg(k).hash, digest |-> d]
<1> DEFINE s == RemoteSignature(k, Alg(k), d)
<1>1. s = [scheme |-> Alg(k).scheme, key |-> k,
           hash |-> IF Alg(k).scheme = "ecdsa" THEN None ELSE Alg(k).hash, digest |-> d]
  BY RemoteFields
<1>2. AzureSignature(k, d) = IF s.scheme = "ecdsa" THEN s ELSE [s EXCEPT !.scheme = "asn1"]
  BY DEF AzureSignature
<1> HIDE DEF s
<1>3. CASE Alg(k).scheme = "ecdsa"
  BY <1>1, <1>2, <1>3
<1>4. CASE Alg(k).scheme # "ecdsa"
  BY <1>1, <1>2, <1>4
<1> QED BY <1>3, <1>4

\* The options of localkms stand for those of the call.
LEMMA LocalFields ==
    ASSUME Inv, SInv, NEW k, NEW o \in CallOptions[ref.scheme]
    PROVE  LocalSignature(k, PackMessageOptions(o)) =
             [scheme |-> "pkcs1v15", key |-> k, hash |-> HashFunc(HashFunction, o),
              digest |-> Digest(Message, HashFunction, o)]
<1> DEFINE p == PackMessageOptions(o)
<1>1. p.digest = (IF o.digest = None THEN Empty ELSE o.digest) /\ p.hash = o.hash
  BY DEF PackMessageOptions
<1>2. o.digest # None => o.digest # Empty
  BY RefFacts, SymbolsAssumption DEF Empty
<1>3. HashFunc(HashFunction, p) = HashFunc(HashFunction, o)
  BY <1>1 DEF HashFunc
<1>4. LocalDigest(p) = Digest(Message, HashFunction, o)
  BY <1>1, <1>2, <1>3 DEF LocalDigest, Digest
<1> HIDE DEF p
<1>5. LocalSignature(k, p) = RemoteSignature(k, [scheme |-> "pkcs1v15", hash |-> HashFunc(HashFunction, p)], LocalDigest(p))
  BY DEF LocalSignature
<1>6. LocalSignature(k, p) = [scheme |-> "pkcs1v15", key |-> k, hash |-> HashFunc(HashFunction, o),
                              digest |-> Digest(Message, HashFunction, o)]
  BY <1>3, <1>4, <1>5, RemoteFields
<1> QED BY <1>6 DEF p

\* Vault signs with the scheme of the key: an RSA key's is the algorithm asked for.
LEMMA VaultFields ==
    ASSUME Inv, SInv, Of("hashivault"), NEW k \in Keys, NEW o
    PROVE  VaultSignature(k, "pkcs1v15", o) =
             [scheme |-> Alg(k).scheme, key |-> k,
              hash |-> IF Alg(k).scheme = "ecdsa" THEN None ELSE HashFunc(HashFunction, o),
              digest |-> Digest(Message, HashFunction, o)]
<1>1. (IF Alg(k).scheme = "ecdsa" THEN "ecdsa" ELSE "pkcs1v15") = Alg(k).scheme
  BY RefFacts DEF RemoteSchemes
<1>2. VaultSignature(k, "pkcs1v15", o) =
        RemoteSignature(k, [scheme |-> Alg(k).scheme, hash |-> HashFunc(HashFunction, o)],
                        Digest(Message, HashFunction, o))
  BY <1>1 DEF VaultSignature, VaultDigest
<1> QED BY <1>2, RemoteFields

\* A signature is made by a key, over a digest given or computed: it is not None.
LEMMA MadeFields ==
    ASSUME Inv, SInv, NEW k \in Keys, NEW o \in CallOptions[ref.scheme], NEW s, MadeBy(k, s, o)
    PROVE  /\ s.key = k
           /\ \A b \in BOOLEAN : Sig(s, b) # None
<1> DEFINE ds == {x.digest : x \in CallOptions[ref.scheme]} \cup [hash : Hashes \cup {NoHash}, msg : {Message}]
           hs == Hashes \cup {NoHash, None}
<1>1. ASSUME NEW h \in Hashes
      PROVE  HashFunc(h, o) \in Hashes \cup {NoHash} /\ Digest(Message, h, o) \in ds
  <2>1. HashFunc(h, o) \in Hashes \cup {NoHash}
    BY RefFacts DEF HashFunc
  <2>2. CASE o.digest = None
    BY <2>1, <2>2 DEF Digest
  <2>3. CASE o.digest # None
    BY <2>1, <2>3 DEF Digest
  <2> QED BY <2>1, <2>2, <2>3
<1>2. Alg(k).scheme \in RemoteSchemes /\ Alg(k).hash \in Hashes /\ HashFunction \in Hashes
  BY RefFacts
<1>3. DigestFor(k, o) \in ds /\ Digest(Message, HashFunction, o) \in ds /\ HashFunc(HashFunction, o) \in hs
      /\ Alg(k).hash \in hs /\ None \in hs
  BY <1>1, <1>2 DEF DigestFor
<1> HIDE DEF ds, hs
<1>4. ASSUME NEW scheme \in RemoteSchemes \cup {"asn1"}, NEW h \in hs, NEW d \in ds,
             s = [scheme |-> scheme, key |-> k, hash |-> h, digest |-> d]
      PROVE  s.key = k /\ \A b \in BOOLEAN : Sig(s, b) # None
  <2>1. s.key = k
    BY <1>4
  <2>2. ref \in References /\ Get(ref) # Error
    BY DEF Inv, SInv
  <2>3. None \notin [value : [scheme : RemoteSchemes \cup {"asn1"}, key : Keys, hash : hs, digest : {d}], short : BOOLEAN]
    BY <2>2, SymbolsAssumption DEF ds, hs
  <2>4. s \in [scheme : RemoteSchemes \cup {"asn1"}, key : Keys, hash : hs, digest : {d}]
    BY <1>4
  <2>5. \A b \in BOOLEAN : Sig(s, b) \in
            [value : [scheme : RemoteSchemes \cup {"asn1"}, key : Keys, hash : hs, digest : {d}], short : BOOLEAN]
    BY <2>4 DEF Sig
  <2> QED BY <2>1, <2>3, <2>5
<1>5. CASE Of("awskms")
  <2>1. s = [scheme |-> Alg(k).scheme, key |-> k,
             hash |-> IF Alg(k).scheme = "ecdsa" THEN None ELSE Alg(k).hash, digest |-> DigestFor(k, o)]
    BY <1>5, RemoteFields DEF MadeBy
  <2> QED BY <2>1, <1>2, <1>3, <1>4
<1>6. CASE Of("azurekms")
  <2>1. s = [scheme |-> IF Alg(k).scheme = "ecdsa" THEN "ecdsa" ELSE "asn1", key |-> k,
             hash |-> IF Alg(k).scheme = "ecdsa" THEN None ELSE Alg(k).hash, digest |-> DigestFor(k, o)]
    BY <1>6, AzureFields DEF MadeBy
  <2>2. (IF Alg(k).scheme = "ecdsa" THEN "ecdsa" ELSE "asn1") \in RemoteSchemes \cup {"asn1"}
    BY DEF RemoteSchemes
  <2> QED BY <2>1, <2>2, <1>2, <1>3, <1>4
<1>7. CASE Of("hashivault")
  <2>1. s = [scheme |-> Alg(k).scheme, key |-> k,
             hash |-> IF Alg(k).scheme = "ecdsa" THEN None ELSE HashFunc(HashFunction, o),
             digest |-> Digest(Message, HashFunction, o)]
    BY <1>7, VaultFields DEF MadeBy
  <2> QED BY <2>1, <1>2, <1>3, <1>4
<1>8. CASE Of("localkms")
  <2>1. s = [scheme |-> "pkcs1v15", key |-> k, hash |-> HashFunc(HashFunction, o),
             digest |-> Digest(Message, HashFunction, o)]
    BY <1>8, LocalFields DEF MadeBy
  <2>2. "pkcs1v15" \in RemoteSchemes \cup {"asn1"}
    BY DEF RemoteSchemes
  <2> QED BY <2>1, <2>2, <1>3, <1>4
<1> QED BY <1>5, <1>6, <1>7, <1>8 DEF MadeBy, Of

-----------------------------------------------------------------------------
(* What calls become                                                       *)

\* A call that has returned knows nothing but its answer, and its options if it signed.
LEMMA DoneKnows ==
    ASSUME NEW c, NEW r
    PROVE  /\ Done(c, r).entry = None /\ Done(c, r).made = None
           /\ c.op = "sign" /\ r # Error => Done(c, r).opts = c.opts
<1> DEFINE i == Idle
           o == IF c.op = "sign" /\ r # Error THEN c.opts ELSE i.opts
           d == Done(c, r)
<1>1. Shape(i) /\ i.entry = None /\ i.made = None
  BY DEF Idle, Shape
<1>2. d = [i EXCEPT !.op = c.op, !.result = r, !.opts = o]
  BY DEF Done
<1> HIDE DEF i, d
<1>3. d = [op |-> c.op, step |-> i.step, opts |-> o, sig |-> i.sig, load |-> i.load,
           digest |-> i.digest, entry |-> i.entry, made |-> i.made, result |-> r]
  BY <1>1, <1>2 DEF Shape
<1>4. d.entry = None /\ d.made = None /\ d.opts = o
  BY <1>1, <1>3
<1> QED BY <1>4 DEF d

LEMMA DoneType ==
    ASSUME NEW c, NEW r, NEW n, c.op \in Ops, r # None,
           c.op \in {"public", "create"} => r \in (1..n) \cup {Error},
           c.op = "verify" => r \in {Error, Accepted, Rejected},
           c.op = "sign" /\ r # Error =>
                c.opts \in CallOptions[ref.scheme] /\ \E k \in 1..n : MadeBy(k, r.value, c.opts)
    PROVE  CallType(Done(c, r), n)
<1>1. /\ Shape(Done(c, r)) /\ Done(c, r).op = c.op /\ Done(c, r).step = "done"
      /\ Done(c, r).load = None /\ Done(c, r).result = r
  BY DoneFields
<1>2. /\ Done(c, r).entry = None /\ Done(c, r).made = None
      /\ c.op = "sign" /\ r # Error => Done(c, r).opts = c.opts
  BY DoneKnows
<1>3. "done" \in Steps /\ "none" \notin Ops
  BY DEF Steps, Ops
<1> DEFINE d == Done(c, r)
<1> HIDE DEF d
<1>4. CallType(d, n)
  BY <1>1, <1>2, <1>3 DEF CallType, d
<1> QED BY <1>4 DEF d

\* An error is an answer to every call.
LEMMA ErrorType ==
    ASSUME NEW c, NEW n, c.op \in Ops
    PROVE  CallType(Done(c, Error), n)
<1>1. Error # None
  BY KMSAssumption
<1> QED BY <1>1, DoneType

\* A call that signed.
LEMMA SignedType ==
    ASSUME Inv, SInv, NEW c, c.op = "sign", c.opts \in CallOptions[ref.scheme],
           NEW k \in 1..keys, NEW s, MadeBy(k, s, c.opts), NEW b \in BOOLEAN
    PROVE  CallType(Done(c, Sig(s, b)), keys)
<1>1. k \in Keys
  BY RefFacts
<1>2. Sig(s, b) # None
  BY <1>1, MadeFields
<1>3. Sig(s, b).value = s
  BY DEF Sig
<1> DEFINE r == Sig(s, b)
<1> HIDE DEF r
<1>4. CallType(Done(c, r), keys)
  BY <1>2, <1>3, DoneType DEF r, Ops
<1> QED BY <1>4 DEF r

LEMMA VerdictType ==
    ASSUME NEW c, NEW n, c.op = "verify", NEW accepts \in BOOLEAN
    PROVE  CallType(Done(c, Verdict(accepts)), n)
<1>1. Verdict(accepts) \in {Accepted, Rejected}
  BY DEF Verdict
<1>2. Verdict(accepts) # None
  BY <1>1, KMSAssumption
<1> QED BY <1>1, <1>2, DoneType DEF Ops

\* A new call.
LEMMA NewType ==
    ASSUME NEW op \in Ops, NEW s \in Steps \ {"done"}, NEW opts, NEW sig, NEW n,
           op = "sign" => opts \in CallOptions[ref.scheme],
           op = "sign" /\ (Of("awskms") \/ Of("azurekms")) => s \notin {"key", "request"}
    PROVE  CallType(NewCall(op, s, opts, sig), n)
<1> DEFINE i == Idle
           d == NewCall(op, s, opts, sig)
<1>1. Shape(i) /\ i.load = None /\ i.result = None /\ i.entry = None /\ i.made = None
  BY DEF Idle, Shape
<1>2. d = [i EXCEPT !.op = op, !.step = s, !.opts = opts, !.sig = sig]
  BY DEF NewCall
<1> HIDE DEF i, d
<1>3. d = [op |-> op, step |-> s, opts |-> opts, sig |-> sig, load |-> i.load,
           digest |-> i.digest, entry |-> i.entry, made |-> i.made, result |-> i.result]
  BY <1>1, <1>2 DEF Shape
<1>4. /\ Shape(d) /\ d.op = op /\ d.step = s /\ d.opts = opts /\ d.load = None /\ d.entry = None
      /\ d.made = None /\ d.result = None
  BY <1>1, <1>3 DEF Shape
<1>5. "none" \notin Ops /\ None # Error
  BY KMSAssumption DEF Ops
<1>6. CallType(d, n)
  BY <1>4, <1>5 DEF CallType
<1> QED BY <1>6 DEF d

\* A call that goes on.
LEMMA ToType ==
    ASSUME NEW c, NEW s \in Steps \ {"done"}, NEW n, CallType(c, n), c.step # "done",
           c.op = "sign" /\ (Of("awskms") \/ Of("azurekms")) /\ s \in {"key", "request"} =>
                c.step \in {"key", "request"}
    PROVE  CallType(To(c, s), n) /\ To(c, s).step = s /\ To(c, s).op = c.op /\ To(c, s).opts = c.opts
<1> DEFINE d == To(c, s)
<1>1. d = [c EXCEPT !.step = s, !.load = None]
  BY DEF To
<1> HIDE DEF d
<1>2. d = [op |-> c.op, step |-> s, opts |-> c.opts, sig |-> c.sig, load |-> None,
           digest |-> c.digest, entry |-> c.entry, made |-> c.made, result |-> c.result]
  BY <1>1 DEF Shape, CallType
<1>3. /\ Shape(d)
      /\ d.op = c.op /\ d.step = s /\ d.opts = c.opts /\ d.load = None /\ d.digest = c.digest
      /\ d.entry = c.entry /\ d.made = c.made /\ d.result = c.result
  BY <1>2 DEF Shape
<1>4. CallType(d, n)
  BY <1>3 DEF CallType
<1> QED BY <1>3, <1>4 DEF d

\* A call that has made its digest and looks its key up again.
LEMMA DigestType ==
    ASSUME NEW c, NEW n, CallType(c, n), c.step # "done", NEW k \in 1..n, NEW x,
           x = DigestFor(k, c.opts)
    PROVE  CallType([To(c, "key") EXCEPT !.digest = x], n)
<1> DEFINE e == To(c, "key")
           d == [e EXCEPT !.digest = x]
<1>1. e = [c EXCEPT !.step = "key", !.load = None]
  BY DEF To
<1> HIDE DEF e
<1>2. e = [op |-> c.op, step |-> "key", opts |-> c.opts, sig |-> c.sig, load |-> None,
           digest |-> c.digest, entry |-> c.entry, made |-> c.made, result |-> c.result]
  BY <1>1 DEF Shape, CallType
<1>3. d = [op |-> c.op, step |-> "key", opts |-> c.opts, sig |-> c.sig, load |-> None,
           digest |-> x, entry |-> c.entry, made |-> c.made, result |-> c.result]
  BY <1>2
<1> HIDE DEF d
<1>4. /\ Shape(d)
      /\ d.op = c.op /\ d.step = "key" /\ d.opts = c.opts /\ d.load = None /\ d.digest = x
      /\ d.entry = c.entry /\ d.made = c.made /\ d.result = c.result
  BY <1>3 DEF Shape
<1>5. "key" \in Steps
  BY DEF Steps, Lookups
<1>6. CallType(d, n)
  BY <1>4, <1>5 DEF CallType
<1> QED BY <1>6 DEF d, e

\* A call that keeps the entry it found, the key it made, or an entry to cache.
LEMMA EntryType ==
    ASSUME NEW c, NEW n, CallType(c, n), NEW e, e.pub \in 1..n
    PROVE  CallType([c EXCEPT !.entry = e], n)
<1> DEFINE d == [c EXCEPT !.entry = e]
<1>1. /\ Shape(d)
      /\ d.op = c.op /\ d.step = c.step /\ d.opts = c.opts /\ d.load = c.load /\ d.digest = c.digest
      /\ d.entry = e /\ d.made = c.made /\ d.result = c.result
  BY DEF Shape, CallType
<1> HIDE DEF d
<1>2. CallType(d, n)
  BY <1>1 DEF CallType
<1> QED BY <1>2 DEF d

LEMMA MadeType ==
    ASSUME NEW c, NEW n, CallType(c, n), NEW k \in (1..n) \cup {None}
    PROVE  CallType([c EXCEPT !.made = k], n)
<1> DEFINE d == [c EXCEPT !.made = k]
<1>1. /\ Shape(d)
      /\ d.op = c.op /\ d.step = c.step /\ d.opts = c.opts /\ d.load = c.load /\ d.digest = c.digest
      /\ d.entry = c.entry /\ d.made = k /\ d.result = c.result
  BY DEF Shape, CallType
<1> HIDE DEF d
<1>2. CallType(d, n)
  BY <1>1 DEF CallType
<1> QED BY <1>2 DEF d

LEMMA LoadType ==
    ASSUME NEW c, NEW n, CallType(c, n), c.step \in Lookups, NEW pub \in 1..n, NEW meta \in (1..n) \cup {None}
    PROVE  CallType([c EXCEPT !.load = [pub |-> pub, meta |-> meta]], n)
<1> DEFINE l == [pub |-> pub, meta |-> meta]
           d == [c EXCEPT !.load = l]
<1>1. l.pub = pub /\ l.meta = meta
  OBVIOUS
<1> HIDE DEF l
<1>2. /\ Shape(d)
      /\ d.op = c.op /\ d.step = c.step /\ d.opts = c.opts /\ d.load = l /\ d.digest = c.digest
      /\ d.entry = c.entry /\ d.made = c.made /\ d.result = c.result
  BY DEF Shape, CallType
<1> HIDE DEF d
<1>3. CallType(d, n)
  BY <1>1, <1>2 DEF CallType
<1> QED BY <1>3 DEF d, l

\* Calls are as they were when the service makes more keys.
LEMMA TypeGrows ==
    ASSUME NEW c, NEW n \in Nat, NEW m \in Nat, CallType(c, n), n <= m
    PROVE  CallType(c, m)
<1>1. 1..n \subseteq 1..m
  OBVIOUS
<1>2. (\E k \in 1..n : MadeBy(k, c.result.value, c.opts)) => \E k \in 1..m : MadeBy(k, c.result.value, c.opts)
  BY <1>1
<1>3. (\E k \in 1..n : c.digest = DigestFor(k, c.opts)) => \E k \in 1..m : c.digest = DigestFor(k, c.opts)
  BY <1>1
<1> QED BY <1>1, <1>2, <1>3 DEF CallType

-----------------------------------------------------------------------------
(* Steps                                                                   *)

LEMMA SameRef ==
    ASSUME ref' = ref
    PROVE  /\ \A k, s, o : MadeBy(k, s, o)' <=> MadeBy(k, s, o)
           /\ \A k, o : DigestFor(k, o)' = DigestFor(k, o)
<1>1. \A k : Alg(k)' = Alg(k)
  BY DEF Alg
<1>2. \A k, o : DigestFor(k, o)' = DigestFor(k, o)
  BY <1>1 DEF DigestFor
<1>3. \A k, d : AzureSignature(k, d)' = AzureSignature(k, d)
  BY <1>1 DEF AzureSignature
<1>4. \A k, a, o : VaultSignature(k, a, o)' = VaultSignature(k, a, o)
  BY <1>1 DEF VaultSignature
<1>5. \A o : SignVersion(o)' = SignVersion(o)
  BY DEF SignVersion
<1>6. \A k, s, o : MadeBy(k, s, o)' <=> MadeBy(k, s, o)
  BY <1>1, <1>2, <1>3, <1>4, <1>5 DEF MadeBy, Of
<1> QED BY <1>2, <1>6

\* What is to be shown of a step that keeps the reference.
LEMMA Frame ==
    ASSUME Inv, Inv', SInv, UNCHANGED program, keys <= keys', rotated' \in 0..keys', CacheTyped',
           \A u \in Threads : CallType(call'[u], keys') \/ call'[u] = call[u]
    PROVE  SInv'
<1>1. ref' = ref /\ client' = client
  BY DEF program
<1>2. Get(ref)' # Error /\ client' \in Sharings
  BY <1>1 DEF SInv, Get
<1>3. keys \in Nat /\ keys' \in Nat
  BY DEF Inv, ServiceOK
<1>4. \A u \in Threads : CallType(call'[u], keys')
  BY <1>3, TypeGrows DEF SInv
<1>5. \A u \in Threads : CallType(call[u], keys)'
  BY <1>1, <1>4, SameRef DEF CallType, Of
<1> QED BY <1>2, <1>5 DEF SInv

\* A goroutine's step; most of them leave the service as it is.
LEMMA GrowType ==
    ASSUME Inv, Inv', SInv, NEW t \in Threads, NEW c, Set(t, c), UNCHANGED program,
           keys <= keys', UNCHANGED rotated, UNCHANGED cache, CallType(c, keys')
    PROVE  SInv'
<1>1. keys \in Nat /\ keys' \in Nat /\ 1..keys \subseteq 1..keys'
  BY DEF Inv, ServiceOK
<1>2. CacheTyped' /\ rotated' \in 0..keys'
  BY <1>1 DEF SInv, CacheTyped
<1>3. \A u \in Threads : call'[u] = IF u = t THEN c ELSE call[u]
  BY DEF Inv, Set
<1> QED BY <1>2, <1>3, Frame

LEMMA QuietType ==
    ASSUME Inv, Inv', SInv, NEW t \in Threads, NEW c, Set(t, c), UNCHANGED <<program, service, cache>>,
           CallType(c, keys)
    PROVE  SInv'
<1>1. UNCHANGED program /\ keys' = keys /\ rotated' = rotated /\ UNCHANGED cache
  BY DEF service
<1>2. keys <= keys'
  BY <1>1 DEF Inv, ServiceOK
<1> QED BY <1>1, <1>2, GrowType

LEMMA StoreType ==
    ASSUME Inv, Inv', SInv, NEW t \in Threads, NEW c, Set(t, c), UNCHANGED <<program, service>>,
           CanStore(t), StoreEntry(t), CallType(c, keys)
    PROVE  SInv'
<1>1. UNCHANGED program /\ keys' = keys /\ rotated' = rotated /\ keys \in Nat
  BY DEF service, Inv, ServiceOK
<1>2. call[t].load.pub \in 1..keys /\ call[t].load.meta \in 1..keys
  BY DEF CanStore, SInv, CallType
<1>3. CacheTyped'
  BY <1>1, <1>2 DEF StoreEntry, CacheTyped, SInv, Inv, CacheOK
<1>4. \A u \in Threads : call'[u] = IF u = t THEN c ELSE call[u]
  BY DEF Inv, Set
<1> QED BY <1>1, <1>3, <1>4, Frame DEF SInv

\* Steps shared by the clients.
LEMMA FetchType ==
    ASSUME Inv, Inv', SInv, NEW t \in Threads, Fetch(t) \/ AWSFetchPublicKey(t)
    PROVE  SInv'
<1>1. PICK meta \in {Named, None} :
        /\ Named # None /\ UNCHANGED <<program, service, cache>>
        /\ Set(t, [call[t] EXCEPT !.load = [pub |-> Named, meta |-> meta]])
  BY DEF Fetch, AWSFetchPublicKey
<1>2. Named \in 1..keys
  BY <1>1, NamedKnown DEF Inv
<1>3. CallType(call[t], keys) /\ call[t].step \in Lookups
  BY DEF SInv, Fetch, AWSFetchPublicKey, CanFetch, At
<1>4. CallType([call[t] EXCEPT !.load = [pub |-> Named, meta |-> meta]], keys)
  BY <1>2, <1>3, LoadType
<1> QED BY <1>1, <1>4, QuietType

\* A call that ends with an error.
LEMMA ErrorStep ==
    ASSUME Inv, Inv', SInv, NEW t \in Threads, ~At(t, {"done"}), Set(t, Done(call[t], Error)),
           UNCHANGED <<program, service, cache>>
    PROVE  SInv'
<1>1. call[t].op \in Ops
  BY DEF SInv, CallType, At
<1> QED BY <1>1, ErrorType, QuietType

LEMMA FailType ==
    ASSUME Inv, Inv', SInv, NEW t \in Threads, Fail(t) \/ NotFound(t)
    PROVE  SInv'
<1>1. ~At(t, {"done"})
  BY DEF Fail, NotFound, CanFetch, At, Lookups, Requests, SInv, CallType
<1> QED BY <1>1, ErrorStep DEF Fail, NotFound

LEMMA ExpireType ==
    ASSUME Inv, Inv', SInv, NEW c \in Clients, Expire(c)
    PROVE  SInv'
<1>1. UNCHANGED program /\ keys' = keys /\ rotated' = rotated /\ call' = call /\ cache' = [cache EXCEPT ![c] = None]
  BY DEF Expire, service
<1>2. CacheTyped' /\ keys <= keys'
  BY <1>1 DEF CacheTyped, SInv, Inv, CacheOK, ServiceOK
<1> QED BY <1>1, <1>2, Frame DEF SInv

LEMMA SetMinimumType ==
    ASSUME Inv, Inv', SInv, SetMinimum
    PROVE  SInv'
<1>1. UNCHANGED program /\ keys' = keys /\ rotated' = rotated /\ call' = call /\ cache' = cache
  BY DEF SetMinimum
<1>2. CacheTyped' /\ keys <= keys' /\ rotated' \in 0..keys'
  BY <1>1 DEF CacheTyped, SInv, Inv, ServiceOK
<1> QED BY <1>1, <1>2, Frame

LEMMA IdleType == ASSUME NEW n PROVE CallType(Idle, n)
<1>1. /\ Shape(Idle) /\ Idle.op = "none" /\ Idle.step = "done" /\ Idle.load = None /\ Idle.entry = None
      /\ Idle.made = None /\ Idle.result = None
  BY DEF Idle, Shape
<1>2. "done" \in Steps
  BY DEF Steps
<1> QED BY <1>1, <1>2 DEF CallType

LEMMA KillType ==
    ASSUME Inv, Inv', SInv, NEW c \in Clients, Kill(c)
    PROVE  SInv'
<1>1. UNCHANGED program /\ keys' = keys /\ rotated' = rotated /\ cache' = [cache EXCEPT ![c] = None]
      /\ call' = [t \in Threads |-> IF client[t] = c THEN Idle ELSE call[t]]
  BY DEF Kill, service
<1>2. CacheTyped' /\ keys <= keys'
  BY <1>1 DEF CacheTyped, SInv, Inv, CacheOK, ServiceOK
<1>3. \A u \in Threads : call'[u] = Idle \/ call'[u] = call[u]
  BY <1>1
<1> QED BY <1>1, <1>2, <1>3, IdleType, Frame DEF SInv

LEMMA RotateType ==
    ASSUME Inv, Inv', SInv, Rotate
    PROVE  SInv'
<1>1. UNCHANGED program /\ keys' = keys + 1 /\ rotated' = rotated + 1 /\ cache' = cache /\ call' = call
  BY DEF Rotate, NameNew
<1>2. keys \in Nat /\ rotated \in 0..keys
  BY DEF Inv, ServiceOK, SInv
<1>3. keys <= keys' /\ rotated' \in 0..keys' /\ CacheTyped'
  BY <1>1, <1>2 DEF CacheTyped, SInv
<1> QED BY <1>1, <1>3, Frame

\* A goroutine that starts a call.
LEMMA StartType ==
    ASSUME Inv, Inv', SInv, NEW t \in Threads, NEW op \in Ops, NEW s \in Steps \ {"done"}, NEW opts, NEW sig,
           Set(t, NewCall(op, s, opts, sig)), UNCHANGED <<program, service, cache>>,
           op = "sign" => opts \in CallOptions[ref.scheme],
           op = "sign" /\ (Of("awskms") \/ Of("azurekms")) => s \notin {"key", "request"}
    PROVE  SInv'
BY NewType, QuietType

\* One that is refused before its first request.
LEMMA RefusedType ==
    ASSUME Inv, Inv', SInv, NEW t \in Threads, NEW op \in Ops, NEW opts, NEW sig,
           Set(t, Done(NewCall(op, "done", opts, sig), Error)), UNCHANGED <<program, service, cache>>
    PROVE  SInv'
<1>1. NewCall(op, "done", opts, sig).op = op
  BY NewOK DEF Creating
<1> QED BY <1>1, ErrorType, QuietType

\* A lookup of CreateKey is of a call of CreateKey.
LEMMA CreatingSteps ==
    ASSUME Inv, NEW t \in Threads, call[t].step \in Lookups, call[t].op # "create"
    PROVE  call[t].step \in {"hash", "key"}
BY DEF Inv, CallOK, Creating, Lookups

\* What follows a lookup in AWS that found a key.
LEMMA AWSHaveType ==
    ASSUME Inv, SInv, Of("awskms"), NEW t \in Threads, At(t, Lookups), NEW e, e.pub \in 1..keys, e.meta \in 1..keys
    PROVE  CallType(AWSHave(call[t], e), keys)
<1> DEFINE c == call[t]
           asked == c.op \in {"public", "create"}
           request == [To(c, "request") EXCEPT !.entry = e]
           verdict == Done(c, Verdict(AWSVerifies(e, c.sig, c.opts)))
<1>1. CallType(c, keys) /\ c.step \in Lookups /\ c.step # "done" /\ c.op \in Ops
  BY DEF SInv, CallType, At, Lookups
<1>2. AWSHave(c, e) = CASE asked -> Done(c, e.pub)
                        [] ~asked /\ c.step = "hash" -> AWSHash(c, e)
                        [] c.step = "key" /\ c.op = "verify" /\ ~c.opts.remote -> verdict
                        [] OTHER -> request
  BY DEF AWSHave
<1>3. ASSUME asked PROVE CallType(Done(c, e.pub), keys)
  <2>1. e.pub # None
    BY KMSAssumption
  <2> QED BY <1>1, <1>3, <2>1, DoneType
<1>4. CallType(AWSHash(c, e), keys)
  <2>1. CallType([To(c, "key") EXCEPT !.digest = AWSDigest(e, c.opts)], keys)
    BY <1>1, DigestType DEF AWSDigest, DigestFor
  <2>2. CallType(Done(c, Error), keys)
    BY <1>1, ErrorType
  <2> QED BY <2>1, <2>2 DEF AWSHash
<1>5. ASSUME c.op = "verify" PROVE CallType(verdict, keys)
  <2>1. AWSVerifies(e, c.sig, c.opts) \in BOOLEAN
    BY DEF AWSVerifies
  <2> QED BY <1>5, <2>1, VerdictType
<1>6. ASSUME ~asked, c.step # "hash" PROVE CallType(request, keys)
  <2>1. c.step = "key"
    BY <1>1, <1>6, CreatingSteps DEF Inv
  <2>2. "request" \in Steps
    BY DEF Steps, Requests
  <2>3. CallType(To(c, "request"), keys)
    BY <1>1, <2>1, <2>2, ToType
  <2> QED BY <2>3, EntryType
<1> HIDE DEF request, verdict
<1>7. CASE asked
  BY <1>2, <1>3, <1>7
<1>8. CASE ~asked /\ c.step = "hash"
  BY <1>2, <1>4, <1>8
<1>9. CASE ~asked /\ c.step # "hash"
  BY <1>2, <1>5, <1>6, <1>9
<1> QED BY <1>7, <1>8, <1>9

\* A hit finds an entry of the cache, a loader has one of its own.
LEMMA HitType ==
    ASSUME Inv, SInv, NEW t \in Threads
    PROVE  /\ CanHit(t) => At(t, Lookups) /\ Entry(t).pub \in 1..keys /\ Entry(t).meta \in 1..keys
           /\ CanStore(t) => At(t, Lookups) /\ call[t].load.pub \in 1..keys /\ call[t].load.meta \in 1..keys
<1>1. CanHit(t) => At(t, Lookups) /\ Entry(t).pub \in 1..keys /\ Entry(t).meta \in 1..keys
  BY DEF CanHit, Entry, SInv, CacheTyped, Inv
<1>2. CanStore(t) => At(t, Lookups) /\ call[t].load.pub \in 1..keys /\ call[t].load.meta \in 1..keys
  BY DEF CanStore, SInv, CallType, At
<1> QED BY <1>1, <1>2

\* A request of AWS signs with the key that the alias names now, which it says the
\* algorithm of: the digest is of the length that the key signs, and so its own.
LEMMA AWSRequestType ==
    ASSUME Inv, Inv', SInv, Of("awskms"), NEW t \in Threads, AWSRequest(t)
    PROVE  SInv'
<1> DEFINE c == call[t]
           accepts == c.sig.value = AWSSignature(c)
<1>1. CallType(c, keys) /\ c.step = "request" /\ UNCHANGED <<program, service, cache>> /\ c.op \in {"sign", "verify"}
  BY DEF AWSRequest, At, SInv, CallType, Inv, CallOK, Ops
<1>2. CASE ~AWSRequestOK(c)
  <2>1. Set(t, Done(c, Error)) /\ ~At(t, {"done"})
    BY <1>1, <1>2 DEF AWSRequest, At
  <2> QED BY <1>1, <2>1, ErrorStep
<1>3. CASE AWSRequestOK(c) /\ c.op = "verify"
  <2>1. Set(t, Done(c, Verdict(accepts))) /\ accepts \in BOOLEAN
    BY <1>3 DEF AWSRequest
  <2>2. CallType(Done(c, Verdict(accepts)), keys)
    BY <1>3, <2>1, VerdictType
  <2> QED BY <1>1, <2>1, <2>2, QuietType
<1>4. CASE AWSRequestOK(c) /\ c.op = "sign"
  <2>1. Set(t, Done(c, Sig(AWSSignature(c), FALSE)))
    BY <1>4 DEF AWSRequest
  <2>2. Named # None /\ Alg(Named) = Alg(c.entry.meta) /\ Size[c.digest.hash] = Size[Alg(Named).hash]
    BY <1>4 DEF AWSRequestOK
  <2>3. Named \in 1..keys
    BY <2>2, NamedKnown DEF Inv
  <2>4. c.result = None /\ None # Error
    BY <1>1, KMSAssumption DEF CallType
  <2>5. c.opts \in CallOptions[ref.scheme] /\ \E k \in 1..keys : c.digest = DigestFor(k, c.opts)
    BY <1>1, <1>4, <2>4 DEF CallType
  <2>6. PICK j \in 1..keys : c.digest = DigestFor(j, c.opts)
    BY <2>5
  <2>7. Alg(j).hash \in Hashes /\ Alg(Named).hash \in Hashes
    BY <2>3, RefFacts
  <2>8. c.digest = DigestFor(Named, c.opts)
    BY <2>2, <2>6, <2>7, SameDigest
  <2>9. MadeBy(Named, AWSSignature(c), c.opts)
    BY <2>2, <2>8 DEF MadeBy, AWSSignature, Of
  <2>10. CallType(Done(c, Sig(AWSSignature(c), FALSE)), keys)
    BY <1>4, <2>3, <2>5, <2>9, SignedType
  <2> QED BY <1>1, <2>1, <2>10, QuietType
<1> QED BY <1>1, <1>2, <1>3, <1>4

LEMMA AWSType ==
    ASSUME Inv, Inv', SInv, NEW t \in Threads, AWSNext(t)
    PROVE  SInv'
<1> DEFINE c == call[t]
<1>1. Of("awskms") /\ CallType(c, keys) /\ keys \in Nat /\ MaxKey \in Nat
  BY KMSAssumption DEF AWSNext, SInv, Inv, ServiceOK
<1>2. {"hash", "key", "exists", "make", "alias", "created"} \subseteq Steps \ {"done"}
  BY DEF Steps, Lookups, Requests
<1>3. CASE AWSStart(t)
  <2>1. UNCHANGED <<program, service, cache>>
    BY <1>3 DEF AWSStart
  <2>2. CASE \E o \in CallOptions["awskms"] : Set(t, NewCall("sign", "hash", o, None))
    BY <1>1, <1>2, <2>1, <2>2, StartType DEF Ops, Of
  <2>3. CASE \E o \in CallOptions["awskms"], s \in SignaturesAround :
               Set(t, NewCall("verify", IF o.remote THEN "hash" ELSE "key", o, s))
    BY <1>2, <2>1, <2>3, StartType DEF Ops
  <2>4. CASE Set(t, NewCall("public", "key", NoCallOptions, None))
    BY <1>2, <2>1, <2>4, StartType DEF Ops
  <2>5. CASE Set(t, NewCall("create", "exists", NoCallOptions, None))
    BY <1>2, <2>1, <2>5, StartType DEF Ops
  <2>6. CASE Set(t, Done(NewCall("create", "done", NoCallOptions, None), Error))
    BY <2>1, <2>6, RefusedType DEF Ops
  <2> QED BY <1>3, <2>2, <2>3, <2>4, <2>5, <2>6 DEF AWSStart
<1>4. CASE AWSHit(t)
  BY <1>1, <1>4, HitType, AWSHaveType, QuietType DEF AWSHit
<1>5. CASE AWSStore(t)
  BY <1>1, <1>5, HitType, AWSHaveType, StoreType DEF AWSStore
<1>6. CASE AWSFetchKeyMetadata(t)
  <2> DEFINE l == c.load
             d == [c EXCEPT !.load = [pub |-> l.pub, meta |-> Named]]
  <2>1. l = [pub |-> l.pub, meta |-> l.meta] /\ Shape(c)
    BY <1>6 DEF AWSFetchKeyMetadata, Inv, CallOK
  <2>2. [l EXCEPT !.meta = Named] = [pub |-> l.pub, meta |-> Named]
    BY <2>1
  <2>3. [c EXCEPT !.load.meta = Named] = [c EXCEPT !.load = [l EXCEPT !.meta = Named]]
    BY <2>1 DEF Shape
  <2>4. Set(t, d) /\ UNCHANGED <<program, service, cache>> /\ l # None
    BY <1>6, <2>2, <2>3 DEF AWSFetchKeyMetadata
  <2>5. Named \in (1..keys) \cup {None} /\ l.pub \in 1..keys /\ c.step \in Lookups
    BY <1>1, <2>4, NamedKnown DEF Inv, CallType
  <2>6. CallType(d, keys)
    BY <1>1, <2>5, LoadType
  <2> QED BY <2>4, <2>6, QuietType
<1>7. CASE AWSNotFound(t)
  <2>1. c.step # "done" /\ UNCHANGED <<program, service, cache>>
    BY <1>7 DEF AWSNotFound, CanFetch, At, Lookups
  <2>2. CASE At(t, {"exists"})
    BY <1>1, <1>2, <1>7, <2>1, <2>2, ToType, QuietType DEF AWSNotFound
  <2>3. CASE ~At(t, {"exists"})
    BY <1>7, <2>1, <2>3, ErrorStep DEF AWSNotFound, At
  <2> QED BY <2>2, <2>3
<1>8. CASE AWSCreateKey(t)
  <2>1. /\ UNCHANGED program /\ UNCHANGED rotated /\ UNCHANGED cache /\ c.step = "make"
        /\ UNCHANGED <<program, current, named, rotated, cache>> /\ c.op \in Ops
    BY <1>1, <1>8 DEF AWSCreateKey, At, CallType
  <2>2. CASE keys = MaxKey /\ Set(t, Done(c, Error)) /\ UNCHANGED keys
    BY <1>1, <2>1, <2>2, ErrorType, GrowType
  <2>3. CASE keys' = keys + 1 /\ \E lost \in Losses : Set(t, IF lost THEN Done(c, Error)
                                                           ELSE [To(c, "alias") EXCEPT !.made = keys + 1])
    <3>1. keys <= keys' /\ keys' \in Nat /\ keys + 1 \in (1..keys') \cup {None}
      BY <1>1, <2>3
    <3>2. CallType(c, keys')
      BY <1>1, <3>1, TypeGrows
    <3>3. CallType(To(c, "alias"), keys')
      BY <1>2, <2>1, <3>2, ToType
    <3>4. CallType([To(c, "alias") EXCEPT !.made = keys + 1], keys')
      BY <3>1, <3>3, MadeType
    <3>5. CallType(Done(c, Error), keys')
      BY <2>1, ErrorType
    <3>6. CASE Set(t, Done(c, Error))
      BY <2>1, <3>1, <3>5, <3>6, GrowType
    <3>7. CASE Set(t, [To(c, "alias") EXCEPT !.made = keys + 1])
      BY <2>1, <3>1, <3>4, <3>7, GrowType
    <3> QED BY <2>3, <3>6, <3>7
  <2> QED BY <1>8, <2>2, <2>3 DEF AWSCreateKey
<1>9. CASE AWSCreateAlias(t)
  <2>1. /\ UNCHANGED program /\ UNCHANGED rotated /\ UNCHANGED cache /\ c.step = "alias" /\ keys' = keys
        /\ \E lost \in Losses : Set(t, IF lost THEN Done(c, Error) ELSE [To(c, "created") EXCEPT !.made = None])
        /\ c.op \in Ops
    BY <1>1, <1>9 DEF AWSCreateAlias, At, CallType
  <2>2. CallType(To(c, "created"), keys)
    BY <1>1, <1>2, <2>1, ToType
  <2>3. CallType([To(c, "created") EXCEPT !.made = None], keys) /\ CallType(Done(c, Error), keys)
    BY <2>1, <2>2, MadeType, ErrorType
  <2>4. CASE Set(t, Done(c, Error))
    BY <1>1, <2>1, <2>3, <2>4, GrowType
  <2>5. CASE Set(t, [To(c, "created") EXCEPT !.made = None])
    BY <1>1, <2>1, <2>3, <2>5, GrowType
  <2> QED BY <2>1, <2>4, <2>5
<1>10. CASE AWSAliasExists(t)
  BY <1>10, ErrorStep DEF AWSAliasExists, At
<1> QED BY <1>1, <1>3, <1>4, <1>5, <1>6, <1>7, <1>8, <1>9, <1>10, FetchType, FailType, AWSRequestType DEF AWSNext

-----------------------------------------------------------------------------
(* Azure                                                                   *)

LEMMA AzureHaveType ==
    ASSUME Inv, SInv, Of("azurekms"), NEW t \in Threads, At(t, Lookups), NEW e, e.pub \in 1..keys
    PROVE  CallType(AzureHave(call[t], e), keys)
<1> DEFINE c == call[t]
           asked == c.op \in {"public", "create"}
           request == [To(c, "request") EXCEPT !.entry = e]
<1>1. CallType(c, keys) /\ c.step \in Lookups /\ c.step # "done" /\ c.op \in Ops
  BY DEF SInv, CallType, At, Lookups
<1>2. AzureHave(c, e) = CASE asked -> Done(c, e.pub)
                          [] ~asked /\ c.step = "hash" -> AzureHash(c, e)
                          [] OTHER -> request
  BY DEF AzureHave
<1>3. ASSUME asked PROVE CallType(Done(c, e.pub), keys)
  <2>1. e.pub # None
    BY KMSAssumption
  <2> QED BY <1>1, <1>3, <2>1, DoneType
<1>4. CallType(AzureHash(c, e), keys)
  <2>1. CallType([To(c, "key") EXCEPT !.digest = DigestFor(e.pub, c.opts)], keys)
    BY <1>1, DigestType
  <2>2. CallType(Done(c, Error), keys)
    BY <1>1, ErrorType
  <2> QED BY <2>1, <2>2 DEF AzureHash, DigestFor
<1>5. ASSUME ~asked, c.step # "hash" PROVE CallType(request, keys)
  <2>1. c.step = "key"
    BY <1>1, <1>5, CreatingSteps
  <2>2. "request" \in Steps
    BY DEF Steps, Requests
  <2>3. CallType(To(c, "request"), keys)
    BY <1>1, <2>1, <2>2, ToType
  <2> QED BY <2>3, EntryType
<1> HIDE DEF request
<1>6. CASE asked
  BY <1>2, <1>3, <1>6
<1>7. CASE ~asked /\ c.step = "hash"
  BY <1>2, <1>4, <1>7
<1>8. CASE ~asked /\ c.step # "hash"
  BY <1>2, <1>5, <1>8
<1> QED BY <1>6, <1>7, <1>8

\* As for AWS, with the key that the reference names when the request is served.
LEMMA AzureRequestType ==
    ASSUME Inv, Inv', SInv, Of("azurekms"), NEW t \in Threads, AzureRequest(t)
    PROVE  SInv'
<1> DEFINE c == call[t]
           accepts == AzureVerifies(Named, c.sig, c.digest)
<1>1. CallType(c, keys) /\ c.step = "request" /\ UNCHANGED <<program, service, cache>> /\ c.op \in {"sign", "verify"}
  BY DEF AzureRequest, At, SInv, CallType, Inv, CallOK, Ops
<1>2. CASE ~AzureRequestOK(c, Named)
  <2>1. Set(t, Done(c, Error)) /\ ~At(t, {"done"})
    BY <1>1, <1>2 DEF AzureRequest, At
  <2> QED BY <1>1, <2>1, ErrorStep
<1>3. CASE AzureRequestOK(c, Named) /\ c.op = "verify"
  <2>1. Set(t, Done(c, Verdict(accepts)))
    BY <1>3 DEF AzureRequest
  <2>2. accepts \in BOOLEAN
    BY DEF AzureVerifies
  <2>3. CallType(Done(c, Verdict(accepts)), keys)
    BY <1>3, <2>2, VerdictType
  <2> QED BY <1>1, <2>1, <2>3, QuietType
<1>4. CASE AzureRequestOK(c, Named) /\ c.op = "sign"
  <2>1. PICK short \in BOOLEAN : Set(t, Done(c, Sig(AzureSignature(Named, c.digest), short)))
    BY <1>4 DEF AzureRequest
  <2>2. Named # None /\ Size[c.digest.hash] = Size[Alg(Named).hash]
    BY <1>4 DEF AzureRequestOK
  <2>3. Named \in 1..keys
    BY <2>2, NamedKnown DEF Inv
  <2>4. c.result = None /\ None # Error
    BY <1>1, KMSAssumption DEF CallType
  <2>5. c.opts \in CallOptions[ref.scheme] /\ \E k \in 1..keys : c.digest = DigestFor(k, c.opts)
    BY <1>1, <1>4, <2>4 DEF CallType
  <2>6. PICK j \in 1..keys : c.digest = DigestFor(j, c.opts)
    BY <2>5
  <2>7. Alg(j).hash \in Hashes /\ Alg(Named).hash \in Hashes
    BY <2>3, RefFacts
  <2>8. c.digest = DigestFor(Named, c.opts)
    BY <2>2, <2>6, <2>7, SameDigest
  <2>9. MadeBy(Named, AzureSignature(Named, c.digest), c.opts)
    BY <2>2, <2>8 DEF MadeBy, Of
  <2>10. CallType(Done(c, Sig(AzureSignature(Named, c.digest), short)), keys)
    BY <1>4, <2>3, <2>5, <2>9, SignedType
  <2> QED BY <1>1, <2>1, <2>10, QuietType
<1> QED BY <1>1, <1>2, <1>3, <1>4

\* A request to make a key that takes effect, whether its answer is lost or not.
LEMMA CreatedType ==
    ASSUME Inv, Inv', SInv, NEW t \in Threads, At(t, {"make"}), UNCHANGED program, UNCHANGED rotated, UNCHANGED cache,
           keys' \in {keys, keys + 1},
           Set(t, Done(call[t], Error)) \/ Set(t, To(call[t], "created"))
    PROVE  SInv'
<1> DEFINE c == call[t]
<1>1. keys \in Nat /\ keys' \in Nat /\ keys <= keys'
  BY DEF Inv, ServiceOK
<1>2. CallType(c, keys) /\ c.step = "make" /\ c.op \in Ops
  BY DEF SInv, CallType, At
<1>3. CallType(c, keys')
  BY <1>1, <1>2, TypeGrows
<1>4. "created" \in Steps
  BY DEF Steps, Lookups
<1>5. CallType(To(c, "created"), keys') /\ CallType(Done(c, Error), keys')
  BY <1>2, <1>3, <1>4, ToType, ErrorType
<1> QED BY <1>1, <1>5, GrowType

LEMMA AzureType ==
    ASSUME Inv, Inv', SInv, NEW t \in Threads, AzureNext(t)
    PROVE  SInv'
<1> DEFINE c == call[t]
<1>1. Of("azurekms") /\ CallType(c, keys)
  BY DEF AzureNext, SInv
<1>2. {"hash", "key", "probe", "make", "created"} \subseteq Steps \ {"done"}
  BY DEF Steps, Lookups, Requests
<1>3. CASE AzureStart(t)
  <2>1. UNCHANGED <<program, service, cache>>
    BY <1>3 DEF AzureStart
  <2>2. CASE \E o \in CallOptions["azurekms"] : Set(t, NewCall("sign", "hash", o, None))
    BY <1>1, <1>2, <2>1, <2>2, StartType DEF Ops, Of
  <2>3. CASE \E o \in CallOptions["azurekms"], s \in SignaturesAround : Set(t, NewCall("verify", "hash", o, s))
    BY <1>2, <2>1, <2>3, StartType DEF Ops
  <2>4. CASE Set(t, NewCall("public", "key", NoCallOptions, None))
    BY <1>2, <2>1, <2>4, StartType DEF Ops
  <2>5. CASE Set(t, NewCall("create", "probe", NoCallOptions, None))
    BY <1>2, <2>1, <2>5, StartType DEF Ops
  <2> QED BY <1>3, <2>2, <2>3, <2>4, <2>5 DEF AzureStart
<1>4. CASE AzureHit(t)
  BY <1>1, <1>4, HitType, AzureHaveType, QuietType DEF AzureHit
<1>5. CASE AzureStore(t)
  BY <1>1, <1>5, HitType, AzureHaveType, StoreType DEF AzureStore
<1>6. CASE AzureGetKey(t)
  <2>1. c.step = "probe" /\ UNCHANGED <<program, service, cache>>
    BY <1>6 DEF AzureGetKey, At
  <2>2. CallType(To(c, "make"), keys) /\ CallType(To(c, "created"), keys)
    BY <1>1, <1>2, <2>1, ToType
  <2> QED BY <1>6, <2>1, <2>2, QuietType DEF AzureGetKey
<1>7. CASE AzureCreateKey(t)
  <2>1. /\ At(t, {"make"}) /\ UNCHANGED program /\ UNCHANGED rotated /\ UNCHANGED cache /\ keys' = keys + 1
        /\ Set(t, Done(c, Error)) \/ Set(t, To(c, "created"))
    BY <1>7 DEF AzureCreateKey, NameNew
  <2> QED BY <2>1, CreatedType
<1>8. CASE AzureQuota(t)
  BY <1>8, ErrorStep DEF AzureQuota, At
<1> QED BY <1>3, <1>4, <1>5, <1>6, <1>7, <1>8, FetchType, FailType, AzureRequestType DEF AzureNext

-----------------------------------------------------------------------------
(* Vault                                                                   *)

LEMMA VaultHaveType ==
    ASSUME Inv, SInv, Of("hashivault"), NEW t \in Threads, At(t, Lookups), NEW e, e.pub \in 1..keys
    PROVE  CallType(VaultHave(call[t], e), keys)
<1> DEFINE c == call[t]
<1>1. CallType(c, keys) /\ c.step # "done" /\ c.op \in Ops /\ ~Of("awskms") /\ ~Of("azurekms")
  BY DEF SInv, CallType, At, Lookups, Of
<1>2. CASE c.op \in {"public", "create"}
  <2>1. e.pub # None
    BY KMSAssumption
  <2> QED BY <1>1, <1>2, <2>1, DoneType DEF VaultHave
<1>3. CASE c.op \notin {"public", "create"}
  <2>1. "request" \in Steps \ {"done"}
    BY DEF Steps, Requests
  <2> QED BY <1>1, <1>3, <2>1, ToType DEF VaultHave
<1> QED BY <1>2, <1>3

\* A request names a version that Vault has, or asks for the latest.
LEMMA VaultSignType ==
    ASSUME Inv, Inv', SInv, MinimumOK, Of("hashivault"), NEW t \in Threads, VaultSign(t)
    PROVE  SInv'
<1> DEFINE c == call[t]
           v == SignVersion(c.opts)
           k == SigningVersion(v)
           s == VaultSignature(k, "pkcs1v15", c.opts)
<1>1. /\ CallType(c, keys) /\ c.step = "request" /\ c.op = "sign" /\ UNCHANGED <<program, service, cache>>
      /\ Set(t, Done(c, IF k = None THEN Error ELSE Sig(s, FALSE)))
  BY DEF VaultSign, At, SInv
<1>2. c.opts \in CallOptions[ref.scheme]
  BY <1>1, KMSAssumption DEF CallType
<1>3. CASE k = None
  BY <1>1, <1>3, ErrorStep DEF At
<1>4. CASE k # None
  <2>1. v \in Nat
    <3>1. c.opts.version \in Nat \cup {None}
      BY <1>2, RefFacts
    <3>2. ref.pin \in Nat \cup {None}
      BY KMSAssumption DEF Inv, Keys
    <3> QED BY <3>1, <3>2 DEF SignVersion
  <2>0. oldest.sign \in Nat \ {0}
    BY DEF MinimumOK, Keys
  <2>2. k \in 1..keys /\ (v # 0 => k = v)
    <3>1. current \in (1..keys) \cup {None, Torn} /\ current # Torn /\ keys \in Nat
      BY DEF Inv, ServiceOK, Of
    <3> QED BY <1>4, <2>1, <2>0, <3>1 DEF SigningVersion
  <2>3. MadeBy(k, s, c.opts)
    BY <2>2 DEF MadeBy, Of
  <2>4. CallType(Done(c, Sig(s, FALSE)), keys)
    BY <1>1, <1>2, <2>2, <2>3, SignedType
  <2> QED BY <1>1, <1>4, <2>4, QuietType
<1> QED BY <1>3, <1>4

LEMMA VaultType ==
    ASSUME Inv, Inv', SInv, MinimumOK, NEW t \in Threads, VaultNext(t)
    PROVE  SInv'
<1> DEFINE c == call[t]
<1>1. Of("hashivault") /\ CallType(c, keys) /\ ~Of("awskms") /\ ~Of("azurekms")
  BY DEF VaultNext, SInv, Of
<1>2. {"key", "make"} \subseteq Steps \ {"done"}
  BY DEF Steps, Lookups, Requests
<1>3. ASSUME NEW op \in {"sign", "verify"}, NEW opts \in CallOptions["hashivault"], NEW sig,
             Set(t, VaultCall(op, opts, sig)), UNCHANGED <<program, service, cache>>
      PROVE  SInv'
  <2>1. op \in Ops /\ opts \in CallOptions[ref.scheme]
    BY <1>1 DEF Ops, Of
  <2>2. CASE Set(t, NewCall(op, "key", opts, sig))
    BY <1>1, <1>2, <1>3, <2>1, <2>2, StartType
  <2>3. CASE Set(t, Done(NewCall(op, "done", opts, sig), Error))
    BY <1>3, <2>1, <2>3, RefusedType
  <2> QED BY <1>3, <2>2, <2>3 DEF VaultCall
<1>4. CASE VaultStart(t)
  <2>1. UNCHANGED <<program, service, cache>>
    BY <1>4 DEF VaultStart
  <2>2. CASE Set(t, NewCall("public", "key", NoCallOptions, None))
    BY <1>2, <2>1, <2>2, StartType DEF Ops
  <2>3. CASE Set(t, NewCall("create", "make", NoCallOptions, None))
    BY <1>2, <2>1, <2>3, StartType DEF Ops
  <2> QED BY <1>3, <1>4, <2>1, <2>2, <2>3 DEF VaultStart
<1>5. CASE VaultHit(t)
  BY <1>1, <1>5, HitType, VaultHaveType, QuietType DEF VaultHit
<1>6. CASE VaultStore(t)
  BY <1>1, <1>6, HitType, VaultHaveType, StoreType DEF VaultStore
<1>7. CASE VaultVerify(t)
  <2> DEFINE accepts == VaultVerifies(VerifyVersion(c.opts), c.sig, c.opts)
  <2>1. c.op = "verify" /\ Set(t, Done(c, Verdict(accepts))) /\ UNCHANGED <<program, service, cache>>
    BY <1>7 DEF VaultVerify
  <2>2. accepts \in BOOLEAN
    BY DEF VaultVerifies
  <2>3. CallType(Done(c, Verdict(accepts)), keys)
    BY <2>1, <2>2, VerdictType
  <2> QED BY <2>1, <2>3, QuietType
<1>8. CASE VaultCreateKey(t)
  <2>1. /\ At(t, {"make"}) /\ UNCHANGED program /\ UNCHANGED rotated /\ UNCHANGED cache
        /\ keys' \in {keys, keys + 1}
        /\ Set(t, Done(c, Error)) \/ Set(t, To(c, "created"))
    BY <1>8 DEF VaultCreateKey, NameNew
  <2> QED BY <2>1, CreatedType
<1> QED BY <1>1, <1>4, <1>5, <1>6, <1>7, <1>8, FetchType, FailType, VaultSignType DEF VaultNext

-----------------------------------------------------------------------------
(* The plugin                                                              *)

\* What a program returns is an answer of its method, or an error.
LEMMA ReturnsType ==
    ASSUME Inv, Inv', SInv, NEW t \in Threads, NEW v, PluginReturns(t, Dispatch(v)), call[t].op \in Ops,
           UNCHANGED program, UNCHANGED rotated, UNCHANGED cache, keys <= keys', CallType(Done(call[t], v), keys')
    PROVE  SInv'
<1>1. invokePlugin(Dispatch(v)) \in {v, Error}
  BY DEF invokePlugin, Dispatch
<1>2. CallType(Done(call[t], Error), keys')
  BY ErrorType
<1> QED BY <1>1, <1>2, GrowType DEF PluginReturns

\* The key in the file, which localkms has written whole.
LEMMA LocalKey ==
    ASSUME Inv, loadRSAPrivateKey # Error
    PROVE  loadRSAPrivateKey = current /\ current \in 1..keys
BY KMSAssumption DEF loadRSAPrivateKey, Inv, ServiceOK, Keys

LEMMA LocalRunType ==
    ASSUME Inv, Inv', SInv, Of("localkms"), NEW t \in Threads, LocalRun(t)
    PROVE  SInv'
<1> DEFINE c == call[t]
           k == loadRSAPrivateKey
           o == PackMessageOptions(c.opts)
<1>1. /\ CallType(c, keys) /\ c.step = "run" /\ UNCHANGED <<program, service, cache>>
      /\ c.op \in {"public", "sign", "verify"} /\ c.op \in Ops
  BY DEF LocalRun, At, SInv, Inv, CallOK, CallType, Ops
<1>2. UNCHANGED program /\ keys' = keys /\ UNCHANGED rotated /\ UNCHANGED cache /\ keys <= keys'
  BY <1>1 DEF service, Inv, ServiceOK
<1>3. CASE LocalPanics(c)
  <2>1. invokePlugin(Panicked) = Error
    BY DEF invokePlugin, Panicked
  <2> QED BY <1>1, <1>3, <2>1, ErrorStep DEF LocalRun, PluginReturns, At
<1>4. CASE ~LocalPanics(c)
  <2>1. PluginReturns(t, Dispatch(LocalAnswer(c)))
    BY <1>4 DEF LocalRun
  <2>2. CallType(Done(c, Error), keys)
    BY <1>1, ErrorType
  <2>3. CASE k = Error
    <3>1. LocalAnswer(c) = Error
      BY <2>3 DEF LocalAnswer
    <3> QED BY <1>1, <1>2, <2>1, <2>2, <3>1, ReturnsType
  <2>4. CASE k # Error /\ c.op = "public"
    <3>1. LocalAnswer(c) = k /\ k \in 1..keys
      BY <2>4, LocalKey DEF LocalAnswer
    <3>2. k # None
      BY <3>1, KMSAssumption
    <3>3. CallType(Done(c, k), keys)
      BY <1>1, <2>4, <3>1, <3>2, DoneType
    <3> QED BY <1>1, <1>2, <2>1, <3>1, <3>3, ReturnsType
  <2>5. CASE k # Error /\ c.op = "sign"
    <3>1. LocalAnswer(c) \in {Sig(LocalSignature(k, o), FALSE), Error}
      BY <2>5 DEF LocalAnswer
    <3>2. k \in 1..keys
      BY <2>5, LocalKey
    <3>3. c.opts \in CallOptions[ref.scheme]
      BY <1>1, <2>5, KMSAssumption DEF CallType
    <3>4. MadeBy(k, LocalSignature(k, o), c.opts)
      BY DEF MadeBy, Of
    <3>5. CallType(Done(c, Sig(LocalSignature(k, o), FALSE)), keys)
      BY <2>5, <3>2, <3>3, <3>4, SignedType
    <3> QED BY <1>1, <1>2, <2>1, <2>2, <3>1, <3>5, ReturnsType
  <2>6. CASE k # Error /\ c.op = "verify"
    <3>1. LocalAnswer(c) \in {Accepted, Error}
      BY <2>6 DEF LocalAnswer
    <3>2. Accepted # None
      BY KMSAssumption
    <3>3. CallType(Done(c, Accepted), keys)
      BY <1>1, <2>6, <3>2, DoneType
    <3> QED BY <1>1, <1>2, <2>1, <2>2, <3>1, <3>3, ReturnsType
  <2> QED BY <1>1, <2>3, <2>4, <2>5, <2>6
<1> QED BY <1>3, <1>4

LEMMA PluginType ==
    ASSUME Inv, Inv', SInv, NEW t \in Threads, PluginNext(t)
    PROVE  SInv'
<1> DEFINE c == call[t]
<1>1. Of("localkms") /\ CallType(c, keys) /\ ~Of("awskms") /\ ~Of("azurekms") /\ keys \in Nat
  BY DEF PluginNext, SInv, Of, Inv, ServiceOK
<1>2. {"run", "stat", "load", "open", "write"} \subseteq Steps \ {"done"}
  BY DEF Steps, Requests
<1>3. CASE PluginStart(t)
  <2>1. UNCHANGED <<program, service, cache>>
    BY <1>3 DEF PluginStart
  <2>2. CASE \E o \in CallOptions["localkms"] : Set(t, NewCall("sign", "run", o, None))
    BY <1>1, <1>2, <2>1, <2>2, StartType DEF Ops, Of
  <2>3. CASE \E o \in CallOptions["localkms"], s \in SignaturesAround : Set(t, NewCall("verify", "run", o, s))
    BY <1>2, <2>1, <2>3, StartType DEF Ops
  <2>4. CASE Set(t, NewCall("public", "run", NoCallOptions, None))
    BY <1>2, <2>1, <2>4, StartType DEF Ops
  <2>5. CASE Set(t, NewCall("create", "stat", NoCallOptions, None))
    BY <1>2, <2>1, <2>5, StartType DEF Ops
  <2> QED BY <1>3, <2>2, <2>3, <2>4, <2>5 DEF PluginStart
<1>4. CASE PluginKilled(t)
  <2>1. invokePlugin(Killed) = Error
    BY DEF invokePlugin, Killed
  <2>2. ~At(t, {"done"})
    BY <1>4 DEF PluginKilled, At, Requests
  <2> QED BY <1>4, <2>1, <2>2, ErrorStep DEF PluginKilled, PluginReturns
<1>5. CASE LocalStat(t)
  <2>1. c.step = "stat" /\ UNCHANGED <<program, service, cache>>
    BY <1>5 DEF LocalStat, At
  <2>2. CallType(To(c, "open"), keys) /\ CallType(To(c, "load"), keys)
    BY <1>1, <1>2, <2>1, ToType
  <2> QED BY <1>5, <2>1, <2>2, QuietType DEF LocalStat
<1>6. CASE LocalLoad(t)
  <2>1. /\ c.op = "create" /\ c.op \in Ops /\ UNCHANGED program /\ keys' = keys /\ UNCHANGED rotated
        /\ UNCHANGED cache /\ keys <= keys' /\ PluginReturns(t, Dispatch(loadRSAPrivateKey))
    <3>1. c.op = "create"
      BY <1>6 DEF LocalLoad, At, Inv, CallOK, Creating
    <3>2. UNCHANGED <<program, service, cache>> /\ PluginReturns(t, Dispatch(loadRSAPrivateKey))
      BY <1>6 DEF LocalLoad
    <3>3. UNCHANGED program /\ keys' = keys /\ UNCHANGED rotated /\ UNCHANGED cache /\ keys <= keys'
      BY <1>1, <3>2 DEF service
    <3> QED BY <3>1, <3>2, <3>3 DEF Ops
  <2>2. loadRSAPrivateKey \in (1..keys) \cup {Error} /\ loadRSAPrivateKey # None
    BY LocalKey, KMSAssumption
  <2>3. CallType(Done(c, loadRSAPrivateKey), keys)
    BY <2>1, <2>2, DoneType
  <2> QED BY <2>1, <2>3, ReturnsType
<1>7. CASE LocalOpenFails(t)
  <2>1. c.op \in Ops /\ ~At(t, {"done"})
    BY <1>1, <1>7 DEF LocalOpenFails, At, CallType
  <2>2. invokePlugin(Dispatch(Error)) = Error
    BY DEF invokePlugin, Dispatch
  <2> QED BY <1>7, <2>1, <2>2, ErrorStep DEF LocalOpenFails, PluginReturns
<1>8. CASE LocalOpen(t)
  <2>1. /\ c.step = "open" /\ Set(t, To(c, "write")) /\ UNCHANGED program /\ keys' = keys
        /\ UNCHANGED rotated /\ UNCHANGED cache
    BY <1>8 DEF LocalOpen, At
  <2>2. CallType(To(c, "write"), keys)
    BY <1>1, <1>2, <2>1, ToType
  <2> QED BY <1>1, <2>1, <2>2, GrowType
<1>9. CASE LocalWrite(t)
  <2>1. /\ c.op = "create" /\ c.op \in Ops /\ UNCHANGED program /\ keys' = keys + 1 /\ UNCHANGED rotated
        /\ UNCHANGED cache
        /\ Set(t, Idle) \/ PluginReturns(t, Dispatch(keys + 1))
    BY <1>1, <1>9 DEF LocalWrite, At, Inv, CallOK, Creating, Ops, NameNew
  <2>2. keys + 1 \in 1..keys' /\ keys <= keys' /\ keys + 1 # None
    BY <1>1, <2>1, KMSAssumption
  <2>3. CallType(Done(c, keys + 1), keys')
    BY <2>1, <2>2, DoneType
  <2>4. CASE Set(t, Idle)
    BY <2>1, <2>2, <2>4, IdleType, GrowType
  <2>5. CASE PluginReturns(t, Dispatch(keys + 1))
    BY <2>1, <2>2, <2>3, <2>5, ReturnsType
  <2> QED BY <2>1, <2>4, <2>5
<1> QED BY <1>1, <1>3, <1>4, <1>5, <1>6, <1>7, <1>8, <1>9, LocalRunType DEF PluginNext

-----------------------------------------------------------------------------
(* What follows                                                            *)

\* Only those who administer a key of Vault set the minima.
LEMMA MinimumKept ==
    ASSUME Next, ~SetMinimum
    PROVE  oldest' = oldest
<1>1. CASE Rotate
  BY <1>1 DEF Rotate
<1>2. ASSUME NEW c \in Clients, Expire(c) \/ Kill(c) PROVE oldest' = oldest
  BY <1>2 DEF Expire, Kill, service
<1>3. ASSUME NEW t \in Threads, Fetch(t) \/ NotFound(t) \/ Fail(t) PROVE oldest' = oldest
  BY <1>3 DEF Fetch, NotFound, Fail, service
<1>4. ASSUME NEW t \in Threads, AWSNext(t) PROVE oldest' = oldest
  BY <1>3, <1>4 DEF AWSNext, AWSStart, AWSHit, AWSFetchPublicKey, AWSFetchKeyMetadata, AWSStore, AWSNotFound,
                    AWSRequest, AWSCreateKey, AWSCreateAlias, AWSAliasExists, service
<1>5. ASSUME NEW t \in Threads, AzureNext(t) PROVE oldest' = oldest
  BY <1>3, <1>5 DEF AzureNext, AzureStart, AzureHit, AzureStore, AzureRequest, AzureGetKey, AzureCreateKey,
                    AzureQuota, service
<1>6. ASSUME NEW t \in Threads, VaultNext(t) PROVE oldest' = oldest
  BY <1>3, <1>6 DEF VaultNext, VaultStart, VaultHit, VaultStore, VaultSign, VaultVerify, VaultCreateKey, service
<1>7. ASSUME NEW t \in Threads, PluginNext(t) PROVE oldest' = oldest
  BY <1>7 DEF PluginNext, PluginStart, PluginKilled, LocalRun, LocalStat, LocalLoad, LocalOpen, LocalOpenFails,
              LocalWrite, service
<1> QED BY <1>1, <1>2, <1>4, <1>5, <1>6, <1>7 DEF Next

LEMMA MinimumInvariance == Spec => []MinimumOK
<1>1. Init => MinimumOK
  BY KMSAssumption DEF Init, MinimumOK, Keys
<1>2. Inv /\ MinimumOK /\ [Next]_vars => MinimumOK'
  <2> SUFFICES ASSUME Inv, MinimumOK, [Next]_vars PROVE MinimumOK'
    OBVIOUS
  <2>1. CASE SetMinimum
    <3>1. PICK v \in 1..keys : \E s \in v..keys : oldest' = [sign |-> s, verify |-> v]
      BY <2>1 DEF SetMinimum
    <3>2. PICK s \in v..keys : oldest' = [sign |-> s, verify |-> v]
      BY <3>1
    <3>3. keys \in Nat /\ 1..keys \subseteq Keys
      BY NamedKnown DEF Inv, ServiceOK
    <3>4. s \in Keys /\ v \in Keys /\ v <= s
      BY <3>3
    <3> QED BY <3>2, <3>4 DEF MinimumOK
  <2>2. CASE oldest' = oldest
    BY <2>2 DEF MinimumOK
  <2>3. SetMinimum \/ oldest' = oldest
    BY MinimumKept DEF vars, service
  <2> QED BY <2>1, <2>2, <2>3
<1> QED BY <1>1, <1>2, Invariance, PTL DEF Spec

\* The invariant that the theorems below follow from.
LEMMA SignedInvariance == Spec => [](Inv /\ SInv /\ MinimumOK)
<1>1. Init => Inv /\ SInv
  <2> SUFFICES ASSUME Init PROVE Inv /\ SInv
    OBVIOUS
  <2>1. Inv
    BY InvInit
  <2>2. /\ Get(ref) # Error /\ client \in Sharings /\ rotated = 0 /\ keys \in Nat
        /\ cache = [c \in Clients |-> None] /\ call = [t \in Threads |-> Idle]
    BY DEF Init
  <2>3. \A t \in Threads : CallType(call[t], keys)
    BY <2>2, IdleType
  <2> QED BY <2>1, <2>2, <2>3 DEF SInv, CacheTyped
<1>2. Inv /\ SInv /\ MinimumOK /\ [Next]_vars => (Inv /\ SInv)'
  <2> SUFFICES ASSUME Inv, SInv, MinimumOK, [Next]_vars PROVE Inv' /\ SInv'
    OBVIOUS
  <2>1. Inv'
    BY InvStep
  <2>2. CASE Next
    BY <2>1, <2>2, RotateType, SetMinimumType, ExpireType, KillType, AWSType, AzureType, VaultType, PluginType DEF Next
  <2>3. CASE UNCHANGED vars
    <3>1. UNCHANGED program /\ keys' = keys /\ rotated' = rotated /\ cache' = cache /\ call' = call
      BY <2>3 DEF vars, service
    <3>2. keys <= keys' /\ rotated' \in 0..keys' /\ CacheTyped'
      BY <3>1 DEF SInv, CacheTyped, Inv, ServiceOK
    <3> QED BY <2>1, <3>1, <3>2, Frame
  <2> QED BY <2>1, <2>2, <2>3
<1> QED BY <1>1, <1>2, MinimumInvariance, PTL DEF Spec

\* Type correctness: caches, calls and answers are of keys that the service made, and a
\* call has an answer when it has returned, not before.
THEOREM TypeCorrect == Spec => []TypeOK
<1>1. Inv /\ SInv /\ MinimumOK => TypeOK
  <2> SUFFICES ASSUME Inv, SInv, MinimumOK PROVE TypeOK
    OBVIOUS
  <2>1. keys \in 0..MaxKey /\ current \in 1..keys \cup {None, Torn} /\ named \subseteq 1..keys
    BY KMSAssumption DEF Inv, ServiceOK
  <2>2. \A c \in Clients : cache[c] # None => cache[c].pub \in 1..keys /\ cache[c].meta \in 1..keys
    BY DEF SInv, CacheTyped
  <2>3. ASSUME NEW t \in Threads PROVE CallType(call[t], keys) /\ DOMAIN call[t] = DOMAIN Idle
    <3>1. CallType(call[t], keys) /\ Shape(call[t])
      BY DEF SInv, CallType
    <3>2. DOMAIN call[t] = {"op", "step", "opts", "sig", "load", "digest", "entry", "made", "result"}
      BY <3>1 DEF Shape
    <3>3. DOMAIN Idle = {"op", "step", "opts", "sig", "load", "digest", "entry", "made", "result"}
      BY DEF Idle
    <3> QED BY <3>1, <3>2, <3>3
  <2>4. \A t \in Threads :
        /\ DOMAIN call[t] = DOMAIN Idle
        /\ call[t].op \in {"none", "sign", "verify", "public", "create"}
        /\ call[t].step \in {"done"} \cup Lookups \cup Requests
        /\ call[t].load # None =>
            call[t].load.pub \in 1..keys /\ call[t].load.meta \in 1..keys \cup {None}
        /\ call[t].entry # None => call[t].entry.pub \in 1..keys
        /\ call[t].made \in 1..keys \cup {None}
        /\ call[t].result # None <=> call[t].step = "done" /\ call[t].op # "none"
        /\ call[t].op \in {"public", "create"} => call[t].result \in 1..keys \cup {None, Error}
        /\ call[t].op = "verify" => call[t].result \in {None, Error, Accepted, Rejected}
    BY <2>3 DEF CallType, Ops, Steps
  <2> QED BY <2>1, <2>2, <2>4 DEF SInv, MinimumOK, TypeOK
<1> QED BY <1>1, SignedInvariance, PTL

-----------------------------------------------------------------------------
(* Verification                                                            *)

VerifyHashes(scheme) == IF scheme = "ecdsa" THEN ecdsaSupportedVerifyHashFuncs ELSE rsaSupportedVerifyHashFuncs

\* A verifier takes what its key made with the hash function and the digest of the options.
LEMMA VerifierTakes ==
    ASSUME NEW scheme \in RemoteSchemes, NEW k, NEW h, NEW o, NEW s,
           Digestible(Message, h, VerifyHashes(scheme), o),
           s = [scheme |-> scheme, key |-> k, hash |-> IF scheme = "ecdsa" THEN None ELSE HashFunc(h, o),
                digest |-> Digest(Message, h, o)]
    PROVE  VerifySignature(Loaded(scheme, k, h, None), s, Message, o)
<1> DEFINE v == Loaded(scheme, k, h, None)
<1>1. v.scheme = scheme /\ v.key = k /\ v.hash = h
  BY DEF Loaded
<1> HIDE DEF v
<1>2. CASE scheme = "ecdsa"
  <2>1. ECDSAVerifies(v, s, Message, o)
    BY <1>1, <1>2 DEF ECDSAVerifies, ECDSASignature, Signature, VerifyHashes
  <2> QED BY <1>1, <1>2, <2>1 DEF VerifySignature, v
<1>3. CASE scheme = "pkcs1v15"
  <2>1. PKCS1v15Verifies(v, s, Message, o)
    BY <1>1, <1>3 DEF PKCS1v15Verifies, PKCS1v15Signature, Signature, VerifyHashes
  <2> QED BY <1>1, <1>3, <2>1 DEF VerifySignature, v
<1>4. CASE scheme = "pss"
  <2>1. PSSVerifies(v, s, Message, o)
    BY <1>1, <1>4 DEF PSSVerifies, PSSSignature, Signature, VerifyHashes
  <2> QED BY <1>1, <1>4, <2>1 DEF VerifySignature, v
<1> QED BY <1>2, <1>3, <1>4 DEF RemoteSchemes

\* When a key signs a digest, the hash function of the options is that of the key.
LEMMA HashOfKey ==
    ASSUME NEW k, Alg(k).hash \in Hashes, NEW o, NEW supported \in SUBSET Hashes,
           Digestible(Message, Alg(k).hash, supported, o),
           Size[DigestFor(k, o).hash] = Size[Alg(k).hash]
    PROVE  HashFunc(Alg(k).hash, o) = Alg(k).hash
<1> DEFINE hf == HashFunc(Alg(k).hash, o)
<1>1. hf \in Hashes /\ hf # NoHash
  BY DEF Digestible, Hashes, NoHash
<1>2. Size[DigestFor(k, o).hash] = Size[hf]
  <2>1. CASE o.digest = None
    BY <2>1 DEF DigestFor, Digest
  <2>2. CASE o.digest # None
    BY <1>1, <2>2 DEF DigestFor, Digest, Digestible
  <2> QED BY <2>1, <2>2
<1> HIDE DEF hf
<1>3. hf = Alg(k).hash
  BY <1>1, <1>2, SizeInjective
<1> QED BY <1>3 DEF hf

\* A signature of a key, made for options that its verifier takes.
LEMMA OneKeyVerifies ==
    ASSUME Inv, SInv, NEW k \in 1..keys, NEW s, NEW o \in CallOptions[ref.scheme], MadeBy(k, s, o),
           s.scheme # "asn1", Verifiable(k, o)
    PROVE  VerifySignature(VerifierOfKey(k), s, Message, o)
<1> DEFINE a == Alg(k)
           h == IF ref.scheme \in {"hashivault", "localkms"} THEN HashFunction ELSE a.hash
<1>1. a.scheme \in RemoteSchemes /\ a.hash \in Hashes /\ (Of("localkms") => a.scheme = "pkcs1v15")
  BY RefFacts
<1>2. VerifierOfKey(k) = Loaded(a.scheme, k, h, None)
  BY DEF VerifierOfKey
<1>3. Digestible(Message, h, VerifyHashes(a.scheme), o)
  <2>1. VerifierOfKey(k).hash = h
    BY <1>2 DEF Loaded
  <2> HIDE DEF h
  <2> QED BY <2>1 DEF Verifiable, VerifyHashes
<1>4. s = [scheme |-> a.scheme, key |-> k, hash |-> IF a.scheme = "ecdsa" THEN None ELSE HashFunc(h, o),
           digest |-> Digest(Message, h, o)]
  <2>1. CASE Of("awskms") \/ Of("azurekms")
    <3>1. h = a.hash /\ Size[DigestFor(k, o).hash] = Size[a.hash]
      BY <2>1 DEF MadeBy, Of
    <3>2. VerifyHashes(a.scheme) \in SUBSET Hashes
      BY DEF VerifyHashes, ecdsaSupportedVerifyHashFuncs, ecdsaSupportedHashFuncs,
             rsaSupportedVerifyHashFuncs, rsaSupportedHashFuncs, Hashes
    <3>3. HashFunc(a.hash, o) = a.hash
      BY <1>1, <1>3, <3>1, <3>2, HashOfKey
    <3>4. CASE Of("awskms")
      <4>1. s = [scheme |-> a.scheme, key |-> k, hash |-> IF a.scheme = "ecdsa" THEN None ELSE a.hash,
                 digest |-> DigestFor(k, o)]
        BY <3>4, RemoteFields DEF MadeBy
      <4> QED BY <3>1, <3>3, <4>1 DEF DigestFor
    <3>5. CASE Of("azurekms")
      <4>1. s = [scheme |-> IF a.scheme = "ecdsa" THEN "ecdsa" ELSE "asn1", key |-> k,
                 hash |-> IF a.scheme = "ecdsa" THEN None ELSE a.hash, digest |-> DigestFor(k, o)]
        BY <3>5, AzureFields DEF MadeBy
      <4>2. a.scheme = "ecdsa"
        BY <4>1
      <4> QED BY <3>1, <4>1, <4>2 DEF DigestFor
    <3> QED BY <2>1, <3>4, <3>5
  <2>2. CASE Of("hashivault")
    <3>1. k \in Keys
      BY RefFacts
    <3>2. s = [scheme |-> a.scheme, key |-> k,
               hash |-> IF a.scheme = "ecdsa" THEN None ELSE HashFunc(HashFunction, o),
               digest |-> Digest(Message, HashFunction, o)]
      BY <2>2, <3>1, VaultFields DEF MadeBy
    <3>3. h = HashFunction
      BY <2>2 DEF Of
    <3> QED BY <3>2, <3>3
  <2>3. CASE Of("localkms")
    <3>1. s = [scheme |-> "pkcs1v15", key |-> k, hash |-> HashFunc(HashFunction, o),
               digest |-> Digest(Message, HashFunction, o)]
      BY <2>3, LocalFields DEF MadeBy
    <3>2. h = HashFunction
      BY <2>3 DEF Of
    <3> QED BY <1>1, <2>3, <3>1, <3>2
  <2> QED BY <2>1, <2>2, <2>3 DEF MadeBy, Of
<1> HIDE DEF h
<1> QED BY <1>1, <1>2, <1>3, <1>4, VerifierTakes

\* What is known of a signature that was returned.
LEMMA SignedBy ==
    ASSUME Inv, SInv, NEW t \in Threads, Signed(t)
    PROVE  /\ call[t].opts \in CallOptions[ref.scheme]
           /\ call[t].result.value.key \in 1..keys
           /\ MadeBy(call[t].result.value.key, call[t].result.value, call[t].opts)
<1> DEFINE c == call[t]
<1>1. CallType(c, keys) /\ c.op = "sign" /\ c.result \notin {None, Error}
  BY DEF SInv, Signed
<1>2. c.opts \in CallOptions[ref.scheme] /\ \E k \in 1..keys : MadeBy(k, c.result.value, c.opts)
  BY <1>1 DEF CallType
<1>3. PICK k \in 1..keys : MadeBy(k, c.result.value, c.opts)
  BY <1>2
<1>4. k \in Keys
  BY RefFacts
<1>5. c.result.value.key = k
  BY <1>2, <1>3, <1>4, MadeFields
<1> QED BY <1>2, <1>3, <1>5

\* A signature is one key's, and the verifier of that key takes it, although SignMessage
\* asks for the key twice and then names it in a request.
THEOREM OneKeyTheorem == Spec => []SignatureOfOneKey
<1>1. Inv /\ SInv => SignatureOfOneKey
  BY SignedBy, OneKeyVerifies DEF SignatureOfOneKey, VerifiesWithKey
<1> QED BY <1>1, SignedInvariance, PTL

\* The client's own VerifySignature takes the signature that SignMessage returned: as long as
\* the reference names its key, and in Vault, for ECDSA keys, as long as the version that was
\* named is not below the minimum, whatever is rotated, set, killed or lost in between.
THEOREM RoundTripTheorem == Spec => []RoundTrip
<1>1. ASSUME Inv, SInv, MinimumOK, NEW t \in Threads, Signed(t), ~call[t].result.short
      PROVE  LET sig == call[t].result
                 k   == sig.value.key
                 o   == call[t].opts
                 Covered ==
                     CASE ref.scheme = "hashivault" ->
                             VersionNamed(o) /\ k >= oldest.verify /\ Alg(k).scheme = "ecdsa"
                       [] ref.scheme = "awskms" -> k = Named /\ Verifiable(k, o)
                       [] OTHER -> k = Named
             IN  Covered => Verifies(sig, o)
  <2> DEFINE sig == call[t].result
             k   == sig.value.key
             o   == call[t].opts
             Covered ==
                 CASE ref.scheme = "hashivault" ->
                         VersionNamed(o) /\ k >= oldest.verify /\ Alg(k).scheme = "ecdsa"
                   [] ref.scheme = "awskms" -> k = Named /\ Verifiable(k, o)
                   [] OTHER -> k = Named
  <2>1. o \in CallOptions[ref.scheme] /\ k \in 1..keys /\ MadeBy(k, sig.value, o)
    BY <1>1, SignedBy
  <2>2. keys \in Nat /\ None \notin Int /\ Torn \notin Int
    BY <1>1, KMSAssumption DEF Inv, ServiceOK
  <2>3. ASSUME Of("hashivault"), VersionNamed(o), k >= oldest.verify, Alg(k).scheme = "ecdsa"
        PROVE  Verifies(sig, o)
    <3>1. k = SignVersion(o) /\ sig.value = VaultSignature(k, "pkcs1v15", o)
      BY <2>1, <2>3 DEF MadeBy, VersionNamed
    <3>2. k \in VerifyingVersions
      BY <1>1, <2>1, <2>2, <2>3 DEF VerifyingVersions, MinimumOK, Keys
    <3>3. VaultSignature(k, "pss", o) = VaultSignature(k, "pkcs1v15", o)
      BY <2>3 DEF VaultSignature
    <3>4. VaultVerifies(k, sig, o)
      BY <3>1, <3>2, <3>3 DEF VaultVerifies
    <3>5. VerifyVersion(o) = SignVersion(o)
      BY <2>3 DEF VersionNamed, VerifyVersion, SignVersion
    <3> QED BY <2>3, <3>1, <3>4, <3>5 DEF Verifies, Of
  <2>4. ASSUME Of("awskms"), k = Named, Verifiable(Named, o) PROVE Verifies(sig, o)
    <3>1. AWSVerifier(FreshEntry) = Loaded(Alg(k).scheme, k, Alg(k).hash, None)
      BY <2>4 DEF AWSVerifier, FreshEntry
    <3>2. VerifierOfKey(k) = Loaded(Alg(k).scheme, k, Alg(k).hash, None)
      BY <2>4 DEF VerifierOfKey, Of
    <3>3. Alg(k).scheme \in RemoteSchemes /\ Alg(k).hash \in Hashes /\ k \in Keys
      BY <1>1, <2>1, RefFacts
    <3>4. Loaded(Alg(k).scheme, k, Alg(k).hash, None) # Error
      BY <3>3, SymbolsAssumption DEF Loaded
    <3>5. sig.value.scheme # "asn1"
      <4>1. sig.value.scheme = Alg(k).scheme
        BY <2>1, <2>4, RemoteFields DEF MadeBy
      <4> QED BY <3>3, <4>1 DEF RemoteSchemes
    <3>6. VerifySignature(VerifierOfKey(k), sig.value, Message, o)
      BY <1>1, <2>1, <2>4, <3>5, OneKeyVerifies
    <3>7. AWSVerifies(FreshEntry, sig, o)
      BY <3>1, <3>2, <3>4, <3>6 DEF AWSVerifies
    <3> QED BY <2>4, <3>7 DEF Verifies, Of
  <2>5. ASSUME Of("azurekms"), k = Named PROVE Verifies(sig, o)
    <3>1. sig.value = AzureSignature(Named, DigestFor(Named, o))
      BY <2>1, <2>5 DEF MadeBy
    <3>2. AzureVerifies(Named, sig, DigestFor(Named, o))
      BY <1>1, <3>1 DEF AzureVerifies
    <3> QED BY <2>5, <3>2 DEF Verifies, DigestFor, Of
  <2>6. ASSUME Of("localkms"), k = Named PROVE Verifies(sig, o)
    <3>1. ~Pinned
      BY <1>1, <2>6, KMSAssumption DEF Inv, Pinned, Of
    <3>2. Named = current
      BY <2>1, <2>2, <2>6, <3>1 DEF Named
    <3>3. sig.value = LocalSignature(current, PackMessageOptions(o))
      BY <2>1, <2>6, <3>2 DEF MadeBy
    <3> QED BY <2>6, <3>3 DEF Verifies, Of
  <2>7. Covered => Verifies(sig, o)
    <3>1. CASE Of("hashivault")
      BY <2>3, <3>1 DEF Of
    <3>2. CASE Of("awskms")
      BY <2>4, <3>2 DEF Of
    <3>3. CASE Of("azurekms")
      BY <2>5, <3>3 DEF Of
    <3>4. CASE Of("localkms")
      BY <2>6, <3>4 DEF Of
    <3> QED BY <2>1, <3>1, <3>2, <3>3, <3>4 DEF MadeBy, Of
  <2> QED BY <2>7
<1>2. Inv /\ SInv /\ MinimumOK => RoundTrip
  BY <1>1 DEF RoundTrip
<1> QED BY <1>2, SignedInvariance, PTL
=============================================================================
