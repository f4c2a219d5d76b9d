--------------------------------- MODULE KMS ---------------------------------
(***************************************************************************)
(* Clients of a key management service: what those of AWS, Azure, Vault    *)
(* and the plugins of pkg/signature/kms have in common.  Each goroutine    *)
(* calls a SignerVerifier got from kms.Get for one reference; goroutines   *)
(* of one process share it, and with it the cache of the key.              *)
(*                                                                         *)
(* A key, or a version of a key where the service keeps versions, is a     *)
(* number and stands for a key pair.  The services and the ttlcache        *)
(* library are external.  An entry of the cache may expire at any time,    *)
(* any request may fail, or take effect and have its answer lost, and a    *)
(* process may die between any two steps.                                  *)
(***************************************************************************)
EXTENDS AlgorithmRegistry

CONSTANTS
    Threads,      \* goroutines
    Clients,      \* SignerVerifiers, each of a process of its own
    Sharings,     \* goroutine -> the client it uses: the possible programs
    References,   \* [scheme, valid, pin]: pin is the key or version named, None for the latest
    Providers,    \* schemes with an imported provider
    Plugins,      \* schemes with a plugin's executable in the PATH
    Algorithms,   \* scheme -> key -> the signing algorithm of the key
    MaxKey,       \* bound: keys the service makes, its quota
    HashFunction, \* given to kms.Get
    KeyPrefix,    \* the version in VAULT_KEY_PREFIX, None when it is not set
    Message,
    CallOptions,  \* scheme -> options of a call
    Faults,       \* whether requests fail and processes die
    Torn,         \* a key's file that is not yet written
    Forged,       \* a signature no key made
    Accepted,     \* answers of VerifySignature
    Rejected

Keys == 1..MaxKey

ASSUME KMSAssumption ==
    /\ MaxKey \in Nat \ {0} /\ Faults \in BOOLEAN /\ HashFunction \in Hashes
    /\ Threads # {}
    /\ Sharings \subseteq [Threads -> Clients]
    /\ \A r \in References : r.pin \in Keys \cup {None} /\ (r.scheme = "localkms" => r.pin = None)
    /\ {None, Error, Torn, Forged, Accepted, Rejected} \cap Int = {}
    /\ None \notin {Error, Torn, Forged, Accepted, Rejected}
    /\ Error \notin {Torn, Forged, Accepted, Rejected}

VARIABLES
    ref,     \* the reference that every client was got for
    client,  \* goroutine -> its client
    keys,    \* how many keys the service has made
    current, \* the key that an unpinned reference names; None, or Torn
    named,   \* the keys it has named so far
    rotated, \* how often it was made to name another
    oldest,  \* in Vault, the oldest version that signs, and the oldest that verifies
    cache,   \* client -> its entry, [pub, meta], or None
    call     \* goroutine -> the call it is in, or was in

program == <<ref, client>>
service == <<keys, current, named, rotated, oldest>>
vars    == <<program, service, cache, call>>

\* kms.Get: a registered provider takes every reference of its scheme, a plugin
\* the others, and without one there is no provider (ProviderNotFoundError).
Get(r) ==
    CASE r.scheme \in Providers -> IF r.valid THEN r ELSE Error
      [] r.scheme \notin Providers /\ r.scheme \in Plugins -> r
      [] OTHER -> Error

\* The kinds of keys that are modelled.
RemoteSchemes == {"ecdsa", "pss", "pkcs1v15"}

\* localkms makes RSA keys.  An RSA key of localkms or Vault is written as one of PKCS #1
\* v1.5, which is what a verifier loaded with it takes: the service itself leaves the
\* padding to each request.  A digest that is given is of a known hash function.
ASSUME ServicesAssumption ==
    \A r \in References : Get(r) # Error =>
        /\ \A k \in Keys :
            /\ Algorithms[r.scheme][k].scheme \in RemoteSchemes
            /\ Algorithms[r.scheme][k].hash \in Hashes
            /\ r.scheme = "localkms" => Algorithms[r.scheme][k].scheme = "pkcs1v15"
            /\ r.scheme = "hashivault" => Algorithms[r.scheme][k].scheme # "pss"
        /\ \A o \in CallOptions[r.scheme] :
            /\ o.digest # None => o.digest.hash \in Hashes
            /\ o.hash \in Hashes \cup {NoHash, None} /\ o.version \in Nat \cup {None}

\* None is neither a hash function nor a signature, Error is not a verifier.
ASSUME SymbolsAssumption ==
    /\ None \notin Hashes \cup {NoHash}
    /\ \A r \in References : Get(r) # Error =>
        \A d \in {o.digest : o \in CallOptions[r.scheme]} \cup [hash : Hashes \cup {NoHash}, msg : {Message}] :
            None \notin [value : [scheme : RemoteSchemes \cup {"asn1"}, key : Keys,
                                 hash : Hashes \cup {NoHash, None}, digest : {d}],
                         short : BOOLEAN]
    /\ Error \notin [scheme : RemoteSchemes, key : Keys, hash : Hashes, pss : {None}]

Alg(k) == Algorithms[ref.scheme][k]

\* A version pins the lookups of a client, but not in Vault.
Pinned == ref.pin # None /\ ref.scheme # "hashivault"

\* The key that a lookup is about.
Named ==
    IF Pinned THEN (IF ref.pin <= keys THEN ref.pin ELSE None)
    ELSE IF current = Torn THEN None ELSE current

NoCallOptions == [digest |-> None, hash |-> None, version |-> None, remote |-> FALSE]

\* Nothing is known of a call before it starts.
Idle == [op     |-> "none",
         step   |-> "done",        \* what it does next
         opts   |-> NoCallOptions,
         sig    |-> None,          \* the signature to verify
         load   |-> None,          \* an entry read from the service, not yet in the cache
         digest |-> None,
         entry  |-> None,          \* the entry it found in its last lookup
         made   |-> None,          \* the key it made, which has no alias yet
         result |-> None]

Lookups == {"exists", "created", "hash", "key"}
Requests == {"probe", "make", "alias", "request", "stat", "load", "open", "write", "run"}

TypeOK ==
    /\ Get(ref) # Error /\ client \in Sharings
    /\ keys \in 0..MaxKey /\ current \in 1..keys \cup {None, Torn}
    /\ named \subseteq 1..keys /\ rotated \in 0..keys
    /\ oldest \in [sign : Keys, verify : Keys] /\ oldest.verify <= oldest.sign
    /\ \A c \in Clients : cache[c] # None =>
        cache[c].pub \in 1..keys /\ cache[c].meta \in 1..keys
    /\ \A t \in Threads :
        /\ DOMAIN call[t] = DOMAIN Idle
        /\ call[t].op \in {"none", "sign", "verify", "public", "create"}
        /\ call[t].step \in {"done"} \cup Lookups \cup Requests
        /\ call[t].load # None =>
            call[t].load.pub \in 1..keys /\ call[t].load.meta \in 1..keys \cup {None}
        /\ call[t].entry # None => call[t].entry.pub \in 1..keys
        /\ call[t].made \in 1..keys \cup {None}
        /\ call[t].result # None <=> call[t].step = "done" /\ call[t].op # "none"
        /\ call[t].op \in {"public", "create"} => call[t].result \in 1..keys \cup {None, Error}
        /\ call[t].op = "verify" => call[t].result \in {None, Error, Accepted, Rejected}

Init ==
    /\ ref \in {r \in References : Get(r) # Error} /\ client \in Sharings
    /\ keys \in {0, 1}
    /\ current = (IF keys = 0 THEN None ELSE 1) /\ named = 1..keys
    /\ rotated = 0 /\ oldest = [sign |-> 1, verify |-> 1]
    /\ cache = [c \in Clients |-> None]
    /\ call = [t \in Threads |-> Idle]

-----------------------------------------------------------------------------
(* Calls                                                                   *)

Of(scheme) == ref.scheme = scheme

At(t, S) == call[t].step \in S

NewCall(op, step, opts, sig) ==
    [Idle EXCEPT !.op = op, !.step = step, !.opts = opts, !.sig = sig]

To(c, step) == [c EXCEPT !.step = step, !.load = None]

\* What is left of a call that returned r.
Done(c, r) ==
    [Idle EXCEPT !.op = c.op, !.result = r,
                 !.opts = IF c.op = "sign" /\ r # Error THEN c.opts ELSE @]

Set(t, c) == call' = [call EXCEPT ![t] = c]

\* A signature as it is handed about: short tells that an integer of it has a leading zero.
Sig(value, short) == [value |-> value, short |-> short]

\* What a caller may give to VerifySignature.
SignaturesAround ==
    {Sig(Forged, FALSE)} \cup
    {call[t].result : t \in {u \in Threads :
        call[u].op = "sign" /\ At(u, {"done"}) /\ call[u].result \notin {None, Error}}}

\* The signature a service makes with a key, its algorithm a and a digest.
RemoteSignature(k, a, digest) ==
    Signature(a.scheme, k, IF a.scheme = "ecdsa" THEN None ELSE a.hash, digest)

Verdict(accepts) == IF accepts THEN Accepted ELSE Rejected

-----------------------------------------------------------------------------
(* Lookups through the cache of the client                                 *)

Entry(t) == cache[client[t]]

CanHit(t)   == At(t, Lookups) /\ call[t].load = None /\ Entry(t) # None
CanFetch(t) == At(t, Lookups) /\ call[t].load = None /\ Entry(t) = None

\* Variant: the version of the reference is not asked for.
FetchesLatest(t) ==
    /\ CanFetch(t) /\ current # None
    /\ Set(t, [call[t] EXCEPT !.load = [pub |-> current, meta |-> current]])
    /\ UNCHANGED <<program, service, cache>>

\* One request gives all of the entry.
Fetch(t) ==
    /\ CanFetch(t) /\ Named # None
    /\ Set(t, [call[t] EXCEPT !.load = [pub |-> Named, meta |-> Named]])
    /\ UNCHANGED <<program, service, cache>>

CanStore(t) == call[t].load # None /\ call[t].load.meta # None

\* The loader sets the entry, whatever another goroutine has set meanwhile.
StoreEntry(t) == cache' = [cache EXCEPT ![client[t]] = call[t].load]

\* Variant: the error of a lookup is lost.
NotFoundUnnoticed(t) ==
    /\ CanFetch(t) /\ Named = None
    /\ Set(t, Done(call[t], None))
    /\ UNCHANGED <<program, service, cache>>

\* There is no such key; the error is not cached.
NotFound(t) ==
    /\ CanFetch(t) /\ Named = None
    /\ Set(t, Done(call[t], Error))
    /\ UNCHANGED <<program, service, cache>>

\* Any other error of a lookup or a request.
Fail(t) ==
    /\ Faults
    /\ CanFetch(t) \/ At(t, Requests) \/ call[t].load # None
    /\ Set(t, Done(call[t], Error))
    /\ UNCHANGED <<program, service, cache>>

-----------------------------------------------------------------------------
(* The surroundings                                                        *)

\* The entry is 300 seconds old.
Expire(c) ==
    /\ cache[c] # None
    /\ cache' = [cache EXCEPT ![c] = None]
    /\ UNCHANGED <<program, service, call>>

\* The process of a client dies within a call, and is started again; a plugin it runs dies
\* with it (one that goes on is in LocalWrite).
Kill(c) ==
    /\ Faults
    /\ \E t \in Threads : client[t] = c /\ ~At(t, {"done"})
    /\ call' = [t \in Threads |-> IF client[t] = c THEN Idle ELSE call[t]]
    /\ cache' = [cache EXCEPT ![c] = None]
    /\ UNCHANGED <<program, service>>

\* The answer of a request that took effect is lost.
Losses == IF Faults THEN BOOLEAN ELSE {FALSE}

\* The service has a new key, which the reference names from now on.
NameNew ==
    /\ keys < MaxKey
    /\ keys' = keys + 1 /\ current' = keys + 1 /\ named' = named \cup {keys + 1}

Rotate ==
    /\ current \in 1..keys /\ ~Of("localkms")
    /\ NameNew
    /\ rotated' = rotated + 1
    /\ UNCHANGED <<program, oldest, cache, call>>
=============================================================================
