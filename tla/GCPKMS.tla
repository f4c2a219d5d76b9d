------------------------------- MODULE GCPKMS -------------------------------
(***************************************************************************)
(* The GCP key management client, pkg/signature/kms/gcp: one process whose *)
(* goroutines share a SignerVerifier, and with it the cache of the key     *)
(* version to use.  The key's versions are made, enabled and disabled in   *)
(* Cloud KMS by others while calls are under way.                          *)
(*                                                                         *)
(* A version stands for its key pair, a signature for the version that     *)
(* made it.  Cloud KMS and the ttlcache library are external: of the       *)
(* cache, what the options the client sets make of it.                     *)
(***************************************************************************)
EXTENDS Integers, FiniteSetsExt

CONSTANTS
    Threads,    \* goroutines that share the client
    MaxVersion, \* bound: versions the key may get
    Hash,       \* version -> the hash function of its algorithm
    Pins,       \* the versions a reference may name; None when it names none
    TTL,        \* how long an entry of an unpinned client lives
    LoadTime,   \* bound: how long a lookup in Cloud KMS takes
    MaxTime,    \* bound: the clock stops
    Faults,     \* whether requests may fail
    None,
    Forged,     \* a signature no version made
    Error,      \* an operation failed
    Rejected    \* the signature does not verify

Versions == 1..MaxVersion

ASSUME GCPAssumption ==
    /\ MaxVersion \in Nat \ {0} /\ TTL \in Nat \ {0} /\ LoadTime \in Nat /\ MaxTime \in Nat
    /\ DOMAIN Hash = Versions
    /\ Pins \subseteq Versions \cup {None}
    /\ {None, Forged, Error, Rejected} \cap Int = {}
    /\ None \notin {Forged, Error, Rejected}
    /\ Faults \in BOOLEAN

VARIABLES
    now,      \* the clock
    ring,     \* the key ring exists
    made,     \* the versions made so far; the key exists when there is one
    enabled,  \* those in state ENABLED
    last,     \* version -> when it was last the greatest enabled one
    version,  \* g.version
    cache,    \* g.kvCache: None or the version and when the entry expires
    call      \* goroutine -> the operation it is in

kms  == <<ring, made, enabled, last>>
vars == <<now, kms, version, cache, call>>

Lookups == {"hash", "sign", "public", "verify", "retry"}

Steps == {"idle", "ring", "makeRing", "key", "makeKey", "request", "check", "recheck"}
             \cup Lookups

\* Nothing is known of a call before it starts.
Idle == [step   |-> "idle", \* where it is
         load   |-> None,   \* a version read from Cloud KMS and not yet cached
         ckv    |-> None,   \* the version getCKV returned
         at     |-> None,   \* and when
         hf     |-> None,   \* the hash function its digest was made with
         sig    |-> None,   \* the signature it is to verify
         unread |-> TRUE,   \* the caller's readers have not been read to their end
         result |-> None]   \* what it returned

TypeOK ==
    /\ now \in 0..MaxTime
    /\ ring \in BOOLEAN /\ made \in 0..MaxVersion /\ enabled \subseteq 1..made
    /\ last \in [Versions -> 0..MaxTime \cup {None}]
    /\ version \in Pins
    /\ cache # None =>
        cache.version \in Versions /\ cache.expires \in 0..(MaxTime + TTL) \cup {None}
    /\ \A t \in Threads :
        /\ DOMAIN call[t] = DOMAIN Idle
        /\ call[t].step \in Steps
        /\ call[t].load # None =>
            call[t].load.version \in 1..made /\ call[t].load.at \in 0..now
        /\ call[t].ckv \in 1..made \cup {None} /\ call[t].at \in 0..now \cup {None}
        /\ call[t].sig \in 1..made \cup {Forged, None}
        /\ call[t].unread \in BOOLEAN
        /\ call[t].result \in 1..made \cup {None, Error, Rejected}

Init ==
    /\ now = 0
    /\ ring \in BOOLEAN /\ made \in (IF ring THEN {0, 1} ELSE {0}) /\ enabled = 1..made
    /\ last = [v \in Versions |-> IF v \in enabled THEN 0 ELSE None]
    /\ version \in Pins
    /\ cache = None
    /\ call = [t \in Threads |-> Idle]

-----------------------------------------------------------------------------
(* Cloud KMS and the clock                                                 *)

\* The version that keyVersionName picks of an unpinned key.
Latest == IF enabled = {} THEN None ELSE Max(enabled)

\* A lookup takes at most LoadTime.
Tick ==
    /\ now < MaxTime
    /\ \A t \in Threads : call[t].load # None => now < call[t].load.at + LoadTime
    /\ now' = now + 1
    /\ last' = IF enabled = {} THEN last ELSE [last EXCEPT ![Latest] = now + 1]
    /\ UNCHANGED <<version, ring, made, enabled, cache, call>>

SetEnabled(E) ==
    /\ enabled' = E
    /\ last' = IF E = {} THEN last ELSE [last EXCEPT ![Max(E)] = now]

\* A new version is made; it is enabled once its key pair is generated.
Rotate ==
    /\ made > 0 /\ made < MaxVersion
    /\ made' = made + 1
    /\ UNCHANGED <<version, now, ring, enabled, last, cache, call>>

Enable(v) ==
    /\ v <= made /\ v \notin enabled
    /\ SetEnabled(enabled \cup {v})
    /\ UNCHANGED <<version, now, ring, made, cache, call>>

Disable(v) ==
    /\ v \in enabled
    /\ SetEnabled(enabled \ {v})
    /\ UNCHANGED <<version, now, ring, made, cache, call>>

-----------------------------------------------------------------------------
At(t, S)     == call[t].step \in S
Goto(t, s)   == call' = [call EXCEPT ![t].step = s]
Return(t, r) == call' = [call EXCEPT ![t] = [Idle EXCEPT !.result = r]]

\* A caller starts an operation.
Start(t, s) ==
    /\ At(t, {"idle"})
    /\ call' = [call EXCEPT ![t] = [Idle EXCEPT !.step = s]]
    /\ UNCHANGED <<version, now, kms, cache>>

\* The signature is one of a version made so far, or of another key.
StartVerify(t, sig) ==
    /\ At(t, {"idle"}) /\ sig \in 1..made \cup {Forged}
    /\ call' = [call EXCEPT ![t] = [Idle EXCEPT !.step = "verify", !.sig = sig]]
    /\ UNCHANGED <<version, now, kms, cache>>

-----------------------------------------------------------------------------
(* getCKV                                                                  *)

\* What follows a lookup.
NextStep(s) ==
    CASE s = "hash"   -> "sign"
      [] s = "sign"   -> "request"
      [] s = "public" -> "idle"
      [] s = "verify" -> "check"
      [] s = "retry"  -> "recheck"

\* The goroutine has the version it looked up.
Have(t, v) ==
    LET c == call[t] IN
    call' = [call EXCEPT ![t] =
        [c EXCEPT !.step = NextStep(c.step),
                  !.load = None,
                  !.ckv = v,
                  !.at = now,
                  !.hf = IF c.step = "hash" THEN Hash[v] ELSE c.hf,
                  !.result = IF c.step = "public" THEN v ELSE c.result]]

Cached == cache # None /\ (cache.expires # None => now < cache.expires)

\* Variant: a hit prolongs the life of the entry, as it does by default.
TouchedProlongs == [cache EXCEPT !.expires = IF @ = None THEN @ ELSE now + TTL]

\* The entry after a hit: WithDisableTouchOnHit.
Touched == cache

Hit(t) ==
    /\ At(t, Lookups) /\ call[t].load = None /\ Cached
    /\ cache' = Touched
    /\ Have(t, cache.version)
    /\ UNCHANGED <<version, now, kms>>

\* Variant: the error for a version that does not exist is lost.
FoundUnchecked == IF version = None THEN Latest ELSE version

\* The version keyVersionName picks: the pinned one, or the greatest enabled.
Found == IF version = None THEN Latest ELSE IF version <= made THEN version ELSE None

Lookup(t) ==
    /\ At(t, Lookups) /\ call[t].load = None /\ ~Cached
    /\ Found # None
    /\ call' = [call EXCEPT ![t].load = [version |-> Found, at |-> now]]
    /\ UNCHANGED <<version, now, kms, cache>>

\* No such key or version, or a request fails: the error is not cached.
LookupFails(t) ==
    /\ At(t, Lookups) /\ call[t].load = None /\ ~Cached
    /\ Faults \/ Found = None
    /\ Return(t, Error)
    /\ UNCHANGED <<version, now, kms, cache>>

\* The loader sets the entry when its lookup is done, whatever another
\* goroutine has set meanwhile.
Store(t) ==
    /\ call[t].load # None
    /\ cache' = [version |-> call[t].load.version,
                 expires |-> IF version = None THEN now + TTL ELSE None]
    /\ Have(t, call[t].load.version)
    /\ UNCHANGED <<version, now, kms>>

-----------------------------------------------------------------------------
(* sign: AsymmetricSign with the digest made for the first lookup's hash   *)

Signs(t) == call[t].ckv \in enabled /\ call[t].hf = Hash[call[t].ckv]

Sign(t) ==
    /\ At(t, {"request"}) /\ Signs(t)
    /\ Return(t, call[t].ckv)
    /\ UNCHANGED <<version, now, kms, cache>>

SignFails(t) ==
    /\ At(t, {"request"}) /\ (Faults \/ ~Signs(t))
    /\ Return(t, Error)
    /\ UNCHANGED <<version, now, kms, cache>>

-----------------------------------------------------------------------------
(* verify: in memory, and again after a new lookup                         *)

Verifies(t) == call[t].unread /\ call[t].sig = call[t].ckv

Accept(t) ==
    /\ At(t, {"check", "recheck"}) /\ Verifies(t)
    /\ Return(t, call[t].ckv)
    /\ UNCHANGED <<version, now, kms, cache>>

\* Variant: a pinned client retries too.
RetriesAlways(t) == At(t, {"check"})

Retries(t) == At(t, {"check"}) /\ version = None

\* The key could have been rotated: the entry is deleted.  The verifier has
\* read the message and the signature to their end.
Retry(t) ==
    /\ Retries(t) /\ ~Verifies(t)
    /\ cache' = None
    /\ call' = [call EXCEPT ![t].step = "retry", ![t].unread = FALSE]
    /\ UNCHANGED <<version, now, kms>>

Reject(t) ==
    /\ At(t, {"check", "recheck"}) /\ ~Verifies(t) /\ ~Retries(t)
    /\ Return(t, Rejected)
    /\ UNCHANGED <<version, now, kms, cache>>

-----------------------------------------------------------------------------
(* createKey                                                               *)

\* A ring that is not found, or any error, leads to CreateKeyRing.
GetKeyRing(t) ==
    /\ At(t, {"ring"})
    /\ \/ ring /\ Goto(t, "key")
       \/ (~ring \/ Faults) /\ Goto(t, "makeRing")
    /\ UNCHANGED <<version, now, kms, cache>>

CreateKeyRing(t) ==
    /\ At(t, {"makeRing"}) /\ ~ring
    /\ ring' = TRUE
    /\ Goto(t, "key")
    /\ UNCHANGED <<version, now, made, enabled, last, cache>>

GetCryptoKey(t) ==
    /\ At(t, {"key"})
    /\ \/ made > 0 /\ Goto(t, "public")
       \/ (made = 0 \/ Faults) /\ Goto(t, "makeKey")
    /\ UNCHANGED <<version, now, kms, cache>>

\* The key's first version is made with it.
CreateCryptoKey(t) ==
    /\ At(t, {"makeKey"}) /\ made = 0
    /\ made' = 1
    /\ Goto(t, "public")
    /\ UNCHANGED <<version, now, ring, enabled, last, cache>>

\* The ring or the key exists by now, or the request fails.
CreateFails(t) ==
    /\ \/ At(t, {"makeRing"}) /\ (ring \/ Faults)
       \/ At(t, {"makeKey"}) /\ (made > 0 \/ Faults)
    /\ Return(t, Error)
    /\ UNCHANGED <<version, now, kms, cache>>

-----------------------------------------------------------------------------
getCKV(t) == Hit(t) \/ Lookup(t) \/ LookupFails(t) \/ Store(t)
verify(t) == Accept(t) \/ Retry(t) \/ Reject(t)

createKey(t) ==
    \/ GetKeyRing(t) \/ CreateKeyRing(t)
    \/ GetCryptoKey(t) \/ CreateCryptoKey(t) \/ CreateFails(t)

Next ==
    \/ Tick \/ Rotate
    \/ \E v \in Versions : Enable(v) \/ Disable(v)
    \/ \E t \in Threads :
        \/ \E s \in {"hash", "public", "ring"} : Start(t, s)
        \/ \E sig \in Versions \cup {Forged} : StartVerify(t, sig)
        \/ getCKV(t) \/ Sign(t) \/ SignFails(t) \/ verify(t) \/ createKey(t)

Spec == Init /\ [][Next]_vars

-----------------------------------------------------------------------------
(* Properties                                                              *)

\* Whatever the rotations, the hits and the lookups of other goroutines, the
\* version a call signs with, verifies with or returns was the greatest enabled
\* version no longer ago than the life of an entry and the time of its lookup.
VersionFresh ==
    \A t \in Threads : call[t].ckv # None /\ version = None =>
        /\ last[call[t].ckv] # None
        /\ last[call[t].ckv] + TTL + LoadTime >= call[t].at

\* "if we're given an explicit version, cache this value forever": nothing that
\* happens to the key or in the process makes a pinned client look it up again.
PinnedCachedForever == [][version # None /\ cache # None => cache' = cache]_vars

\* "key could have been rotated, clear cache and try again": a signature of the
\* version the second lookup finds is not rejected.
RotationTolerated ==
    \A t \in Threads : At(t, {"recheck"}) /\ call[t].sig = call[t].ckv => Verifies(t)
=============================================================================
