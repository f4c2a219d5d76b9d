----------------------------- MODULE KMSProofs -----------------------------
(***************************************************************************)
(* KMSClients implements KeyStore, for all goroutines, processes and       *)
(* references, in every order of their steps, requests that fail,          *)
(* processes that die and rotations.                                       *)
(***************************************************************************)
EXTENDS KMSClients, TLAPS

-----------------------------------------------------------------------------
(* The inductive invariant                                                 *)

\* Only a key the reference names is current; only localkms leaves it half written;
\* Key Vault names the last version it made.
ServiceOK ==
    /\ keys \in Nat /\ keys <= MaxKey
    /\ current \in (1..keys) \cup {None, Torn}
    /\ named \subseteq 1..keys
    /\ current \in 1..keys => current \in named
    /\ current = Torn => Of("localkms")
    /\ Of("azurekms") => current = (IF keys = 0 THEN None ELSE keys)

\* The steps of CreateKey.
Creating == {"exists", "created", "probe", "make", "alias", "stat", "load", "open", "write"}

Shape(c) ==
    c = [op |-> c.op, step |-> c.step, opts |-> c.opts, sig |-> c.sig, load |-> c.load,
         digest |-> c.digest, entry |-> c.entry, made |-> c.made, result |-> c.result]

\* A call when the reference has named known, the service has made n keys and cur is the
\* current one: its answers and what it is about to cache are of known keys.
CallOK(c, known, n, cur) ==
    /\ Shape(c)
    /\ c.step \in Creating => c.op = "create"
    /\ c.step \in {"stat", "open", "write"} => c.result = None
    /\ c.step = "request" => c.op \notin {"public", "create"}
    /\ c.step = "run" => c.op # "create"
    /\ Of("awskms") /\ c.step \in {"exists", "make", "alias", "created"} => ref.pin = None
    /\ c.step = "alias" => c.made \in 1..n
    /\ c.step = "write" => Of("localkms") /\ cur = Torn
    /\ c.load # None => c.load = [pub |-> c.load.pub, meta |-> c.load.meta] /\ c.load.pub \in known
    /\ c.op \in {"public", "create"} => c.result \in known \cup {None, Error}
    /\ c.op = "sign" /\ Pinned => c.result \in {None, Error} \/ c.result.value.key = ref.pin

CacheOK == cache = [c \in Clients |-> cache[c]] /\ \A c \in Clients : cache[c] # None => cache[c].pub \in Known

\* At most one process writes the key's file.
OneWriter == \A t, u \in Threads : call[t].step = "write" /\ call[u].step = "write" => t = u

Inv ==
    /\ ref \in References /\ client \in [Threads -> Clients]
    /\ ServiceOK /\ CacheOK /\ OneWriter
    /\ call = [t \in Threads |-> call[t]]
    /\ \A t \in Threads : CallOK(call[t], Known, keys, current)

\* A step of KeyStore, or none.
StoreStep == [Store!Next]_<<Named, Known, Replacements, [t \in Threads |-> AnswerOf(call[t])]>>

-----------------------------------------------------------------------------
(* What calls become                                                       *)

\* A call that returned r.
LEMMA DoneFields ==
    ASSUME NEW c, NEW r
    PROVE  /\ Shape(Done(c, r))
           /\ Done(c, r).op = c.op /\ Done(c, r).step = "done"
           /\ Done(c, r).load = None /\ Done(c, r).result = r
<1> DEFINE i == Idle
           o == IF c.op = "sign" /\ r # Error THEN c.opts ELSE i.opts
           d == Done(c, r)
<1>1. Shape(i) /\ i.step = "done" /\ i.load = None
  BY DEF Idle, Shape
<1>2. d = [i EXCEPT !.op = c.op, !.result = r, !.opts = o]
  BY DEF Done
<1> HIDE DEF i, o, d
<1>3. d = [op |-> c.op, step |-> i.step, opts |-> o, sig |-> i.sig, load |-> i.load,
           digest |-> i.digest, entry |-> i.entry, made |-> i.made, result |-> r]
  BY <1>1, <1>2 DEF Shape
<1>4. Shape(d) /\ d.op = c.op /\ d.step = "done" /\ d.load = None /\ d.result = r
  BY <1>1, <1>3 DEF Shape
<1> QED BY <1>4 DEF d

\* Its answer is of a known key, a signature by the pinned one.
LEMMA DoneOK ==
    ASSUME NEW c, NEW r, NEW known, NEW n, NEW cur,
           c.op \in {"public", "create"} => r \in known \cup {Error},
           c.op = "sign" /\ Pinned => r = Error \/ r.value.key = ref.pin
    PROVE  CallOK(Done(c, r), known, n, cur) /\ Done(c, r).step # "write"
BY DoneFields DEF CallOK, Creating

\* A call that goes on with a step s.
LEMMA ToFields ==
    ASSUME NEW c, NEW s, Shape(c)
    PROVE  /\ Shape(To(c, s))
           /\ To(c, s).op = c.op /\ To(c, s).step = s /\ To(c, s).load = None
           /\ To(c, s).made = c.made /\ To(c, s).result = c.result
<1> DEFINE d == To(c, s)
<1>1. d = [c EXCEPT !.step = s, !.load = None]
  BY DEF To
<1> HIDE DEF d
<1>2. d = [op |-> c.op, step |-> s, opts |-> c.opts, sig |-> c.sig, load |-> None,
           digest |-> c.digest, entry |-> c.entry, made |-> c.made, result |-> c.result]
  BY <1>1 DEF Shape
<1>3. /\ Shape(d)
      /\ d.op = c.op /\ d.step = s /\ d.load = None /\ d.made = c.made /\ d.result = c.result
  BY <1>2 DEF Shape
<1> QED BY <1>3 DEF d

LEMMA ToOK ==
    ASSUME NEW c, NEW s, NEW known, NEW n, NEW cur, CallOK(c, known, n, cur),
           s \in Creating => c.op = "create",
           s \in {"stat", "open"} => c.result = None,
           s = "request" => c.op \notin {"public", "create"},
           s = "run" => c.op # "create",
           Of("awskms") /\ s \in {"exists", "make", "alias", "created"} => ref.pin = None,
           s \notin {"alias", "write"}
    PROVE  CallOK(To(c, s), known, n, cur) /\ To(c, s).step # "write"
<1>1. Shape(c)
  BY DEF CallOK
<1>2. /\ Shape(To(c, s))
      /\ To(c, s).op = c.op /\ To(c, s).step = s /\ To(c, s).load = None
      /\ To(c, s).result = c.result
  BY <1>1, ToFields
<1> QED BY <1>2 DEF CallOK

\* A call that keeps a digest or an entry for its next step.
LEMMA KeepsOK ==
    ASSUME NEW c, NEW x, NEW known, NEW n, NEW cur, CallOK(c, known, n, cur), c.step # "write"
    PROVE  /\ CallOK([c EXCEPT !.digest = x], known, n, cur) /\ [c EXCEPT !.digest = x].step # "write"
           /\ CallOK([c EXCEPT !.entry = x], known, n, cur) /\ [c EXCEPT !.entry = x].step # "write"
<1>1. Shape(c)
  BY DEF CallOK
<1>2. ASSUME NEW d, Shape(d), d.op = c.op, d.step = c.step, d.load = c.load, d.made = c.made, d.result = c.result
      PROVE  CallOK(d, known, n, cur)
  BY <1>2 DEF CallOK
<1>3. CallOK([c EXCEPT !.digest = x], known, n, cur) /\ [c EXCEPT !.digest = x].step # "write"
  <2>1. /\ Shape([c EXCEPT !.digest = x])
        /\ [c EXCEPT !.digest = x].op = c.op /\ [c EXCEPT !.digest = x].step = c.step
        /\ [c EXCEPT !.digest = x].load = c.load /\ [c EXCEPT !.digest = x].made = c.made
        /\ [c EXCEPT !.digest = x].result = c.result
    BY <1>1 DEF Shape
  <2> QED BY <2>1, <1>2
<1>4. CallOK([c EXCEPT !.entry = x], known, n, cur) /\ [c EXCEPT !.entry = x].step # "write"
  <2>1. /\ Shape([c EXCEPT !.entry = x])
        /\ [c EXCEPT !.entry = x].op = c.op /\ [c EXCEPT !.entry = x].step = c.step
        /\ [c EXCEPT !.entry = x].load = c.load /\ [c EXCEPT !.entry = x].made = c.made
        /\ [c EXCEPT !.entry = x].result = c.result
    BY <1>1 DEF Shape
  <2> QED BY <2>1, <1>2
<1> QED BY <1>3, <1>4

\* A call that has an entry to cache.
LEMMA LoadsOK ==
    ASSUME NEW c, NEW pub, NEW meta, NEW known, NEW n, NEW cur,
           CallOK(c, known, n, cur), c.step # "write", pub \in known
    PROVE  LET d == [c EXCEPT !.load = [pub |-> pub, meta |-> meta]]
           IN  CallOK(d, known, n, cur) /\ d.step # "write"
<1> DEFINE e == [pub |-> pub, meta |-> meta]
           d == [c EXCEPT !.load = e]
<1>1. e = [pub |-> e.pub, meta |-> e.meta] /\ e.pub \in known
  OBVIOUS
<1> HIDE DEF e
<1>2. Shape(d) /\ d.op = c.op /\ d.step = c.step /\ d.load = e /\ d.made = c.made /\ d.result = c.result
  BY DEF CallOK, Shape
<1> HIDE DEF d
<1>3. CallOK(d, known, n, cur) /\ d.step # "write"
  BY <1>1, <1>2 DEF CallOK
<1> QED BY <1>3 DEF d, e

\* A new call.
LEMMA NewOK ==
    ASSUME NEW op, NEW s, NEW opts, NEW sig, NEW known, NEW n, NEW cur,
           s \in Creating => op = "create",
           s = "run" => op # "create",
           Of("awskms") /\ s \in {"exists", "make", "alias", "created"} => ref.pin = None,
           s \notin {"alias", "request", "write"}
    PROVE  /\ CallOK(NewCall(op, s, opts, sig), known, n, cur)
           /\ NewCall(op, s, opts, sig).step # "write"
           /\ NewCall(op, s, opts, sig).op = op
<1> DEFINE i == Idle
           d == NewCall(op, s, opts, sig)
<1>1. Shape(i) /\ i.load = None /\ i.result = None
  BY DEF Idle, Shape
<1>2. d = [i EXCEPT !.op = op, !.step = s, !.opts = opts, !.sig = sig]
  BY DEF NewCall
<1> HIDE DEF i, d
<1>3. d = [op |-> op, step |-> s, opts |-> opts, sig |-> sig, load |-> i.load,
           digest |-> i.digest, entry |-> i.entry, made |-> i.made, result |-> i.result]
  BY <1>1, <1>2 DEF Shape
<1>4. Shape(d) /\ d.op = op /\ d.step = s /\ d.load = None /\ d.result = None
  BY <1>1, <1>3 DEF Shape
<1>5. CallOK(d, known, n, cur) /\ d.step # "write" /\ d.op = op
  BY <1>4 DEF CallOK
<1> QED BY <1>5 DEF d

-----------------------------------------------------------------------------
(* Steps                                                                   *)

\* The named key is known, and known keys are keys.
LEMMA NamedKnown ==
    ASSUME ServiceOK, ref \in References
    PROVE  /\ Named # None => Named \in Known /\ Named \in 1..keys
           /\ Known \subseteq 1..keys /\ 1..keys \subseteq Keys
           /\ Pinned => ref.pin \in Keys /\ Known \subseteq {ref.pin}
           /\ None \notin Int /\ Error \notin Int /\ Torn \notin Int
<1>1. ref.pin \in Keys \cup {None} /\ {None, Error, Torn} \cap Int = {} /\ MaxKey \in Nat
  BY KMSAssumption
<1>2. 1..keys \subseteq Keys
  BY <1>1 DEF ServiceOK, Keys
<1>3. CASE Pinned
  <2>1. ref.pin \in Keys
    BY <1>1, <1>3 DEF Pinned
  <2>2. Named = IF ref.pin <= keys THEN ref.pin ELSE None
    BY <1>3 DEF Named
  <2>3. Known = {Named} \ {None}
    BY <1>3 DEF Known
  <2>4. ref.pin \in Int /\ 1 <= ref.pin
    BY <2>1, <1>1 DEF Keys
  <2> QED BY <1>1, <1>2, <2>1, <2>2, <2>3, <2>4 DEF ServiceOK
<1>4. CASE ~Pinned
  BY <1>1, <1>2, <1>4 DEF Named, Known, ServiceOK
<1> QED BY <1>3, <1>4

\* A goroutine's step, when the service keeps what it has and others do not write.
LEMMA CallKeeps ==
    ASSUME Inv, NEW t \in Threads, NEW c, Set(t, c), UNCHANGED program,
           ServiceOK', CacheOK', keys <= keys', Known \subseteq Known',
           CallOK(c, Known', keys', current'),
           \A u \in Threads \ {t} : call[u].step = "write" => current' = Torn /\ c.step # "write"
    PROVE  Inv'
<1>1. ref' = ref /\ client' = client
  BY DEF program
<1>2. /\ call' = [u \in Threads |-> call'[u]]
      /\ call'[t] = c /\ \A u \in Threads \ {t} : call'[u] = call[u]
  BY DEF Inv, Set
<1>3. keys \in Nat /\ keys' \in Nat /\ 1..keys \subseteq 1..keys'
  BY DEF Inv, ServiceOK
<1>4. ASSUME NEW u \in Threads PROVE CallOK(call'[u], Known', keys', current')
  <2>1. CASE u = t
    BY <1>2, <2>1
  <2>2. CASE u # t
    BY <1>2, <1>3, <2>2 DEF Inv, CallOK
  <2> QED BY <2>1, <2>2
<1>5. \A u \in Threads : CallOK(call[u], Known, keys, current)'
  BY <1>1, <1>4 DEF CallOK, Of, Pinned
<1>6. OneWriter'
  BY <1>2 DEF Inv, OneWriter
<1> QED BY <1>1, <1>2, <1>5, <1>6 DEF Inv

\* It is a step of KeyStore, that of a caller that asks or is answered.
LEMMA QuietStep ==
    ASSUME Inv, NEW t \in Threads, NEW c, Set(t, c),
           NEW n, NEW cur, CallOK(c, Known, n, cur),
           Named' = Named, Known' = Known, Replacements' = Replacements
    PROVE  StoreStep
<1> DEFINE a == [u \in Threads |-> AnswerOf(call[u])]
<1>1. call'[t] = c /\ \A u \in Threads \ {t} : call'[u] = call[u]
  BY DEF Inv, Set
<1>2. AnswerOf(c) \in Known \cup {None, Error}
  BY DEF CallOK, AnswerOf
<1>3. a' = [u \in Threads |-> IF u = t THEN AnswerOf(c) ELSE a[u]]
  BY <1>1
<1>4. a' = [a EXCEPT ![t] = AnswerOf(c)]
  BY <1>3
<1>5. CASE AnswerOf(c) = None
  <2>1. a' = [u \in Threads |-> IF u \in {t} THEN None ELSE a[u]]
    BY <1>3, <1>5
  <2>2. Store!Ask({t})
    BY <2>1 DEF Store!Ask
  <2> QED BY <2>2 DEF StoreStep, Store!Next
<1>6. CASE AnswerOf(c) # None
  <2>1. Store!Answer(t)
    BY <1>2, <1>4, <1>6 DEF Store!Answer
  <2> QED BY <2>1 DEF StoreStep, Store!Next
<1> QED BY <1>5, <1>6

\* Most steps leave the service as it is.
LEMMA QuietCall ==
    ASSUME Inv, NEW t \in Threads, NEW c, Set(t, c), UNCHANGED <<program, service>>, CacheOK',
           CallOK(c, Known, keys, current) /\ c.step # "write"
    PROVE  Inv' /\ StoreStep
<1>1. /\ ref' = ref /\ keys' = keys /\ current' = current /\ named' = named /\ rotated' = rotated
      /\ UNCHANGED program
  BY DEF program, service
<1>2. Named' = Named /\ Known' = Known /\ Replacements' = Replacements
  BY <1>1 DEF Named, Known, Replacements, Pinned, Of
<1>3. ServiceOK' /\ keys <= keys'
  BY <1>1 DEF Inv, ServiceOK, Of
<1>4. \A u \in Threads \ {t} : call[u].step = "write" => current' = Torn /\ c.step # "write"
  BY <1>1 DEF Inv, CallOK
<1>5. Inv'
  BY <1>1, <1>2, <1>3, <1>4, CallKeeps
<1> QED BY <1>2, <1>5, QuietStep

\* And the cache, but for an entry that is set.
LEMMA CacheKept ==
    ASSUME Inv, UNCHANGED <<program, service>>, UNCHANGED cache
    PROVE  CacheOK'
BY DEF Inv, CacheOK, Known, Named, Pinned, program, service

LEMMA EntryStored ==
    ASSUME Inv, UNCHANGED <<program, service>>, NEW t \in Threads, CanStore(t), StoreEntry(t)
    PROVE  CacheOK' /\ call[t].load.pub \in Known
<1>1. call[t].load.pub \in Known
  BY DEF Inv, CallOK, CanStore
<1>2. Known' = Known
  BY DEF Known, Named, Pinned, program, service
<1> QED BY <1>1, <1>2 DEF Inv, CacheOK, StoreEntry

-----------------------------------------------------------------------------
(* The steps that the clients share                                        *)

LEMMA FetchStep ==
    ASSUME Inv, NEW t \in Threads, Fetch(t)
    PROVE  Inv' /\ StoreStep
<1>1. Named \in Known
  BY NamedKnown DEF Inv, Fetch
<1>2. CallOK(call[t], Known, keys, current) /\ call[t].step # "write"
  BY DEF Inv, Fetch, CanFetch, At, Lookups
<1> QED BY <1>1, <1>2, LoadsOK, QuietCall, CacheKept DEF Fetch

LEMMA FailStep ==
    ASSUME Inv, NEW t \in Threads, Fail(t) \/ NotFound(t)
    PROVE  Inv' /\ StoreStep
<1>1. CallOK(Done(call[t], Error), Known, keys, current) /\ Done(call[t], Error).step # "write"
  BY DoneOK
<1>2. Set(t, Done(call[t], Error)) /\ UNCHANGED <<program, service, cache>>
  BY DEF Fail, NotFound
<1> QED BY <1>1, <1>2, QuietCall, CacheKept

LEMMA ExpireStep ==
    ASSUME Inv, NEW c \in Clients, Expire(c)
    PROVE  Inv' /\ StoreStep
<1>1. /\ ref' = ref /\ client' = client /\ keys' = keys /\ current' = current /\ named' = named
      /\ rotated' = rotated /\ call' = call /\ cache' = [cache EXCEPT ![c] = None]
  BY DEF Expire, program, service
<1>2. Named' = Named /\ Known' = Known /\ Replacements' = Replacements
  BY <1>1 DEF Named, Known, Replacements, Pinned, Of
<1>3. CacheOK'
  BY <1>1, <1>2 DEF Inv, CacheOK
<1>4. Inv'
  BY <1>1, <1>2, <1>3 DEF Inv, ServiceOK, OneWriter, CallOK, Of, Pinned
<1> QED BY <1>1, <1>2, <1>4 DEF StoreStep

\* The minimum versions are nothing that KeyStore speaks of.
LEMMA SetMinimumStep ==
    ASSUME Inv, SetMinimum
    PROVE  Inv' /\ StoreStep
<1>1. /\ ref' = ref /\ client' = client /\ keys' = keys /\ current' = current /\ named' = named
      /\ rotated' = rotated /\ cache' = cache /\ call' = call
  BY DEF SetMinimum, program
<1>2. Named' = Named /\ Known' = Known /\ Replacements' = Replacements
  BY <1>1 DEF Named, Known, Replacements, Pinned, Of
<1> QED BY <1>1, <1>2 DEF StoreStep, Inv, ServiceOK, CacheOK, OneWriter, CallOK, Of, Pinned

\* A caller whose process died is as before its calls.
LEMMA IdleOK ==
    ASSUME NEW known, NEW n, NEW cur
    PROVE  CallOK(Idle, known, n, cur) /\ Idle.step # "write" /\ AnswerOf(Idle) = None
<1>1. Shape(Idle) /\ Idle.op = "none" /\ Idle.step = "done" /\ Idle.load = None
  BY DEF Idle, Shape
<1> QED BY <1>1 DEF CallOK, Creating, AnswerOf

\* The callers of the process that died are as before their calls.
LEMMA KillStep ==
    ASSUME Inv, NEW c \in Clients, Kill(c)
    PROVE  Inv' /\ StoreStep
<1> DEFINE a == [u \in Threads |-> AnswerOf(call[u])]
           T == {u \in Threads : client[u] = c}
<1>1. /\ ref' = ref /\ client' = client /\ keys' = keys /\ current' = current /\ named' = named
      /\ rotated' = rotated /\ cache' = [cache EXCEPT ![c] = None]
      /\ call' = [t \in Threads |-> IF client[t] = c THEN Idle ELSE call[t]]
  BY DEF Kill, program, service
<1>2. Named' = Named /\ Known' = Known /\ Replacements' = Replacements
  BY <1>1 DEF Named, Known, Replacements, Pinned, Of
<1>3. CacheOK'
  BY <1>1, <1>2 DEF Inv, CacheOK
<1>4. Idle.step = "done"
  BY DEF Idle
<1>5. CallOK(Idle, Known, keys, current)
  BY IdleOK
<1>6. \A u \in Threads : call'[u] = Idle \/ call'[u] = call[u]
  BY <1>1
<1>7. \A u \in Threads : CallOK(call'[u], Known, keys, current)
  BY <1>5, <1>6 DEF Inv
<1>8. \A u \in Threads : CallOK(call[u], Known, keys, current)'
  BY <1>1, <1>2, <1>7 DEF CallOK, Of, Pinned
<1>9. OneWriter'
  BY <1>4, <1>6 DEF Inv, OneWriter
<1>10. ServiceOK' /\ call' = [u \in Threads |-> call'[u]]
  BY <1>1 DEF Inv, ServiceOK, Of
<1>11. Inv'
  BY <1>1, <1>3, <1>8, <1>9, <1>10 DEF Inv
<1>12. AnswerOf(Idle) = None
  BY IdleOK
<1>13. a' = [u \in Threads |-> IF u \in T THEN None ELSE a[u]]
  BY <1>1, <1>12
<1>14. Store!Ask(T)
  BY <1>2, <1>13 DEF Store!Ask
<1>15. T \in SUBSET Threads
  OBVIOUS
<1> QED BY <1>11, <1>14, <1>15 DEF StoreStep, Store!Next

-----------------------------------------------------------------------------
(* AWS                                                                     *)

\* A call that ends with an error, or with what is neither a key nor a signature.
LEMMA Answers ==
    ASSUME Inv, NEW t \in Threads, NEW r, Set(t, Done(call[t], r)), UNCHANGED <<program, service, cache>>,
           call[t].op \in {"public", "create"} => r \in Known \cup {Error},
           call[t].op = "sign" /\ Pinned => r = Error \/ r.value.key = ref.pin
    PROVE  Inv' /\ StoreStep
BY DoneOK, QuietCall, CacheKept

\* What follows a lookup that found a known key.
LEMMA AWSHaveOK ==
    ASSUME Inv, NEW t \in Threads, NEW e, e.pub \in Known
    PROVE  /\ CallOK(AWSHave(call[t], e), Known, keys, current)
           /\ AWSHave(call[t], e).step # "write"
<1> DEFINE c == call[t]
           asked == c.op \in {"public", "create"}
           request == [To(c, "request") EXCEPT !.entry = e]
           verdict == Done(c, Verdict(AWSVerifies(e, c.sig, c.opts)))
<1>1. CallOK(c, Known, keys, current)
  BY DEF Inv
<1>2. AWSHave(c, e) = CASE asked -> Done(c, e.pub)
                        [] ~asked /\ c.step = "hash" -> AWSHash(c, e)
                        [] c.step = "key" /\ c.op = "verify" /\ ~c.opts.remote -> verdict
                        [] OTHER -> request
  BY DEF AWSHave
<1>3. asked => CallOK(Done(c, e.pub), Known, keys, current) /\ Done(c, e.pub).step # "write"
  BY DoneOK
<1>4. CallOK(AWSHash(c, e), Known, keys, current) /\ AWSHash(c, e).step # "write"
  <2>1. CallOK(To(c, "key"), Known, keys, current) /\ To(c, "key").step # "write"
    BY <1>1, ToOK DEF Creating
  <2>2. ~asked => CallOK(Done(c, Error), Known, keys, current) /\ Done(c, Error).step # "write"
    BY DoneOK
  <2>3. asked => CallOK(Done(c, Error), Known, keys, current) /\ Done(c, Error).step # "write"
    BY DoneOK
  <2> QED BY <2>1, <2>2, <2>3, KeepsOK DEF AWSHash
<1>5. c.op = "verify" => CallOK(verdict, Known, keys, current) /\ verdict.step # "write"
  BY DoneOK
<1>6. ~asked => CallOK(request, Known, keys, current) /\ request.step # "write"
  <2>1. ~asked => CallOK(To(c, "request"), Known, keys, current) /\ To(c, "request").step # "write"
    BY <1>1, ToOK DEF Creating
  <2> QED BY <2>1, KeepsOK
<1> HIDE DEF request, verdict
<1> QED BY <1>2, <1>3, <1>4, <1>5, <1>6

\* Steps that leave what the service has.
LEMMA AWSQuietStep ==
    ASSUME Inv, Of("awskms"), NEW t \in Threads,
           \/ AWSStart(t) \/ AWSHit(t) \/ AWSFetchPublicKey(t) \/ AWSFetchKeyMetadata(t) \/ AWSStore(t)
           \/ AWSNotFound(t) \/ AWSRequest(t) \/ AWSAliasExists(t)
    PROVE  Inv' /\ StoreStep
<1> DEFINE c == call[t]
<1>1. CallOK(c, Known, keys, current) /\ Shape(c)
  BY DEF Inv, CallOK
<1>2. CASE AWSStart(t)
  <2>1. UNCHANGED <<program, service>> /\ CacheOK'
    BY <1>2, CacheKept DEF AWSStart
  <2>2. CASE \E o \in CallOptions["awskms"] : Set(t, NewCall("sign", "hash", o, None))
    BY <2>1, <2>2, NewOK, QuietCall DEF Creating
  <2>3. CASE \E o \in CallOptions["awskms"], s \in SignaturesAround :
               Set(t, NewCall("verify", IF o.remote THEN "hash" ELSE "key", o, s))
    <3>1. PICK o \in CallOptions["awskms"], s \in SignaturesAround :
               Set(t, NewCall("verify", IF o.remote THEN "hash" ELSE "key", o, s))
      BY <2>3
    <3>2. PICK w \in {"hash", "key"} : Set(t, NewCall("verify", w, o, s))
      BY <3>1
    <3>3. w \notin Creating \cup {"run", "alias", "request", "write", "exists", "make", "created"}
      BY DEF Creating
    <3>4. CallOK(NewCall("verify", w, o, s), Known, keys, current) /\ NewCall("verify", w, o, s).step # "write"
      BY <3>3, NewOK
    <3> QED BY <2>1, <3>2, <3>4, QuietCall
  <2>4. CASE Set(t, NewCall("public", "key", NoCallOptions, None))
    BY <2>1, <2>4, NewOK, QuietCall DEF Creating
  <2>5. CASE ref.pin = None /\ Set(t, NewCall("create", "exists", NoCallOptions, None))
    BY <2>1, <2>5, NewOK, QuietCall DEF Creating
  <2>6. CASE Set(t, Done(NewCall("create", "done", NoCallOptions, None), Error))
    <3>1. NewCall("create", "done", NoCallOptions, None).op = "create"
      BY NewOK DEF Creating
    <3> QED BY <2>1, <2>6, <3>1, DoneOK, QuietCall
  <2> QED BY <1>2, <2>2, <2>3, <2>4, <2>5, <2>6 DEF AWSStart
<1>3. CASE AWSHit(t)
  <2>1. Entry(t).pub \in Known
    BY <1>3 DEF Inv, CacheOK, AWSHit, CanHit, Entry
  <2> QED BY <1>3, <2>1, AWSHaveOK, QuietCall, CacheKept DEF AWSHit, CanHit
<1>4. CASE AWSFetchPublicKey(t)
  <2>1. Named \in Known
    BY <1>4, NamedKnown DEF Inv, AWSFetchPublicKey
  <2>2. c.step # "write"
    BY <1>4 DEF AWSFetchPublicKey, CanFetch, At, Lookups
  <2> QED BY <1>1, <1>4, <2>1, <2>2, LoadsOK, QuietCall, CacheKept DEF AWSFetchPublicKey
<1>5. CASE AWSFetchKeyMetadata(t)
  <2> DEFINE l == c.load
             d == [c EXCEPT !.load = [pub |-> l.pub, meta |-> Named]]
  <2>1. l = [pub |-> l.pub, meta |-> l.meta] /\ l.pub \in Known
    BY <1>1, <1>5 DEF AWSFetchKeyMetadata, CallOK
  <2>2. [l EXCEPT !.meta = Named] = [pub |-> l.pub, meta |-> Named]
    BY <2>1
  <2>3. [c EXCEPT !.load.meta = Named] = [c EXCEPT !.load = [l EXCEPT !.meta = Named]]
    BY <1>1 DEF Shape
  <2>4. Set(t, d) /\ UNCHANGED <<program, service, cache>>
    BY <1>5, <2>2, <2>3 DEF AWSFetchKeyMetadata
  <2>5. c.step # "write"
    BY <1>1 DEF CallOK, Of
  <2>6. CallOK(d, Known, keys, current) /\ d.step # "write"
    BY <1>1, <2>1, <2>5, LoadsOK
  <2> QED BY <2>4, <2>6, QuietCall, CacheKept
<1>6. CASE AWSStore(t)
  <2>1. /\ UNCHANGED <<program, service>> /\ CanStore(t) /\ StoreEntry(t)
        /\ Set(t, AWSHave(c, c.load))
    BY <1>6 DEF AWSStore
  <2>2. CacheOK' /\ c.load.pub \in Known
    BY <2>1, EntryStored
  <2> QED BY <2>1, <2>2, AWSHaveOK, QuietCall
<1>7. CASE AWSNotFound(t)
  <2>1. CASE At(t, {"exists"})
    <3>1. c.op = "create" /\ ref.pin = None
      BY <1>1, <2>1 DEF At, CallOK, Creating
    <3>2. CallOK(To(c, "make"), Known, keys, current) /\ To(c, "make").step # "write"
      BY <1>1, <3>1, ToOK
    <3> QED BY <1>7, <2>1, <3>2, QuietCall, CacheKept DEF AWSNotFound
  <2>2. CASE ~At(t, {"exists"})
    BY <1>7, <2>2, Answers DEF AWSNotFound
  <2> QED BY <2>1, <2>2
<1>8. CASE AWSRequest(t)
  <2> DEFINE r == IF ~AWSRequestOK(c) THEN Error
                  ELSE IF c.op = "sign" THEN Sig(AWSSignature(c), FALSE)
                  ELSE Verdict(c.sig.value = AWSSignature(c))
  <2>1. Set(t, Done(c, r)) /\ UNCHANGED <<program, service, cache>> /\ c.op \notin {"public", "create"}
    BY <1>1, <1>8 DEF AWSRequest, At, CallOK
  <2>2. ASSUME c.op = "sign", Pinned PROVE r = Error \/ r.value.key = ref.pin
    <3>1. CASE AWSRequestOK(c)
      <4>1. r = Sig(AWSSignature(c), FALSE)
        BY <2>2, <3>1
      <4>2. r.value.key = Named
        BY <4>1 DEF Sig, AWSSignature, RemoteSignature, Signature
      <4>3. Named = ref.pin
        BY <2>2, <3>1 DEF AWSRequestOK, Named
      <4> QED BY <4>2, <4>3
    <3> QED BY <3>1
  <2> QED BY <2>1, <2>2, Answers
<1>9. CASE AWSAliasExists(t)
  BY <1>9, Answers DEF AWSAliasExists
<1> QED BY <1>2, <1>3, <1>4, <1>5, <1>6, <1>7, <1>8, <1>9

-----------------------------------------------------------------------------
(* Steps that change what the service has                                  *)

\* A call is as it was when more keys are known.
LEMMA CallGrows ==
    ASSUME NEW c, NEW known, NEW n \in Nat, NEW cur, CallOK(c, known, n, cur), c.step # "write",
           NEW more, NEW m \in Nat, NEW to, known \subseteq more, n <= m
    PROVE  CallOK(c, more, m, to)
<1>1. 1..n \subseteq 1..m
  OBVIOUS
<1> QED BY <1>1 DEF CallOK

\* What a new key does.
LEMMA NameNewKeeps ==
    ASSUME Inv, UNCHANGED <<program, cache>>, NameNew
    PROVE  /\ ServiceOK' /\ CacheOK' /\ keys <= keys' /\ Known \subseteq Known'
           /\ current' = keys + 1 /\ keys + 1 \in Keys
           /\ Pinned => \/ Named' = Named /\ Known' = Known
                        \/ Named = None /\ Named' \in Keys /\ Known' = Known \cup {Named'}
           /\ ~Pinned => Named' = keys + 1 /\ Known' = Known \cup {Named'}
<1>1. ref' = ref /\ client' = client /\ cache' = cache
  BY DEF program
<1>2. /\ keys \in Nat /\ keys < MaxKey /\ MaxKey \in Nat /\ keys' = keys + 1
      /\ current' = keys + 1 /\ named' = named \cup {keys + 1}
  BY KMSAssumption DEF NameNew, Inv, ServiceOK
<1>3. None \notin Int /\ Torn \notin Int /\ named \subseteq 1..keys
      /\ Known \subseteq 1..keys /\ (Pinned => ref.pin \in Keys)
  BY NamedKnown DEF Inv, ServiceOK
<1>4. ServiceOK'
  BY <1>1, <1>2, <1>3 DEF ServiceOK, Of
<1>5. keys + 1 \in Keys
  BY <1>2 DEF Keys
<1>6. CASE Pinned
  <2>1. Named = (IF ref.pin <= keys THEN ref.pin ELSE None) /\ Named' = (IF ref.pin <= keys + 1 THEN ref.pin ELSE None)
    BY <1>1, <1>2, <1>6 DEF Named, Pinned
  <2>2. Known = {Named} \ {None} /\ Known' = {Named'} \ {None}
    BY <1>1, <1>6 DEF Known, Pinned
  <2>3. ref.pin \in Int /\ ref.pin # None
    BY <1>2, <1>3, <1>6 DEF Keys
  <2>4. \/ Named' = Named /\ Known' = Known
        \/ Named = None /\ Named' \in Keys /\ Known' = Known \cup {Named'}
    <3>1. CASE ref.pin = keys + 1
      BY <1>2, <1>3, <1>6, <2>1, <2>2, <2>3, <3>1
    <3>2. CASE ref.pin # keys + 1
      BY <1>2, <2>1, <2>2, <2>3, <3>2
    <3> QED BY <3>1, <3>2
  <2>5. Known \subseteq Known'
    BY <2>4
  <2> QED BY <1>1, <1>2, <1>4, <1>5, <1>6, <2>4, <2>5 DEF Inv, CacheOK
<1>7. CASE ~Pinned
  <2>1. Known = named /\ Known' = named' /\ Named' = keys + 1
    BY <1>1, <1>2, <1>3, <1>7 DEF Known, Named, Pinned
  <2> QED BY <1>1, <1>2, <1>4, <1>5, <1>7, <2>1 DEF Inv, CacheOK
<1> QED BY <1>6, <1>7

\* The answer of the caller that makes a key.
LEMMA OneAnswer ==
    ASSUME Inv, NEW t \in Threads, NEW c, Set(t, c),
           AnswerOf(c) \in {AnswerOf(call[t]), Error, Named'}
    PROVE  [u \in Threads |-> AnswerOf(call[u])]' \in
             {[u \in Threads |-> AnswerOf(call[u])]} \cup
             {[[u \in Threads |-> AnswerOf(call[u])] EXCEPT ![t] = a] : a \in {Named', Error}}
<1> DEFINE a == [u \in Threads |-> AnswerOf(call[u])]
<1>1. call'[t] = c /\ \A u \in Threads \ {t} : call'[u] = call[u]
  BY DEF Inv, Set
<1>2. a' = [a EXCEPT ![t] = AnswerOf(c)]
  BY <1>1
<1>3. CASE AnswerOf(c) = AnswerOf(call[t])
  <2>1. a' = a
    BY <1>2, <1>3
  <2> QED BY <2>1
<1>4. CASE AnswerOf(c) \in {Named', Error}
  BY <1>2, <1>4
<1> QED BY <1>3, <1>4

\* CreateKey makes the key, or another where the service lets it.
LEMMA NewKeyStep ==
    ASSUME Inv, NEW t \in Threads, NEW c, Set(t, c), UNCHANGED <<program, cache, rotated>>, NameNew,
           current \in {None, Torn} \/ Of("azurekms"),
           CallOK(c, Known', keys', current'),
           c.step # "write",
           \A u \in Threads \ {t} : call[u].step # "write",
           \/ AnswerOf(c) \in {AnswerOf(call[t]), Error}
           \/ ~Pinned /\ AnswerOf(c) = keys + 1
    PROVE  Inv' /\ StoreStep
<1>1. /\ UNCHANGED program /\ ref' = ref /\ rotated' = rotated /\ keys' = keys + 1
      /\ UNCHANGED <<program, cache>>
  BY DEF program, NameNew
<1>2. /\ ServiceOK' /\ CacheOK' /\ keys <= keys' /\ Known \subseteq Known'
      /\ current' = keys + 1 /\ keys + 1 \in Keys
      /\ Pinned => \/ Named' = Named /\ Known' = Known
                   \/ Named = None /\ Named' \in Keys /\ Known' = Known \cup {Named'}
      /\ ~Pinned => Named' = keys + 1 /\ Known' = Known \cup {Named'}
  BY <1>1, NameNewKeeps
<1>3. Inv'
  BY <1>1, <1>2, CallKeeps
<1>4. keys \in Nat /\ None \notin Int /\ Torn \notin Int
  BY KMSAssumption DEF Inv, ServiceOK
<1>5. AnswerOf(c) \in {AnswerOf(call[t]), Error, Named'}
  BY <1>2
<1>6. CASE Pinned /\ Named' = Named /\ Known' = Known
  <2>1. Replacements' = Replacements
    BY <1>1, <1>6 DEF Replacements, Pinned
  <2> QED BY <1>3, <1>6, <2>1, QuietStep
<1>7. CASE Named = None /\ Named' \in Keys /\ Known' = Known \cup {Named'}
  <2>1. Replacements' = Replacements
    <3>1. CASE Pinned
      BY <1>1, <3>1 DEF Replacements, Pinned
    <3>2. CASE ~Pinned /\ Of("azurekms")
      <4>1. keys = 0
        BY <1>4, <1>7, <3>2 DEF Inv, ServiceOK, Named, Of
      <4> QED BY <1>1, <3>2, <4>1 DEF Replacements, Pinned, Of
    <3>3. CASE ~Pinned /\ ~Of("azurekms")
      BY <1>1, <3>3 DEF Replacements, Pinned, Of
    <3> QED BY <3>1, <3>2, <3>3
  <2>2. Store!Create(t)
    BY <1>5, <1>7, <2>1, OneAnswer DEF Store!Create, Store!MayAnswer
  <2> QED BY <1>3, <2>2 DEF StoreStep, Store!Next
<1>8. CASE ~Pinned /\ Named # None
  <2>1. Of("azurekms") /\ keys # 0
    BY <1>4, <1>8 DEF Inv, ServiceOK, Named
  <2>2. Replacements' = Replacements + 1
    BY <1>1, <1>4, <1>8, <2>1 DEF Replacements, Pinned, Of
  <2>3. Named' \in Keys /\ Known' = Known \cup {Named'}
    BY <1>2, <1>8
  <2>4. Store!Rotate(t)
    BY <1>5, <2>2, <2>3, OneAnswer DEF Store!Rotate, Store!MayAnswer
  <2> QED BY <1>3, <2>4 DEF StoreStep, Store!Next
<1> QED BY <1>2, <1>6, <1>7, <1>8

\* Those who administer the key replace it.
LEMMA RotateStep ==
    ASSUME Inv, Rotate
    PROVE  Inv' /\ StoreStep
<1>1. /\ ref' = ref /\ client' = client /\ call' = call /\ cache' = cache /\ rotated' = rotated + 1
      /\ UNCHANGED <<program, cache>> /\ NameNew /\ keys' = keys + 1
      /\ current \in 1..keys /\ ~Of("localkms")
  BY DEF Rotate, program, NameNew
<1>2. /\ ServiceOK' /\ CacheOK' /\ keys <= keys' /\ Known \subseteq Known'
      /\ current' = keys + 1 /\ keys + 1 \in Keys
      /\ Pinned => \/ Named' = Named /\ Known' = Known
                   \/ Named = None /\ Named' \in Keys /\ Known' = Known \cup {Named'}
      /\ ~Pinned => Named' = keys + 1 /\ Known' = Known \cup {Named'}
  BY <1>1, NameNewKeeps
<1>3. keys \in Nat /\ keys' \in Nat /\ None \notin Int /\ Torn \notin Int
  BY <1>1, KMSAssumption DEF Inv, ServiceOK
<1>4. \A u \in Threads : CallOK(call[u], Known, keys, current)'
  <2> TAKE u \in Threads
  <2>1. CallOK(call[u], Known, keys, current) /\ call[u].step # "write"
    BY <1>1 DEF Inv, CallOK
  <2>2. CallOK(call[u], Known', keys', current')
    BY <1>2, <1>3, <2>1, CallGrows
  <2> QED BY <1>1, <2>2 DEF CallOK, Of, Pinned
<1>5. Inv'
  BY <1>1, <1>2, <1>4 DEF Inv, OneWriter
<1>6. PICK t \in Threads : TRUE
  BY KMSAssumption
<1>7. CASE Pinned
  <2>1. Replacements' = Replacements
    BY <1>1, <1>7 DEF Replacements, Pinned
  <2>2. CASE Named' = Named /\ Known' = Known
    BY <1>1, <1>5, <2>1, <2>2 DEF StoreStep
  <2>3. CASE Named = None /\ Named' \in Keys /\ Known' = Known \cup {Named'}
    <3>1. Store!Create(t)
      BY <1>1, <2>1, <2>3 DEF Store!Create, Store!MayAnswer
    <3> QED BY <1>5, <3>1 DEF StoreStep, Store!Next
  <2> QED BY <1>2, <1>7, <2>2, <2>3
<1>8. CASE ~Pinned
  <2>1. Replacements' = Replacements + 1
    BY <1>1, <1>3, <1>8 DEF Replacements, Pinned, Of
  <2>2. Store!Rotate(t)
    BY <1>1, <1>2, <1>8, <2>1 DEF Store!Rotate, Store!MayAnswer
  <2> QED BY <1>5, <2>2 DEF StoreStep, Store!Next
<1> QED BY <1>7, <1>8

\* A key without an alias is not named yet.
LEMMA AWSCreateKeyStep ==
    ASSUME Inv, Of("awskms"), NEW t \in Threads, AWSCreateKey(t)
    PROVE  Inv' /\ StoreStep
<1> DEFINE c == call[t]
<1>1. /\ UNCHANGED program /\ ref' = ref /\ current' = current /\ named' = named /\ rotated' = rotated
      /\ oldest' = oldest /\ cache' = cache /\ c.step = "make"
  BY DEF AWSCreateKey, program, At
<1>2. /\ CallOK(c, Known, keys, current) /\ Shape(c) /\ c.op = "create" /\ ~Pinned /\ c.step # "write"
      /\ ref.pin = None
  BY <1>1 DEF Inv, CallOK, Creating, Pinned
<1>3. CASE keys = MaxKey /\ Set(t, Done(c, Error)) /\ UNCHANGED keys
  <2>1. UNCHANGED <<program, service, cache>>
    BY <1>1, <1>3 DEF service
  <2> QED BY <1>3, <2>1, Answers
<1>4. CASE keys < MaxKey /\ keys' = keys + 1
  <2> DEFINE d == To(c, "alias")
             e == [d EXCEPT !.made = keys + 1]
  <2>1. PICK lost \in Losses : Set(t, IF lost THEN Done(c, Error) ELSE e)
    <3>1. keys # MaxKey
      BY <1>4, KMSAssumption DEF Inv, ServiceOK
    <3> QED BY <3>1 DEF AWSCreateKey
  <2>2. Named' = Named /\ Known' = Known /\ Replacements' = Replacements
    BY <1>1, <1>2 DEF Named, Known, Replacements, Pinned, Of
  <2>3. keys \in Nat /\ keys' \in Nat /\ None \notin Int /\ Torn \notin Int
    BY <1>4, KMSAssumption DEF Inv, ServiceOK
  <2>4. ServiceOK' /\ keys <= keys' /\ CacheOK'
    BY <1>1, <1>4, <2>2, <2>3, KMSAssumption DEF Inv, ServiceOK, CacheOK, Of
  <2>5. CallOK(c, Known, keys', current)
    BY <1>2, <2>3, <2>4, CallGrows
  <2>6. Shape(d) /\ d.op = c.op /\ d.step = "alias" /\ d.load = None /\ d.result = c.result
    BY <1>2, ToFields
  <2> HIDE DEF d
  <2>7. Shape(e) /\ e.op = c.op /\ e.step = "alias" /\ e.load = None /\ e.result = c.result /\ e.made = keys'
    BY <1>4, <2>6 DEF Shape
  <2> HIDE DEF e
  <2>8. CallOK(e, Known, keys', current) /\ e.step # "write"
    <3>1. keys' \in 1..keys'
      BY <1>4, <2>3
    <3> QED BY <1>2, <2>5, <2>7, <3>1 DEF CallOK
  <2>9. CallOK(Done(c, Error), Known, keys', current) /\ Done(c, Error).step # "write"
    BY DoneOK
  <2>10. \A u \in Threads \ {t} : call[u].step # "write"
    BY DEF Inv, CallOK, Of
  <2>11. CASE lost
    BY <1>1, <2>1, <2>2, <2>4, <2>9, <2>10, <2>11, CallKeeps, QuietStep
  <2>12. CASE ~lost
    BY <1>1, <2>1, <2>2, <2>4, <2>8, <2>10, <2>12, CallKeeps, QuietStep
  <2> QED BY <2>11, <2>12
<1> QED BY <1>3, <1>4 DEF AWSCreateKey

\* The first to name its key creates it.
LEMMA AWSCreateAliasStep ==
    ASSUME Inv, Of("awskms"), NEW t \in Threads, AWSCreateAlias(t)
    PROVE  Inv' /\ StoreStep
<1> DEFINE c == call[t]
           d == To(c, "created")
           e == [d EXCEPT !.made = None]
<1>1. /\ UNCHANGED program /\ ref' = ref /\ keys' = keys /\ rotated' = rotated /\ cache' = cache
      /\ c.step = "alias" /\ current = None /\ current' = c.made /\ named' = named \cup {c.made}
  BY DEF AWSCreateAlias, program, At
<1>2. /\ CallOK(c, Known, keys, current) /\ Shape(c) /\ c.op = "create" /\ ~Pinned /\ c.made \in 1..keys
      /\ c.step # "write" /\ ref.pin = None
  BY <1>1 DEF Inv, CallOK, Creating, Pinned
<1>3. PICK lost \in Losses : Set(t, IF lost THEN Done(c, Error) ELSE e)
  BY DEF AWSCreateAlias
<1>4. keys \in Nat /\ None \notin Int /\ Torn \notin Int /\ 1..keys \subseteq Keys
  BY NamedKnown DEF Inv, ServiceOK
<1>5. /\ Named = None /\ Named' = c.made /\ Known' = Known \cup {Named'} /\ Replacements' = Replacements
  BY <1>1, <1>2, <1>4 DEF Named, Known, Replacements, Pinned, Of
<1>6. ServiceOK' /\ keys <= keys' /\ CacheOK' /\ Known \subseteq Known'
  BY <1>1, <1>2, <1>4, <1>5 DEF Inv, ServiceOK, CacheOK, Of
<1>7. CallOK(c, Known', keys', current')
  BY <1>1, <1>2, <1>4, <1>6, CallGrows
<1>8. CallOK(d, Known', keys', current') /\ Shape(d) /\ d.op = c.op /\ d.step = "created" /\ d.load = None /\ d.result = c.result
  BY <1>2, <1>7, ToFields, ToOK
<1> HIDE DEF d
<1>9. Shape(e) /\ e.op = c.op /\ e.step = "created" /\ e.load = None /\ e.result = c.result
  BY <1>8 DEF Shape
<1> HIDE DEF e
<1>10. CallOK(e, Known', keys', current') /\ e.step # "write"
  BY <1>2, <1>8, <1>9 DEF CallOK
<1>11. CallOK(Done(c, Error), Known', keys', current') /\ Done(c, Error).step # "write"
       /\ Done(c, Error).op = "create" /\ Done(c, Error).result = Error
  BY <1>2, DoneOK, DoneFields
<1>12. \A u \in Threads \ {t} : call[u].step # "write"
  BY DEF Inv, CallOK, Of
<1>13. AnswerOf(e) = AnswerOf(c) /\ AnswerOf(Done(c, Error)) = Error
  BY <1>2, <1>9, <1>11 DEF AnswerOf
<1>14. PICK x : Set(t, x) /\ CallOK(x, Known', keys', current') /\ x.step # "write"
                /\ AnswerOf(x) \in {AnswerOf(c), Error, Named'}
  BY <1>3, <1>10, <1>11, <1>13
<1>15. Inv'
  BY <1>1, <1>6, <1>12, <1>14, CallKeeps
<1>16. Store!Create(t)
  <2>1. Named' \in Keys
    BY <1>2, <1>4, <1>5
  <2> QED BY <1>5, <1>14, <2>1, OneAnswer DEF Store!Create, Store!MayAnswer
<1> QED BY <1>15, <1>16 DEF StoreStep, Store!Next

LEMMA AWSStep ==
    ASSUME Inv, NEW t \in Threads, AWSNext(t)
    PROVE  Inv' /\ StoreStep
BY AWSQuietStep, AWSCreateKeyStep, AWSCreateAliasStep, FailStep DEF AWSNext

-----------------------------------------------------------------------------
(* Azure                                                                   *)

LEMMA AzureHaveOK ==
    ASSUME Inv, NEW t \in Threads, NEW e, e.pub \in Known
    PROVE  /\ CallOK(AzureHave(call[t], e), Known, keys, current)
           /\ AzureHave(call[t], e).step # "write"
<1> DEFINE c == call[t]
           asked == c.op \in {"public", "create"}
           request == [To(c, "request") EXCEPT !.entry = e]
<1>1. CallOK(c, Known, keys, current)
  BY DEF Inv
<1>2. AzureHave(c, e) = CASE asked -> Done(c, e.pub)
                          [] ~asked /\ c.step = "hash" -> AzureHash(c, e)
                          [] OTHER -> request
  BY DEF AzureHave
<1>3. asked => CallOK(Done(c, e.pub), Known, keys, current) /\ Done(c, e.pub).step # "write"
  BY DoneOK
<1>4. CallOK(AzureHash(c, e), Known, keys, current) /\ AzureHash(c, e).step # "write"
  <2>1. CallOK(To(c, "key"), Known, keys, current) /\ To(c, "key").step # "write"
    BY <1>1, ToOK DEF Creating
  <2>2. CallOK(Done(c, Error), Known, keys, current) /\ Done(c, Error).step # "write"
    BY DoneOK
  <2> QED BY <2>1, <2>2, KeepsOK DEF AzureHash
<1>5. ~asked => CallOK(request, Known, keys, current) /\ request.step # "write"
  <2>1. ~asked => CallOK(To(c, "request"), Known, keys, current) /\ To(c, "request").step # "write"
    BY <1>1, ToOK DEF Creating
  <2> QED BY <2>1, KeepsOK
<1> HIDE DEF request
<1> QED BY <1>2, <1>3, <1>4, <1>5

\* A call of a client of Key Vault, Vault or a plugin starts.
LEMMA StartStep ==
    ASSUME Inv, NEW t \in Threads, NEW op, NEW s, NEW opts, NEW sig, Set(t, NewCall(op, s, opts, sig)),
           UNCHANGED <<program, service, cache>>,
           \/ s \in {"hash", "key"}
           \/ s = "run" /\ op # "create"
           \/ s \in {"probe", "make", "stat"} /\ op = "create" /\ ~Of("awskms")
    PROVE  Inv' /\ StoreStep
<1>1. /\ s \in Creating => op = "create"
      /\ s = "run" => op # "create"
      /\ Of("awskms") /\ s \in {"exists", "make", "alias", "created"} => ref.pin = None
      /\ s \notin {"alias", "request", "write"}
  BY DEF Creating
<1>2. ASSUME NEW known, NEW n, NEW cur
      PROVE  CallOK(NewCall(op, s, opts, sig), known, n, cur) /\ NewCall(op, s, opts, sig).step # "write"
  <2>1. Of("awskms") /\ s \in {"exists", "make", "alias", "created"} => ref.pin = None
    BY <1>1
  <2>2. s \notin {"alias", "request", "write"} /\ (s \in Creating => op = "create") /\ (s = "run" => op # "create")
    BY <1>1
  <2> QED BY ONLY <2>1, <2>2, NewOK
<1> QED BY <1>2, QuietCall, CacheKept

\* Its creator goes on, or does not hear of the key.
LEMMA CreatedStep ==
    ASSUME Inv, ~Of("awskms"), NEW t \in Threads, At(t, {"make"}),
           NEW lost \in BOOLEAN, Set(t, IF lost THEN Done(call[t], Error) ELSE To(call[t], "created")),
           NEW known, NEW n \in Nat, NEW cur, Known \subseteq known, keys <= n
    PROVE  \E c : /\ Set(t, c) /\ CallOK(c, known, n, cur) /\ c.step # "write"
                  /\ AnswerOf(c) \in {AnswerOf(call[t]), Error}
<1> DEFINE c == call[t]
<1>1. CallOK(c, Known, keys, current) /\ c.op = "create" /\ c.step # "write" /\ Shape(c) /\ keys \in Nat
  BY DEF Inv, CallOK, At, Creating, ServiceOK
<1>2. CallOK(c, known, n, cur)
  BY <1>1, CallGrows
<1>3. CallOK(Done(c, Error), known, n, cur) /\ Done(c, Error).step # "write" /\ AnswerOf(Done(c, Error)) = Error
  BY <1>1, DoneOK, DoneFields DEF AnswerOf
<1>4. CallOK(To(c, "created"), known, n, cur) /\ To(c, "created").step # "write"
      /\ AnswerOf(To(c, "created")) = AnswerOf(c)
  BY <1>1, <1>2, ToOK, ToFields DEF AnswerOf
<1>5. CASE lost
  BY <1>3, <1>5
<1>6. CASE ~lost
  BY <1>4, <1>6
<1> QED BY <1>5, <1>6

LEMMA AzureStep ==
    ASSUME Inv, NEW t \in Threads, AzureNext(t)
    PROVE  Inv' /\ StoreStep
<1> DEFINE c == call[t]
<1>1. Of("azurekms") /\ ~Of("awskms") /\ ~Of("localkms")
  BY DEF AzureNext, Of
<1>2. CallOK(c, Known, keys, current) /\ Shape(c)
  BY DEF Inv, CallOK
<1>3. CASE AzureStart(t)
  BY <1>1, <1>3, StartStep DEF AzureStart
<1>4. CASE AzureHit(t)
  <2>1. Entry(t).pub \in Known
    BY <1>4 DEF Inv, CacheOK, AzureHit, CanHit, Entry
  <2> QED BY <1>4, <2>1, AzureHaveOK, QuietCall, CacheKept DEF AzureHit
<1>5. CASE AzureStore(t)
  <2>1. CacheOK' /\ c.load.pub \in Known
    BY <1>5, EntryStored DEF AzureStore
  <2> QED BY <1>5, <2>1, AzureHaveOK, QuietCall DEF AzureStore
<1>6. CASE AzureRequest(t)
  <2>1. c.op \notin {"public", "create"} /\ UNCHANGED <<program, service, cache>>
    BY <1>2, <1>6 DEF AzureRequest, At, CallOK
  <2>2. CASE AzureRequestOK(c, Named) /\ c.op = "sign"
    <3>1. PICK short \in BOOLEAN : Set(t, Done(c, Sig(AzureSignature(Named, c.digest), short)))
      BY <1>6, <2>2 DEF AzureRequest
    <3>2. AzureSignature(Named, c.digest).key = Named
      <4> DEFINE s == RemoteSignature(Named, Alg(Named), c.digest)
      <4>1. s = [scheme |-> s.scheme, key |-> Named, hash |-> s.hash, digest |-> s.digest]
        BY DEF RemoteSignature, Signature
      <4>2. AzureSignature(Named, c.digest) = IF s.scheme = "ecdsa" THEN s ELSE [s EXCEPT !.scheme = "asn1"]
        BY DEF AzureSignature
      <4> HIDE DEF s
      <4> QED BY <4>1, <4>2
    <3>3. Pinned => Sig(AzureSignature(Named, c.digest), short).value.key = ref.pin
      BY <2>2, <3>2 DEF Sig, AzureRequestOK, Named
    <3> QED BY <2>1, <3>1, <3>3, Answers
  <2>3. CASE ~(AzureRequestOK(c, Named) /\ c.op = "sign")
    <3>1. Set(t, Done(c, Error)) \/ (c.op # "sign" /\ \E v : Set(t, Done(c, v)))
      BY <1>6, <2>3 DEF AzureRequest
    <3> QED BY <2>1, <3>1, Answers
  <2> QED BY <2>2, <2>3
<1>7. CASE AzureGetKey(t)
  <2>1. c.op = "create" /\ Set(t, To(c, IF Named = None THEN "make" ELSE "created"))
        /\ UNCHANGED <<program, service, cache>>
    BY <1>2, <1>7 DEF AzureGetKey, At, CallOK, Creating
  <2>2. \A s \in {"make", "created"} : CallOK(To(c, s), Known, keys, current) /\ To(c, s).step # "write"
    BY <1>1, <1>2, <2>1, ToOK
  <2> QED BY <2>1, <2>2, QuietCall, CacheKept
<1>8. CASE AzureCreateKey(t)
  <2>1. /\ UNCHANGED <<program, cache, rotated>> /\ UNCHANGED <<program, cache>> /\ NameNew /\ At(t, {"make"})
        /\ keys' = keys + 1
    BY <1>8 DEF AzureCreateKey, NameNew
  <2>2. keys <= keys' /\ keys' \in Nat /\ Known \subseteq Known'
    BY <2>1, NameNewKeeps DEF Inv, ServiceOK
  <2>3. PICK lost \in BOOLEAN : Set(t, IF lost THEN Done(c, Error) ELSE To(c, "created"))
    BY <1>8 DEF AzureCreateKey, Losses
  <2>4. PICK d : /\ Set(t, d) /\ CallOK(d, Known', keys', current') /\ d.step # "write"
                 /\ AnswerOf(d) \in {AnswerOf(c), Error}
    BY <1>1, <2>1, <2>2, <2>3, CreatedStep
  <2>5. \A u \in Threads \ {t} : call[u].step # "write"
    BY <1>1 DEF Inv, CallOK
  <2> QED BY <1>1, <2>1, <2>4, <2>5, NewKeyStep
<1>9. CASE AzureQuota(t)
  BY <1>9, Answers DEF AzureQuota
<1> QED BY <1>3, <1>4, <1>5, <1>6, <1>7, <1>8, <1>9, FetchStep, FailStep DEF AzureNext

-----------------------------------------------------------------------------
(* Vault                                                                   *)

LEMMA VaultHaveOK ==
    ASSUME Inv, NEW t \in Threads, NEW e, e.pub \in Known
    PROVE  /\ CallOK(VaultHave(call[t], e), Known, keys, current)
           /\ VaultHave(call[t], e).step # "write"
<1> DEFINE c == call[t]
<1>1. CallOK(c, Known, keys, current)
  BY DEF Inv
<1>2. CASE c.op \in {"public", "create"}
  BY <1>2, DoneOK DEF VaultHave
<1>3. CASE c.op \notin {"public", "create"}
  BY <1>1, <1>3, ToOK DEF VaultHave, Creating
<1> QED BY <1>2, <1>3

LEMMA VaultStep ==
    ASSUME Inv, NEW t \in Threads, VaultNext(t)
    PROVE  Inv' /\ StoreStep
<1> DEFINE c == call[t]
<1>1. Of("hashivault") /\ ~Of("awskms") /\ ~Of("localkms") /\ ~Of("azurekms") /\ ~Pinned
  BY DEF VaultNext, Of, Pinned
<1>2. CallOK(c, Known, keys, current) /\ Shape(c)
  BY DEF Inv, CallOK
<1>3. ASSUME NEW op \in {"sign", "verify"}, NEW opts, NEW sig, Set(t, VaultCall(op, opts, sig)),
             UNCHANGED <<program, service, cache>>
      PROVE  Inv' /\ StoreStep
  <2>1. \/ Set(t, NewCall(op, "key", opts, sig))
        \/ Set(t, Done(NewCall(op, "done", opts, sig), Error))
    BY <1>3 DEF VaultCall
  <2>2. CASE Set(t, NewCall(op, "key", opts, sig))
    BY <1>3, <2>2, StartStep
  <2>3. CASE Set(t, Done(NewCall(op, "done", opts, sig), Error))
    BY <1>3, <2>3, DoneOK, QuietCall, CacheKept
  <2> QED BY <2>1, <2>2, <2>3
<1>4. CASE VaultStart(t)
  BY <1>1, <1>3, <1>4, StartStep DEF VaultStart
<1>5. CASE VaultHit(t)
  <2>1. Entry(t).pub \in Known
    BY <1>5 DEF Inv, CacheOK, VaultHit, CanHit, Entry
  <2> QED BY <1>5, <2>1, VaultHaveOK, QuietCall, CacheKept DEF VaultHit
<1>6. CASE VaultStore(t)
  <2>1. CacheOK' /\ c.load.pub \in Known
    BY <1>6, EntryStored DEF VaultStore
  <2> QED BY <1>6, <2>1, VaultHaveOK, QuietCall DEF VaultStore
<1>7. CASE VaultSign(t) \/ VaultVerify(t)
  <2>1. /\ c.op \notin {"public", "create"} /\ UNCHANGED <<program, service, cache>>
        /\ \E r : Set(t, Done(c, r))
    BY <1>7 DEF VaultSign, VaultVerify
  <2> QED BY <1>1, <2>1, Answers
<1>8. CASE VaultCreateKey(t)
  <2>1. /\ UNCHANGED <<program, cache, rotated>> /\ UNCHANGED <<program, cache>> /\ At(t, {"make"})
    BY <1>8 DEF VaultCreateKey
  <2>2. PICK lost \in BOOLEAN : Set(t, IF lost THEN Done(c, Error) ELSE To(c, "created"))
    BY <1>8 DEF VaultCreateKey, Losses
  <2>3. \A u \in Threads \ {t} : call[u].step # "write"
    BY <1>1 DEF Inv, CallOK
  <2>4. CASE current = None
    <3>1. NameNew
      BY <1>8, <2>4 DEF VaultCreateKey
    <3>2. keys <= keys' /\ keys' \in Nat /\ Known \subseteq Known'
      BY <2>1, <3>1, NameNewKeeps DEF Inv, ServiceOK, NameNew
    <3>3. PICK d : /\ Set(t, d) /\ CallOK(d, Known', keys', current') /\ d.step # "write"
                   /\ AnswerOf(d) \in {AnswerOf(c), Error}
      BY <1>1, <2>1, <2>2, <3>2, CreatedStep
    <3> QED BY <2>1, <2>3, <2>4, <3>1, <3>3, NewKeyStep
  <2>5. CASE current # None
    <3>1. UNCHANGED <<program, service>> /\ UNCHANGED cache
      BY <1>8, <2>5 DEF VaultCreateKey, service
    <3>2. keys <= keys /\ keys \in Nat
      BY DEF Inv, ServiceOK
    <3>3. PICK d : Set(t, d) /\ CallOK(d, Known, keys, current) /\ d.step # "write"
      BY <1>1, <2>1, <2>2, <3>2, CreatedStep
    <3> QED BY <3>1, <3>3, QuietCall, CacheKept
  <2> QED BY <2>4, <2>5
<1> QED BY <1>4, <1>5, <1>6, <1>7, <1>8, FetchStep, FailStep DEF VaultNext

-----------------------------------------------------------------------------
(* The plugin                                                              *)

\* What a program returns is what it was asked for, or an error.
LEMMA PluginAnswer ==
    ASSUME Inv, Of("localkms"), NEW t \in Threads, NEW v, PluginReturns(t, Dispatch(v)),
           UNCHANGED <<program, service, cache>>,
           call[t].op \in {"public", "create"} => v \in Known \cup {Error}
    PROVE  Inv' /\ StoreStep
<1>1. invokePlugin(Dispatch(v)) \in {v, Error}
  BY DEF invokePlugin, Dispatch
<1>2. ~Pinned
  BY KMSAssumption DEF Inv, Pinned, Of
<1> QED BY <1>1, <1>2, Answers DEF PluginReturns

LEMMA PluginStep ==
    ASSUME Inv, NEW t \in Threads, PluginNext(t)
    PROVE  Inv' /\ StoreStep
<1> DEFINE c == call[t]
<1>1. Of("localkms") /\ ~Of("awskms") /\ ~Of("azurekms") /\ ~Pinned /\ ref.pin = None
  BY KMSAssumption DEF PluginNext, Of, Pinned, Inv
<1>2. CallOK(c, Known, keys, current) /\ Shape(c)
  BY DEF Inv, CallOK
<1>3. loadRSAPrivateKey \in Known \cup {Error}
  BY <1>1, KMSAssumption DEF loadRSAPrivateKey, Known, Inv, ServiceOK, Keys
<1>4. CASE PluginStart(t)
  BY <1>1, <1>4, StartStep DEF PluginStart
<1>5. CASE PluginKilled(t)
  <2>1. invokePlugin(Killed) = Error
    BY DEF invokePlugin, Killed
  <2> QED BY <1>5, <2>1, Answers DEF PluginKilled, PluginReturns
<1>6. CASE LocalRun(t)
  <2>1. c.op # "create" /\ UNCHANGED <<program, service, cache>>
    BY <1>2, <1>6 DEF LocalRun, At, CallOK
  <2>2. CASE LocalPanics(c)
    <3>1. invokePlugin(Panicked) = Error
      BY DEF invokePlugin, Panicked
    <3> QED BY <1>6, <2>1, <2>2, <3>1, Answers DEF LocalRun, PluginReturns
  <2>3. CASE ~LocalPanics(c)
    <3>1. c.op = "public" => LocalAnswer(c) \in {loadRSAPrivateKey, Error}
      <4>1. CASE loadRSAPrivateKey = Error
        BY <4>1 DEF LocalAnswer
      <4>2. CASE loadRSAPrivateKey # Error /\ c.op = "public"
        BY <4>2 DEF LocalAnswer
      <4> QED BY <4>1, <4>2
    <3>2. PluginReturns(t, Dispatch(LocalAnswer(c)))
      BY <1>6, <2>3 DEF LocalRun
    <3> QED BY <1>1, <1>3, <2>1, <3>1, <3>2, PluginAnswer
  <2> QED BY <2>2, <2>3
<1>7. CASE LocalStat(t)
  <2>1. c.op = "create" /\ c.result = None /\ Set(t, To(c, IF current = None THEN "open" ELSE "load"))
        /\ UNCHANGED <<program, service, cache>>
    BY <1>2, <1>7 DEF LocalStat, At, CallOK, Creating
  <2>2. \A s \in {"open", "load"} : CallOK(To(c, s), Known, keys, current) /\ To(c, s).step # "write"
    BY <1>1, <1>2, <2>1, ToOK
  <2> QED BY <2>1, <2>2, QuietCall, CacheKept
<1>8. CASE LocalLoad(t)
  BY <1>1, <1>3, <1>8, PluginAnswer DEF LocalLoad
<1>9. CASE LocalOpenFails(t)
  BY <1>1, <1>9, PluginAnswer DEF LocalOpenFails
<1>10. CASE LocalOpen(t)
  <2> DEFINE d == To(c, "write")
  <2>1. /\ UNCHANGED program /\ ref' = ref /\ keys' = keys /\ named' = named /\ rotated' = rotated
        /\ cache' = cache /\ current = None /\ current' = Torn /\ c.step = "open" /\ Set(t, d)
    BY <1>10 DEF LocalOpen, LocalOpens, program, At
  <2>2. None # Torn /\ None \notin Int /\ Torn \notin Int /\ keys \in Nat
    BY KMSAssumption DEF Inv, ServiceOK
  <2>3. Named' = Named /\ Known' = Known /\ Replacements' = Replacements
    BY <1>1, <2>1, <2>2 DEF Named, Known, Replacements, Pinned, Of
  <2>4. ServiceOK' /\ CacheOK' /\ keys <= keys'
    BY <1>1, <2>1, <2>2, <2>3 DEF Inv, ServiceOK, CacheOK, Of
  <2>5. c.op = "create" /\ Shape(d) /\ d.op = c.op /\ d.step = "write" /\ d.load = None /\ d.result = c.result
    BY <1>2, <2>1, ToFields DEF CallOK, Creating
  <2> HIDE DEF d
  <2>6. CallOK(d, Known', keys', current')
    BY <1>1, <1>2, <2>1, <2>3, <2>5 DEF CallOK
  <2>7. \A u \in Threads \ {t} : call[u].step # "write"
    BY <2>1, <2>2 DEF Inv, CallOK
  <2> QED BY <2>1, <2>3, <2>4, <2>6, <2>7, CallKeeps, QuietStep
<1>11. CASE LocalWrite(t)
  <2> DEFINE d == Done(c, keys + 1)
  <2>1. /\ UNCHANGED <<program, cache, rotated>> /\ UNCHANGED <<program, cache>> /\ NameNew /\ c.step = "write"
        /\ Set(t, Idle) \/ PluginReturns(t, Dispatch(keys + 1))
    BY <1>11 DEF LocalWrite, At
  <2>2. keys + 1 \in Int /\ Error \notin Int /\ None \notin Int
    BY KMSAssumption DEF Inv, ServiceOK
  <2>3. invokePlugin(Dispatch(keys + 1)) = keys + 1
    <3>1. Dispatch(keys + 1).response = [error |-> FALSE, value |-> keys + 1]
      BY <2>2 DEF Dispatch
    <3>2. Dispatch(keys + 1).exit = 0 /\ Dispatch(keys + 1).parsed = TRUE
      BY DEF Dispatch
    <3> QED BY <3>1, <3>2 DEF invokePlugin
  <2>4. Set(t, Idle) \/ Set(t, d)
    BY <2>1, <2>3 DEF PluginReturns
  <2>5. current = Torn /\ c.op = "create" /\ \A u \in Threads \ {t} : call[u].step # "write"
    BY <1>2, <2>1 DEF Inv, OneWriter, CallOK, Creating
  <2>6. keys + 1 \in Known'
    <3>1. Known' = Known \cup {keys + 1}
      BY <1>1, <2>1, NameNewKeeps
    <3> QED BY <3>1
  <2>7. CallOK(d, Known', keys', current') /\ d.step # "write"
    BY <2>5, <2>6, DoneOK
  <2>8. AnswerOf(d) = keys + 1
    BY <2>5, DoneFields DEF AnswerOf
  <2> HIDE DEF d
  <2>9. CASE Set(t, d)
    BY <1>1, <2>1, <2>5, <2>7, <2>8, <2>9, NewKeyStep
  <2>10. CASE Set(t, Idle)
    <3>1. CallOK(Idle, Known', keys', current') /\ Idle.step # "write" /\ AnswerOf(Idle) = None
      BY IdleOK
    <3>2. AnswerOf(c) = None
      BY <1>2, <2>1, <2>5 DEF CallOK, Creating, AnswerOf
    <3> QED BY <1>1, <2>1, <2>5, <2>10, <3>1, <3>2, NewKeyStep
  <2> QED BY <2>4, <2>9, <2>10
<1> QED BY <1>4, <1>5, <1>6, <1>7, <1>8, <1>9, <1>10, <1>11 DEF PluginNext

-----------------------------------------------------------------------------
(* What follows                                                            *)

LEMMA InvInit == Init => Inv /\ Store!Init
<1> SUFFICES ASSUME Init PROVE Inv /\ Store!Init
  OBVIOUS
<1>1. /\ ref \in References /\ client \in [Threads -> Clients] /\ keys \in {0, 1}
      /\ current = (IF keys = 0 THEN None ELSE 1) /\ named = 1..keys /\ rotated = 0
      /\ cache = [c \in Clients |-> None] /\ call = [t \in Threads |-> Idle]
  BY KMSAssumption DEF Init
<1>2. None # Torn /\ None \notin Int /\ Torn \notin Int /\ MaxKey \in Nat \ {0}
  BY KMSAssumption
<1>3. ServiceOK
  BY <1>1, <1>2 DEF ServiceOK, Of
<1>4. Idle.step = "done"
  BY DEF Idle
<1>5. CallOK(Idle, Known, keys, current)
  BY IdleOK
<1>6. Inv
  BY <1>1, <1>3, <1>4, <1>5 DEF Inv, CacheOK, OneWriter
<1>7. AnswerOf(Idle) = None
  BY IdleOK
<1>8. [t \in Threads |-> AnswerOf(call[t])] = [t \in Threads |-> None]
  BY <1>1, <1>7
<1>9. Named \in Keys \cup {None}
  BY <1>3, <1>6, NamedKnown DEF Inv
<1>10. Known = {Named} \ {None} /\ Replacements = 0
  <2>1. CASE Pinned
    BY <2>1 DEF Known, Replacements
  <2>2. CASE ~Pinned
    <3>1. CASE keys = 0
      BY <1>1, <1>2, <2>2, <3>1 DEF Known, Replacements, Named, Pinned, Of
    <3>2. CASE keys = 1
      BY <1>1, <1>2, <2>2, <3>2 DEF Known, Replacements, Named, Pinned, Of
    <3> QED BY <1>1, <3>1, <3>2
  <2> QED BY <2>1, <2>2
<1> QED BY <1>6, <1>8, <1>9, <1>10 DEF Store!Init

\* Every step keeps the invariant and is a step of KeyStore.
LEMMA InvStep == Inv /\ [Next]_vars => Inv' /\ StoreStep
<1> SUFFICES ASSUME Inv, [Next]_vars PROVE Inv' /\ StoreStep
  OBVIOUS
<1>1. CASE Next
  BY <1>1, RotateStep, SetMinimumStep, ExpireStep, KillStep, AWSStep, AzureStep, VaultStep, PluginStep DEF Next
<1>2. CASE UNCHANGED vars
  <2>1. /\ ref' = ref /\ client' = client /\ keys' = keys /\ current' = current /\ named' = named
        /\ rotated' = rotated /\ cache' = cache /\ call' = call
    BY <1>2 DEF vars, program, service
  <2>2. Named' = Named /\ Known' = Known /\ Replacements' = Replacements
    BY <2>1 DEF Named, Known, Replacements, Pinned, Of
  <2> QED BY <2>1, <2>2 DEF StoreStep, Inv, ServiceOK, CacheOK, OneWriter, CallOK, Of, Pinned
<1> QED BY <1>1, <1>2

\* The invariant that the theorem on pinned clients follows from.
THEOREM Invariance == Spec => []Inv
<1>1. Init => Inv
  BY InvInit
<1>2. Inv /\ [Next]_vars => Inv'
  BY InvStep
<1> QED BY <1>1, <1>2, PTL DEF Spec

\* createKey of every client, with its cache, gets or creates one key for all who
\* share a reference.
THEOREM Implements == Spec => GetsOrCreates
<1>1. Init => Store!Init
  BY InvInit
<1>2. Inv /\ [Next]_vars => [Store!Next]_<<Named, Known, Replacements, [t \in Threads |-> AnswerOf(call[t])]>>
  BY InvStep DEF StoreStep
<1> QED BY <1>1, <1>2, Invariance, PTL DEF Spec, GetsOrCreates, Store!Spec

\* A client of one key or version caches and returns no other, and signs with no other.
THEOREM PinnedTheorem == Spec => []PinnedExact
<1>1. Inv => PinnedExact
  <2> SUFFICES ASSUME Inv, Pinned PROVE PinnedExact
    BY DEF PinnedExact
  <2>1. Known \subseteq {ref.pin}
    BY NamedKnown DEF Inv
  <2>2. \A c \in Clients : cache[c] # None => cache[c].pub = ref.pin
    BY <2>1 DEF Inv, CacheOK
  <2>3. \A t \in Threads :
            /\ call[t].op \in {"public", "create"} => call[t].result \in {None, Error, ref.pin}
            /\ call[t].op = "sign" /\ call[t].result \notin {None, Error} =>
                    call[t].result.value.key = ref.pin
    BY <2>1 DEF Inv, CallOK
  <2> QED BY <2>2, <2>3 DEF PinnedExact
<1> QED BY <1>1, Invariance, PTL
=============================================================================
