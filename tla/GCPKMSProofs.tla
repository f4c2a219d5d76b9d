---------------------------- MODULE GCPKMSProofs ----------------------------
(***************************************************************************)
(* Safety of GCPKMS for all goroutines that share a client, any number of  *)
(* versions, every life of an entry, and every order of lookups, hits and  *)
(* rotations.                                                              *)
(***************************************************************************)
EXTENDS GCPKMS, FiniteSetTheorems, TLAPS

-----------------------------------------------------------------------------
(* The inductive invariant                                                 *)

\* The greatest enabled version is so at this moment.
KeyInv ==
    /\ now \in 0..MaxTime
    /\ ring \in BOOLEAN /\ made \in 0..MaxVersion /\ enabled \subseteq 1..made
    /\ last \in [Versions -> 0..now \cup {None}]
    /\ enabled # {} => last[Latest] = now

\* A version read at time a from a key of which m versions are made and whose history is l:
\* it is the pinned one, or was the greatest enabled one then or after.
ReadOK(v, a, pin, m, l) ==
    /\ v \in 1..m
    /\ IF pin = None THEN l[v] # None /\ l[v] >= a ELSE v = pin

\* A version in use at time a: what VersionFresh says of it.
UsedOK(v, a, pin, m, l) ==
    /\ v \in 1..m
    /\ pin = None => l[v] # None /\ l[v] + TTL + LoadTime >= a

\* A pinned entry is for ever the same; another one expires before its version is too old.
EntryOK(e, pin, m, l) ==
    /\ e.version \in 1..m
    /\ IF pin = None
       THEN e.expires \in 0..(MaxTime + TTL) /\ UsedOK(e.version, e.expires, pin, m, l)
       ELSE e = [version |-> pin, expires |-> None]

Shape(c) ==
    c = [step |-> c.step, load |-> c.load, ckv |-> c.ckv, at |-> c.at, hf |-> c.hf,
         sig |-> c.sig, unread |-> c.unread, result |-> c.result]

\* A call at time n: its lookup is not overdue, the version it uses is recent.
CallOK(c, pin, n, m, l) ==
    /\ Shape(c) /\ c.step \in Steps /\ c.unread \in BOOLEAN
    /\ c.load # None =>
        /\ c.step \in Lookups
        /\ c.load.at \in 0..n /\ n <= c.load.at + LoadTime
        /\ ReadOK(c.load.version, c.load.at, pin, m, l)
    /\ c.at \in 0..n \cup {None}
    /\ c.ckv # None => c.at # None /\ UsedOK(c.ckv, c.at, pin, m, l)
    /\ c.sig \in 1..m \cup {Forged, None}
    /\ c.result \in 1..m \cup {None, Error, Rejected}

Inv ==
    /\ KeyInv /\ version \in Pins
    /\ cache # None => EntryOK(cache, version, made, last)
    /\ call = [t \in Threads |-> call[t]]
    /\ \A t \in Threads : CallOK(call[t], version, now, made, last)

-----------------------------------------------------------------------------
(* Versions                                                                *)

USE GCPAssumption DEF Versions

LEMMA SubsetOrdered ==
    ASSUME NEW S, NEW A \in SUBSET S, NEW B \in SUBSET S, A \subseteq B, A # B
    PROVE  <<A, B>> \in StrictSubsetOrdering(S)
BY DEF StrictSubsetOrdering

\* A set of versions has a greatest: one with the fewest above it.
LEMMA MaxOfVersions ==
    ASSUME NEW E \in SUBSET Versions, E # {}
    PROVE  Max(E) \in E /\ \A v \in E : Max(E) >= v
<1> DEFINE Above(v) == {w \in E : w > v}
           T == {Above(v) : v \in E}
           R == StrictSubsetOrdering(Versions)
<1>1. IsFiniteSet(Versions)
  BY FS_Interval
<1>2. FiniteSubsetsOf(Versions) = SUBSET Versions
  BY <1>1, FS_FiniteSubsetsOfFinite
<1>3. IsWellFoundedOn(R, SUBSET Versions)
  BY <1>2, FS_StrictSubsetOrderingWellFounded
<1>4. T \subseteq SUBSET Versions /\ T # {}
  <2>1. PICK v \in E : TRUE
    OBVIOUS
  <2>2. Above(v) \in T
    BY Zenon
  <2>3. \A w \in E : Above(w) \in SUBSET Versions
    OBVIOUS
  <2> QED BY <2>2, <2>3, Zenon
<1>5. PICK A \in T : \A B \in T : <<B, A>> \notin R
  <2> HIDE DEF T, R
  <2> QED BY <1>3, <1>4, WFMin
<1>6. PICK v \in E : A = Above(v)
  OBVIOUS
<1>7. ASSUME NEW w \in E, w > v PROVE FALSE
  <2>1. Above(w) \subseteq Above(v)
    <3>1. E \subseteq Int
      OBVIOUS
    <3>2. \A u \in E : u > w => u > v
      BY <1>7, <3>1
    <3> QED BY <3>2
  <2>2. w \in Above(v) /\ w \notin Above(w)
    BY <1>7
  <2>3. <<Above(w), A>> \in R
    <3>1. Above(w) \in SUBSET Versions /\ Above(v) \in SUBSET Versions
      OBVIOUS
    <3>2. Above(w) # Above(v)
      BY <2>2, Zenon
    <3> HIDE DEF Above
    <3> QED BY <1>6, <2>1, <3>1, <3>2, SubsetOrdered
  <2> QED BY <1>5, <2>3
<1>8. \A w \in E : v >= w
  BY <1>7
<1> QED BY <1>8 DEF Max

\* Versions are only added, and time only makes a version's last moment later.
Grows(n, m, l) ==
    /\ now <= n /\ n \in Int /\ made <= m /\ m \in Int
    /\ \A v \in Versions : last[v] # None => l[v] # None /\ l[v] \in Int /\ l[v] >= last[v]

\* What is true of an entry and of a call stays true.
LEMMA EntryKept ==
    ASSUME KeyInv, NEW e, NEW n, NEW m, NEW l, Grows(n, m, l), EntryOK(e, version, made, last)
    PROVE  EntryOK(e, version, m, l)
<1>1. e.version \in Versions /\ e.version \in 1..m
  BY DEF EntryOK, KeyInv, Grows
<1>2. version = None => /\ last[e.version] \in Int /\ l[e.version] # None 
                        /\ l[e.version] \in Int /\ l[e.version] >= last[e.version]
  BY <1>1 DEF EntryOK, UsedOK, KeyInv, Grows
<1> QED BY <1>1, <1>2 DEF EntryOK, UsedOK

LEMMA CallKept ==
    ASSUME KeyInv, NEW c, NEW n, NEW m, NEW l, Grows(n, m, l), CallOK(c, version, now, made, last),
           c.load # None => n <= c.load.at + LoadTime
    PROVE  CallOK(c, version, n, m, l)
<1>1. ASSUME NEW v \in 1..made, NEW a \in Int, ReadOK(v, a, version, made, last)
      PROVE  ReadOK(v, a, version, m, l)
  BY <1>1 DEF ReadOK, KeyInv, Grows
<1>2. ASSUME NEW v \in 1..made, NEW a \in Int, UsedOK(v, a, version, made, last)
      PROVE  UsedOK(v, a, version, m, l)
  BY <1>2 DEF UsedOK, KeyInv, Grows
<1>3. c.load # None => /\ c.load.at \in 0..n /\ n <= c.load.at + LoadTime
                       /\ ReadOK(c.load.version, c.load.at, version, m, l)
  <2> SUFFICES ASSUME c.load # None
               PROVE  /\ c.load.at \in 0..n /\ n <= c.load.at + LoadTime
                      /\ ReadOK(c.load.version, c.load.at, version, m, l)
    OBVIOUS
  <2>1. c.load.at \in 0..now /\ ReadOK(c.load.version, c.load.at, version, made, last)
    BY DEF CallOK
  <2>2. c.load.version \in 1..made /\ c.load.at \in Int
    BY <2>1 DEF ReadOK, KeyInv
  <2>3. ReadOK(c.load.version, c.load.at, version, m, l)
    BY <1>1, <2>1, <2>2
  <2>4. c.load.at \in 0..n
    BY <2>1 DEF KeyInv, Grows
  <2> QED BY <2>3, <2>4
<1>4. c.at \in 0..n \cup {None}
  BY DEF CallOK, KeyInv, Grows
<1>5. c.ckv # None => c.at # None /\ UsedOK(c.ckv, c.at, version, m, l)
  <2> SUFFICES ASSUME c.ckv # None PROVE c.at # None /\ UsedOK(c.ckv, c.at, version, m, l)
    OBVIOUS
  <2>1. c.at # None /\ c.at \in 0..now \cup {None} /\ UsedOK(c.ckv, c.at, version, made, last)
    BY DEF CallOK
  <2>2. c.ckv \in 1..made /\ c.at \in Int
    BY <2>1 DEF UsedOK, KeyInv
  <2> QED BY <1>2, <2>1, <2>2
<1>6. 1..made \subseteq 1..m
  BY DEF KeyInv, Grows
<1> QED BY <1>3, <1>4, <1>5, <1>6 DEF CallOK

-----------------------------------------------------------------------------
(* What calls become                                                       *)

\* A call that starts an operation, or ends it.
LEMMA NewCallOK ==
    ASSUME NEW pin, NEW n \in Nat, NEW m \in Nat, NEW l, NEW s \in Steps, NEW g \in 1..m \cup {Forged, None},
           NEW r \in 1..m \cup {None, Error, Rejected}
    PROVE  /\ CallOK(Idle, pin, n, m, l)
           /\ CallOK([Idle EXCEPT !.step = s, !.sig = g], pin, n, m, l)
           /\ CallOK([Idle EXCEPT !.step = s], pin, n, m, l)
           /\ CallOK([Idle EXCEPT !.result = r], pin, n, m, l)
<1> DEFINE i == Idle
           d == [i EXCEPT !.step = s, !.sig = g]
           e == [i EXCEPT !.step = s]
           f == [i EXCEPT !.result = r]
<1>1. /\ Shape(i) /\ i.step = "idle" /\ i.load = None /\ i.ckv = None /\ i.at = None /\ i.sig = None
      /\ i.result = None
  BY DEF Idle, Shape
<1>2. i.unread \in BOOLEAN /\ "idle" \in Steps
  BY DEF Idle, Steps
<1>3. ASSUME NEW c, Shape(c), c.load = None, c.ckv = None, c.at = None, c.unread \in BOOLEAN,
             c.step \in Steps, c.sig \in 1..m \cup {Forged, None}, c.result \in 1..m \cup {None, Error, Rejected}
      PROVE  CallOK(c, pin, n, m, l)
  BY <1>3 DEF CallOK
<1>4. d = [i EXCEPT !.step = s, !.sig = g] /\ e = [i EXCEPT !.step = s] /\ f = [i EXCEPT !.result = r]
  OBVIOUS
<1> HIDE DEF i, d, e, f
<1>5. /\ Shape(d) /\ d.step = s /\ d.load = None /\ d.ckv = None /\ d.at = None /\ d.unread = i.unread
      /\ d.sig = g /\ d.result = None
  BY <1>1, <1>4 DEF Shape
<1>6. /\ Shape(e) /\ e.step = s /\ e.load = None /\ e.ckv = None /\ e.at = None /\ e.unread = i.unread
      /\ e.sig = None /\ e.result = None
  BY <1>1, <1>4 DEF Shape
<1>7. /\ Shape(f) /\ f.step = "idle" /\ f.load = None /\ f.ckv = None /\ f.at = None /\ f.unread = i.unread
      /\ f.sig = None /\ f.result = r
  BY <1>1, <1>4 DEF Shape
<1>8. CallOK(i, pin, n, m, l) /\ CallOK(d, pin, n, m, l) /\ CallOK(e, pin, n, m, l) /\ CallOK(f, pin, n, m, l)
  BY <1>1, <1>2, <1>3, <1>5, <1>6, <1>7
<1> QED BY <1>8 DEF i, d, e, f

\* A call that goes on with a step s, having read its readers or not.
LEMMA GotoOK ==
    ASSUME NEW c, NEW pin, NEW n, NEW m, NEW l, CallOK(c, pin, n, m, l), c.step \notin Lookups,
           NEW s \in Steps
    PROVE  /\ CallOK([c EXCEPT !.step = s], pin, n, m, l)
           /\ CallOK([c EXCEPT !.step = s, !.unread = FALSE], pin, n, m, l)
<1>1. Shape(c)
  BY DEF CallOK
<1>2. ASSUME NEW d, Shape(d), d.step \in Steps, d.unread \in BOOLEAN, d.load = None, d.ckv = c.ckv, d.at = c.at,
             d.sig = c.sig, d.result = c.result
      PROVE  CallOK(d, pin, n, m, l)
  BY <1>2 DEF CallOK
<1>9. c.load = None
  BY DEF CallOK
<1> DEFINE e == [c EXCEPT !.step = s]
           f == [c EXCEPT !.step = s, !.unread = FALSE]
<1>3. e = [c EXCEPT !.step = s] /\ f = [c EXCEPT !.step = s, !.unread = FALSE]
  OBVIOUS
<1> HIDE DEF e, f
<1>4. /\ Shape(e) /\ e.step = s /\ e.unread = c.unread /\ e.load = c.load /\ e.ckv = c.ckv /\ e.at = c.at
      /\ e.sig = c.sig /\ e.result = c.result
  BY <1>1, <1>3 DEF Shape
<1>5. /\ Shape(f) /\ f.step = s /\ f.unread = FALSE /\ f.load = c.load /\ f.ckv = c.ckv /\ f.at = c.at
      /\ f.sig = c.sig /\ f.result = c.result
  BY <1>1, <1>3 DEF Shape
<1>6. c.unread \in BOOLEAN /\ FALSE \in BOOLEAN
  BY DEF CallOK
<1>7. CallOK(e, pin, n, m, l)
  BY <1>2, <1>4, <1>6, <1>9
<1>8. CallOK(f, pin, n, m, l)
  BY <1>2, <1>5, <1>6, <1>9
<1> QED BY <1>7, <1>8 DEF e, f

\* A call that has read a version and not yet cached it.
LEMMA LoadOK ==
    ASSUME NEW c, NEW pin, NEW n \in Nat, NEW m, NEW l, CallOK(c, pin, n, m, l), c.step \in Lookups, NEW v, ReadOK(v, n, pin, m, l)
    PROVE  CallOK([c EXCEPT !.load = [version |-> v, at |-> n]], pin, n, m, l)
<1> DEFINE x == [version |-> v, at |-> n]
           d == [step |-> c.step, load |-> x, ckv |-> c.ckv, at |-> c.at, hf |-> c.hf,
                 sig |-> c.sig, unread |-> c.unread, result |-> c.result]
<1>1. [c EXCEPT !.load = x] = d
  BY DEF CallOK, Shape
<1>2. x.at \in 0..n /\ n <= x.at + LoadTime /\ ReadOK(x.version, x.at, pin, m, l)
  OBVIOUS
<1> HIDE DEF x
<1>3. CallOK(d, pin, n, m, l)
  BY <1>2 DEF CallOK, Shape
<1> QED BY <1>1, <1>3 DEF x

\* A call that goes on with the version it looked up.
LEMMA HaveOK ==
    ASSUME Inv, NEW t \in Threads, At(t, Lookups), NEW v, UsedOK(v, now, version, made, last), Have(t, v)
    PROVE  \E d : call' = [call EXCEPT ![t] = d] /\ CallOK(d, version, now, made, last)
<1> DEFINE c == call[t]
           h == IF c.step = "hash" THEN Hash[v] ELSE c.hf
           r == IF c.step = "public" THEN v ELSE c.result
           d == [c EXCEPT !.step = NextStep(c.step), !.load = None, !.ckv = v, !.at = now, !.hf = h, !.result = r]
<1>1. CallOK(c, version, now, made, last) /\ Shape(c)
  BY DEF Inv, CallOK
<1>2. call' = [call EXCEPT ![t] = d]
  BY DEF Have
<1>3. NextStep(c.step) \in Steps
  BY DEF At, Lookups, NextStep, Steps
<1>4. v \in 1..made /\ now \in 0..now
  BY DEF UsedOK, Inv, KeyInv
<1>5. r \in 1..made \cup {None, Error, Rejected}
  BY <1>1, <1>4 DEF CallOK
<1>6. d = [c EXCEPT !.step = NextStep(c.step), !.load = None, !.ckv = v, !.at = now, !.hf = h, !.result = r]
  OBVIOUS
<1> HIDE DEF c, d, h, r
<1>8. /\ Shape(d) /\ d.step = NextStep(c.step) /\ d.load = None /\ d.ckv = v /\ d.at = now
      /\ d.sig = c.sig /\ d.unread = c.unread /\ d.result = r
  BY <1>1, <1>6 DEF Shape
<1>7. CallOK(d, version, now, made, last)
  BY <1>1, <1>3, <1>4, <1>5, <1>8 DEF CallOK
<1> QED BY <1>2, <1>7

-----------------------------------------------------------------------------
(* Every step keeps the invariant                                          *)

LEMMA InitOK == Init => Inv
<1> SUFFICES ASSUME Init PROVE Inv
  OBVIOUS
<1>1. made \in {0, 1} /\ enabled = 1..made /\ enabled \subseteq Versions
  BY DEF Init
<1>2. enabled # {} => Latest \in enabled
  BY <1>1, MaxOfVersions DEF Latest
<1>3. KeyInv
  BY <1>1, <1>2 DEF Init, KeyInv
<1>4. \A t \in Threads : CallOK(call[t], version, now, made, last)
  <2>1. "idle" \in Steps /\ now \in Nat /\ made \in Nat
    BY <1>1 DEF Steps, Init
  <2>2. CallOK(Idle, version, now, made, last)
    BY <2>1, NewCallOK
  <2> QED BY <2>2 DEF Init
<1> QED BY <1>3, <1>4 DEF Init, Inv

\* A step of one call, which may make a version.
LEMMA CallStep ==
    ASSUME Inv, NEW t \in Threads, NEW d, call' = [call EXCEPT ![t] = d], version' = version, now' = now,
           KeyInv', Grows(now', made', last'), CallOK(d, version, now', made', last'),
           cache' # None => EntryOK(cache', version, made', last')
    PROVE  Inv'
<1>1. ASSUME NEW u \in Threads PROVE CallOK(call'[u], version, now', made', last')
  <2>1. CASE u = t
    BY <2>1 DEF Inv
  <2>2. CASE u # t
    <3>1. call'[u] = call[u]
      BY <2>2 DEF Inv
    <3>2. CallOK(call[u], version, now, made, last) /\ (call[u].load # None => now <= call[u].load.at + LoadTime)
      BY DEF Inv, CallOK
    <3> QED BY <3>1, <3>2, CallKept DEF Inv
  <2> QED BY <2>1, <2>2
<1>2. call' = [u \in Threads |-> call'[u]]
  BY DEF Inv
<1> QED BY <1>1, <1>2 DEF Inv

\* A step of one call that Cloud KMS does not notice.
LEMMA QuietStep ==
    ASSUME Inv, NEW t \in Threads, NEW d, call' = [call EXCEPT ![t] = d], UNCHANGED <<version, now, kms>>,
           CallOK(d, version, now, made, last),
           cache' # None => EntryOK(cache', version, made, last)
    PROVE  Inv'
<1>1. KeyInv'
  BY DEF Inv, KeyInv, Latest, kms
<1>2. Grows(now', made', last')
  BY DEF Inv, KeyInv, Grows, kms
<1> QED BY <1>1, <1>2, CallStep DEF kms

\* Time passes, or others make, enable or disable a version.
LEMMA KeyStep ==
    ASSUME Inv, UNCHANGED <<version, cache, call>>, KeyInv', Grows(now', made', last'),
           \A t \in Threads : call[t].load # None => now' <= call[t].load.at + LoadTime
    PROVE  Inv'
<1>1. \A t \in Threads : CallOK(call[t], version, now', made', last')
  BY CallKept DEF Inv
<1>2. cache # None => EntryOK(cache, version, made', last')
  BY EntryKept DEF Inv
<1> QED BY <1>1, <1>2 DEF Inv

LEMMA TickStep == Inv /\ Tick => Inv'
<1> SUFFICES ASSUME Inv, Tick PROVE Inv'
  OBVIOUS
<1>1. enabled # {} => Latest \in Versions
  BY MaxOfVersions DEF Latest, Inv, KeyInv
<1>2. Latest' = Latest
  BY DEF Tick, Latest
<1>3. KeyInv'
  BY <1>1, <1>2 DEF Inv, KeyInv, Tick
<1>4. Grows(now', made', last')
  BY <1>1 DEF Inv, KeyInv, Tick, Grows
<1>5. \A t \in Threads : call[t].load # None => now' <= call[t].load.at + LoadTime
  <2>1. ASSUME NEW t \in Threads, call[t].load # None PROVE now' <= call[t].load.at + LoadTime
    <3>1. call[t].load.at \in Int /\ now < call[t].load.at + LoadTime /\ now \in Int /\ now' = now + 1
      BY <2>1 DEF Inv, KeyInv, CallOK, Tick
    <3> QED BY <3>1
  <2> QED BY <2>1
<1> QED BY <1>3, <1>4, <1>5, KeyStep DEF Tick

LEMMA EnabledStep ==
    ASSUME Inv, NEW E \in SUBSET (1..made), SetEnabled(E), UNCHANGED <<version, now, ring, made, cache, call>>
    PROVE  Inv'
<1>1. E \subseteq Versions /\ (E # {} => Max(E) \in Versions)
  BY MaxOfVersions DEF Inv, KeyInv
<1>2. enabled' = E /\ (E # {} => Latest' = Max(E) /\ last' = [last EXCEPT ![Max(E)] = now])
      /\ (E = {} => last' = last)
  BY DEF SetEnabled, Latest
<1>3. KeyInv'
  BY <1>1, <1>2 DEF Inv, KeyInv
<1>4. Grows(now', made', last')
  BY <1>1, <1>2 DEF Inv, KeyInv, Grows
<1>5. \A t \in Threads : call[t].load # None => now' <= call[t].load.at + LoadTime
  BY DEF Inv, CallOK
<1> QED BY <1>3, <1>4, <1>5, KeyStep

LEMMA OthersStep ==
    Inv /\ (Rotate \/ \E v \in Versions : Enable(v) \/ Disable(v)) => Inv'
<1>1. ASSUME Inv, Rotate PROVE Inv'
  <2>1. KeyInv' /\ Grows(now', made', last')
    BY <1>1 DEF Inv, KeyInv, Rotate, Latest, Grows
  <2>2. \A t \in Threads : call[t].load # None => now' <= call[t].load.at + LoadTime
    BY <1>1 DEF Inv, CallOK, Rotate
  <2> QED BY <1>1, <2>1, <2>2, KeyStep DEF Rotate
<1>2. ASSUME Inv, NEW v \in Versions, Enable(v) PROVE Inv'
  <2>1. enabled \cup {v} \in SUBSET (1..made)
    BY <1>2 DEF Inv, KeyInv, Enable
  <2> QED BY <1>2, <2>1, EnabledStep DEF Enable
<1>3. ASSUME Inv, NEW v \in Versions, Disable(v) PROVE Inv'
  <2>1. enabled \ {v} \in SUBSET (1..made)
    BY <1>3 DEF Inv, KeyInv, Disable
  <2> QED BY <1>3, <2>1, EnabledStep DEF Disable
<1> QED BY <1>1, <1>2, <1>3

\* A caller starts an operation, or a call returns r.
LEMMA StartStep ==
    ASSUME Inv, NEW t \in Threads, NEW s \in {"hash", "public", "ring", "verify"}, NEW g \in 1..made \cup {Forged, None},
           \/ call' = [call EXCEPT ![t] = [Idle EXCEPT !.step = s, !.sig = g]]
           \/ call' = [call EXCEPT ![t] = [Idle EXCEPT !.step = s]],
           UNCHANGED <<version, now, kms, cache>>
    PROVE  Inv'
<1>1. s \in Steps /\ now \in Nat /\ made \in Nat
  BY DEF Steps, Lookups, Inv, KeyInv
<1>2. /\ CallOK([Idle EXCEPT !.step = s, !.sig = g], version, now, made, last)
      /\ CallOK([Idle EXCEPT !.step = s], version, now, made, last)
  BY <1>1, NewCallOK
<1>3. cache' # None => EntryOK(cache', version, made, last)
  BY DEF Inv
<1> QED BY <1>2, <1>3, QuietStep

LEMMA ReturnStep ==
    ASSUME Inv, NEW t \in Threads, NEW r \in 1..made \cup {None, Error, Rejected}, Return(t, r),
           UNCHANGED <<version, now, kms, cache>>
    PROVE  Inv'
<1>1. "idle" \in Steps /\ now \in Nat /\ made \in Nat
  BY DEF Steps, Inv, KeyInv
<1>2. CallOK([Idle EXCEPT !.result = r], version, now, made, last)
  BY <1>1, NewCallOK
<1>3. cache' # None => EntryOK(cache', version, made, last)
  BY DEF Inv
<1> QED BY <1>2, <1>3, QuietStep DEF Return

LEMMA GotoStep ==
    ASSUME Inv, NEW t \in Threads, ~At(t, Lookups), NEW s \in Steps, Goto(t, s), UNCHANGED <<version, now, kms, cache>>
    PROVE  Inv'
<1>1. call' = [call EXCEPT ![t] = [call[t] EXCEPT !.step = s]]
  BY DEF Goto
<1>2. CallOK([call[t] EXCEPT !.step = s], version, now, made, last)
  BY GotoOK DEF Inv, At
<1>3. cache' # None => EntryOK(cache', version, made, last)
  BY DEF Inv
<1> QED BY <1>1, <1>2, <1>3, QuietStep

\* A lookup: an entry is hit before it expires, what is found is recent, and a
\* loader stores it before its time is up.
LEMMA GetCKVStep == ASSUME Inv, NEW t \in Threads, getCKV(t) PROVE Inv'
<1>1. CASE Hit(t)
  <2>1. UsedOK(cache.version, now, version, made, last)
    BY <1>1 DEF Hit, Cached, Inv, KeyInv, EntryOK, UsedOK
  <2>2. PICK d : call' = [call EXCEPT ![t] = d] /\ CallOK(d, version, now, made, last)
    BY <1>1, <2>1, HaveOK DEF Hit
  <2>3. EntryOK(cache', version, made, last)
    BY <1>1 DEF Hit, Touched, Cached, Inv
  <2> QED BY <1>1, <2>2, <2>3, QuietStep DEF Hit
<1>2. CASE Lookup(t)
  <2>1. ReadOK(Found, now, version, made, last)
    <3>1. CASE version = None
      <4>1. enabled # {} /\ Found = Latest
        BY <1>2, <3>1 DEF Lookup, Found, Latest
      <4>2. Latest \in enabled
        BY <4>1, MaxOfVersions DEF Latest, Inv, KeyInv
      <4> QED BY <3>1, <4>1, <4>2 DEF ReadOK, Inv, KeyInv
    <3>2. CASE version # None
      BY <1>2, <3>2 DEF Lookup, Found, ReadOK, Inv, KeyInv
    <3> QED BY <3>1, <3>2
  <2>2. call' = [call EXCEPT ![t] = [call[t] EXCEPT !.load = [version |-> Found, at |-> now]]]
    BY <1>2 DEF Lookup
  <2>3. CallOK([call[t] EXCEPT !.load = [version |-> Found, at |-> now]], version, now, made, last)
    <3>1. now \in Nat
      BY DEF Inv, KeyInv
    <3> QED BY <1>2, <2>1, <3>1, LoadOK DEF Inv, Lookup, At
  <2>4. cache' # None => EntryOK(cache', version, made, last)
    BY <1>2 DEF Lookup, Inv
  <2> QED BY <1>2, <2>2, <2>3, <2>4, QuietStep DEF Lookup
<1>3. CASE LookupFails(t)
  BY <1>3, ReturnStep DEF LookupFails
<1>4. CASE Store(t)
  <2> DEFINE x == call[t].load
  <2>1. /\ x.at \in 0..now /\ now <= x.at + LoadTime
        /\ ReadOK(x.version, x.at, version, made, last)
    BY <1>4 DEF Store, Inv, CallOK
  <2>2. now \in 0..MaxTime /\ made \in 0..MaxVersion
        /\ last \in [Versions -> 0..now \cup {None}]
    BY DEF Inv, KeyInv
  <2>3. UsedOK(x.version, now, version, made, last) /\ (version = None => UsedOK(x.version, now + TTL, version, made, last))
    <3>1. x.version \in 1..made /\ x.version \in Versions
      BY <2>1, <2>2 DEF ReadOK
    <3>2. version = None => last[x.version] \in Int /\ last[x.version] # None /\ last[x.version] >= x.at
      BY <2>1, <2>2, <3>1 DEF ReadOK
    <3> HIDE DEF x
    <3> QED BY <2>1, <2>2, <3>1, <3>2 DEF UsedOK
  <2>4. At(t, Lookups)
    BY <1>4 DEF Store, Inv, CallOK, At
  <2>5. PICK d : call' = [call EXCEPT ![t] = d] /\ CallOK(d, version, now, made, last)
    BY <1>4, <2>3, <2>4, HaveOK DEF Store
  <2>6. EntryOK(cache', version, made, last)
    <3>1. /\ cache'.version = x.version
          /\ cache'.expires = IF version = None THEN now + TTL ELSE None
          /\ cache' = [version |-> x.version, expires |-> IF version = None THEN now + TTL ELSE None]
      BY <1>4 DEF Store
    <3>2. now + TTL \in 0..(MaxTime + TTL)
      BY <2>2
    <3>3. version # None => x.version = version
      BY <2>1 DEF ReadOK
    <3>4. x.version \in 1..made
      BY <2>1 DEF ReadOK
    <3> QED BY <2>3, <3>1, <3>2, <3>3, <3>4 DEF EntryOK
  <2> QED BY <1>4, <2>5, <2>6, QuietStep DEF Store
<1> QED BY <1>1, <1>2, <1>3, <1>4 DEF getCKV

LEMMA SignStep == ASSUME Inv, NEW t \in Threads, Sign(t) \/ SignFails(t) PROVE Inv'
<1>1. call[t].ckv \in 1..made \cup {None}
  BY DEF Inv, CallOK, UsedOK
<1> QED BY <1>1, ReturnStep DEF Sign, SignFails

LEMMA VerifyStep == ASSUME Inv, NEW t \in Threads, verify(t) PROVE Inv'
<1>1. call[t].ckv \in 1..made \cup {None}
  BY DEF Inv, CallOK, UsedOK
<1>2. CASE Accept(t) \/ Reject(t)
  BY <1>1, <1>2, ReturnStep DEF Accept, Reject
<1>3. CASE Retry(t)
  <2>1. call' = [call EXCEPT ![t] = [call[t] EXCEPT !.step = "retry", !.unread = FALSE]]
    BY <1>3 DEF Retry, Inv
  <2>2. "retry" \in Steps /\ call[t].step \notin Lookups
    BY <1>3 DEF Retry, Retries, At, Steps, Lookups
  <2>3. CallOK([call[t] EXCEPT !.step = "retry", !.unread = FALSE], version, now, made, last)
    BY <2>2, GotoOK DEF Inv
  <2> QED BY <1>3, <2>1, <2>3, QuietStep DEF Retry
<1> QED BY <1>2, <1>3 DEF verify

LEMMA CreateStep == ASSUME Inv, NEW t \in Threads, createKey(t) PROVE Inv'
<1>1. {"key", "makeRing", "public", "makeKey"} \subseteq Steps
  BY DEF Steps, Lookups
<1>2. CASE GetKeyRing(t)
  BY <1>1, <1>2, GotoStep DEF GetKeyRing, At, Lookups
<1>3. CASE GetCryptoKey(t)
  BY <1>1, <1>3, GotoStep DEF GetCryptoKey, At, Lookups
<1>4. CASE CreateFails(t)
  BY <1>4, ReturnStep DEF CreateFails
<1>5. CASE CreateKeyRing(t)
  <2>1. call' = [call EXCEPT ![t] = [call[t] EXCEPT !.step = "key"]]
    BY <1>5 DEF CreateKeyRing, Goto
  <2>2. CallOK([call[t] EXCEPT !.step = "key"], version, now, made, last)
    BY <1>1, <1>5, GotoOK DEF CreateKeyRing, At, Lookups, Inv
  <2>3. KeyInv' /\ Grows(now', made', last')
    BY <1>5 DEF CreateKeyRing, Inv, KeyInv, Latest, Grows
  <2>4. cache' # None => EntryOK(cache', version, made', last')
    BY <1>5 DEF CreateKeyRing, Inv
  <2>5. version' = version /\ now' = now /\ made' = made /\ last' = last
    BY <1>5 DEF CreateKeyRing
  <2> QED BY <2>1, <2>2, <2>3, <2>4, <2>5, CallStep
<1>6. CASE CreateCryptoKey(t)
  <2> DEFINE d == [call[t] EXCEPT !.step = "public"]
  <2>1. call' = [call EXCEPT ![t] = d]
    BY <1>6 DEF CreateCryptoKey, Goto
  <2>2. CallOK(d, version, now, made, last)
    BY <1>1, <1>6, GotoOK DEF CreateCryptoKey, At, Lookups, Inv
  <2>3. KeyInv' /\ Grows(now', made', last')
    BY <1>6 DEF CreateCryptoKey, Inv, KeyInv, Latest, Grows
  <2>4. version' = version /\ now' = now
    BY <1>6 DEF CreateCryptoKey
  <2>5. d.load # None => now' <= d.load.at + LoadTime
    BY <2>2, <2>4 DEF CallOK
  <2> HIDE DEF d
  <2>6. CallOK(d, version, now', made', last')
    BY <2>2, <2>3, <2>5, CallKept DEF Inv
  <2>7. cache' # None => EntryOK(cache', version, made', last')
    BY <1>6, <2>3, EntryKept DEF CreateCryptoKey, Inv
  <2> QED BY <2>1, <2>3, <2>4, <2>6, <2>7, CallStep
<1> QED BY <1>2, <1>3, <1>4, <1>5, <1>6 DEF createKey

LEMMA Step == Inv /\ [Next]_vars => Inv'
<1> SUFFICES ASSUME Inv, [Next]_vars PROVE Inv'
  OBVIOUS
<1>1. ASSUME NEW t \in Threads, NEW s \in {"hash", "public", "ring"}, Start(t, s) PROVE Inv'
  BY <1>1, StartStep DEF Start
<1>2. ASSUME NEW t \in Threads, NEW sig \in Versions \cup {Forged}, StartVerify(t, sig) PROVE Inv'
  BY <1>2, StartStep DEF StartVerify
<1>3. CASE UNCHANGED vars
  BY <1>3 DEF vars, kms, Inv, KeyInv, Latest
<1> QED BY <1>1, <1>2, <1>3, TickStep, OthersStep, GetCKVStep, SignStep, VerifyStep, CreateStep DEF Next

LEMMA Invariance == Spec => []Inv
BY InitOK, Step, PTL DEF Spec

-----------------------------------------------------------------------------
(* The theorems                                                            *)

\* Type correctness: among the rest, a call signs with and returns only versions that exist.
THEOREM TypeCorrect == Spec => []TypeOK
<1>1. Inv => TypeOK
  <2> SUFFICES ASSUME Inv PROVE TypeOK
    OBVIOUS
  <2>1. now \in 0..MaxTime /\ ring \in BOOLEAN /\ made \in 0..MaxVersion /\ enabled \subseteq 1..made
        /\ version \in Pins
    BY DEF Inv, KeyInv
  <2>2. last \in [Versions -> 0..MaxTime \cup {None}]
    BY DEF Inv, KeyInv
  <2>3. cache # None => cache.version \in Versions /\ cache.expires \in 0..(MaxTime + TTL) \cup {None}
    <3>1. cache # None => EntryOK(cache, version, made, last)
      BY DEF Inv
    <3> QED BY <2>1, <3>1 DEF EntryOK
  <2>4. ASSUME NEW t \in Threads
        PROVE  /\ DOMAIN call[t] = DOMAIN Idle
               /\ call[t].step \in Steps
               /\ call[t].load # None => call[t].load.version \in 1..made /\ call[t].load.at \in 0..now
               /\ call[t].ckv \in 1..made \cup {None} /\ call[t].at \in 0..now \cup {None}
               /\ call[t].sig \in 1..made \cup {Forged, None}
               /\ call[t].unread \in BOOLEAN
               /\ call[t].result \in 1..made \cup {None, Error, Rejected}
    <3> DEFINE c == call[t]
    <3>1. CallOK(c, version, now, made, last)
      BY DEF Inv
    <3> HIDE DEF c
    <3>2. DOMAIN c = {"step", "load", "ckv", "at", "hf", "sig", "unread", "result"}
      BY <3>1 DEF CallOK, Shape
    <3>3. DOMAIN Idle = {"step", "load", "ckv", "at", "hf", "sig", "unread", "result"}
      BY DEF Idle
    <3>4. c.ckv \in 1..made \cup {None}
      BY <3>1 DEF CallOK, UsedOK
    <3>5. c.load # None => c.load.version \in 1..made /\ c.load.at \in 0..now
      BY <3>1 DEF CallOK, ReadOK
    <3> QED BY <3>1, <3>2, <3>3, <3>4, <3>5 DEF CallOK, c
  <2> QED BY <2>1, <2>2, <2>3, <2>4 DEF TypeOK
<1> QED BY Invariance, <1>1, PTL

\* However lookups, hits and rotations interleave, an unpinned client uses no version that
\* stopped being the greatest enabled one longer ago than an entry lives and a lookup takes.
THEOREM VersionFreshTheorem == Spec => []VersionFresh
<1>1. Inv => VersionFresh
  BY DEF Inv, CallOK, UsedOK, VersionFresh
<1> QED BY Invariance, <1>1, PTL

\* No step changes the entry of a pinned client: a hit leaves it, a late loader stores the
\* same again, and a signature that does not verify does not delete it.
THEOREM PinnedTheorem == Spec => PinnedCachedForever
<1>1. Inv /\ [Next]_vars => [version # None /\ cache # None => cache' = cache]_vars
  <2> SUFFICES ASSUME Inv, Next, version # None, cache # None PROVE cache' = cache
    OBVIOUS
  <2>1. cache = [version |-> version, expires |-> None]
    BY DEF Inv, EntryOK
  <2>2. ASSUME NEW t \in Threads, Store(t) PROVE cache' = cache
    <3>1. call[t].load.version = version
      BY <2>2 DEF Store, Inv, CallOK, ReadOK
    <3> QED BY <2>1, <2>2, <3>1 DEF Store
  <2>3. ASSUME NEW t \in Threads, Hit(t) PROVE cache' = cache
    BY <2>3 DEF Hit, Touched
  <2>4. ASSUME NEW t \in Threads, Lookup(t) \/ LookupFails(t) \/ Sign(t) \/ SignFails(t) \/ verify(t) \/ createKey(t)
        PROVE  cache' = cache
    BY <2>4 DEF Lookup, LookupFails, Sign, SignFails, verify, Accept, Reject, Retry, Retries,
                createKey, GetKeyRing, CreateKeyRing, GetCryptoKey, CreateCryptoKey, CreateFails
  <2>5. ASSUME NEW t \in Threads, NEW x, Start(t, x) \/ StartVerify(t, x) PROVE cache' = cache
    BY <2>5 DEF Start, StartVerify
  <2>6. CASE Tick \/ Rotate \/ \E v \in Versions : Enable(v) \/ Disable(v)
    BY <2>6 DEF Tick, Rotate, Enable, Disable
  <2> QED BY <2>2, <2>3, <2>4, <2>5, <2>6 DEF Next, getCKV
<1> QED BY Invariance, <1>1, PTL DEF Spec, PinnedCachedForever
=============================================================================
