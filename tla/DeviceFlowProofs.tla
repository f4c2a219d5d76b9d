-------------------------- MODULE DeviceFlowProofs --------------------------
(***************************************************************************)
(* Safety of DeviceFlow for all intervals, every life of a device code and *)
(* every order of the user's decision, the provider's answers and time.    *)
(***************************************************************************)
EXTENDS DeviceFlow, TLAPS

-----------------------------------------------------------------------------
(* The inductive invariant                                                 *)

\* What the last answer asks of the client: at least five seconds more after slow_down.
Owed == interval + (IF answer = "slow_down" THEN 1 ELSE 0)

\* The client polls with an interval.  It sleeps after an answer given while the code was
\* alive, from the time of that answer, and for as long as it asks.
LoopInv ==
    /\ pc \in {"poll", "answered", "sleep", "verify", "token"} => interval # None
    /\ interval = None => polled = None
    /\ pc \in {"idle", "discover", "request"} => interval = None
    /\ pc = "answered" =>
        /\ polled = now
        /\ answer # "expired_token" => now < ExpiresIn
    /\ pc = "sleep" => polled # None /\ wake >= polled + Owed

IInv == TypeOK /\ LoopInv /\ PollsAsTold

-----------------------------------------------------------------------------
USE DeviceAssumption DEF vars, Answers

LEMMA InitOK == Init => IInv
BY DEF Init, IInv, TypeOK, LoopInv, PollsAsTold

\* The pause is at least what the answer asks for, and ends before the clock does.
LEMMA PauseLongEnough ==
    ASSUME TypeOK, LoopInv, pc = "answered", answer # "expired_token"
    PROVE  Pause \in Nat /\ Pause >= Owed /\ now + Pause \in 0..MaxTime
<1>1. interval \in Intervals /\ ExpiresIn + interval + SlowDown <= MaxTime /\ interval \in Nat
  BY DEF TypeOK, LoopInv
<1>2. now \in Nat /\ now < ExpiresIn
  BY DEF TypeOK, LoopInv
<1>3. Pause \in Nat /\ Pause >= Owed /\ Pause <= interval + SlowDown
  BY <1>1 DEF Pause, Owed
<1> QED BY <1>1, <1>2, <1>3

LEMMA Step == IInv /\ [Next]_vars => IInv'
<1> SUFFICES ASSUME IInv, [Next]_vars PROVE IInv'
  OBVIOUS
<1> USE DEF IInv
<1>1. CASE Tick
  BY <1>1 DEF Tick, TypeOK, LoopInv, PollsAsTold, Owed
<1>2. ASSUME NEW d \in {"approved", "denied"}, Decide(d) PROVE IInv'
  BY <1>2 DEF Decide, TypeOK, LoopInv, PollsAsTold, Owed
<1>3. CASE Start \/ Discover \/ Fails \/ Verify
  BY <1>3 DEF Start, Discover, Fails, Verify, TypeOK, LoopInv, PollsAsTold, Owed
<1>4. ASSUME NEW i \in Intervals, Request(i) PROVE IInv'
  BY <1>4 DEF Request, TypeOK, LoopInv, PollsAsTold, Owed
<1>5. CASE Poll
  <2>1. Reply \in Answers /\ (Reply # "expired_token" => now < ExpiresIn)
    BY DEF Reply, TypeOK
  <2>2. pace' \in Nat
    BY <1>5 DEF Poll, TypeOK
  <2> QED BY <1>5, <2>1, <2>2 DEF Poll, TypeOK, LoopInv, PollsAsTold, Owed
<1>6. ASSUME NEW a \in {"slow_down", "other"}, PollOddly(a) PROVE IInv'
  <2>1. pace' \in Nat
    BY <1>6 DEF PollOddly, TypeOK
  <2> QED BY <1>6, <2>1 DEF PollOddly, TypeOK, LoopInv, PollsAsTold, Owed
<1>7. CASE Got \/ Refused
  BY <1>7 DEF Got, Refused, TypeOK, LoopInv, PollsAsTold, Owed
<1>8. CASE Sleep
  <2>1. answer # "expired_token" /\ pc = "answered" /\ polled = now
    BY <1>8 DEF Sleep, Final, LoopInv
  <2>2. wake' \in 0..MaxTime /\ wake' >= now + Owed
    BY <1>8, <2>1, PauseLongEnough DEF Sleep, TypeOK, LoopInv, Owed
  <2> QED BY <1>8, <2>1, <2>2 DEF Sleep, TypeOK, LoopInv, PollsAsTold, Owed
<1>9. CASE Wake
  BY <1>9 DEF Wake, TypeOK, LoopInv, PollsAsTold, Owed
<1>10. CASE UNCHANGED vars
  BY <1>10 DEF TypeOK, LoopInv, PollsAsTold, Owed
<1> QED BY <1>1, <1>2, <1>3, <1>4, <1>5, <1>6, <1>7, <1>8, <1>9, <1>10 DEF Next, Client

LEMMA Invariance == Spec => []IInv
BY InitOK, Step, PTL DEF Spec

-----------------------------------------------------------------------------
(* The theorems                                                            *)

\* Type correctness; among the rest, no pause outlasts the clock's bound.
THEOREM TypeCorrect == Spec => []TypeOK
<1>1. IInv => TypeOK
  BY DEF IInv
<1> QED BY Invariance, <1>1, PTL

\* The loop waits at least as long as the provider's last answer asked, whatever the
\* interval it named.
THEOREM PollsAsToldTheorem == Spec => []PollsAsTold
<1>1. IInv => PollsAsTold
  BY DEF IInv
<1> QED BY Invariance, <1>1, PTL
=============================================================================
