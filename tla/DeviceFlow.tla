----------------------------- MODULE DeviceFlow -----------------------------
(***************************************************************************)
(* The device code grant of pkg/oauthflow/device.go: discovery of the      *)
(* endpoint, the device authorization request, and the loop that polls the *)
(* token endpoint until the user has approved or denied the request or the *)
(* code has expired.                                                       *)
(*                                                                         *)
(* Time is counted in units of five seconds, the step by which RFC 8628    *)
(* slows a client down; the client's own ten seconds are SlowDown units.   *)
(* The provider is external: it answers a poll as RFC 8628 has it do, or   *)
(* with any error when it is at fault.                                     *)
(***************************************************************************)
EXTENDS Naturals

CONSTANTS
    Intervals,  \* intervals the provider may ask for; 0 when it names none
    SlowDown,   \* what the client adds to the interval after slow_down
    ExpiresIn,  \* the age at which the device code expires
    MaxTime,    \* bound: the clock stops
    Faults,     \* whether requests may fail and the provider misbehave
    None

ASSUME DeviceAssumption ==
    /\ Intervals \subseteq Nat /\ SlowDown \in Nat \ {0} /\ {ExpiresIn, MaxTime} \subseteq Nat
    /\ \A i \in Intervals : ExpiresIn + i + SlowDown <= MaxTime
    /\ Faults \in BOOLEAN /\ None \notin Nat

VARIABLES
    now,      \* the clock
    codeURL,  \* d.codeURL is set
    pc,       \* where deviceFlow is
    interval, \* parsed.Interval
    wake,     \* when the Sleeper returns
    decision, \* what the user has decided at the provider
    pace,     \* the interval the provider holds the client to
    polled,   \* when the provider last answered a poll
    answer    \* the provider's last answer

vars == <<now, codeURL, pc, interval, wake, decision, pace, polled, answer>>

Answers == {"id_token", "access_denied", "expired_token", "authorization_pending",
            "slow_down", "other"}

TypeOK ==
    /\ now \in 0..MaxTime
    /\ codeURL \in BOOLEAN
    /\ pc \in {"idle", "discover", "request", "poll", "answered", "sleep", "verify",
               "token", "error"}
    /\ interval \in Intervals \cup {None}
    /\ wake \in 0..MaxTime
    /\ decision \in {"pending", "approved", "denied"}
    /\ pace \in Nat
    /\ polled \in 0..MaxTime \cup {None}
    /\ answer \in Answers \cup {None}

Init ==
    /\ now = 0 /\ codeURL \in BOOLEAN /\ pc = "idle"
    /\ interval = None /\ wake = 0
    /\ decision = "pending" /\ pace = 0
    /\ polled = None /\ answer = None

-----------------------------------------------------------------------------
(* The clock, the user and the provider                                    *)

\* The clock tells the age of the device code.  Time between an answer and
\* the sleep would only lengthen the pause.
Tick ==
    /\ interval # None /\ pc # "answered" /\ now < MaxTime
    /\ now' = now + 1
    /\ UNCHANGED <<codeURL, pc, interval, wake, decision, pace, polled, answer>>

Decide(d) ==
    /\ interval # None /\ decision = "pending" /\ now < ExpiresIn
    /\ decision' = d
    /\ UNCHANGED <<now, codeURL, pc, interval, wake, pace, polled, answer>>

\* What the provider answers to a poll.
Reply ==
    LET tooSoon == polled # None /\ now < polled + pace IN
    IF now >= ExpiresIn THEN "expired_token"
    ELSE CASE decision = "approved" -> "id_token"
           [] decision = "denied"   -> "access_denied"
           [] decision = "pending" /\ tooSoon  -> "slow_down"
           [] decision = "pending" /\ ~tooSoon -> "authorization_pending"

-----------------------------------------------------------------------------
(* GetIDToken: NewPKCE, CodeURL, the device authorization request          *)

Start ==
    /\ pc = "idle"
    /\ pc' = IF codeURL THEN "request" ELSE "discover"
    /\ UNCHANGED <<now, codeURL, interval, wake, decision, pace, polled, answer>>

\* The issuer names itself and a device endpoint, which is cached.
Discover ==
    /\ pc = "discover"
    /\ codeURL' = TRUE
    /\ pc' = "request"
    /\ UNCHANGED <<now, interval, wake, decision, pace, polled, answer>>

Request(i) ==
    /\ pc = "request"
    /\ interval' = i
    /\ pace' = IF i = 0 THEN 1 ELSE i
    /\ pc' = "poll"
    /\ UNCHANGED <<now, codeURL, wake, decision, polled, answer>>

\* PKCE is not supported, or a request fails, is refused or cannot be parsed.
Fails ==
    /\ Faults
    /\ pc \in {"idle", "discover", "request", "poll", "verify"}
    /\ pc' = "error"
    /\ UNCHANGED <<now, codeURL, interval, wake, decision, pace, polled, answer>>

-----------------------------------------------------------------------------
(* The polling loop                                                        *)

Poll ==
    /\ pc = "poll"
    /\ answer' = Reply
    /\ polled' = now
    /\ pace' = IF Reply = "slow_down" THEN pace + 1 ELSE pace
    /\ pc' = "answered"
    /\ UNCHANGED <<now, codeURL, interval, wake, decision>>

\* The provider answers with an error the loop does not know, or slows the
\* client down although it kept to the interval.
PollOddly(a) ==
    /\ Faults /\ pc = "poll" /\ now < ExpiresIn
    /\ answer' = a
    /\ polled' = now
    /\ pace' = IF a = "slow_down" THEN pace + 1 ELSE pace
    /\ pc' = "answered"
    /\ UNCHANGED <<now, codeURL, interval, wake, decision>>

Got ==
    /\ pc = "answered" /\ answer = "id_token"
    /\ pc' = "verify"
    /\ UNCHANGED <<now, codeURL, interval, wake, decision, pace, polled, answer>>

\* Variant: an expired code is polled for again.
FinalKeepsPolling == {"access_denied", "other"}

\* The answers that end the loop with an error.
Final == {"access_denied", "expired_token", "other"}

Refused ==
    /\ pc = "answered" /\ answer \in Final
    /\ pc' = "error"
    /\ UNCHANGED <<now, codeURL, interval, wake, decision, pace, polled, answer>>

\* Variant: after slow_down only the ten seconds are slept.
PauseSlowDown == IF answer = "slow_down" THEN SlowDown ELSE interval

\* Variant: the wrong field of the response.
PauseExpiresIn == IF answer = "slow_down" THEN ExpiresIn + SlowDown ELSE ExpiresIn

\* How long the Sleeper is told to sleep.
Pause == IF answer = "slow_down" THEN interval + SlowDown ELSE interval

Sleep ==
    /\ pc = "answered" /\ answer \notin Final \cup {"id_token"}
    /\ wake' = now + Pause
    /\ pc' = "sleep"
    /\ UNCHANGED <<now, codeURL, interval, decision, pace, polled, answer>>

Wake ==
    /\ pc = "sleep" /\ now >= wake
    /\ pc' = "poll"
    /\ UNCHANGED <<now, codeURL, interval, wake, decision, pace, polled, answer>>

\* The id_token verifies and names a subject.
Verify ==
    /\ pc = "verify"
    /\ pc' = "token"
    /\ UNCHANGED <<now, codeURL, interval, wake, decision, pace, polled, answer>>

-----------------------------------------------------------------------------
Client ==
    \/ Start \/ Discover \/ Fails \/ Poll \/ Got \/ Refused \/ Sleep \/ Wake \/ Verify
    \/ \E i \in Intervals : Request(i)

Next ==
    \/ Tick
    \/ \E d \in {"approved", "denied"} : Decide(d)
    \/ Client
    \/ \E a \in {"slow_down", "other"} : PollOddly(a)

Spec == Init /\ [][Next]_vars

\* Time passes and the client runs; the user need not decide.
FairSpec == Spec /\ SF_vars(Tick) /\ WF_vars(Client)

-----------------------------------------------------------------------------
(* Properties                                                              *)

\* The loop keeps to what the provider's last answer asked for: the interval
\* it named, and at least five seconds more when it said slow_down.
PollsAsTold ==
    pc = "poll" /\ polled # None =>
        now >= polled + interval + (IF answer = "slow_down" THEN 1 ELSE 0)

\* The call does not poll for ever: when the user never decides, the expiry of
\* the code ends it.
DeviceFlowReturns == pc = "request" ~> pc \in {"token", "error"}
=============================================================================
