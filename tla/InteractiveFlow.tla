-------------------------- MODULE InteractiveFlow --------------------------
(***************************************************************************)
(* The interactive OAuth flow: GetIDToken of pkg/oauthflow/interactive.go  *)
(* and IDToken of pkg/oauth/oidc/interactive.go.  A call starts a local    *)
(* HTTP server whose handler passes the code of the browser's redirect to  *)
(* the caller over an unbuffered channel; the caller waits for it at most  *)
(* 120 seconds and otherwise asks the user for a code.  The two packages   *)
(* share this structure; the second also closes its channels once the      *)
(* server is shut down, and does not ask a token for a subject.            *)
(*                                                                         *)
(* Every call is a goroutine, so is every request the server handles, the  *)
(* server's accept loop and its shutdown.  net/http is external: Shutdown  *)
(* closes the listener at once and returns when no handler is active.      *)
(***************************************************************************)
EXTENDS Naturals

CONSTANTS
    Flows,          \* calls of GetIDToken (IDToken); a flow names its state and nonce
    Requests,       \* requests that may reach a callback; each has its own code
    State,          \* request -> the flow whose state token it carries, or None
    FixedPort,      \* cfg.RedirectURL is set: all calls listen on one port
    OIDC,           \* the calls that are the oidc package's
    Faults,         \* whether listening, serving and the browser may fail
    None, Typed,    \* nothing; a code the user typed
    Failed          \* the call returned an error

\* What the exchange of a code returns: a token whose id_token is missing or
\* carries a nonce, an access token hash and a subject.
Token == [signed : BOOLEAN, nonce : Flows \cup {None},
          hash : {"none", "right", "wrong"}, subject : BOOLEAN]

ASSUME FlowAssumption ==
    /\ State \in [Requests -> Flows \cup {None}]
    /\ FixedPort \in BOOLEAN /\ OIDC \subseteq Flows /\ Faults \in BOOLEAN
    /\ {None, Typed} \cap (Requests \cup Flows) = {}
    /\ None \notin {Typed, Failed} /\ {None, Failed} \cap Token = {}

VARIABLES
    pc,       \* where each call is
    redirect, \* cfg.RedirectURL: None, "local" or "oob"
    code,     \* the code the call got
    result,   \* what the call returned
    server,   \* its http.Server
    serve,    \* its goroutine that runs s.Serve
    handler,  \* where the handler of each request is
    at,       \* the call whose server accepted the request
    closed,   \* its channels are closed
    panicked  \* the process is gone

flow == <<pc, redirect, code, result>>
net  == <<server, serve, handler, at>>
chan == <<closed, panicked>>
vars == <<flow, net, chan>>

Sending == {"sendCode", "sendErr"}

TypeOK ==
    /\ pc \in [Flows -> {"start", "browser", "wait", "oob", "exchange", "returned"}]
    /\ redirect \in [Flows -> {None, "local", "oob"}]
    /\ code \in [Flows -> Requests \cup {None, Typed}]
    /\ result \in [Flows -> {None, Failed} \cup
                           {t \in Token : t.signed /\ t.hash # "wrong"}]
    /\ server \in [Flows -> {"none", "serving", "closing", "closed"}]
    /\ serve \in [Flows -> {"none", "running", "sending", "ended"}]
    /\ handler \in [Requests -> {"none", "page", "shown", "refused"} \cup Sending]
    /\ at \in [Requests -> Flows \cup {None}]
    /\ closed \in [Flows -> BOOLEAN]
    /\ panicked \in BOOLEAN

Init ==
    /\ pc = [f \in Flows |-> "start"]
    /\ redirect = [f \in Flows |-> None]
    /\ code = [f \in Flows |-> None]
    /\ result = [f \in Flows |-> None]
    /\ server = [f \in Flows |-> "none"]
    /\ serve = [f \in Flows |-> "none"]
    /\ handler = [r \in Requests |-> "none"]
    /\ at = [r \in Requests |-> None]
    /\ closed = [f \in Flows |-> FALSE]
    /\ panicked = FALSE

-----------------------------------------------------------------------------
(* startRedirectListener                                                   *)

Listening(f) == server[f] = "serving" /\ serve[f] = "running"
PortTaken    == FixedPort /\ \E g \in Flows : Listening(g)

Goto(f, p)   == pc' = [pc EXCEPT ![f] = p]
Return(f, v) == Goto(f, "returned") /\ result' = [result EXCEPT ![f] = v]

Listen(f) ==
    /\ pc[f] = "start" /\ ~PortTaken
    /\ server' = [server EXCEPT ![f] = "serving"]
    /\ serve' = [serve EXCEPT ![f] = "running"]
    /\ redirect' = [redirect EXCEPT ![f] = "local"]
    /\ Goto(f, "browser")
    /\ UNCHANGED <<code, result, handler, at, chan>>

\* The oidc package closes the channels here too.
ListenFails(f) ==
    /\ pc[f] = "start" /\ (Faults \/ PortTaken)
    /\ closed' = [closed EXCEPT ![f] = f \in OIDC]
    /\ Return(f, Failed)
    /\ UNCHANGED <<redirect, code, net, panicked>>

\* Variant: the state parameter is not compared.
AcceptsAny(r, f) == TRUE

\* The handler compares the state parameter with the call's state token.
Accepts(r, f) == State[r] = f

\* A request reaches the callback of a listening server: a redirect, a stale
\* or reloaded page, or a request of another call to the same port.
Arrive(r, f) ==
    /\ handler[r] = "none" /\ Listening(f)
    /\ at' = [at EXCEPT ![r] = f]
    /\ handler' = [handler EXCEPT ![r] = IF Accepts(r, f) THEN "sendCode" ELSE "sendErr"]
    /\ UNCHANGED <<flow, server, serve, chan>>

\* Variant: a channel with a buffer, the handler does not wait.
SendBuffered(r) ==
    /\ handler[r] = "sendCode"
    /\ handler' = [handler EXCEPT ![r] = "page"]
    /\ IF pc[at[r]] = "wait"
       THEN Goto(at[r], "exchange") /\ code' = [code EXCEPT ![at[r]] = r]
       ELSE UNCHANGED <<pc, code>>
    /\ UNCHANGED <<redirect, result, server, serve, at, chan>>

\* The send on the unbuffered channel and its receive in getCode are one step.
Send(r) ==
    /\ handler[r] = "sendCode" /\ pc[at[r]] = "wait"
    /\ handler' = [handler EXCEPT ![r] = "page"]
    /\ Goto(at[r], "exchange")
    /\ code' = [code EXCEPT ![at[r]] = r]
    /\ UNCHANGED <<redirect, result, server, serve, at, chan>>

SendErr(r) ==
    /\ handler[r] = "sendErr" /\ pc[at[r]] = "wait"
    /\ handler' = [handler EXCEPT ![r] = "refused"]
    /\ Goto(at[r], "oob")
    /\ UNCHANGED <<redirect, code, result, server, serve, at, chan>>

\* The handler writes the success page.
WritePage(r) ==
    /\ handler[r] = "page"
    /\ handler' = [handler EXCEPT ![r] = "shown"]
    /\ UNCHANGED <<flow, server, serve, at, chan>>

\* s.Serve returns an error that is not ErrServerClosed; its goroutine then
\* sends it.  The listener is closed.
ServeFails(f) ==
    /\ Faults /\ Listening(f)
    /\ serve' = [serve EXCEPT ![f] = "sending"]
    /\ UNCHANGED <<flow, server, handler, at, chan>>

SendServeErr(f) ==
    /\ serve[f] = "sending" /\ pc[f] = "wait"
    /\ serve' = [serve EXCEPT ![f] = "ended"]
    /\ Goto(f, "oob")
    /\ UNCHANGED <<redirect, code, result, server, handler, at, chan>>

-----------------------------------------------------------------------------
(* GetIDToken, getCode and doOobFlow                                       *)

\* The provider does not support PKCE.
PKCEFails(f) ==
    /\ Faults /\ pc[f] = "browser"
    /\ Return(f, Failed)
    /\ UNCHANGED <<redirect, code, net, chan>>

OpenBrowser(f) ==
    /\ pc[f] = "browser"
    /\ Goto(f, "wait")
    /\ UNCHANGED <<redirect, code, result, net, chan>>

BrowserFails(f) ==
    /\ Faults /\ pc[f] = "browser"
    /\ Goto(f, "oob")
    /\ UNCHANGED <<redirect, code, result, net, chan>>

\* Variant: no timer.
TimeoutMissing(f) == FALSE /\ UNCHANGED vars

\* 120 seconds after getCode was called.
Timeout(f) ==
    /\ pc[f] = "wait"
    /\ Goto(f, "oob")
    /\ UNCHANGED <<redirect, code, result, net, chan>>

\* doOobFlow: what is read, if anything, is taken for the code.
Oob(f) ==
    /\ pc[f] = "oob"
    /\ redirect' = [redirect EXCEPT ![f] = "oob"]
    /\ code' = [code EXCEPT ![f] = Typed]
    /\ Goto(f, "exchange")
    /\ UNCHANGED <<result, net, chan>>

\* Variant: the access token hash is not looked at.
VerifiedNoHash(f, token) ==
    token.signed /\ token.nonce = f /\ (token.subject \/ f \in OIDC)

\* The checks on the token that the code was exchanged for.
Verified(f, token) ==
    /\ token.signed
    /\ token.nonce = f
    /\ token.hash # "wrong"
    /\ token.subject \/ f \in OIDC

Exchange(f, token) ==
    /\ pc[f] = "exchange"
    /\ Return(f, IF Verified(f, token) THEN token ELSE Failed)
    /\ UNCHANGED <<redirect, code, net, chan>>

\* The provider rejects the code, or returns no id_token.
ExchangeFails(f) ==
    /\ pc[f] = "exchange"
    /\ Return(f, Failed)
    /\ UNCHANGED <<redirect, code, net, chan>>

-----------------------------------------------------------------------------
(* The goroutine the deferred function starts                              *)

Shutdown(f) ==
    /\ pc[f] = "returned" /\ server[f] = "serving"
    /\ server' = [server EXCEPT ![f] = "closing"]
    /\ serve' = [serve EXCEPT ![f] = IF @ = "running" THEN "ended" ELSE @]
    /\ UNCHANGED <<flow, handler, at, chan>>

Active(f) == \E r \in Requests : at[r] = f /\ handler[r] \in Sending \cup {"page"}

\* Shutdown returns.
ShutdownDone(f) ==
    /\ server[f] = "closing" /\ ~Active(f)
    /\ server' = [server EXCEPT ![f] = "closed"]
    /\ UNCHANGED <<flow, serve, handler, at, chan>>

\* Variant: the channels are closed without waiting for Shutdown.
CanCloseEarly(f) == server[f] \in {"closing", "closed"}

CanClose(f) == server[f] = "closed"

\* A goroutine that is sending on a channel when it is closed panics.
CloseChannels(f) ==
    /\ f \in OIDC /\ CanClose(f) /\ ~closed[f]
    /\ closed' = [closed EXCEPT ![f] = TRUE]
    /\ panicked' = \/ serve[f] = "sending"
                   \/ \E r \in Requests : at[r] = f /\ handler[r] \in Sending
    /\ UNCHANGED <<flow, net>>

-----------------------------------------------------------------------------
Caller(f) ==
    \/ Listen(f) \/ ListenFails(f) \/ PKCEFails(f)
    \/ OpenBrowser(f) \/ BrowserFails(f)
    \/ Timeout(f) \/ Oob(f) \/ ExchangeFails(f)
    \/ \E token \in Token : Exchange(f, token)

Server(f) ==
    \/ SendServeErr(f) \/ Shutdown(f) \/ ShutdownDone(f) \/ CloseChannels(f)

Handle(r) == Send(r) \/ SendErr(r) \/ WritePage(r)

Next ==
    /\ ~panicked
    /\ \/ \E f \in Flows : Caller(f) \/ Server(f) \/ ServeFails(f)
       \/ \E r \in Requests : Handle(r) \/ \E f \in Flows : Arrive(r, f)

Spec == Init /\ [][Next]_vars

\* Goroutines that can run do run, the timer fires, the user answers the
\* prompt and the provider the exchange.
Fairness ==
    /\ \A f \in Flows : WF_vars(~panicked /\ Caller(f)) /\ WF_vars(~panicked /\ Server(f))
    /\ \A r \in Requests : WF_vars(~panicked /\ Handle(r))

FairSpec == Spec /\ Fairness

-----------------------------------------------------------------------------
(* Properties                                                              *)

\* The success page tells the user to go back to the terminal: it is shown
\* only for the code that the call of that server goes on with, whatever
\* requests were handled before it, together with it or for another call.
PageMeansCodeUsed ==
    \A r \in Requests : handler[r] \in {"page", "shown"} => code[at[r]] = r

\* A token that is returned belongs to this call alone: its nonce, the state
\* of the request that brought the code, and the redirect URI the code was
\* requested with, after a timeout, a failure or a stray request too.
TokenBelongsToCall ==
    \A f \in Flows : result[f] \in Token =>
        /\ result[f].nonce = f
        /\ \/ code[f] = Typed /\ redirect[f] = "oob"
           \/ code[f] \in Requests /\ State[code[f]] = f /\ redirect[f] = "local"

\* The channels are closed only when nobody can use them any more: no handler
\* sends on a closed channel and getCode never receives from one.  The one
\* goroutine Shutdown does not wait for is the one that reports Serve's error.
ClosedChannelsUnused ==
    \A f \in Flows :
        /\ closed[f] => pc[f] = "returned"
        /\ closed[f] => \A r \in Requests : at[r] = f => handler[r] \notin Sending
        /\ panicked => \E g \in Flows : serve[g] = "sending"

\* The call returns even if the browser never comes back: getCode has a
\* timeout and then the user is asked.
FlowReturns == \A f \in Flows : pc[f] = "browser" ~> panicked \/ pc[f] = "returned"
=============================================================================
