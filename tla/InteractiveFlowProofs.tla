----------------------- MODULE InteractiveFlowProofs -----------------------
(***************************************************************************)
(* Safety of InteractiveFlow for any calls, of both packages, at one port  *)
(* or at several, and any requests that reach their callbacks.             *)
(***************************************************************************)
EXTENDS InteractiveFlow, TLAPS

-----------------------------------------------------------------------------
(* The inductive invariant                                                 *)

\* A server is started by its call, shut down only after the call returned, and closed only
\* when none of its handlers is active; the channels are closed after it, or if there is none.
ServerInv ==
    /\ \A f \in Flows :
        /\ pc[f] = "start" => server[f] = "none"
        /\ server[f] \in {"closing", "closed"} => pc[f] = "returned"
        /\ server[f] = "closed" => ~Active(f)
        /\ closed[f] => pc[f] = "returned" /\ server[f] \in {"none", "closed"}
    /\ \A r \in Requests : handler[r] # "none" => at[r] \in Flows /\ server[at[r]] # "none"

\* A call has the code of one of its own redirects, with the redirect URI of its
\* listener, or a typed one with the out-of-band URI; with the first it goes on.
CodeInv ==
    \A f \in Flows :
        /\ code[f] \in Requests =>
            State[code[f]] = f /\ redirect[f] = "local" /\ pc[f] \in {"exchange", "returned"}
        /\ code[f] = Typed => redirect[f] = "oob" /\ pc[f] \in {"exchange", "returned"}
        /\ pc[f] \in {"browser", "wait"} => redirect[f] = "local"
        /\ pc[f] = "exchange" => code[f] # None
        /\ result[f] \in Token => result[f].nonce = f /\ code[f] # None

\* A handler that sends a code was given the state token of its server's call.
HandlerInv == \A r \in Requests : handler[r] = "sendCode" => State[r] = at[r]

PanicInv == panicked => \E g \in Flows : serve[g] = "sending"

IInv == TypeOK /\ ServerInv /\ CodeInv /\ HandlerInv /\ PageMeansCodeUsed /\ PanicInv

-----------------------------------------------------------------------------
USE FlowAssumption DEF flow, net, chan, vars, Goto, Return, Sending

LEMMA InitOK == Init => IInv
<1> SUFFICES ASSUME Init PROVE IInv
  OBVIOUS
<1>1. TypeOK
  BY DEF Init, TypeOK
<1>2. \A f \in Flows : pc[f] = "start" /\ redirect[f] = None /\ code[f] = None /\ result[f] = None
                       /\ server[f] = "none" /\ ~closed[f]
  BY DEF Init
<1>3. ServerInv
  BY <1>2 DEF Init, ServerInv
<1>4. CodeInv
  BY <1>2 DEF CodeInv
<1>5. HandlerInv /\ PageMeansCodeUsed /\ PanicInv
  BY DEF Init, HandlerInv, PageMeansCodeUsed, PanicInv
<1> QED BY <1>1, <1>3, <1>4, <1>5 DEF IInv

-----------------------------------------------------------------------------
(* Every step keeps it                                                     *)

LEMMA TypeStep == TypeOK /\ [Next]_vars => TypeOK'
<1> SUFFICES ASSUME TypeOK, [Next]_vars PROVE TypeOK'
  OBVIOUS
<1> USE DEF TypeOK
<1>1. ASSUME NEW f \in Flows, Caller(f) PROVE TypeOK'
  <2>1. CASE Listen(f)
    BY <2>1 DEF Listen
  <2>2. CASE ListenFails(f)
    <3>1. (f \in OIDC) \in BOOLEAN
      OBVIOUS
    <3>2. closed' \in [Flows -> BOOLEAN]
      BY <2>2, <3>1, Zenon DEF ListenFails
    <3> QED BY <2>2, <3>2 DEF ListenFails
  <2>3. CASE PKCEFails(f) \/ OpenBrowser(f) \/ BrowserFails(f) \/ Timeout(f)
    BY <2>3 DEF PKCEFails, OpenBrowser, BrowserFails, Timeout
  <2>4. CASE Oob(f) \/ ExchangeFails(f)
    BY <2>4 DEF Oob, ExchangeFails
  <2>5. ASSUME NEW token \in Token, Exchange(f, token) PROVE TypeOK'
    BY <2>5 DEF Exchange, Verified
  <2> QED BY <1>1, <2>1, <2>2, <2>3, <2>4, <2>5 DEF Caller
<1>2. ASSUME NEW f \in Flows, Server(f) \/ ServeFails(f) PROVE TypeOK'
  <2>1. CASE SendServeErr(f) \/ Shutdown(f) \/ ShutdownDone(f) \/ ServeFails(f)
    BY <2>1 DEF SendServeErr, Shutdown, ShutdownDone, ServeFails
  <2>2. CASE CloseChannels(f)
    <3>1. panicked' \in BOOLEAN
      BY <2>2, Zenon DEF CloseChannels
    <3> QED BY <2>2, <3>1 DEF CloseChannels
  <2> QED BY <1>2, <2>1, <2>2 DEF Server
<1>3. ASSUME NEW r \in Requests, Handle(r) PROVE TypeOK'
  BY <1>3 DEF Handle, Send, SendErr, WritePage
<1>4. ASSUME NEW r \in Requests, NEW f \in Flows, Arrive(r, f) PROVE TypeOK'
  BY <1>4 DEF Arrive
<1>5. CASE UNCHANGED vars
  BY <1>5
<1> QED BY <1>1, <1>2, <1>3, <1>4, <1>5 DEF Next

LEMMA ServerStep == TypeOK /\ ServerInv /\ [Next]_vars => ServerInv'
<1> SUFFICES ASSUME TypeOK, ServerInv, [Next]_vars PROVE ServerInv'
  OBVIOUS
<1> USE DEF TypeOK, ServerInv, Active
<1>1. ASSUME NEW f \in Flows, Caller(f) PROVE ServerInv'
  <2>1. CASE Listen(f)
    BY <2>1 DEF Listen
  <2>2. CASE ListenFails(f)
    BY <2>2 DEF ListenFails
  <2>3. CASE PKCEFails(f) \/ OpenBrowser(f) \/ BrowserFails(f) \/ Timeout(f)
    BY <2>3 DEF PKCEFails, OpenBrowser, BrowserFails, Timeout
  <2>4. CASE Oob(f) \/ ExchangeFails(f)
    BY <2>4 DEF Oob, ExchangeFails
  <2>5. ASSUME NEW token \in Token, Exchange(f, token) PROVE ServerInv'
    BY <2>5 DEF Exchange
  <2> QED BY <1>1, <2>1, <2>2, <2>3, <2>4, <2>5 DEF Caller
<1>2. ASSUME NEW f \in Flows, Server(f) \/ ServeFails(f) PROVE ServerInv'
  <2>1. CASE SendServeErr(f) \/ ServeFails(f)
    BY <2>1 DEF SendServeErr, ServeFails
  <2>2. CASE Shutdown(f)
    BY <2>2 DEF Shutdown
  <2>3. CASE ShutdownDone(f)
    BY <2>3 DEF ShutdownDone
  <2>4. CASE CloseChannels(f)
    <3>1. /\ server[f] = "closed" /\ closed' = [closed EXCEPT ![f] = TRUE]
          /\ UNCHANGED <<pc, server, handler, at>>
      BY <2>4 DEF CloseChannels, CanClose
    <3> QED BY <3>1
  <2> QED BY <1>2, <2>1, <2>2, <2>3, <2>4 DEF Server
<1>3. ASSUME NEW r \in Requests, Handle(r) PROVE ServerInv'
  BY <1>3 DEF Handle, Send, SendErr, WritePage
<1>4. ASSUME NEW r \in Requests, NEW f \in Flows, Arrive(r, f) PROVE ServerInv'
  BY <1>4 DEF Arrive, Listening
<1>5. CASE UNCHANGED vars
  BY <1>5
<1> QED BY <1>1, <1>2, <1>3, <1>4, <1>5 DEF Next

LEMMA CodeStep ==
    TypeOK /\ ServerInv /\ CodeInv /\ HandlerInv /\ [Next]_vars => CodeInv' /\ HandlerInv'
<1> SUFFICES ASSUME TypeOK, ServerInv, CodeInv, HandlerInv, [Next]_vars PROVE CodeInv' /\ HandlerInv'
  OBVIOUS
<1> USE DEF TypeOK, CodeInv, HandlerInv
<1>1. ASSUME NEW f \in Flows, Caller(f) PROVE CodeInv' /\ HandlerInv'
  <2>1. CASE Listen(f) \/ ListenFails(f)
    BY <2>1 DEF Listen, ListenFails
  <2>2. CASE PKCEFails(f) \/ OpenBrowser(f) \/ BrowserFails(f) \/ Timeout(f)
    BY <2>2 DEF PKCEFails, OpenBrowser, BrowserFails, Timeout
  <2>3. CASE Oob(f) \/ ExchangeFails(f)
    BY <2>3 DEF Oob, ExchangeFails
  <2>4. ASSUME NEW token \in Token, Exchange(f, token) PROVE CodeInv' /\ HandlerInv'
    BY <2>4 DEF Exchange, Verified
  <2> QED BY <1>1, <2>1, <2>2, <2>3, <2>4 DEF Caller
<1>2. ASSUME NEW f \in Flows, Server(f) \/ ServeFails(f) PROVE CodeInv' /\ HandlerInv'
  <2>1. (UNCHANGED flow /\ UNCHANGED <<handler, at>>) \/ SendServeErr(f)
    <3>1. CASE CloseChannels(f)
      BY <3>1 DEF CloseChannels
    <3>2. CASE ~CloseChannels(f)
      BY <1>2, <3>2 DEF Server, Shutdown, ShutdownDone, ServeFails
    <3> QED BY <3>1, <3>2
  <2>2. CASE UNCHANGED flow /\ UNCHANGED <<handler, at>>
    BY <2>2
  <2>3. CASE SendServeErr(f)
    BY <2>3 DEF SendServeErr
  <2> QED BY <2>1, <2>2, <2>3
<1>3. ASSUME NEW r \in Requests, Handle(r) PROVE CodeInv' /\ HandlerInv'
  <2>1. at[r] \in Flows
    BY <1>3 DEF Handle, Send, SendErr, WritePage, ServerInv
  <2>2. CASE Send(r)
    BY <2>1, <2>2 DEF Send
  <2>3. CASE SendErr(r) \/ WritePage(r)
    BY <2>1, <2>3 DEF SendErr, WritePage
  <2> QED BY <1>3, <2>2, <2>3 DEF Handle
<1>4. ASSUME NEW r \in Requests, NEW f \in Flows, Arrive(r, f) PROVE CodeInv' /\ HandlerInv'
  <2>1. UNCHANGED flow /\ at'[r] = f /\ (handler'[r] = "sendCode" => State[r] = f)
    BY <1>4 DEF Arrive, Accepts
  <2>2. \A q \in Requests \ {r} : at'[q] = at[q] /\ handler'[q] = handler[q]
    BY <1>4 DEF Arrive
  <2>3. HandlerInv'
    BY <2>1, <2>2
  <2> QED BY <2>1, <2>3
<1>5. CASE UNCHANGED vars
  BY <1>5
<1> QED BY <1>1, <1>2, <1>3, <1>4, <1>5 DEF Next

\* Neither the prompt of the out-of-band flow nor another handler replaces a code whose
\* page is written: its call has left getCode.
LEMMA PageStep ==
    TypeOK /\ ServerInv /\ CodeInv /\ PageMeansCodeUsed /\ [Next]_vars => PageMeansCodeUsed'
<1> SUFFICES ASSUME TypeOK, ServerInv, CodeInv, PageMeansCodeUsed, [Next]_vars PROVE PageMeansCodeUsed'
  OBVIOUS
<1> USE DEF TypeOK, PageMeansCodeUsed
<1>1. \A r \in Requests : handler[r] \in {"page", "shown"} =>
        at[r] \in Flows /\ pc[at[r]] \notin {"wait", "oob"}
  BY DEF ServerInv, CodeInv
<1>2. ASSUME NEW f \in Flows, Caller(f) PROVE PageMeansCodeUsed'
  <2>1. CASE Oob(f)
    BY <1>1, <2>1 DEF Oob
  <2>2. CASE ~Oob(f)
    BY <1>2, <2>2 DEF Caller, Listen, ListenFails, PKCEFails, OpenBrowser, BrowserFails, Timeout,
                      ExchangeFails, Exchange
  <2> QED BY <2>1, <2>2
<1>3. ASSUME NEW f \in Flows, Server(f) \/ ServeFails(f) PROVE PageMeansCodeUsed'
  BY <1>3 DEF Server, SendServeErr, Shutdown, ShutdownDone, CloseChannels, ServeFails
<1>4. ASSUME NEW r \in Requests, Handle(r) PROVE PageMeansCodeUsed'
  <2>1. at[r] \in Flows
    BY <1>4 DEF Handle, Send, SendErr, WritePage, ServerInv
  <2>2. CASE Send(r)
    BY <1>1, <2>1, <2>2 DEF Send
  <2>3. CASE SendErr(r) \/ WritePage(r)
    BY <2>3 DEF SendErr, WritePage
  <2> QED BY <1>4, <2>2, <2>3 DEF Handle
<1>5. ASSUME NEW r \in Requests, NEW f \in Flows, Arrive(r, f) PROVE PageMeansCodeUsed'
  BY <1>5 DEF Arrive
<1>6. CASE UNCHANGED vars
  BY <1>6
<1> QED BY <1>2, <1>3, <1>4, <1>5, <1>6 DEF Next

\* When the channels are closed no handler sends: only Serve's error can be on its way.
LEMMA PanicStep == TypeOK /\ ServerInv /\ PanicInv /\ [Next]_vars => PanicInv'
<1> SUFFICES ASSUME TypeOK, ServerInv, PanicInv, [Next]_vars, panicked' PROVE \E g \in Flows : serve'[g] = "sending"
  BY DEF PanicInv
<1>1. CASE UNCHANGED vars
  BY <1>1 DEF PanicInv
<1>2. CASE Next
  <2>1. ~panicked
    BY <1>2 DEF Next
  <2>2. PICK f \in Flows : CloseChannels(f)
    BY <1>2, <2>1, Zenon
       DEF Next, Caller, Server, Handle, Listen, ListenFails, PKCEFails, OpenBrowser, BrowserFails, Timeout,
           Oob, ExchangeFails, Exchange, SendServeErr, Shutdown, ShutdownDone, ServeFails, Send, SendErr,
           WritePage, Arrive
  <2>3. ~Active(f)
    BY <2>2 DEF CloseChannels, CanClose, ServerInv
  <2>4. serve[f] = "sending" /\ serve' = serve
    BY <2>2, <2>3 DEF CloseChannels, Active
  <2> QED BY <2>4
<1> QED BY <1>1, <1>2

LEMMA Invariance == Spec => []IInv
<1>1. IInv /\ [Next]_vars => IInv'
  BY TypeStep, ServerStep, CodeStep, PageStep, PanicStep DEF IInv
<1> QED BY InitOK, <1>1, PTL DEF Spec

-----------------------------------------------------------------------------
(* The theorems                                                            *)

\* Type correctness.
THEOREM TypeCorrect == Spec => []TypeOK
<1>1. IInv => TypeOK
  BY DEF IInv
<1> QED BY Invariance, <1>1, PTL

\* The browser shows the success page only for the code its call goes on with.
THEOREM PageTheorem == Spec => []PageMeansCodeUsed
<1>1. IInv => PageMeansCodeUsed
  BY DEF IInv
<1> QED BY Invariance, <1>1, PTL

\* A token that GetIDToken or IDToken returns has the nonce of the call; its code came with
\* the call's state token, or was typed, and was requested with the redirect URI it came by.
THEOREM TokenTheorem == Spec => []TokenBelongsToCall
<1>1. IInv => TokenBelongsToCall
  BY DEF IInv, TypeOK, CodeInv, TokenBelongsToCall
<1> QED BY Invariance, <1>1, PTL

\* No handler sends on a closed channel, and no call that waits has its channel closed.
THEOREM ChannelsTheorem == Spec => []ClosedChannelsUnused
<1>1. IInv => ClosedChannelsUnused
  BY DEF IInv, TypeOK, ServerInv, PanicInv, ClosedChannelsUnused, Active
<1> QED BY Invariance, <1>1, PTL
=============================================================================
