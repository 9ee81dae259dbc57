---------------------------- MODULE HostedClient ----------------------------
(***************************************************************************)
(* The browser clients of an application as their hosts see them: flags,   *)
(* a context, and calls that return.  It abstracts ClientCore and the      *)
(* transports: once a call is superseded or its client is disposed, it may *)
(* return at any time or never.                                            *)
(***************************************************************************)
EXTENDS Naturals, Sequences, FiniteSets

CONSTANTS
    Contexts,    \* contexts the application gives
    None,        \* no context
    MaxClients,  \* bound: clients built in a behaviour
    MaxCalls     \* bound: calls made on them

ASSUME HostBoundsAssumption ==
    MaxClients \in Nat \ {0} /\ MaxCalls \in Nat /\ None \notin Contexts

VARIABLES
    client,  \* per client, what its getters say and what its connection may do
    calls    \* the calls made, in order

clientVars == <<client, calls>>

Clients == 1 .. MaxClients

\* "pending": a call waits for a first payload; "link": the transport may deliver payloads.
Unbuilt == [built |-> FALSE, ready |-> FALSE, initializing |-> FALSE, received |-> FALSE,
            cached |-> FALSE, pending |-> FALSE, link |-> FALSE, context |-> None]

Built(c) == client[c].built
BuildClient(clients, c) == [clients EXCEPT ![c].built = TRUE]

CallsOf(c) == {i \in DOMAIN calls : calls[i].client = c}
IsLastCall(i) == \A j \in CallsOf(calls[i].client) : j <= i

\* connectToTransport up to its await: "then" is what the caller does when it returns.
Connecting(clients, c, action) ==
    [clients EXCEPT ![c].ready = FALSE, ![c].pending = TRUE, ![c].link = TRUE,
                    ![c].initializing = @ \/ (action = "initialize" /\ ~clients[c].received)]

CallOn(clients, c, action, context, then) ==
    /\ Len(calls) < MaxCalls
    /\ calls' = Append(calls, [client |-> c, action |-> action, context |-> context,
                               pc |-> "connecting", then |-> then])
    /\ client' = Connecting(clients, c, action)

Call(c, action, context, then) == CallOn(client, c, action, context, then)

\* close, which dispose calls: readyResolve(true) lets a waiting call return.
Disposed(c) ==
    [client EXCEPT ![c].ready = FALSE, ![c].initializing = FALSE, ![c].pending = FALSE,
                   ![c].link = FALSE]

Paused(c) == [client EXCEPT ![c].ready = FALSE, ![c].link = FALSE]

Resume(c) == Call(c, "resume", client[c].context, "nothing")

-----------------------------------------------------------------------------
(* The client's own steps *)

\* A call nobody awaits is done when it returns.
Returned(call) == [call EXCEPT !.pc = IF call.then = "nothing" THEN "done" ELSE "returned"]

TransportSettles(i) ==
    LET c == calls[i].client IN
    /\ calls[i].pc = "connecting"
    /\ calls' = [calls EXCEPT ![i] = IF client[c].pending THEN [@ EXCEPT !.pc = "waiting"]
                                                          ELSE Returned(@)]
    /\ client' = [client EXCEPT ![c].context = calls[i].context]

BecomesReady(c) == client[c].pending

PayloadArrives(c) ==
    /\ client[c].link
    /\ client' = [client EXCEPT ![c].received = TRUE, ![c].cached = FALSE, ![c].pending = FALSE,
                                ![c].ready = @ \/ BecomesReady(c),
                                ![c].initializing = @ /\ ~BecomesReady(c)]
    /\ calls' = [i \in DOMAIN calls |->
                   IF calls[i].client = c /\ calls[i].pc = "waiting" /\ IsLastCall(i)
                     THEN Returned(calls[i]) ELSE calls[i]]

\* A timeout, of the transport or of the wait for readiness; or a call that was superseded
\* or whose client was disposed.
CallTimesOut(i) ==
    LET c == calls[i].client IN
    /\ calls[i].pc \in {"connecting", "waiting"}
    /\ calls' = [calls EXCEPT ![i] = Returned(@)]
    /\ client' = IF calls[i].pc = "connecting"
                   THEN [client EXCEPT ![c].context = calls[i].context] ELSE client

\* An unrecoverable connection error.
CallRefused(i) ==
    LET c == calls[i].client IN
    /\ IsLastCall(i) /\ client[c].link
    /\ client' = [client EXCEPT ![c].link = FALSE, ![c].initializing = FALSE]
    /\ calls' = [calls EXCEPT ![i] = IF @.pc = "connecting" THEN Returned(@) ELSE @]

\* adoptCachedValues, before any configs: cachedValuesLoaded is emitted.
CachedValuesLoad(c) ==
    /\ client[c].link /\ ~client[c].received /\ ~client[c].cached
    /\ client' = [client EXCEPT ![c].cached = TRUE]
    /\ UNCHANGED calls

\* The caller goes on after its await.
Resumed(i) == calls' = [calls EXCEPT ![i].pc = "done"]
=============================================================================
