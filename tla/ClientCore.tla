----------------------------- MODULE ClientCore -----------------------------
(***************************************************************************)
(* The transport-independent half of DefaultConfigDirectorClient: the      *)
(* calls initialize, updateContext and resumeNetwork, the promise each of  *)
(* them returns, the readiness flags and the config set.  This module has  *)
(* no behaviour of its own: StreamingClient and PollingClient conjoin its  *)
(* operators with what their transport does in the same JavaScript turn.   *)
(*                                                                         *)
(* JavaScript runs to completion: a handler is interrupted only where it   *)
(* awaits, or where it emits an event, since the application's listener    *)
(* runs inside the emit and may call the client again.  `turn` names the   *)
(* emitting handler that is still on the stack; a promise reaction or a    *)
(* task (a timer, the network) waits until the stack is empty, and a task  *)
(* also waits until no reaction is pending (Quiet).                        *)
(*                                                                         *)
(* The client modelled keeps no values on the device (planCaching's        *)
(* "no cache"); CachedValues models the client that does.                  *)
(***************************************************************************)
EXTENDS Naturals

CONSTANTS
    Contexts,   \* contexts an application may submit
    NoContext,  \* `undefined`: no context, or one whose kind was refused
    Keys,       \* config keys
    MaxCalls    \* bound: connecting calls in a behaviour

ASSUME MaxCallsAssumption == MaxCalls \in Nat \ {0}
ASSUME NoContextAssumption == NoContext \notin Contexts

(***************************************************************************)
(* Calls are numbered in the order they are made; 0 stands for no call.    *)
(***************************************************************************)
Calls == 1 .. MaxCalls
CallsOrNone == 0 .. MaxCalls

VARIABLES
    pc,            \* where each call is suspended
    ctxOf,         \* the admitted context of each call
    promise,       \* the readyPromise each call created
    waitsOn,       \* the call whose readyPromise a waiting call races against
    lastCall,      \* owner of readyResolve and submittedContext
    adopted,       \* the call whose context is currentContext
    clientTimer,   \* the call whose timeoutTimer is armed in the client
    ready, initializing, hasReceived,
    configs,       \* per key, the call whose stream supplied its state (0: absent)
    seen,          \* per key, what its watcher was last told
    observed,      \* the application's handlers are registered
    notified,      \* the keys of the payload whose watchers are still to be called
    turn           \* the emitting handler still on the stack

callVars == <<pc, ctxOf, promise, waitsOn, lastCall>>
flagVars == <<adopted, clientTimer, ready, initializing>>
valueVars == <<hasReceived, configs, seen, observed, notified>>
coreVars == <<callVars, flagVars, valueVars, turn>>

\* A call is suspended on the client session, on its transport ("connecting"), or
\* on readiness; in between, one of its promise reactions is due.
Settled == {"attached", "timedOut", "superseded"}
Phases == {"unused", "session", "connecting", "rejected", "waiting", "returned"} \cup Settled
PromiseStates == {"none", "pending", "resolved", "cancelled", "settled"}
EmptyStack == [at |-> "none", call |-> 0]
Turns == [at : {"none", "updated", "chunk", "fatal", "announce"}, call : CallsOrNone]

CoreTypeOK ==
    /\ pc \in [Calls -> Phases]
    /\ ctxOf \in [Calls -> Contexts \cup {NoContext}]
    /\ promise \in [Calls -> PromiseStates]
    /\ waitsOn \in [Calls -> CallsOrNone]
    /\ lastCall \in CallsOrNone /\ adopted \in CallsOrNone /\ clientTimer \in CallsOrNone
    /\ ready \in BOOLEAN /\ initializing \in BOOLEAN /\ hasReceived \in BOOLEAN
    /\ configs \in [Keys -> CallsOrNone] /\ seen \in [Keys -> CallsOrNone]
    /\ observed \in BOOLEAN /\ notified \subseteq Keys
    /\ turn \in Turns

CoreInit ==
    /\ pc = [i \in Calls |-> "unused"]
    /\ ctxOf = [i \in Calls |-> NoContext]
    /\ promise = [i \in Calls |-> "none"]
    /\ waitsOn = [i \in Calls |-> 0]
    /\ lastCall = 0 /\ adopted = 0 /\ clientTimer = 0
    /\ ready = FALSE /\ initializing = FALSE /\ hasReceived = FALSE
    /\ configs = [k \in Keys |-> 0] /\ seen = [k \in Keys |-> 0]
    /\ observed = TRUE /\ notified = {}
    /\ turn = EmptyStack

StackEmpty == turn = EmptyStack
CurrentContext == IF adopted = 0 THEN NoContext ELSE ctxOf[adopted]

\* The application runs in a task of its own, in a listener, or behind its await of a
\* call: never between the settling of a transport and the reactions it set off.
ApplicationRuns == ~StackEmpty \/ \A i \in Calls : pc[i] \notin Settled \cup {"rejected"}

\* Resolving a promise that is no longer pending has no effect.
Resolve(call, outcome) ==
    IF call # 0 /\ promise[call] = "pending"
    THEN [promise EXCEPT ![call] = outcome] ELSE promise

ConnectToTransportAdopting(c) ==
    /\ lastCall < MaxCalls
    /\ lastCall' = lastCall + 1
    /\ pc' = [pc EXCEPT ![lastCall + 1] = "session"]
    /\ ctxOf' = [ctxOf EXCEPT ![lastCall + 1] = c]
    /\ promise' = [promise EXCEPT ![lastCall + 1] = "pending"]
    /\ ready' = FALSE
    /\ adopted' = lastCall + 1
    /\ UNCHANGED <<waitsOn, clientTimer, valueVars, turn>>

(***************************************************************************)
(* initialize, updateContext and resumeNetwork up to the await inside      *)
(* transport.connect: the call takes over readyPromise and readyResolve,   *)
(* and the previous readyPromise can no longer be resolved.                *)
(***************************************************************************)
ConnectToTransport(c) ==
    /\ lastCall < MaxCalls
    /\ lastCall' = lastCall + 1
    /\ pc' = [pc EXCEPT ![lastCall + 1] = "session"]
    /\ ctxOf' = [ctxOf EXCEPT ![lastCall + 1] = c]
    /\ promise' = [promise EXCEPT ![lastCall + 1] = "pending"]
    /\ ready' = FALSE
    /\ UNCHANGED <<waitsOn, adopted, clientTimer, valueVars, turn>>

SubmitInitialization(c) ==
    /\ initializing' = (initializing \/ ~hasReceived)
    /\ ConnectToTransport(c)

SubmitContextUpdate(c) == ConnectToTransport(c) /\ UNCHANGED initializing

ResumeNetwork == ConnectToTransport(CurrentContext) /\ UNCHANGED initializing

(***************************************************************************)
(* The "configSetReceived" handler: a full set replaces, a delta merges;   *)
(* the listeners of configsUpdated run before the watchers, which hear of  *)
(* every key received and every key a full set removed.                    *)
(***************************************************************************)
MergedConfigs(kind, received, from) ==
    [k \in Keys |-> IF k \in received THEN from
                    ELSE IF kind = "full" \/ ~hasReceived THEN 0 ELSE configs[k]]

KeysNeverRemoved(kind, received) == {}

\* Against the configs held before the payload.
KeysRemovedBy(kind, received) ==
    IF kind = "full" /\ hasReceived THEN {k \in Keys \ received : configs[k] # 0} ELSE {}

\* Resolve readiness, take the payload over and emit configsUpdated ...
ConfigSetReceived(kind, received, from) ==
    /\ hasReceived' = TRUE
    /\ promise' = Resolve(lastCall, "resolved")
    /\ configs' = MergedConfigs(kind, received, from)
    /\ notified' = received \cup KeysRemovedBy(kind, received)
    /\ turn' = [at |-> "updated", call |-> from]
    /\ UNCHANGED <<pc, ctxOf, waitsOn, lastCall, flagVars, seen, observed>>

UpdateWatchersIfLatest ==
    /\ turn.at = "updated"
    /\ turn' = [turn EXCEPT !.at = "chunk"]
    /\ seen' = [k \in Keys |-> IF turn.call = lastCall /\ observed /\ k \in notified
                              THEN configs[k] ELSE seen[k]]
    /\ notified' = {}
    /\ UNCHANGED <<callVars, flagVars, hasReceived, configs, observed>>

\* ... and after its listeners, call the watchers that are still registered.
UpdateWatchers ==
    /\ turn.at = "updated"
    /\ turn' = [turn EXCEPT !.at = "chunk"]
    /\ seen' = [k \in Keys |-> IF observed /\ k \in notified THEN configs[k] ELSE seen[k]]
    /\ notified' = {}
    /\ UNCHANGED <<callVars, flagVars, hasReceived, configs, observed>>

SettleReadyPromiseOnly(i) ==
    /\ StackEmpty
    /\ promise[i] \in {"resolved", "cancelled"}
    /\ promise' = [promise EXCEPT ![i] = "settled"]
    /\ ready' = (ready \/ promise[i] = "resolved")
    /\ UNCHANGED <<initializing, pc, ctxOf, waitsOn, lastCall, adopted, clientTimer, valueVars, turn>>

\* The reaction on readyResolve: unless close() cancelled it, the client is ready.
SettleReadyPromise(i) ==
    /\ StackEmpty
    /\ promise[i] \in {"resolved", "cancelled"}
    /\ promise' = [promise EXCEPT ![i] = "settled"]
    /\ ready' = (ready \/ promise[i] = "resolved")
    /\ initializing' = (initializing /\ promise[i] = "cancelled")
    /\ UNCHANGED <<pc, ctxOf, waitsOn, lastCall, adopted, clientTimer, valueVars, turn>>

(***************************************************************************)
(* connectToTransport after the transport settled: adopt the context and   *)
(* emit contextUpdated; back from the listeners, race readiness against    *)
(* what is left of the timeout.  Nothing is left once the transport itself *)
(* used the whole timeout, and a slow client session may have eaten it.    *)
(* A call waiting on a readyPromise that was settled before is resumed     *)
(* first: its chain of reactions is no longer than that of any connect.    *)
(***************************************************************************)
ReadinessDue(i) == pc[i] = "waiting" /\ promise[waitsOn[i]] # "pending"

AdoptContext(i) ==
    /\ StackEmpty
    /\ pc[i] \in Settled
    /\ \A j \in Calls : j < i => pc[j] \notin Settled
    /\ \A j \in Calls : ~ReadinessDue(j)
    /\ adopted' = i
    /\ turn' = [at |-> "announce", call |-> i]
    /\ UNCHANGED <<callVars, clientTimer, ready, initializing, valueVars>>

AwaitReadinessUntimed(i) ==
    /\ turn = [at |-> "announce", call |-> i]
    /\ turn' = EmptyStack
    /\ pc' = [pc EXCEPT ![i] = "waiting"]
    /\ waitsOn' = [waitsOn EXCEPT ![i] = lastCall]
    /\ clientTimer' = 0
    /\ UNCHANGED <<ctxOf, promise, lastCall, adopted, ready, initializing, valueVars>>

AwaitReadiness(i) ==
    /\ turn = [at |-> "announce", call |-> i]
    /\ turn' = EmptyStack
    /\ \/ /\ pc[i] # "timedOut"
          /\ pc' = [pc EXCEPT ![i] = "waiting"]
          /\ waitsOn' = [waitsOn EXCEPT ![i] = lastCall]
          /\ clientTimer' = i
       \/ /\ pc' = [pc EXCEPT ![i] = "returned"]
          /\ clientTimer' = 0
          /\ UNCHANGED waitsOn
    /\ UNCHANGED <<ctxOf, promise, lastCall, adopted, ready, initializing, valueVars>>

ReadinessReached(i) ==
    /\ StackEmpty
    /\ pc[i] = "waiting" /\ promise[waitsOn[i]] = "settled"
    /\ pc' = [pc EXCEPT ![i] = "returned"]
    /\ clientTimer' = 0
    /\ UNCHANGED <<ctxOf, promise, waitsOn, lastCall, adopted, ready, initializing, valueVars, turn>>

\* A rejected transport: the error is logged and the call returns.
ReturnAfterError(i) ==
    /\ StackEmpty
    /\ pc[i] = "rejected"
    /\ pc' = [pc EXCEPT ![i] = "returned"]
    /\ UNCHANGED <<ctxOf, promise, waitsOn, lastCall, flagVars, valueVars, turn>>

ReactionDue(i, session) ==
    \/ pc[i] \in Settled \cup {"rejected"}
    \/ pc[i] = "session" /\ session
    \/ promise[i] \in {"resolved", "cancelled"}
    \/ pc[i] = "waiting" /\ promise[waitsOn[i]] = "settled"

\* The stack is empty and no promise reaction is due: the next task may run.
Quiet(session) == StackEmpty /\ \A i \in Calls : ~ReactionDue(i, session)

ClientTimerFires(session) ==
    /\ Quiet(session)
    /\ clientTimer # 0
    /\ pc' = [pc EXCEPT ![clientTimer] = "returned"]
    /\ clientTimer' = 0
    /\ UNCHANGED <<ctxOf, promise, waitsOn, lastCall, adopted, ready, initializing, valueVars, turn>>

\* The "connectionError" handler.
ConnectionErrorReceived ==
    /\ initializing' = FALSE
    /\ UNCHANGED <<callVars, adopted, clientTimer, ready, valueVars>>

\* The client's own part of pauseNetwork: the pending readyPromise is left alone.
PauseNetwork ==
    /\ clientTimer' = 0
    /\ ready' = FALSE
    /\ UNCHANGED <<callVars, adopted, initializing, valueVars, turn>>

\* The client's own part of dispose, which is clear() then close().
DisposeClient ==
    /\ clientTimer' = 0
    /\ promise' = Resolve(lastCall, "cancelled")
    /\ ready' = FALSE /\ initializing' = FALSE
    /\ observed' = FALSE
    /\ UNCHANGED <<pc, ctxOf, waitsOn, lastCall, adopted, hasReceived, configs, seen,
                   notified, turn>>
=============================================================================
