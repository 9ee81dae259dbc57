-------------------------- MODULE StreamingClient ---------------------------
(***************************************************************************)
(* DefaultConfigDirectorClient over StreamingTransport.  Each connect      *)
(* waits for the client session, gives up when a newer connect or a close  *)
(* moved connectionGeneration on, and otherwise replaces the EventSource   *)
(* by its own.  An EventSource is modelled by the states EventSource       *)
(* promises its owner (module EventSource): a retry leaves it connecting.  *)
(***************************************************************************)
EXTENDS ClientCore, Integers

CONSTANTS
    MaxMessages,  \* bound: config sets received in a behaviour
    MaxCuts       \* bound: pauseNetwork and dispose calls in a behaviour

ASSUME BoundsAssumption == MaxMessages \in Nat /\ MaxCuts \in Nat

VARIABLES
    session,      \* the clientSession promise is resolved
    generation,   \* connectionGeneration
    genOf,        \* the generation each connect took
    source,       \* the call that created this.eventSource
    stream,       \* state of the EventSource each call created
    streamTimer,  \* the call whose timeoutTimer is armed in the transport
    cutAt,        \* history: the last call made before the last pause or dispose
    cuts, messages  \* counters the bounds apply to

transportVars == <<session, generation, genOf, source, stream, streamTimer>>
boundVars == <<cutAt, cuts, messages>>
vars == <<coreVars, transportVars, boundVars>>

StreamStates == {"none", "connecting", "open", "ended", "closed"}
Live(i) == stream[i] \in {"connecting", "open"}

TypeOK ==
    /\ CoreTypeOK
    /\ session \in BOOLEAN
    /\ generation \in Nat
    /\ genOf \in [Calls -> Nat]
    /\ source \in CallsOrNone
    /\ stream \in [Calls -> StreamStates]
    /\ streamTimer \in CallsOrNone
    /\ cutAt \in CallsOrNone
    /\ cuts \in 0 .. MaxCuts
    /\ messages \in 0 .. MaxMessages

Init ==
    /\ CoreInit
    /\ session = FALSE
    /\ generation = 0
    /\ genOf = [i \in Calls |-> 0]
    /\ source = 0
    /\ stream = [i \in Calls |-> "none"]
    /\ streamTimer = 0
    /\ cutAt = 0 /\ cuts = 0 /\ messages = 0

----------------------------------------------------------------------------
(* Calls of the application.  A listener may make them in mid-turn.        *)

\* StreamingTransport.connect up to `await clientSession`.
TakeGeneration ==
    /\ generation' = generation + 1
    /\ genOf' = [genOf EXCEPT ![lastCall + 1] = generation + 1]
    /\ UNCHANGED <<session, source, stream, streamTimer, boundVars>>

Initialize == \E c \in Contexts \cup {NoContext} : SubmitInitialization(c) /\ TakeGeneration
UpdateContext == \E c \in Contexts \cup {NoContext} : SubmitContextUpdate(c) /\ TakeGeneration
Resume == ResumeNetwork /\ TakeGeneration

NothingClosed == stream

\* The EventSources once this.eventSource is closed.
Closed == IF source = 0 THEN stream ELSE [stream EXCEPT ![source] = "closed"]

CloseTransportSameGeneration ==
    /\ stream' = Closed
    /\ streamTimer' = 0
    /\ UNCHANGED <<generation, session, genOf, source>>

\* StreamingTransport.close.
CloseTransport ==
    /\ generation' = generation + 1
    /\ stream' = Closed
    /\ streamTimer' = 0
    /\ UNCHANGED <<session, genOf, source>>

Cut ==
    /\ cuts < MaxCuts
    /\ cuts' = cuts + 1
    /\ cutAt' = lastCall
    /\ UNCHANGED messages

Pause == PauseNetwork /\ CloseTransport /\ Cut
Dispose == DisposeClient /\ CloseTransport /\ Cut

----------------------------------------------------------------------------
(* Promise reactions.                                                      *)

SessionResolves ==
    /\ StackEmpty
    /\ ~session /\ session' = TRUE
    /\ UNCHANGED <<coreVars, generation, genOf, source, stream, streamTimer, boundVars>>

\* Reactions on one promise run in the order they were attached.
FirstOnSession(i) ==
    /\ StackEmpty /\ session
    /\ pc[i] = "session"
    /\ \A j \in Calls : j < i => pc[j] # "session"

\* connect() after the await, superseded: it returns without connecting.
AbandonConnect(i) ==
    /\ FirstOnSession(i)
    /\ genOf[i] # generation
    /\ pc' = [pc EXCEPT ![i] = "superseded"]
    /\ UNCHANGED <<ctxOf, promise, waitsOn, lastCall, flagVars, valueVars, turn>>
    /\ UNCHANGED <<transportVars, boundVars>>

\* connect() after the await: close the previous EventSource (which moves the
\* generation on once more), create and connect a new one, arm the timeout.
OpenStream(i) ==
    /\ FirstOnSession(i)
    /\ genOf[i] = generation
    /\ generation' = IF source = 0 THEN generation ELSE generation + 1
    /\ stream' = [Closed EXCEPT ![i] = "connecting"]
    /\ source' = i
    /\ streamTimer' = i
    /\ pc' = [pc EXCEPT ![i] = "connecting"]
    /\ UNCHANGED <<ctxOf, promise, waitsOn, lastCall, flagVars, valueVars, turn>>
    /\ UNCHANGED <<session, genOf, boundVars>>

\* The transport promise settled: its finally clears whatever timer is armed.
\* A superseded connect returned before it had a race to finish.
TransportSettled(i) ==
    /\ AdoptContext(i)
    /\ streamTimer' = IF pc[i] = "superseded" THEN streamTimer ELSE 0
    /\ UNCHANGED <<session, generation, genOf, source, stream, boundVars>>

TransportRejected(i) ==
    /\ ReturnAfterError(i)
    /\ streamTimer' = 0
    /\ UNCHANGED <<session, generation, genOf, source, stream, boundVars>>

Reaction(i) ==
    \/ (SettleReadyPromise(i) \/ AwaitReadiness(i) \/ ReadinessReached(i))
       /\ UNCHANGED <<transportVars, boundVars>>
    \/ AbandonConnect(i) \/ OpenStream(i) \/ TransportSettled(i) \/ TransportRejected(i)

----------------------------------------------------------------------------
(* Tasks: timers and the network.                                          *)

ReadinessTimeout == ClientTimerFires(session) /\ UNCHANGED <<transportVars, boundVars>>

\* The transport's timer resolves its race, if the race is still on.
StreamTimeout ==
    /\ Quiet(session)
    /\ streamTimer # 0
    /\ streamTimer' = 0
    /\ pc' = [pc EXCEPT ![streamTimer] = IF @ = "connecting" THEN "timedOut" ELSE @]
    /\ UNCHANGED <<ctxOf, promise, waitsOn, lastCall, flagVars, valueVars, turn>>
    /\ UNCHANGED <<session, generation, genOf, source, stream, boundVars>>

\* The server accepts: onConnect resolves the call's race, the first time.
StreamOpens(i) ==
    /\ Quiet(session)
    /\ stream[i] = "connecting"
    /\ stream' = [stream EXCEPT ![i] = "open"]
    /\ pc' = [pc EXCEPT ![i] = IF @ = "connecting" THEN "attached" ELSE @]
    /\ UNCHANGED <<ctxOf, promise, waitsOn, lastCall, flagVars, valueVars, turn>>
    /\ UNCHANGED <<session, generation, genOf, source, streamTimer, boundVars>>

\* The connection breaks and is retried, or the server answers 204: no retry.
StreamStops(i) ==
    /\ Quiet(session)
    /\ \/ stream[i] = "open" /\ stream' = [stream EXCEPT ![i] = "connecting"]
       \/ stream[i] = "connecting" /\ stream' = [stream EXCEPT ![i] = "ended"]
    /\ UNCHANGED <<coreVars, session, generation, genOf, source, streamTimer, boundVars>>

\* A fatal status: connectionError is emitted first ...
StreamRefused(i) ==
    /\ Quiet(session)
    /\ stream[i] = "connecting"
    /\ ConnectionErrorReceived
    /\ turn' = [at |-> "fatal", call |-> i]
    /\ UNCHANGED <<transportVars, boundVars>>

\* ... then the race is rejected and the EventSource disconnects.
RejectConnect(i) ==
    /\ turn = [at |-> "fatal", call |-> i]
    /\ turn' = EmptyStack
    /\ stream' = [stream EXCEPT ![i] = IF @ = "closed" THEN @ ELSE "ended"]
    /\ pc' = [pc EXCEPT ![i] = IF @ = "connecting" THEN "rejected" ELSE @]
    /\ UNCHANGED <<ctxOf, promise, waitsOn, lastCall, flagVars, valueVars>>
    /\ UNCHANGED <<session, generation, genOf, source, streamTimer, boundVars>>

\* A chunk of the stream carries one message or several, dispatched one after the
\* other in one turn, whatever the listeners of the first have done to the client.
DispatchMessage(i) ==
    /\ \/ Quiet(session) /\ stream[i] = "open"
       \/ turn = [at |-> "chunk", call |-> i]
    /\ messages < MaxMessages
    /\ messages' = messages + 1
    /\ \E kind \in {"full", "delta"}, received \in SUBSET Keys :
           ConfigSetReceived(kind, received, i)
    /\ UNCHANGED <<transportVars, cutAt, cuts>>

TellWatchers == UpdateWatchers /\ UNCHANGED <<transportVars, boundVars>>

EndOfChunk ==
    /\ turn.at = "chunk"
    /\ turn' = EmptyStack
    /\ UNCHANGED <<callVars, flagVars, valueVars, transportVars, boundVars>>

----------------------------------------------------------------------------
Application ==
    /\ ApplicationRuns
    /\ Initialize \/ UpdateContext \/ Resume \/ Pause \/ Dispose
Network(i) == StreamOpens(i) \/ StreamStops(i) \/ StreamRefused(i) \/ DispatchMessage(i)
Runtime == SessionResolves \/ ReadinessTimeout \/ StreamTimeout \/ TellWatchers \/ EndOfChunk

Next ==
    \/ Application
    \/ Runtime
    \/ \E i \in Calls : Reaction(i) \/ RejectConnect(i) \/ Network(i)

Spec == Init /\ [][Next]_vars

(***************************************************************************)
(* Promise reactions run, armed timers fire, handlers return, and the      *)
(* client session settles within its storage deadline.  Neither the        *)
(* network nor the application has to do anything.                         *)
(***************************************************************************)
Fairness ==
    /\ WF_vars(SessionResolves) /\ WF_vars(ReadinessTimeout)
    /\ WF_vars(StreamTimeout) /\ WF_vars(TellWatchers) /\ WF_vars(EndOfChunk)
    /\ \A i \in Calls : WF_vars(Reaction(i)) /\ WF_vars(RejectConnect(i))

FairSpec == Spec /\ Fairness

----------------------------------------------------------------------------
(* Properties.                                                             *)

\* At most one EventSource is connecting or open, the one the transport can still
\* close, and a pause or dispose leaves no connection behind it: a connect still
\* waiting for the client session at that moment gives up (connectionGeneration).
NoConnectionOutlivesItsCall ==
    \A i \in Calls : Live(i) => i = source /\ i > cutAt

\* isInitializing: once a payload has been received and handled it is false, however
\* calls, pauses and errors were interleaved with its arrival.
InitializingEndsWithPayload == hasReceived /\ Quiet(session) => ~initializing

\* A watcher that is still registered has been told of the state its config has now,
\* removals by a full set and merges of a delta included, whatever the listeners that
\* run between the merge and the watchers have done to the client.
WatchersAreCurrent == turn.at # "updated" /\ observed => seen = configs

\* A value received for an earlier call never replaces one received for a later call.
NewerValuesStay == [][\A k \in Keys : configs'[k] # 0 => configs'[k] >= configs[k]]_configs

\* client.context never goes back to the context of an earlier call.
ContextsAdoptedInOrder == [][adopted' >= adopted]_adopted

\* The latest call returns, whatever the server does, unless pauseNetwork or dispose
\* cuts it off or a newer call takes over.  The one exception: a call made from a
\* connectionError listener may lose its timeout to the finally of the rejected race.
Undisturbed(i) == lastCall = i /\ i > cutAt
LatestCallReturns ==
    \A i \in Calls :
        (/\ pc[i] = "session" /\ Undisturbed(i)
         /\ StackEmpty /\ \A j \in Calls : pc[j] # "rejected")
            ~> (pc[i] = "returned" \/ ~Undisturbed(i))

\* types.ts: the timeout bounds initialization and context updates, so the promise of
\* every call returns.
EveryCallReturns == \A i \in Calls : (pc[i] = "session") ~> (pc[i] = "returned")

\* types.ts: resumeNetwork resumes a paused connection using the last context that was
\* provided to initialize or updateContext.
ResumeKeepsLastContext ==
    [][Resume /\ observed /\ lastCall # 0 /\ cutAt = lastCall
        => ctxOf'[lastCall'] = ctxOf[lastCall]]_vars

----------------------------------------------------------------------------
(* The inductive invariants behind them (proved in StreamingClientProofs). *)

\* Calls not made yet have left no trace.
CallsInOrder ==
    /\ \A i \in Calls : i > lastCall => pc[i] = "unused"
    /\ source <= lastCall /\ cutAt <= lastCall
    /\ turn.call <= lastCall /\ clientTimer <= lastCall

\* A connect that will still open a stream is the latest call, made after every pause
\* and every stream so far; the one open stream is this.eventSource.
OneConnection ==
    /\ \A i \in Calls : genOf[i] <= generation
    /\ \A i \in Calls : pc[i] = "session" /\ genOf[i] = generation
                            => i = lastCall /\ i > cutAt /\ i > source
    /\ NoConnectionOutlivesItsCall

\* Values come from streams no later than the current one.
ValuesFromStreams ==
    /\ \A k \in Keys : configs[k] <= source
    /\ turn.at \in {"updated", "chunk"} => turn.call = source

\* Between the merge of a payload and the calls of the watchers, those that are behind
\* are about to be told; before the first payload there is nothing to remove.
WatchersFollow ==
    /\ observed => \A k \in Keys : seen[k] = configs[k] \/ (turn.at = "updated" /\ k \in notified)
    /\ ~hasReceived => \A k \in Keys : configs[k] = 0

\* Once initializing, either the latest readyPromise awaits the payload, or a resolved
\* one is about to end it.
InitializingIsOwed ==
    initializing => IF hasReceived
                    THEN \E i \in Calls : i <= lastCall /\ promise[i] = "resolved"
                    ELSE lastCall # 0 /\ promise[lastCall] = "pending"
=============================================================================
