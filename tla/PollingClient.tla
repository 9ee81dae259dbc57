--------------------------- MODULE PollingClient ----------------------------
(***************************************************************************)
(* DefaultConfigDirectorClient over PollingTransport.  A connect waits for *)
(* the client session, fetches once, and whatever came of that fetch       *)
(* (unless it was fatal) schedules an interval that repeats it with the    *)
(* same context.  A close clears the interval and outdates the connects    *)
(* still waiting for the session; a fetch already sent is not aborted.     *)
(***************************************************************************)
EXTENDS ClientCore, Integers

CONSTANTS
    MaxPolls,  \* bound: ticks of the interval in a behaviour
    MaxCuts    \* bound: pauseNetwork and dispose calls in a behaviour

ASSUME BoundsAssumption == MaxPolls \in Nat /\ MaxCuts \in Nat

\* Requests are numbered in the order they are sent.
Fetches == 1 .. MaxCalls + MaxPolls

VARIABLES
    session,     \* the clientSession promise is resolved
    generation,  \* connectionGeneration
    genOf,       \* the generation each connect took
    fatalError,  \* an unrecoverable failure happened
    interval,    \* the call whose fetch pollingInterval repeats
    sent,        \* requests sent so far
    fetchOf,     \* the call each request belongs to
    fetch,       \* how far each request has got
    cutAt,       \* history: the last call made before the last pause or dispose
    cuts, polls  \* counters the bounds apply to

transportVars == <<session, generation, genOf, fatalError, interval, sent, fetchOf, fetch>>
boundVars == <<cutAt, cuts, polls>>
vars == <<coreVars, transportVars, boundVars>>

\* "reading": the headers said 200 and the timeout is cleared; "refusing": the status
\* was fatal and the error body is being read.
FetchStates == {"unsent", "sent", "reading", "refusing", "ok", "failed"}

TypeOK ==
    /\ CoreTypeOK
    /\ session \in BOOLEAN /\ fatalError \in BOOLEAN
    /\ generation \in Nat /\ genOf \in [Calls -> Nat]
    /\ interval \in CallsOrNone /\ cutAt \in CallsOrNone
    /\ sent \in 0 .. MaxCalls + MaxPolls
    /\ fetchOf \in [Fetches -> CallsOrNone]
    /\ fetch \in [Fetches -> FetchStates]
    /\ cuts \in 0 .. MaxCuts /\ polls \in 0 .. MaxPolls

Init ==
    /\ CoreInit
    /\ session = FALSE /\ fatalError = FALSE
    /\ generation = 0 /\ genOf = [i \in Calls |-> 0]
    /\ interval = 0
    /\ sent = 0
    /\ fetchOf = [f \in Fetches |-> 0]
    /\ fetch = [f \in Fetches |-> "unsent"]
    /\ cutAt = 0 /\ cuts = 0 /\ polls = 0

\* The fetch a connect waits for; the polls of the interval come after it settled.
IsFirst(f) == fetchOf[f] # 0 /\ pc[fetchOf[f]] = "connecting"

\* A connect whose fetch has settled is about to run its finally.
FinishDue(f) == fetch[f] \in {"ok", "failed"} /\ IsFirst(f)
TaskMayRun == Quiet(session) /\ \A f \in Fetches : ~FinishDue(f)

----------------------------------------------------------------------------
(* Calls of the application.                                               *)

\* endCurrentConnection, and in connect the generation the call remembers.
EndCurrentConnection ==
    /\ generation' = generation + 1
    /\ interval' = 0
    /\ UNCHANGED <<session, fatalError, sent, fetchOf, fetch>>

TakeGeneration ==
    /\ EndCurrentConnection
    /\ genOf' = [genOf EXCEPT ![lastCall + 1] = generation + 1]
    /\ UNCHANGED boundVars

Initialize == \E c \in Contexts \cup {NoContext} : SubmitInitialization(c) /\ TakeGeneration
UpdateContext == \E c \in Contexts \cup {NoContext} : SubmitContextUpdate(c) /\ TakeGeneration
Resume == ResumeNetwork /\ TakeGeneration

CloseTransport ==
    /\ EndCurrentConnection
    /\ cuts < MaxCuts
    /\ cuts' = cuts + 1
    /\ cutAt' = lastCall
    /\ UNCHANGED <<genOf, polls>>

Pause == PauseNetwork /\ CloseTransport
Dispose == DisposeClient /\ CloseTransport

----------------------------------------------------------------------------
(* Promise reactions.                                                      *)

SessionResolves ==
    /\ StackEmpty
    /\ ~session /\ session' = TRUE
    /\ UNCHANGED <<coreVars, boundVars>>
    /\ UNCHANGED <<generation, genOf, fatalError, interval, sent, fetchOf, fetch>>

FirstOnSession(i) ==
    /\ StackEmpty /\ session
    /\ pc[i] = "session"
    /\ \A j \in Calls : j < i => pc[j] # "session"

AbandonConnect(i) ==
    /\ FirstOnSession(i)
    /\ genOf[i] # generation
    /\ pc' = [pc EXCEPT ![i] = "superseded"]
    /\ UNCHANGED <<ctxOf, promise, waitsOn, lastCall, flagVars, valueVars, turn>>
    /\ UNCHANGED <<transportVars, boundVars>>

Send(i) ==
    /\ sent' = sent + 1
    /\ fetchOf' = [fetchOf EXCEPT ![sent + 1] = i]
    /\ fetch' = [fetch EXCEPT ![sent + 1] = "sent"]
    /\ UNCHANGED <<session, generation, genOf, fatalError, interval, cutAt, cuts>>

\* The first fetch.  After a fatal error nothing is sent and connect resolves.
FirstFetch(i) ==
    /\ FirstOnSession(i)
    /\ genOf[i] = generation
    /\ \/ /\ ~fatalError
          /\ Send(i)
          /\ pc' = [pc EXCEPT ![i] = "connecting"]
          /\ UNCHANGED polls
       \/ /\ fatalError
          /\ pc' = [pc EXCEPT ![i] = "attached"]
          /\ UNCHANGED <<transportVars, boundVars>>
    /\ UNCHANGED <<ctxOf, promise, waitsOn, lastCall, flagVars, valueVars, turn>>

FinishConnectAlwaysPolling(f) ==
    LET i == fetchOf[f] IN
    /\ StackEmpty
    /\ FinishDue(f)
    /\ interval' = i
    /\ pc' = [pc EXCEPT ![i] = IF fetch[f] = "ok" THEN "attached" ELSE "rejected"]
    /\ UNCHANGED <<ctxOf, promise, waitsOn, lastCall, flagVars, valueVars, turn>>
    /\ UNCHANGED <<session, generation, genOf, fatalError, sent, fetchOf, fetch, boundVars>>

FinishConnectPollingIfOk(f) ==
    LET i == fetchOf[f] IN
    /\ StackEmpty
    /\ FinishDue(f)
    /\ interval' = IF fetch[f] = "ok" /\ ~fatalError THEN i ELSE interval
    /\ pc' = [pc EXCEPT ![i] = IF fetch[f] = "ok" THEN "attached" ELSE "rejected"]
    /\ UNCHANGED <<ctxOf, promise, waitsOn, lastCall, flagVars, valueVars, turn>>
    /\ UNCHANGED <<session, generation, genOf, fatalError, sent, fetchOf, fetch, boundVars>>

\* connect's finally: schedule the polls unless an error was fatal, and settle.
FinishConnect(f) ==
    LET i == fetchOf[f] IN
    /\ StackEmpty
    /\ FinishDue(f)
    /\ interval' = IF fatalError THEN interval ELSE i
    /\ pc' = [pc EXCEPT ![i] = IF fetch[f] = "ok" THEN "attached" ELSE "rejected"]
    /\ UNCHANGED <<ctxOf, promise, waitsOn, lastCall, flagVars, valueVars, turn>>
    /\ UNCHANGED <<session, generation, genOf, fatalError, sent, fetchOf, fetch, boundVars>>

Reaction(i) ==
    \/ (SettleReadyPromise(i) \/ AwaitReadiness(i) \/ ReadinessReached(i)
           \/ AdoptContext(i) \/ ReturnAfterError(i))
       /\ UNCHANGED <<transportVars, boundVars>>
    \/ AbandonConnect(i) \/ FirstFetch(i)
    \/ \E f \in Fetches : fetchOf[f] = i /\ FinishConnect(f)

----------------------------------------------------------------------------
(* Tasks: timers and the network.                                          *)

ReadinessTimeout ==
    TaskMayRun /\ ClientTimerFires(session) /\ UNCHANGED <<transportVars, boundVars>>

Poll ==
    /\ TaskMayRun
    /\ interval # 0
    /\ polls < MaxPolls
    /\ polls' = polls + 1
    /\ Send(interval)
    /\ UNCHANGED coreVars

Reach(f, state) ==
    /\ fetch' = [fetch EXCEPT ![f] = state]
    /\ UNCHANGED <<session, genOf, sent, fetchOf, boundVars>>

\* The headers arrive: a 200, whose body follows, or another success, which has none.
ResponseOk(f) ==
    /\ TaskMayRun
    /\ fetch[f] = "sent"
    /\ \E state \in {"reading", "ok"} : Reach(f, state)
    /\ UNCHANGED <<coreVars, generation, fatalError, interval>>

\* A fatal status closes the transport before its error body is read.  (A fetch the
\* platform does not allow fails the same way, with no body to wait for.)
ResponseFatal(f) ==
    /\ TaskMayRun
    /\ fetch[f] = "sent"
    /\ Reach(f, "refusing")
    /\ fatalError' = TRUE
    /\ generation' = generation + 1 /\ interval' = 0
    /\ UNCHANGED coreVars

\* The body of a 200: whichever call it was fetched for, its configs are taken over.
BodyRead(f) ==
    /\ TaskMayRun
    /\ fetch[f] = "reading"
    /\ Reach(f, "ok")
    /\ \E kind \in {"full", "delta"}, received \in SUBSET Keys :
           ConfigSetReceived(kind, received, fetchOf[f])
    /\ UNCHANGED <<generation, fatalError, interval>>

\* Any other status, a broken connection, the timeout's abort, an unreadable body: the
\* fetch is rejected, with a connectionError if some fetch has failed fatally by now.
FetchFails(f) ==
    /\ TaskMayRun
    /\ fetch[f] \in {"sent", "reading", "refusing"}
    /\ Reach(f, "failed")
    /\ \/ fatalError /\ ConnectionErrorReceived /\ turn' = [at |-> "fatal", call |-> fetchOf[f]]
       \/ ~fatalError /\ UNCHANGED coreVars
    /\ UNCHANGED <<generation, fatalError, interval>>

TellWatchers == UpdateWatchers /\ UNCHANGED <<transportVars, boundVars>>

EndOfEmit ==
    /\ turn.at \in {"chunk", "fatal"}
    /\ turn' = EmptyStack
    /\ UNCHANGED <<callVars, flagVars, valueVars, transportVars, boundVars>>

----------------------------------------------------------------------------
Application ==
    /\ ApplicationRuns
    /\ ~StackEmpty \/ \A f \in Fetches : ~FinishDue(f)
    /\ Initialize \/ UpdateContext \/ Resume \/ Pause \/ Dispose
Network(f) == ResponseOk(f) \/ ResponseFatal(f) \/ BodyRead(f) \/ FetchFails(f)
Runtime == SessionResolves \/ ReadinessTimeout \/ Poll \/ TellWatchers \/ EndOfEmit

Next ==
    \/ Application
    \/ Runtime
    \/ \E i \in Calls : Reaction(i)
    \/ \E f \in Fetches : Network(f)

Spec == Init /\ [][Next]_vars

(***************************************************************************)
(* Reactions run, armed timers fire, handlers return.  A request ends: its *)
(* timeout aborts it until the headers arrive, and once they have, the     *)
(* server is assumed to finish or to break off the body it began.          *)
(***************************************************************************)
Fairness ==
    /\ WF_vars(SessionResolves) /\ WF_vars(ReadinessTimeout)
    /\ WF_vars(TellWatchers) /\ WF_vars(EndOfEmit)
    /\ \A i \in Calls : WF_vars(Reaction(i))
    /\ \A f \in Fetches : WF_vars(Network(f))

FairSpec == Spec /\ Fairness

----------------------------------------------------------------------------
(* Properties.                                                             *)

\* Once an unrecoverable failure happened nothing is polled any more: not by the connects
\* whose fetches were in flight, whatever their outcome.
FatalErrorStopsPolling == fatalError => interval = 0

\* A transient failure of the first fetch does not leave the client without a connection:
\* the latest call, once returned and not cut off since, is polled for (or, after an
\* older request answered last, that request's call is).
KeepsPolling ==
    Quiet(session) /\ lastCall > cutAt /\ pc[lastCall] = "returned" /\ ~fatalError
        => interval # 0

\* Polling goes on unless it failed for good, whatever the order in which overlapping
\* requests are answered.  (PollingTransport.connect, handleFetch)
PollsUnlessFatal == FatalErrorStopsPolling /\ KeepsPolling

\* The latest call returns unless pauseNetwork or dispose cuts it off or a newer call
\* takes over, provided no older call's first fetch is still in flight: the older call,
\* finishing late, would clear the timer the latest one relies on.
Undisturbed(i) == lastCall = i /\ i > cutAt
LatestCallReturns ==
    \A i \in Calls :
        (pc[i] = "session" /\ Undisturbed(i) /\ \A j \in Calls : pc[j] # "connecting")
            ~> (pc[i] = "returned" \/ ~Undisturbed(i))

\* types.ts: dispose closes all connections, and pauseNetwork pauses the network
\* connection, so between either and the next connecting call nothing is polled.
NoPollingWhileCut == cuts > 0 /\ cutAt = lastCall => interval = 0
=============================================================================
