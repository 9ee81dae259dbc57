---------------------------- MODULE ServerClient ----------------------------
(***************************************************************************)
(* The server's DefaultConfigDirectorClient over its three transports.     *)
(* Unlike the client SDK's transports these await no session and count no  *)
(* generations: a connect opens its event source, or sends its first       *)
(* fetch, in the turn of initialize.  Streaming adds a heartbeat interval; *)
(* offline delivers one full bundle, or rejects initialize.                *)
(***************************************************************************)
EXTENDS ServerCore, ConnectionPlans

CONSTANTS
    MaxPolls,  \* bound: ticks of the polling interval in a behaviour
    MaxCuts    \* bound: calls of closeConnection and dispose in a behaviour

ASSUME TransportBoundsAssumption == MaxPolls \in Nat /\ MaxCuts \in Nat

\* Requests of the polling transport are numbered in the order they are sent.
Fetches == 1 .. MaxCalls + MaxPolls

VARIABLES
    mode,        \* the transport built: the mode of a live one, else whence its values are
    source,      \* streaming: the call that created this.eventSource
    stream,      \* streaming: state of the event source each call created
    heartbeats,  \* streaming: calls whose heartbeat interval is running
    heartbeatTimer, \* streaming: the call whose interval this.heartbeatTimer is
    fatalError,  \* polling: an unrecoverable failure happened
    interval,    \* polling: the polling interval is running
    sent,        \* polling: requests sent so far
    fetchOf,     \* polling: the call whose connect sent a request (0: a poll)
    fetch,       \* polling: how far each request has got
    cutAt,       \* history: the last call made before the last close or dispose
    disposal,    \* history: the same of dispose, and whether in a listener
    cuts, polls  \* counters the bounds apply to

streamVars == <<source, stream, heartbeats, heartbeatTimer>>
pollVars == <<fatalError, interval, sent, fetchOf, fetch>>
boundVars == <<cutAt, disposal, cuts, polls>>
vars == <<coreVars, mode, streamVars, pollVars, boundVars>>

Modes == {"streaming", "polling"} \cup OfflineSources
StreamStates == {"none", "connecting", "open", "ended", "closed"}
FetchStates == {"unsent", "sent", "reading", "refusing", "ok", "failed", "done"}
Live(i) == stream[i] \in {"connecting", "open"}

TypeOK ==
    /\ CoreTypeOK
    /\ mode \in Modes
    /\ source \in CallsOrNone /\ heartbeatTimer \in CallsOrNone /\ cutAt \in CallsOrNone
    /\ stream \in [Calls -> StreamStates]
    /\ heartbeats \subseteq Calls
    /\ fatalError \in BOOLEAN /\ interval \in BOOLEAN
    /\ sent \in 0 .. lastCall + polls
    /\ fetchOf \in [Fetches -> CallsOrNone]
    /\ fetch \in [Fetches -> FetchStates]
    /\ disposal \in [at : CallsOrNone, inListener : BOOLEAN]
    /\ cuts \in 0 .. MaxCuts /\ polls \in 0 .. MaxPolls

Init ==
    /\ CoreInit
    /\ \E options \in ServerOptions({}) :
           ServerPlan(options) # Throws /\ mode = TransportOf(ServerPlan(options))
    /\ source = 0 /\ stream = [i \in Calls |-> "none"]
    /\ heartbeats = {} /\ heartbeatTimer = 0
    /\ fatalError = FALSE /\ interval = FALSE
    /\ sent = 0
    /\ fetchOf = [f \in Fetches |-> 0]
    /\ fetch = [f \in Fetches |-> "unsent"]
    /\ cutAt = 0 /\ disposal = [at |-> 0, inListener |-> FALSE]
    /\ cuts = 0 /\ polls = 0

\* The fetch a connect waits for has settled: its finally is due.
FinishDue(f) == fetch[f] \in {"ok", "failed"}
TaskMayRun == Quiet /\ \A f \in Fetches : ~FinishDue(f)

----------------------------------------------------------------------------
(* Calls of the application; a listener or a watcher may make them, too.   *)

\* The event sources once this.eventSource is closed.
Closed == IF source = 0 THEN stream ELSE [stream EXCEPT ![source] = "closed"]

\* StreamingTransport.connect up to its race: close the previous event source and its
\* heartbeat, then connect a new one and start the heartbeat.
InitializeStreaming ==
    LET i == lastCall + 1 IN
    /\ mode = "streaming"
    /\ StartInitialize("connecting")
    /\ stream' = [Closed EXCEPT ![i] = "connecting"]
    /\ source' = i
    /\ heartbeats' = (heartbeats \ {heartbeatTimer}) \cup {i}
    /\ heartbeatTimer' = i
    /\ UNCHANGED <<mode, pollVars, boundVars>>

Send(i) ==
    /\ sent' = sent + 1
    /\ fetchOf' = [fetchOf EXCEPT ![sent + 1] = i]
    /\ fetch' = [fetch EXCEPT ![sent + 1] = "sent"]

\* PollingTransport.connect: the first fetch; after a fatal error connect resolves.
InitializePolling ==
    /\ mode = "polling"
    /\ interval' = FALSE
    /\ \/ ~fatalError /\ StartInitialize("connecting") /\ Send(lastCall + 1)
       \/ fatalError /\ StartInitialize("attached") /\ UNCHANGED <<sent, fetchOf, fetch>>
    /\ UNCHANGED <<mode, streamVars, fatalError, boundVars>>

InitializeOffline ==
    /\ mode \in OfflineSources
    /\ StartInitialize("connecting")
    /\ UNCHANGED <<mode, streamVars, pollVars, boundVars>>

Initialize == InitializeStreaming \/ InitializePolling \/ InitializeOffline

\* close of either live transport; the offline one has nothing to stop.
CloseTransport ==
    /\ heartbeats' = heartbeats \ {heartbeatTimer} /\ heartbeatTimer' = 0
    /\ stream' = Closed
    /\ interval' = FALSE
    /\ UNCHANGED <<mode, source, fatalError, sent, fetchOf, fetch>>

Cut ==
    /\ cuts < MaxCuts
    /\ cuts' = cuts + 1
    /\ cutAt' = lastCall
    /\ UNCHANGED polls

CloseConnection == CloseClient /\ CloseTransport /\ Cut /\ UNCHANGED disposal

Dispose ==
    /\ DisposeClient /\ CloseTransport /\ Cut
    /\ disposal' = [at |-> lastCall, inListener |-> ~StackEmpty]

----------------------------------------------------------------------------
(* Streaming: the timeout of connect and the callbacks of the event source. *)

StreamTimeout(i) ==
    /\ TaskMayRun
    /\ mode = "streaming" /\ pc[i] = "connecting"
    /\ pc' = [pc EXCEPT ![i] = "timedOut"]
    /\ UNCHANGED <<raceVars, viewVars, turn>>
    /\ UNCHANGED <<mode, streamVars, pollVars, boundVars>>

StreamOpens(i) ==
    /\ TaskMayRun
    /\ stream[i] = "connecting"
    /\ stream' = [stream EXCEPT ![i] = "open"]
    /\ pc' = [pc EXCEPT ![i] = IF @ = "connecting" THEN "attached" ELSE @]
    /\ UNCHANGED <<raceVars, viewVars, turn>>
    /\ UNCHANGED <<mode, source, heartbeats, heartbeatTimer, pollVars, boundVars>>

\* The connection breaks and is retried, or the server answers 204: no retry.
StreamStops(i) ==
    /\ TaskMayRun
    /\ \/ stream[i] = "open" /\ stream' = [stream EXCEPT ![i] = "connecting"]
       \/ stream[i] = "connecting" /\ stream' = [stream EXCEPT ![i] = "ended"]
    /\ UNCHANGED <<coreVars, mode, source, heartbeats, heartbeatTimer, pollVars, boundVars>>

\* A fatal status: stop the heartbeat and emit connectionError ...
StreamRefused(i) ==
    /\ TaskMayRun
    /\ stream[i] = "connecting"
    /\ heartbeats' = heartbeats \ {heartbeatTimer} /\ heartbeatTimer' = 0
    /\ turn' = [at |-> "fatal", call |-> i, keys |-> {}]
    /\ UNCHANGED <<callVars, viewVars, mode, source, stream, pollVars, boundVars>>

RejectConnectThenStop(i) ==
    /\ turn.at = "fatal" /\ turn.call = i
    /\ turn' = EmptyStack
    /\ stream' = [stream EXCEPT ![i] = IF @ = "closed" THEN @ ELSE "ended"]
    /\ heartbeats' = heartbeats \ {heartbeatTimer} /\ heartbeatTimer' = 0
    /\ pc' = [pc EXCEPT ![i] = IF @ = "connecting" THEN "rejected" ELSE @]
    /\ UNCHANGED <<raceVars, viewVars>>
    /\ UNCHANGED <<mode, source, pollVars, boundVars>>

\* ... then reject connect's promise; the event source does not retry.
RejectConnect(i) ==
    /\ turn.at = "fatal" /\ turn.call = i
    /\ turn' = EmptyStack
    /\ stream' = [stream EXCEPT ![i] = IF @ = "closed" THEN @ ELSE "ended"]
    /\ pc' = [pc EXCEPT ![i] = IF @ = "connecting" THEN "rejected" ELSE @]
    /\ UNCHANGED <<raceVars, viewVars>>
    /\ UNCHANGED <<mode, source, heartbeats, heartbeatTimer, pollVars, boundVars>>

\* A chunk carries one message or several, dispatched one after the other in one turn.
DispatchMessage(i) ==
    /\ \/ TaskMayRun /\ stream[i] = "open"
       \/ mode = "streaming" /\ turn.at = "watchers" /\ turn.call = i
    /\ \E b \in Bundles : BundleReceived(b, i)
    /\ UNCHANGED <<pc, mode, streamVars, pollVars, boundVars>>

----------------------------------------------------------------------------
(* Polling.                                                                *)

FinishConnectAlwaysPolling(f) ==
    /\ StackEmpty
    /\ FinishDue(f)
    /\ interval' = TRUE
    /\ fetch' = [fetch EXCEPT ![f] = "done"]
    /\ pc' = [pc EXCEPT ![fetchOf[f]] = IF fetch[f] = "ok" THEN "attached" ELSE "rejected"]
    /\ UNCHANGED <<raceVars, viewVars, turn>>
    /\ UNCHANGED <<mode, streamVars, fatalError, sent, fetchOf, boundVars>>

\* connect's finally: schedule the polls unless an error was fatal, and settle.
FinishConnect(f) ==
    /\ StackEmpty
    /\ FinishDue(f)
    /\ interval' = (interval \/ ~fatalError)
    /\ fetch' = [fetch EXCEPT ![f] = "done"]
    /\ pc' = [pc EXCEPT ![fetchOf[f]] = IF fetch[f] = "ok" THEN "attached" ELSE "rejected"]
    /\ UNCHANGED <<raceVars, viewVars, turn>>
    /\ UNCHANGED <<mode, streamVars, fatalError, sent, fetchOf, boundVars>>

Poll ==
    /\ TaskMayRun
    /\ interval
    /\ polls < MaxPolls
    /\ polls' = polls + 1
    /\ Send(0)
    /\ UNCHANGED <<coreVars, mode, streamVars, fatalError, interval, cutAt, disposal, cuts>>

\* Nobody waits for the outcome of a poll.
Reach(f, state) ==
    /\ fetch' = [fetch EXCEPT ![f] =
                    IF state \in {"ok", "failed"} /\ fetchOf[f] = 0 THEN "done" ELSE state]
    /\ UNCHANGED <<mode, streamVars, sent, fetchOf, boundVars>>

\* The headers arrive: a 200, whose body follows, or another success, without one.
ResponseOk(f) ==
    /\ TaskMayRun
    /\ fetch[f] = "sent"
    /\ \E state \in {"reading", "ok"} : Reach(f, state)
    /\ UNCHANGED <<coreVars, fatalError, interval>>

\* A fatal status closes the transport before its error body is read.
ResponseFatal(f) ==
    /\ TaskMayRun
    /\ fetch[f] = "sent"
    /\ Reach(f, "refusing")
    /\ fatalError' = TRUE /\ interval' = FALSE
    /\ UNCHANGED coreVars

BodyRead(f) ==
    /\ TaskMayRun
    /\ fetch[f] = "reading"
    /\ Reach(f, "ok")
    /\ \E b \in Bundles : BundleReceived(b, fetchOf[f])
    /\ UNCHANGED <<pc, fatalError, interval>>

\* Another status, a broken connection, the timeout's abort, an unreadable body: the
\* fetch is rejected, with a connectionError if some fetch has failed fatally by now.
FetchFails(f) ==
    /\ TaskMayRun
    /\ fetch[f] \in {"sent", "reading", "refusing"}
    /\ Reach(f, "failed")
    /\ turn' = IF fatalError THEN [at |-> "fatal", call |-> 0, keys |-> {}] ELSE turn
    /\ UNCHANGED <<callVars, viewVars, fatalError, interval>>

EndOfFatalEmit ==
    /\ mode = "polling" /\ turn.at = "fatal"
    /\ turn' = EmptyStack
    /\ UNCHANGED <<callVars, viewVars, mode, streamVars, pollVars, boundVars>>

----------------------------------------------------------------------------
(* Offline: the values were read, or could not be; the options may already *)
(* have been rejected when the connection was planned.                     *)

OfflineLoaded(i) ==
    /\ TaskMayRun
    /\ mode \in OfflineSources \ {"rejected"} /\ pc[i] = "connecting"
    /\ \E carried \in IF mode = "in-code-defaults" THEN {{}} ELSE SUBSET Keys :
           BundleReceived([kind |-> "full", uses |-> [k \in carried |-> {}], segments |-> {}], i)
    /\ pc' = [pc EXCEPT ![i] = "attached"]
    /\ UNCHANGED <<mode, streamVars, pollVars, boundVars>>

OfflineRejected(i) ==
    /\ TaskMayRun
    /\ mode \in OfflineSources \ {"in-code-defaults"} /\ pc[i] = "connecting"
    /\ pc' = [pc EXCEPT ![i] = "thrown"]
    /\ UNCHANGED <<raceVars, viewVars, turn>>
    /\ UNCHANGED <<mode, streamVars, pollVars, boundVars>>

----------------------------------------------------------------------------
CoreStep(i) ==
    /\ \/ AwaitReadiness(i) \/ ReturnAfterError(i) \/ RaceWon(i) \/ SettleReadyPromise(i)
       \/ TaskMayRun /\ ReadyTimerFires(i)
    /\ UNCHANGED <<mode, streamVars, pollVars, boundVars>>

HandlerStep ==
    /\ UpdateWatchers \/ EndOfHandler
    /\ UNCHANGED <<mode, streamVars, pollVars, boundVars>>

\* In a task of its own, in a listener or watcher, or behind an await of initialize.
Application ==
    /\ \/ ~StackEmpty
       \/ /\ \A i \in Calls : pc[i] \notin Settled /\ promise[i] # "resolved"
          /\ \A f \in Fetches : ~FinishDue(f)
    /\ Initialize \/ CloseConnection \/ Dispose

Network(i) == StreamOpens(i) \/ StreamStops(i) \/ StreamRefused(i) \/ DispatchMessage(i)
Request(f) == ResponseOk(f) \/ ResponseFatal(f) \/ BodyRead(f) \/ FetchFails(f)

\* The headers arrive, or fetchWithTimeout's timer aborts the request before they do.
Answered(f) == fetch[f] = "sent" /\ (ResponseOk(f) \/ ResponseFatal(f) \/ FetchFails(f))
Offline(i) == OfflineLoaded(i) \/ OfflineRejected(i)

Next ==
    \/ Application \/ HandlerStep \/ EndOfFatalEmit \/ Poll
    \/ \E i \in Calls :
           CoreStep(i) \/ StreamTimeout(i) \/ RejectConnect(i) \/ Network(i) \/ Offline(i)
    \/ \E f \in Fetches : FinishConnect(f) \/ Request(f)

Spec == Init /\ [][Next]_vars

(***************************************************************************)
(* Reactions run, armed timers fire, handlers return and the values file   *)
(* is read.  A polling request is answered or aborted, but a body that was *)
(* begun need not end: fetchWithTimeout clears its timer with the headers. *)
(* Neither a stream nor the application has to do anything.                *)
(***************************************************************************)
Fairness ==
    /\ WF_vars(HandlerStep) /\ WF_vars(EndOfFatalEmit)
    /\ \A i \in Calls : /\ WF_vars(CoreStep(i)) /\ WF_vars(StreamTimeout(i))
                        /\ WF_vars(RejectConnect(i)) /\ WF_vars(Offline(i))
    /\ \A f \in Fetches : WF_vars(FinishConnect(f)) /\ WF_vars(Answered(f))

FairSpec == Spec /\ Fairness

----------------------------------------------------------------------------
(* Properties.                                                             *)

\* A watcher that is still registered was last called with what its config evaluates to
\* now, also when only a segment its rules use, or its removal, changed that.
WatchersAreCurrent ==
    turn.at # "updated" /\ observed
        => \A k \in Keys : seen[k] = Evaluation(configs[k], segments)

\* Only this.eventSource is live, never after a close or dispose, and while it is, its
\* own heartbeat is the one running; no other heartbeat is left behind, also when a
\* connectionError listener initializes anew.
OneConnectionOneHeartbeat ==
    /\ \A i \in Calls : Live(i) => i = source /\ i > cutAt
    /\ heartbeats \subseteq {source}
    /\ turn.at # "fatal" /\ source # 0 /\ Live(source) => heartbeats = {source}

\* A transient failure of the first fetch leaves polling on, a fatal one stops it for
\* good, whatever the outcome of the requests in flight with it.
PollsUnlessFatal ==
    /\ fatalError => ~interval
    /\ mode = "polling" /\ TaskMayRun /\ lastCall > cutAt /\ pc[lastCall] = "returned"
       /\ ~fatalError => interval

\* dispose ends a pending initialize without marking the client ready, and nothing that
\* arrives later makes it ready.  (A dispose from a listener of a bundle comes after
\* that bundle resolved readiness, and is not covered.)
DisposedIsNotReady == disposal.at # 0 /\ disposal.at = lastCall /\ ~disposal.inListener => ~ready

\* initialize ends within its timeout whatever the server does, also when the client is
\* closed or disposed of meanwhile, with two exceptions.  A call that another overlaps
\* may wait on: the two share readyTimer, and one may clear the timer the other waits
\* for.  And over polling a body that was begun and never ends holds connect, and with
\* it initialize: its timer was cleared with the headers, and nothing aborts it then.
Alone(i) == \A j \in Calls \ {i} : pc[j] \in {"unused", "returned", "thrown"}
BodyPending(i) == \E f \in Fetches : fetchOf[f] = i /\ fetch[f] \in {"reading", "refusing"}
InitializeReturns ==
    \A i \in Calls :
        (pc[i] = "connecting" /\ Alone(i))
            ~> (pc[i] \in {"returned", "thrown"} \/ ~Alone(i) \/ []BodyPending(i))

----------------------------------------------------------------------------
(* The inductive invariants behind them (proved in ServerProofs).    *)

\* Between the merge of a bundle and the calls of the watchers, the keys still to be
\* told are those on the stack; before the first bundle no config is held.
WatchersFollow ==
    /\ observed => \A k \in Keys : \/ seen[k] = Evaluation(configs[k], segments)
                                   \/ turn.at = "updated" /\ k \in turn.keys
    /\ ~hasSet => \A k \in Keys : configs[k] = NoConfig

\* The running heartbeat is the one the transport can stop; the current event source
\* has it unless a fatal answer is about to end that event source.
HeartbeatOwned ==
    /\ source <= lastCall /\ cutAt <= lastCall
    /\ mode # "streaming" => source = 0
    /\ \A i \in Calls : Live(i) => i = source /\ i > cutAt
    /\ heartbeats = {heartbeatTimer} \ {0}
    /\ heartbeatTimer \in {0, source}
    /\ source # 0 /\ Live(source) /\ ~(turn.at = "fatal" /\ turn.call = source)
           => heartbeatTimer = source
=============================================================================
