------------------------- MODULE TelemetryCollector -------------------------
(***************************************************************************)
(* ClientTelemetryEventCollector with its base class and its reporter: the *)
(* events waiting to be reported, the flush timer, and the flushes in      *)
(* flight.  A flush takes the evaluations, awaits the hashing of their     *)
(* values, takes the tracked events and the context, awaits the client     *)
(* session and then its request; meanwhile the owner goes on recording,    *)
(* changes the context, forces another flush or closes.                    *)
(*                                                                         *)
(* The owner is the telemetry worker or the React Native client: each of   *)
(* its calls is a task of its own.  A flush is a record of `flushes`, in   *)
(* the order they began, and promise reactions run before the next task,   *)
(* the oldest flush first.  Invalid context submissions are left out: they *)
(* are taken with the tracked events.  A value id generator never rejects. *)
(***************************************************************************)
EXTENDS TelemetryQueues, SequencesExt

CONSTANTS
    QueueLimit,   \* evaluationQueueLimit
    BatchLimit,   \* TRACKED_EVENTS_PER_BATCH
    MaxEvents,    \* bound: events admitted in a behaviour
    MaxCalls,     \* bound: calls of updateContext, forceFlush and close
    MaxFlushes    \* bound: flushes in flight at once

ASSUME LimitsAssumption == QueueLimit \in Nat \ {0} /\ BatchLimit \in Nat \ {0}
ASSUME BoundsAssumption == MaxEvents \in Nat /\ MaxCalls \in Nat /\ MaxFlushes \in Nat

VARIABLES
    started, collecting,  \* TelemetryEventCollector.started, collectEvents
    timer,                \* the timer of flushTimeout is armed
    orphans,              \* armed flush timers that flushTimeout no longer names
    executing,            \* ClientEventReporter.executeRequests
    session,              \* the client session is resolved
    queue,                \* evaluationEventQueue
    tracked,              \* trackedEventQueue
    context,              \* _context: the update it came from (0: none)
    flushes,              \* the flushes in flight, oldest first
    current,              \* the owner's latest update of the context
    calls,                \* calls made
    recorded,             \* events admitted, numbered in that order
    evicted,              \* those the evaluation queue dropped
    reported,             \* those put in a request
    counted               \* drops that a finished flush had taken

timerVars == <<timer, orphans>>
ownerVars == <<current, calls>>
history == <<recorded, evicted, reported, counted>>
vars == <<started, collecting, timerVars, executing, session, queue, tracked, context, flushes,
          ownerVars, history>>

\* "update" is updateContext before its flushAndScheduleNext, "close" is close().
Purposes == {"update", "scheduled", "close"}
Stages == {"hashing", "report", "session", "sending", "answered"}
Events == Nat \ {0}
Updates == 0 .. MaxCalls
Flush == [purpose : Purposes, update : Updates, stage : Stages, events : Seq(Events),
          dropped : Nat, batch : Seq(Events), fatal : BOOLEAN]

\* Every variable has its type, and no queue is longer than its limit.
TypeOK ==
    /\ started \in BOOLEAN /\ collecting \in BOOLEAN /\ executing \in BOOLEAN /\ session \in BOOLEAN
    /\ timer \in BOOLEAN /\ orphans \in Nat
    /\ queue \in [events : Seq(Events), dropped : Nat] /\ Len(queue.events) <= QueueLimit
    /\ tracked \in Seq(Events) /\ Len(tracked) <= BatchLimit
    /\ context \in Updates /\ current \in Updates /\ calls \in Updates /\ current <= calls
    /\ flushes \in Seq(Flush)
    /\ recorded \in Nat
    /\ evicted \subseteq Events /\ reported \subseteq Events /\ counted \in Nat

Init ==
    /\ started = FALSE /\ collecting = TRUE /\ executing = TRUE /\ session = FALSE
    /\ timer = FALSE /\ orphans = 0
    /\ queue = EmptyQueue /\ tracked = <<>>
    /\ context = 0 /\ current = 0 /\ calls = 0
    /\ flushes = <<>>
    /\ recorded = 0 /\ evicted = {} /\ reported = {} /\ counted = 0

(***************************************************************************)
(* Scheduling.  A flush is due when a promise reaction of it is.           *)
(***************************************************************************)
Due(f) == f.stage \in {"report", "answered"} \/ (f.stage = "session" /\ session)
NextDue(i) == Due(flushes[i]) /\ \A j \in 1 .. i - 1 : ~Due(flushes[j])
Quiet == \A i \in DOMAIN flushes : ~Due(flushes[i])

SetTimeout ==
    /\ timer' = TRUE
    /\ orphans' = orphans + (IF timer THEN 1 ELSE 0)

CancelScheduledFlush == timer' = FALSE /\ UNCHANGED orphans

\* Cancel, then set: at most one timer is armed afterwards.
Reschedule == timer' = TRUE /\ UNCHANGED orphans

(***************************************************************************)
(* flush() up to its first await.  Only a long or a JSON value is hashed;  *)
(* without one the await lasts no longer than the reactions that are due.  *)
(***************************************************************************)
Snapshot(purpose, update, stage) ==
    [purpose |-> purpose, update |-> update, stage |-> stage, events |-> queue.events,
     dropped |-> queue.dropped, batch |-> <<>>, fatal |-> FALSE]

Flushes(purpose, update) ==
    {Snapshot(purpose, update, stage) :
        stage \in IF queue.events = <<>> THEN {"report"} ELSE {"report", "hashing"}}

TakeSnapshot == queue' = AfterSnapshot(queue)

BeginFlush(purpose, update) ==
    /\ Len(flushes) < MaxFlushes
    /\ \E f \in Flushes(purpose, update) : flushes' = Append(flushes, f)
    /\ TakeSnapshot

(***************************************************************************)
(* The owner's calls.                                                      *)
(***************************************************************************)
Start ==
    /\ Quiet
    /\ ~started /\ collecting
    /\ started' = TRUE
    /\ SetTimeout
    /\ UNCHANGED <<collecting, executing, session, queue, tracked, context, flushes, ownerVars,
                   history>>

EvaluatedConfig ==
    /\ Quiet
    /\ collecting
    /\ recorded < MaxEvents
    /\ recorded' = recorded + 1
    /\ queue' = Push(queue, recorded + 1, QueueLimit)
    /\ evicted' = evicted \cup {queue.events[i] : i \in 1 .. Overflow(queue, QueueLimit)}
    /\ UNCHANGED <<started, collecting, timerVars, executing, session, tracked, context, flushes,
                   ownerVars, reported, counted>>

\* An event beyond the limit of the batch is refused, which changes nothing here.
TrackedEvent ==
    /\ Quiet
    /\ collecting
    /\ Admits(tracked, BatchLimit)
    /\ recorded < MaxEvents
    /\ recorded' = recorded + 1
    /\ tracked' = Append(tracked, recorded + 1)
    /\ UNCHANGED <<started, collecting, timerVars, executing, session, queue, context, flushes,
                   ownerVars, evicted, reported, counted>>

Call == Quiet /\ calls < MaxCalls /\ calls' = calls + 1

\* Both owners start the collector before its first context.
UpdateContext ==
    /\ Call
    /\ started \/ ~collecting
    /\ current' = calls + 1
    /\ CancelScheduledFlush
    /\ BeginFlush("update", calls + 1)
    /\ UNCHANGED <<started, collecting, executing, session, tracked, context, history>>

ForceFlush ==
    /\ Call
    /\ started
    /\ CancelScheduledFlush
    /\ IF collecting THEN BeginFlush("scheduled", 0) ELSE UNCHANGED <<flushes, queue>>
    /\ UNCHANGED <<started, collecting, executing, session, tracked, context, current, history>>

CloseStillCollecting ==
    /\ Call
    /\ CancelScheduledFlush
    /\ BeginFlush("close", 0)
    /\ UNCHANGED <<started, collecting, executing, session, tracked, context, current, history>>

Close ==
    /\ Call
    /\ collecting' = FALSE
    /\ CancelScheduledFlush
    /\ BeginFlush("close", 0)
    /\ UNCHANGED <<started, executing, session, tracked, context, current, history>>

(***************************************************************************)
(* A flush timer fires: flushAndScheduleNext.                              *)
(***************************************************************************)
FlushTimeout ==
    /\ Quiet
    /\ \/ timer /\ timer' = FALSE /\ UNCHANGED orphans
       \/ orphans > 0 /\ orphans' = orphans - 1 /\ UNCHANGED timer
    /\ IF collecting THEN BeginFlush("scheduled", 0) ELSE UNCHANGED <<flushes, queue>>
    /\ UNCHANGED <<started, collecting, executing, session, tracked, context, ownerVars, history>>

SessionResolves ==
    /\ Quiet
    /\ ~session
    /\ session' = TRUE
    /\ UNCHANGED <<started, collecting, timerVars, executing, queue, tracked, context, flushes,
                   ownerVars, history>>

(***************************************************************************)
(* The rest of flush() and ClientEventReporter.report.                     *)
(***************************************************************************)
HashingEnds(i) ==
    /\ Quiet
    /\ flushes[i].stage = "hashing"
    /\ flushes' = [flushes EXCEPT ![i].stage = "report"]
    /\ UNCHANGED <<started, collecting, timerVars, executing, session, queue, tracked, context,
                   ownerVars, history>>

ReportAlways(i) ==
    /\ flushes[i].stage = "report"
    /\ flushes' = [flushes EXCEPT ![i].batch = tracked, ![i].stage = "session"]
    /\ tracked' = <<>>
    /\ UNCHANGED <<started, collecting, timerVars, executing, session, queue, context, ownerVars,
                   history>>

\* takeBatch and report() up to its await; after a fatal answer nothing more is sent.
Report(i) ==
    /\ flushes[i].stage = "report"
    /\ flushes' = [flushes EXCEPT ![i].batch = tracked, ![i].fatal = ~executing,
                                  ![i].stage = IF executing THEN "session" ELSE "answered"]
    /\ tracked' = <<>>
    /\ UNCHANGED <<started, collecting, timerVars, executing, session, queue, context, ownerVars,
                   history>>

Contents(f) == ToSet(f.events) \cup ToSet(f.batch)
IsReportEmpty(f) == f.events = <<>> /\ f.batch = <<>> /\ f.dropped = 0

SendReport(i) ==
    /\ flushes[i].stage = "session" /\ session
    /\ flushes' = [flushes EXCEPT ![i].stage =
                      IF IsReportEmpty(flushes[i]) THEN "answered" ELSE "sending"]
    /\ reported' = reported \cup Contents(flushes[i])
    /\ UNCHANGED <<started, collecting, timerVars, executing, session, queue, tracked, context,
                   ownerVars, recorded, evicted, counted>>

\* A 413 or a transient error is not told apart from success: the report is not repeated.
ReportAnswered(i) ==
    /\ Quiet
    /\ flushes[i].stage = "sending"
    /\ \E fatal \in BOOLEAN :
          /\ flushes' = [flushes EXCEPT ![i].stage = "answered", ![i].fatal = fatal]
          /\ executing' = (executing /\ ~fatal)
    /\ UNCHANGED <<started, collecting, timerVars, session, queue, tracked, context, ownerVars,
                   history>>

(***************************************************************************)
(* What awaited the flush.                                                 *)
(***************************************************************************)
FlushAgain(i, purpose) ==
    /\ \E f \in Flushes(purpose, 0) : flushes' = [flushes EXCEPT ![i] = f]
    /\ TakeSnapshot

End(i) == flushes' = RemoveAt(flushes, i) /\ UNCHANGED queue

AdoptContextOnly(i) ==
    /\ flushes[i].purpose = "update"
    /\ context' = flushes[i].update
    /\ End(i)
    /\ UNCHANGED <<collecting, timerVars, tracked>>

\* updateContext: set the context, then flushAndScheduleNext.
AdoptContext(i) ==
    /\ flushes[i].purpose = "update"
    /\ context' = flushes[i].update
    /\ IF collecting THEN FlushAgain(i, "scheduled") ELSE End(i)
    /\ UNCHANGED <<collecting, timerVars, tracked>>

ScheduleNextUncancelled(i) ==
    /\ flushes[i].purpose = "scheduled"
    /\ \/ /\ flushes[i].fatal
          /\ collecting' = FALSE
          /\ CancelScheduledFlush
          /\ FlushAgain(i, "close")
       \/ /\ ~flushes[i].fatal
          /\ IF collecting THEN SetTimeout ELSE UNCHANGED timerVars
          /\ End(i)
          /\ UNCHANGED collecting
    /\ UNCHANGED <<context, tracked>>

\* flushAndScheduleNext after its flush: a fatal answer closes the collector.
ScheduleNext(i) ==
    /\ flushes[i].purpose = "scheduled"
    /\ \/ /\ flushes[i].fatal
          /\ collecting' = FALSE
          /\ CancelScheduledFlush
          /\ FlushAgain(i, "close")
       \/ /\ ~flushes[i].fatal
          /\ IF collecting THEN Reschedule ELSE UNCHANGED timerVars
          /\ End(i)
          /\ UNCHANGED collecting
    /\ UNCHANGED <<context, tracked>>

\* close() after its flush.
ClearQueues(i) ==
    /\ flushes[i].purpose = "close"
    /\ queue' = EmptyQueue /\ tracked' = <<>>
    /\ flushes' = RemoveAt(flushes, i)
    /\ UNCHANGED <<collecting, timerVars, context>>

FlushReturns(i) ==
    /\ flushes[i].stage = "answered"
    /\ counted' = counted + flushes[i].dropped
    /\ AdoptContext(i) \/ ScheduleNext(i) \/ ClearQueues(i)
    /\ UNCHANGED <<started, executing, session, ownerVars, recorded, evicted, reported>>

Reaction(i) == NextDue(i) /\ (Report(i) \/ SendReport(i) \/ FlushReturns(i))
Environment(i) == HashingEnds(i) \/ ReportAnswered(i)
Owner == Start \/ EvaluatedConfig \/ TrackedEvent \/ UpdateContext \/ ForceFlush \/ Close

Next ==
    \/ Owner
    \/ FlushTimeout
    \/ SessionResolves
    \/ \E i \in DOMAIN flushes : Reaction(i) \/ Environment(i)

(***************************************************************************)
(* The runtime runs due reactions and armed timers, hashing ends, the      *)
(* client session has a deadline, and a request is aborted after five      *)
(* seconds.  The owner is under no obligation.                             *)
(***************************************************************************)
Fairness ==
    /\ WF_vars(FlushTimeout)
    /\ WF_vars(SessionResolves)
    /\ \A i \in 1 .. MaxFlushes :
          WF_vars(i \in DOMAIN flushes /\ (Reaction(i) \/ Environment(i)))

Spec == Init /\ [][Next]_vars
FairSpec == Spec /\ Fairness

(***************************************************************************)
(* Properties.                                                             *)
(***************************************************************************)
Unsent(f) == f.stage \in {"hashing", "report", "session"}
Waiting == ToSet(queue.events) \cup ToSet(tracked)
Taken == UNION {Contents(flushes[i]) : i \in {j \in DOMAIN flushes : Unsent(flushes[j])}}

\* However flushes overlap, at most one flush timer is armed, and none once the
\* collector stopped collecting (cancelScheduledFlush before every setTimeout).
OneFlushLoop == orphans = 0 /\ (timer => collecting)

\* An event waits in a queue, or in one flush, or was put in a request: never two of
\* these, so that no event is reported twice (takeSnapshot, takeBatch).
EachReportedOnce ==
    /\ Waiting \cap (Taken \cup reported) = {}
    /\ Taken \cap reported = {}
    /\ \A i, j \in DOMAIN flushes :
          i # j => Contents(flushes[i]) \cap Contents(flushes[j]) = {}

\* Short of a fatal answer every admitted event is waiting, being flushed, reported,
\* or one the full queue dropped: closing clears only what its own flush has taken.
NothingLost ==
    executing => 1 .. recorded = Waiting \cup Taken \cup reported \cup evicted

\* The drops that the first n of some flushes have taken.
DroppedUpTo(some) ==
    LET upTo[n \in 0 .. Len(some)] == IF n = 0 THEN 0 ELSE upTo[n - 1] + some[n].dropped
    IN  upTo

DroppedInFlight == DroppedUpTo(flushes)[Len(flushes)]

\* Each event the full queue dropped is counted in exactly one flush.
DropsCountedOnce == queue.dropped + DroppedInFlight + counted = Cardinality(evicted)

\* What happens to an event is one thing and not none, however flushes, a full queue and
\* a close overlap.  (EventQueue.takeSnapshot, TelemetryEventCollector.close)
EventsAccountedFor == EachReportedOnce /\ NothingLost /\ DropsCountedOnce

\* After a fatal answer no further event is sent, not even by a flush that began before.
FatalErrorIsFinal == [][~executing => reported' = reported]_vars

\* What waits in a started collector is flushed: no overlap of flushes, context
\* updates and closes loses the flush timer.
QueuesAreFlushed == (started /\ Waiting # {}) ~> (Waiting = {})

\* Once no flush is in flight, the context reported is the one last given to
\* updateContext: what the tests of ClientTelemetryEventCollector say of its reports.
ContextSettles == flushes = <<>> => context = current
=============================================================================
