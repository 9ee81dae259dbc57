-------------------------- MODULE ServerTelemetry --------------------------
(***************************************************************************)
(* ServerTelemetryEventCollector with its base class and its reporter.     *)
(* Unlike the client's, every evaluation brings its own context: the       *)
(* collector remembers the contexts of what it will report in a            *)
(* LimitedMap, and a report carries evaluations, contexts, tracked events, *)
(* invalid contexts and the numbers of what was dropped.  A flush takes    *)
(* the evaluations, awaits the hashing of their values, then takes the     *)
(* rest, and awaits its request; the server goes on evaluating meanwhile.  *)
(*                                                                         *)
(* The collector is started before anything else (initialize) and closed   *)
(* by every dispose.  An event is what its aggregation tells apart, which  *)
(* here is the context it reports.  A value id generator never rejects.    *)
(***************************************************************************)
EXTENDS TelemetryAggregates, TelemetryQueues

CONSTANTS
    Identified,    \* contexts with an identifier; "anonymous" stands for any other
    Samples,       \* invalid context kinds
    QueueLimit, ContextLimit, SampleLimit, BatchLimit,
    MaxRecords,    \* bound: calls that record something
    MaxCloses,     \* bound: calls of close
    MaxFlushes     \* bound: flushes in flight at once

ASSUME LimitsAssumption ==
    /\ QueueLimit \in Nat \ {0} /\ BatchLimit \in Nat \ {0}
    /\ ContextLimit \in Nat /\ SampleLimit \in Nat
    /\ "anonymous" \notin Identified /\ "none" \notin Samples

VARIABLES
    collecting, timer, executing,  \* collectEvents, flushTimeout, executeRequests
    queue,                         \* evaluationEventQueue
    contexts,                      \* contexts, a LimitedMap
    tracked,                       \* trackedEventQueue
    submissions,                   \* invalidContextSubmissions
    flushes,                       \* the flushes in flight, oldest first
    records, closes,               \* calls made
    evaluated, submitted,          \* evaluations queued, invalid contexts recorded
    requested                      \* what has been put in requests

queues == <<queue, contexts, tracked, submissions>>
bounds == <<records, closes>>
history == <<evaluated, submitted, requested>>
telemetryVars == <<collecting, timer, executing, queues, flushes, bounds, history>>

Contexts == Identified \cup {"anonymous"}
NothingRequested ==
    [evaluations |-> 0, contexts |-> {}, submissions |-> 0, dropped |-> 0, contextsDropped |-> 0]

TelemetryInit ==
    /\ collecting = TRUE /\ timer = TRUE /\ executing = TRUE
    /\ queue = EmptyQueue /\ contexts = EmptyMap /\ tracked = <<>> /\ submissions = NoSubmissions
    /\ flushes = <<>>
    /\ records = 0 /\ closes = 0
    /\ evaluated = 0 /\ submitted = 0 /\ requested = NothingRequested

Due(f) == f.stage \in {"report", "answered"}
NextDue(i) == Due(flushes[i]) /\ \A j \in 1 .. i - 1 : ~Due(flushes[j])
NoFlushDue == \A i \in DOMAIN flushes : ~Due(flushes[i])

----------------------------------------------------------------------------
(* Recording.                                                              *)

Record == NoFlushDue /\ records < MaxRecords /\ records' = records + 1

\* evaluatedConfig: only a context with an identifier is captured.
EvaluatedConfig(context) ==
    /\ Record
    /\ collecting
    /\ contexts' = IF context = "anonymous" THEN contexts ELSE SetLimited(contexts, context, ContextLimit)
    /\ queue' = Push(queue, context, QueueLimit)
    /\ evaluated' = evaluated + 1
    /\ UNCHANGED <<collecting, timer, executing, tracked, submissions, flushes, closes, submitted,
                   requested>>

\* track: an event whose name is refused, or that finds a full batch, changes nothing.
TrackedEvent(call) ==
    /\ Record
    /\ collecting
    /\ IsAdmitted(call) /\ Admits(tracked, BatchLimit)
    /\ tracked' = Append(tracked, ReportedFields(call))
    /\ UNCHANGED <<collecting, timer, executing, queue, contexts, submissions, flushes, closes, history>>

\* recordInvalidContext does not ask whether the collector still collects.
RecordInvalidContext(sample) ==
    /\ Record
    /\ submissions' = AddSubmissions(submissions, sample, 1, SampleLimit)
    /\ submitted' = submitted + 1
    /\ UNCHANGED <<collecting, timer, executing, queue, contexts, tracked, flushes, closes, evaluated,
                   requested>>

----------------------------------------------------------------------------
(* Flushing.                                                               *)

\* flush() up to its await; only a long or a JSON value is hashed.
Flushes(purpose) ==
    {[purpose |-> purpose, stage |-> stage, events |-> queue.events, dropped |-> queue.dropped,
      contexts |-> {}, contextsDropped |-> 0, batch |-> <<>>, invalid |-> <<>>, fatal |-> FALSE] :
        stage \in IF queue.events = <<>> THEN {"report"} ELSE {"report", "hashing"}}

BeginFlush(purpose) ==
    /\ Len(flushes) < MaxFlushes
    /\ \E f \in Flushes(purpose) : flushes' = Append(flushes, f)
    /\ queue' = AfterSnapshot(queue)

FlushTimeout ==
    /\ NoFlushDue /\ timer
    /\ timer' = FALSE
    /\ BeginFlush("scheduled")
    /\ UNCHANGED <<collecting, executing, contexts, tracked, submissions, bounds, history>>

Close ==
    /\ NoFlushDue /\ closes < MaxCloses /\ closes' = closes + 1
    /\ collecting' = FALSE /\ timer' = FALSE
    /\ BeginFlush("close")
    /\ UNCHANGED <<executing, contexts, tracked, submissions, records, history>>

HashingEnds(i) ==
    /\ NoFlushDue
    /\ flushes[i].stage = "hashing"
    /\ flushes' = [flushes EXCEPT ![i].stage = "report"]
    /\ UNCHANGED <<collecting, timer, executing, queues, bounds, history>>

\* What a flush takes when its values are hashed.
Gathered(f) ==
    [f EXCEPT !.contexts = ToSet(contexts.keys), !.contextsDropped = contexts.dropped,
              !.batch = tracked, !.invalid = SubmissionEntries(submissions)]

IsReportEmpty(f) ==
    /\ f.events = <<>> /\ f.dropped = 0
    /\ f.contexts = {} /\ f.contextsDropped = 0
    /\ f.batch = <<>> /\ f.invalid = <<>>

With(r, f) ==
    [evaluations |-> r.evaluations + AggregateSum(Aggregate(f.events)),
     contexts    |-> r.contexts \cup f.contexts,
     submissions |-> r.submissions + SumOf(f.invalid),
     dropped     |-> r.dropped + f.dropped,
     contextsDropped |-> r.contextsDropped + f.contextsDropped]

\* report(): after a fatal answer nothing is sent, nor is an empty report.
Report(i) ==
    LET f == Gathered(flushes[i])
    IN  /\ flushes[i].stage = "report"
        /\ contexts' = EmptyMap
        /\ tracked' = <<>> /\ submissions' = NoSubmissions
        /\ flushes' = [flushes EXCEPT ![i] =
              [f EXCEPT !.fatal = ~executing,
                        !.stage = IF executing /\ ~IsReportEmpty(f) THEN "sending" ELSE "answered"]]
        /\ requested' = IF executing THEN With(requested, f) ELSE requested
        /\ UNCHANGED <<collecting, timer, executing, queue, bounds, evaluated, submitted>>

\* sendReport: a 413 or a transient error is no reason to repeat the report.
ReportAnswered(i) ==
    /\ NoFlushDue
    /\ flushes[i].stage = "sending"
    /\ \E fatal \in BOOLEAN :
          /\ flushes' = [flushes EXCEPT ![i].stage = "answered", ![i].fatal = fatal]
          /\ executing' = (executing /\ ~fatal)
    /\ UNCHANGED <<collecting, timer, queues, bounds, history>>

ScheduleNextIfOk(i) ==
    /\ flushes[i].purpose = "scheduled"
    /\ collecting' = (collecting /\ ~flushes[i].fatal)
    /\ flushes' = RemoveAt(flushes, i)
    /\ UNCHANGED <<timer, queue, tracked>>

\* flushAndScheduleNext after its flush.
ScheduleNext(i) ==
    /\ flushes[i].purpose = "scheduled"
    /\ \/ /\ flushes[i].fatal
          /\ collecting' = FALSE /\ timer' = FALSE
          /\ \E f \in Flushes("close") : flushes' = [flushes EXCEPT ![i] = f]
          /\ queue' = AfterSnapshot(queue)
       \/ /\ ~flushes[i].fatal
          /\ timer' = collecting
          /\ flushes' = RemoveAt(flushes, i)
          /\ UNCHANGED <<collecting, queue>>
    /\ UNCHANGED tracked

\* close() after its flush: neither contexts nor invalid contexts are cleared.
ClearQueues(i) ==
    /\ flushes[i].purpose = "close"
    /\ queue' = EmptyQueue /\ tracked' = <<>>
    /\ flushes' = RemoveAt(flushes, i)
    /\ UNCHANGED <<collecting, timer>>

FlushReturns(i) ==
    /\ flushes[i].stage = "answered"
    /\ ScheduleNext(i) \/ ClearQueues(i)
    /\ UNCHANGED <<executing, contexts, submissions, bounds, history>>

Reaction(i) == NextDue(i) /\ (Report(i) \/ FlushReturns(i))

TelemetryNext ==
    \/ \E context \in Contexts : EvaluatedConfig(context)
    \/ \E call \in TrackCalls : TrackedEvent(call)
    \/ \E sample \in Samples : RecordInvalidContext(sample)
    \/ FlushTimeout \/ Close
    \/ \E i \in DOMAIN flushes : Reaction(i) \/ HashingEnds(i) \/ ReportAnswered(i)

TelemetryFairness ==
    /\ WF_telemetryVars(FlushTimeout)
    /\ \A i \in 1 .. MaxFlushes :
          WF_telemetryVars(i \in DOMAIN flushes /\ (Reaction(i) \/ HashingEnds(i) \/ ReportAnswered(i)))

TelemetrySpec == TelemetryInit /\ [][TelemetryNext]_telemetryVars
FairTelemetrySpec == TelemetrySpec /\ TelemetryFairness

----------------------------------------------------------------------------
(* Properties.                                                             *)

Hashed(f) == f.stage \in {"sending", "answered"}
Unsent == {i \in DOMAIN flushes : ~Hashed(flushes[i])}
Evaluations(f) == Len(f.events)

\* Short of a fatal answer no number is lost between the collector and its requests:
\* each evaluation is queued, in a flush, counted in a request or counted as dropped,
\* and each invalid context is held or counted in a request, sampled or not.
CountsAreConserved ==
    executing =>
        /\ evaluated = Len(queue.events) + queue.dropped + requested.evaluations + requested.dropped
              + SumOf([i \in Unsent |-> Len(flushes[i].events) + flushes[i].dropped])
        /\ submitted = Submitted(submissions) + requested.submissions

ReportedContexts ==
    (ToSet(queue.events) \cup UNION {ToSet(flushes[i].events) : i \in DOMAIN flushes}) \ {"anonymous"}

\* The context of whatever evaluation is or will be reported has been put in a request,
\* waits for one, or is one of those counted as dropped, although a flush takes the
\* contexts only after it has awaited the hashing, when other evaluations have come and
\* other flushes have ended.
ContextsFollowEvaluations ==
    executing =>
        Cardinality(ReportedContexts \ (ToSet(contexts.keys) \cup requested.contexts))
            <= contexts.dropped + requested.contextsDropped

\* What a collecting server has recorded is put in a request, unless the server refuses
\* telemetry for good: a flush that ends leaves the next one scheduled.
RecordsAreSent ==
    (queue.events # <<>> \/ tracked # <<>> \/ submissions # NoSubmissions)
        ~> (~collecting \/ (queue.events = <<>> /\ tracked = <<>> /\ submissions = NoSubmissions))
=============================================================================
