-------------------------- MODULE TelemetryWorker --------------------------
(***************************************************************************)
(* WebWorkerTelemetryClient on the page, worker.ts in its worker, and the  *)
(* two channels between them, composed with the TelemetryCollector the     *)
(* worker holds.  Until the first updateContext there is no worker: what   *)
(* is recorded waits in a bounded backlog, which the first messages of the *)
(* channel then carry over.  close() asks the worker to close, waits for   *)
(* its answer or for a timeout, and terminates it.                         *)
(*                                                                         *)
(* Page and worker are two threads.  The channel to the worker keeps its   *)
(* order; what is in it when the worker ends is lost.  A worker may fail   *)
(* at any time, also while it loads.  Log messages are left out, and so    *)
(* are the samples of invalid context submissions.                         *)
(***************************************************************************)
EXTENDS TelemetryCollector

VARIABLES
    worker,       \* this.worker: none, started, or terminated
    turnedOff,    \* no worker can be created here
    evaluations,  \* pendingEvaluations
    entries,      \* the entries of pendingTrackedEvents
    submissions,  \* pendingInvalidContextSubmissions holds some
    closing,      \* closePromise: none, pending or resolved
    closeTimer,   \* the close timeout is armed
    pageSession,  \* the page's client session is resolved
    forwarded,    \* it has been posted to the worker
    made, asked,  \* events recorded and contexts given by the application
    pageCalls,    \* contexts, hidden pages and closes
    toWorker,     \* messages on their way to the worker
    closedSent,   \* the worker's Closed message is on its way
    thread,       \* the worker: none, running, closed by itself, or gone
    awaited,      \* position in `flushes` of the close() the worker awaits (0: none)
    received      \* contexts that have reached the collector

backlogVars == <<evaluations, entries, submissions>>
closeVars == <<closing, closeTimer>>
pageVars == <<worker, turnedOff, backlogVars, closeVars, pageSession, forwarded, made, asked,
              pageCalls>>
workerVars == <<thread, closedSent, awaited, received>>
collectorVars == vars
allVars == <<pageVars, toWorker, workerVars, vars>>

\* An event remembers how many contexts the application had given when it recorded it.
Recorded == [event : Events, asked : Updates]
Message ==
    [type : {"Initialize", "ClientSession", "InvalidContextSubmissions", "UpdateContext", "Flush",
             "Close"}]
    \cup [type : {"EvaluatedConfigEvent", "TrackedEvent"}, item : Recorded]
    \cup [type : {"TrackedEventEntries"}, items : Seq(Recorded)]

WorkerTypeOK ==
    /\ worker \in {"none", "started", "terminated"}
    /\ turnedOff \in BOOLEAN /\ submissions \in BOOLEAN /\ closeTimer \in BOOLEAN
    /\ pageSession \in BOOLEAN /\ forwarded \in BOOLEAN /\ closedSent \in BOOLEAN
    /\ evaluations \in Seq(Recorded) /\ Len(evaluations) <= QueueLimit
    /\ entries \in Seq(Recorded) /\ Len(entries) <= BatchLimit
    /\ closing \in {"open", "closing", "closed"}
    /\ made \in 0 .. MaxEvents /\ asked \in Updates /\ received \in Updates /\ pageCalls \in 0 .. MaxCalls
    /\ toWorker \in Seq(Message)
    /\ thread \in {"none", "running", "closed", "gone"}
    /\ awaited \in 0 .. MaxFlushes

WorkerInit ==
    /\ Init
    /\ worker = "none" /\ turnedOff = FALSE
    /\ evaluations = <<>> /\ entries = <<>> /\ submissions = FALSE
    /\ closing = "open" /\ closeTimer = FALSE
    /\ pageSession = FALSE /\ forwarded = FALSE
    /\ made = 0 /\ asked = 0 /\ pageCalls = 0
    /\ toWorker = <<>> /\ closedSent = FALSE
    /\ thread = "none" /\ awaited = 0 /\ received = 0

----------------------------------------------------------------------------
(* The page.                                                               *)

\* The reaction on the client session of a started worker runs before the next task.
ForwardDue == pageSession /\ worker # "none" /\ ~forwarded
PageQuiet == ~ForwardDue

\* What is posted to a worker that has ended goes nowhere.
Post(messages) ==
    toWorker' = IF thread = "running" /\ worker # "terminated" THEN toWorker \o messages ELSE toWorker

Plain(type) == [type |-> type]
Made(type) == [type |-> type, item |-> [event |-> made + 1, asked |-> asked]]

ForwardClientSession ==
    /\ ForwardDue
    /\ forwarded' = TRUE
    /\ Post(<<Plain("ClientSession")>>)
    /\ UNCHANGED <<worker, turnedOff, backlogVars, closeVars, pageSession, made, asked, pageCalls,
                   workerVars, collectorVars>>

PageSessionResolves ==
    /\ PageQuiet /\ ~pageSession
    /\ pageSession' = TRUE
    /\ UNCHANGED <<worker, turnedOff, backlogVars, closeVars, forwarded, made, asked, pageCalls,
                   toWorker, workerVars, collectorVars>>

RecordEvent == PageQuiet /\ made < MaxEvents /\ made' = made + 1

\* evaluatedConfig: to the worker, or to the end of the backlog, whose oldest gives way.
RecordEvaluation ==
    /\ RecordEvent /\ ~turnedOff
    /\ \/ /\ worker # "none"
          /\ Post(<<Made("EvaluatedConfigEvent")>>)
          /\ UNCHANGED evaluations
       \/ /\ worker = "none"
          /\ evaluations' = Append(Behead(evaluations, Excess(Len(evaluations) + 1, QueueLimit)),
                                   Made("EvaluatedConfigEvent").item)
          /\ UNCHANGED toWorker
    /\ UNCHANGED <<worker, turnedOff, entries, submissions, closeVars, pageSession, forwarded, asked,
                   pageCalls, workerVars, collectorVars>>

\* trackedEvent: the backlog refuses what exceeds the batch.
RecordTrackedEvent ==
    /\ RecordEvent /\ ~turnedOff /\ closing = "open"
    /\ \/ /\ worker # "none"
          /\ Post(<<Made("TrackedEvent")>>)
          /\ UNCHANGED entries
       \/ /\ worker = "none" /\ Admits(entries, BatchLimit)
          /\ entries' = Append(entries, Made("TrackedEvent").item)
          /\ UNCHANGED toWorker
    /\ UNCHANGED <<worker, turnedOff, evaluations, submissions, closeVars, pageSession, forwarded,
                   asked, pageCalls, workerVars, collectorVars>>

RecordInvalidContext ==
    /\ RecordEvent
    /\ \/ /\ worker # "none"
          /\ Post(<<Plain("InvalidContextSubmissions")>>)
          /\ UNCHANGED submissions
       \/ /\ worker = "none"
          /\ submissions' = TRUE
          /\ UNCHANGED toWorker
    /\ UNCHANGED <<worker, turnedOff, evaluations, entries, closeVars, pageSession, forwarded, asked,
                   pageCalls, workerVars, collectorVars>>

Backlog ==
    [i \in DOMAIN evaluations |-> [type |-> "EvaluatedConfigEvent", item |-> evaluations[i]]]
    \o (IF submissions THEN <<Plain("InvalidContextSubmissions")>> ELSE <<>>)
    \o (IF entries # <<>> THEN <<[type |-> "TrackedEventEntries", items |-> entries]>> ELSE <<>>)

CallPage == PageQuiet /\ pageCalls < MaxCalls /\ pageCalls' = pageCalls + 1

TurnOff ==
    /\ turnedOff' = TRUE
    /\ evaluations' = <<>> /\ entries' = <<>>
    /\ UNCHANGED <<worker, thread, toWorker, submissions>>

StartWorkerContextFirst ==
    /\ worker' = "started" /\ thread' = "running"
    /\ toWorker' = <<Plain("Initialize"), Plain("UpdateContext")>> \o Backlog
    /\ evaluations' = <<>> /\ entries' = <<>> /\ submissions' = FALSE
    /\ UNCHANGED turnedOff

\* startWorker: initialize it and hand the backlog over; the context follows.
StartWorker ==
    /\ worker' = "started" /\ thread' = "running"
    /\ toWorker' = <<Plain("Initialize")>> \o Backlog \o <<Plain("UpdateContext")>>
    /\ evaluations' = <<>> /\ entries' = <<>> /\ submissions' = FALSE
    /\ UNCHANGED turnedOff

\* updateContext: nothing after close; the first one starts the worker, or finds that it
\* cannot be created, after which nothing is collected.
GiveContext ==
    /\ CallPage
    /\ closing = "open"
    /\ asked' = asked + 1
    /\ \/ worker = "none" /\ ~turnedOff /\ (StartWorker \/ TurnOff)
       \/ /\ worker # "none" \/ turnedOff
          /\ Post(<<Plain("UpdateContext")>>)
          /\ UNCHANGED <<worker, thread, backlogVars, turnedOff>>
    /\ UNCHANGED <<closeVars, pageSession, forwarded, made, closedSent, awaited, received,
                   collectorVars>>

\* The page is hidden: the visibility handler, there from the start of the worker to
\* close, forces a flush.
HidePage ==
    /\ CallPage
    /\ worker = "started" /\ closing = "open"
    /\ Post(<<Plain("Flush")>>)
    /\ UNCHANGED <<worker, turnedOff, backlogVars, closeVars, pageSession, forwarded, made, asked,
                   workerVars, collectorVars>>

PerformCloseUntimed ==
    /\ CallPage
    /\ closing = "open"
    /\ \/ /\ worker = "none"
          /\ closing' = "closed"
          /\ evaluations' = <<>> /\ entries' = <<>>
          /\ UNCHANGED <<submissions, closeTimer, toWorker>>
       \/ /\ worker # "none"
          /\ closing' = "closing" /\ UNCHANGED closeTimer
          /\ Post(<<Plain("Close")>>)
          /\ UNCHANGED backlogVars
    /\ UNCHANGED <<worker, turnedOff, pageSession, forwarded, made, asked, workerVars, collectorVars>>

\* close(), once: without a worker there is nothing to wait for.
PerformClose ==
    /\ CallPage
    /\ closing = "open"
    /\ \/ /\ worker = "none"
          /\ closing' = "closed"
          /\ evaluations' = <<>> /\ entries' = <<>>
          /\ UNCHANGED <<submissions, closeTimer, toWorker>>
       \/ /\ worker # "none"
          /\ closing' = "closing" /\ closeTimer' = TRUE
          /\ Post(<<Plain("Close")>>)
          /\ UNCHANGED backlogVars
    /\ UNCHANGED <<worker, turnedOff, pageSession, forwarded, made, asked, workerVars, collectorVars>>

FinishClose ==
    /\ closing' = "closed" /\ closeTimer' = FALSE
    /\ worker' = "terminated"
    /\ thread' = IF thread = "running" THEN "gone" ELSE thread
    /\ toWorker' = <<>>
    /\ UNCHANGED <<turnedOff, backlogVars, pageSession, forwarded, made, asked, pageCalls, awaited,
                   received, collectorVars>>

CloseTimesOut == PageQuiet /\ closeTimer /\ FinishClose /\ UNCHANGED closedSent

HandleClosed == PageQuiet /\ closedSent /\ closedSent' = FALSE /\ FinishClose

Page ==
    \/ ForwardClientSession \/ PageSessionResolves
    \/ RecordEvaluation \/ RecordTrackedEvent \/ RecordInvalidContext
    \/ GiveContext \/ HidePage \/ PerformClose
    \/ CloseTimesOut \/ HandleClosed

----------------------------------------------------------------------------
(* The worker.  Its collector is TelemetryCollector; a message is a task.  *)

Receive(type) ==
    /\ thread = "running" /\ Quiet
    /\ toWorker # <<>> /\ Head(toWorker).type = type
    /\ toWorker' = Tail(toWorker)
    /\ UNCHANGED <<pageVars, thread, closedSent>>

OnInitialize == Receive("Initialize") /\ Start /\ UNCHANGED <<awaited, received>>

OnClientSession == Receive("ClientSession") /\ SessionResolves /\ UNCHANGED <<awaited, received>>

OnEvaluatedConfig ==
    /\ Receive("EvaluatedConfigEvent")
    /\ EvaluatedConfig \/ (~collecting /\ UNCHANGED vars)
    /\ UNCHANGED <<awaited, received>>

OnTrackedEvent ==
    /\ Receive("TrackedEvent")
    /\ \/ TrackedEvent
       \/ (~collecting \/ ~Admits(tracked, BatchLimit)) /\ UNCHANGED vars
    /\ UNCHANGED <<awaited, received>>

\* absorbTrackedEventEntries asks neither for the limit nor whether it still collects.
OnTrackedEventEntries ==
    /\ Receive("TrackedEventEntries")
    /\ recorded' = recorded + Len(Head(toWorker).items)
    /\ tracked' = tracked \o [i \in DOMAIN Head(toWorker).items |-> recorded + i]
    /\ UNCHANGED <<started, collecting, timerVars, executing, session, queue, context, flushes,
                   ownerVars, evicted, reported, counted, awaited, received>>

\* Submissions are taken with the next batch; the collector leaves them out.
OnInvalidContextSubmissions ==
    /\ Receive("InvalidContextSubmissions")
    /\ UNCHANGED <<vars, awaited, received>>

OnUpdateContext ==
    /\ Receive("UpdateContext") /\ UpdateContext
    /\ received' = received + 1
    /\ UNCHANGED awaited

OnFlush == Receive("Flush") /\ ForceFlush /\ UNCHANGED <<awaited, received>>

OnClose ==
    /\ Receive("Close") /\ Close
    /\ awaited' = Len(flushes) + 1
    /\ UNCHANGED received

Handlers ==
    \/ OnInitialize \/ OnClientSession \/ OnEvaluatedConfig \/ OnTrackedEvent
    \/ OnTrackedEventEntries \/ OnInvalidContextSubmissions \/ OnUpdateContext \/ OnFlush \/ OnClose

\* The collector's own timer, promises and requests.  When the flush of the awaited
\* close() returns, the worker answers Closed and closes itself.
CollectorStep(i) ==
    /\ thread = "running"
    /\ Reaction(i) \/ Environment(i)
    /\ LET ended == Len(flushes') < Len(flushes)
       IN  IF ended /\ i = awaited
           THEN thread' = "closed" /\ closedSent' = TRUE /\ awaited' = 0
           ELSE /\ awaited' = IF ended /\ i < awaited THEN awaited - 1 ELSE awaited
                /\ UNCHANGED <<thread, closedSent>>
    /\ UNCHANGED <<pageVars, toWorker, received>>

CollectorTimeout ==
    /\ thread = "running"
    /\ FlushTimeout
    /\ UNCHANGED <<pageVars, toWorker, workerVars>>

\* The script cannot be loaded, or the worker is killed.
WorkerFails ==
    /\ thread = "running"
    /\ thread' = "gone" /\ toWorker' = <<>>
    /\ UNCHANGED <<pageVars, closedSent, awaited, received, collectorVars>>

WorkerNext ==
    \/ Page \/ Handlers \/ CollectorTimeout \/ WorkerFails
    \/ \E i \in DOMAIN flushes : CollectorStep(i)

(***************************************************************************)
(* Due reactions run, armed timers fire, messages are delivered, and the   *)
(* collector's requests end.  The application is under no obligation.      *)
(***************************************************************************)
WorkerFairness ==
    /\ WF_allVars(ForwardClientSession) /\ WF_allVars(PageSessionResolves)
    /\ WF_allVars(CloseTimesOut) /\ WF_allVars(HandleClosed)
    /\ WF_allVars(Handlers) /\ WF_allVars(CollectorTimeout)
    /\ \A i \in 1 .. MaxFlushes : WF_allVars(i \in DOMAIN flushes /\ CollectorStep(i))

WorkerSpec == WorkerInit /\ [][WorkerNext]_allVars
FairWorkerSpec == WorkerSpec /\ WorkerFairness

----------------------------------------------------------------------------
(* Properties.                                                             *)

Items(message) ==
    CASE message.type \in {"EvaluatedConfigEvent", "TrackedEvent"} -> {message.item}
      [] message.type = "TrackedEventEntries" -> ToSet(message.items)
      [] OTHER -> {}

ContextsBefore(k) == Cardinality({j \in 1 .. k - 1 : toWorker[j].type = "UpdateContext"})

\* Neither the backlog nor the late start of the worker moves an event past a context: in
\* the channel it is posted behind the context it was recorded under and before the next,
\* and a running worker is sent every context.  When the collector takes a context over is
\* its own affair: an earlier one may stay (TelemetryContext.cfg).
ContextsKeepTheirEvents ==
    /\ \A k \in DOMAIN toWorker : \A item \in Items(toWorker[k]) :
          item.asked = received + ContextsBefore(k)
    /\ \A item \in ToSet(evaluations) \cup ToSet(entries) : closing = "open" => item.asked = asked
    /\ thread = "running" => asked = received + ContextsBefore(Len(toWorker) + 1)

\* Once the worker has answered the close, no event it was given before waits in a queue:
\* short of a fatal answer each was sent, was dropped by the full queue, or was taken by a
\* flush, and one that had begun before the close may be in flight still and be cut off with
\* the worker.
ClosedMeansFlushed ==
    thread = "closed" /\ executing
        => Waiting = {} /\ 1 .. recorded = Taken \cup reported \cup evicted

\* close() ends, whether the worker answers, hangs, fails to load or is already gone,
\* and it leaves no worker and no timer behind.
CloseEnds == (closing = "closing") ~> (closing = "closed" /\ ~closeTimer /\ thread # "running")
=============================================================================
