---------------------------- MODULE TelemetryProofs ----------------------------
(***************************************************************************)
(* Proofs about TelemetryCollector, and about TelemetryWorker, which holds *)
(* one, for any limits and any number of events, calls and flushes.  There *)
(* is never a second flush timer, after a fatal answer nothing is sent,    *)
(* and every event is accounted for: it waits, or is in one flush, or was  *)
(* sent, and what a full queue dropped is counted once.  The messages to   *)
(* the worker keep each event behind the context it was recorded under,    *)
(* and when the worker answers a close nothing it was given before waits:  *)
(* only a flush begun before may still be in flight.                       *)
(***************************************************************************)
EXTENDS TelemetryWorker, SequenceTheorems, FunctionTheorems, FiniteSetTheorems,
        NaturalsInduction, WellFoundedInduction, TLAPS

(***************************************************************************)
(* Sequences.                                                              *)
(***************************************************************************)

\* Removing an element of a sequence moves those behind it one place forward.
LEMMA RemovalShifts ==
    ASSUME NEW S, NEW s \in Seq(S), NEW i \in DOMAIN s
    PROVE  /\ DOMAIN RemoveAt(s, i) = 1 .. Len(s) - 1
           /\ \A j \in 1 .. Len(s) - 1 :
                 RemoveAt(s, i)[j] = IF j < i THEN s[j] ELSE s[j + 1]
<1>1. RemoveAt(s, i) = SubSeq(s, 1, i - 1) \o SubSeq(s, i + 1, Len(s))
  BY DEF RemoveAt
<1> DEFINE front == SubSeq(s, 1, i - 1)
           back == SubSeq(s, i + 1, Len(s))
<1>2. i \in 1 .. Len(s) /\ Len(s) \in Nat
  OBVIOUS
<1>3. front \in Seq(S) /\ Len(front) = i - 1 /\ \A j \in 1 .. i - 1 : front[j] = s[j]
  BY <1>2
<1>4. back \in Seq(S) /\ Len(back) = Len(s) - i /\ \A j \in 1 .. Len(s) - i : back[j] = s[i + j]
  BY <1>2
<1> HIDE DEF front, back
<1>5. DOMAIN (front \o back) = 1 .. Len(s) - 1
  BY <1>2, <1>3, <1>4
<1>6. ASSUME NEW j \in 1 .. Len(s) - 1
      PROVE  (front \o back)[j] = IF j < i THEN s[j] ELSE s[j + 1]
  <2>1. CASE j < i
    <3>1. j \in 1 .. i - 1 /\ j \in 1 .. Len(front)
      BY <1>2, <1>3, <2>1
    <3>2. (front \o back)[j] = front[j]
      BY <1>3, <1>4, <3>1, ConcatProperties
    <3> QED
      BY <1>3, <2>1, <3>1, <3>2
  <2>2. CASE ~(j < i)
    <3>0. j \in 1 .. Len(front) + Len(back) /\ ~(j <= Len(front)) /\ Len(front) = i - 1
      BY <1>2, <1>3, <1>4, <2>2
    <3>x. (front \o back)[j] = back[j - Len(front)]
      BY <1>3, <1>4, <3>0, ConcatProperties
    <3>1. (front \o back)[j] = back[j - (i - 1)]
      BY <3>0, <3>x
    <3>2. back[j - (i - 1)] = s[j + 1]
      BY <1>2, <1>4, <2>2
    <3> QED
      BY <2>2, <3>1, <3>2
  <2> QED
    BY <2>1, <2>2
<1> QED
  BY <1>1, <1>5, <1>6 DEF front, back

\* Removing an element of a sequence leaves only elements that were there
\* (a flush that ended).
LEMMA RemovalKeepsElements ==
    ASSUME NEW S, NEW s \in Seq(S), NEW i \in DOMAIN s
    PROVE  /\ RemoveAt(s, i) \in Seq(S)
           /\ \A j \in DOMAIN RemoveAt(s, i) :
                 \E k \in DOMAIN s : RemoveAt(s, i)[j] = s[k]
<1>1. RemoveAt(s, i) \in Seq(S)
  BY DEF RemoveAt
<1>2. ASSUME NEW j \in DOMAIN RemoveAt(s, i) PROVE \E k \in DOMAIN s : RemoveAt(s, i)[j] = s[k]
  <2>1. /\ j \in 1 .. Len(s) - 1 /\ RemoveAt(s, i)[j] = IF j < i THEN s[j] ELSE s[j + 1]
        /\ j \in DOMAIN s /\ j + 1 \in DOMAIN s
    BY RemovalShifts
  <2> QED
    BY <2>1
<1> QED
  BY <1>1, <1>2

(***************************************************************************)
(* The flush loop.  That start arms its timer without cancelling another   *)
(* is safe because nothing can be flushed, and so no timer armed, before:  *)
(* a collector that was not started and still collects has no flushes.     *)
(***************************************************************************)
FlushLoopInv ==
    /\ OneFlushLoop
    /\ timer => started
    /\ collecting /\ ~started => flushes = <<>>

\* The strengthened invariant of the flush loop holds at first and is kept by every step.
LEMMA FlushLoopInvariant == Spec => []FlushLoopInv
<1>1. Init => FlushLoopInv
  BY DEF Init, FlushLoopInv, OneFlushLoop
<1>2. FlushLoopInv /\ [Next]_vars => FlushLoopInv'
  <2> SUFFICES ASSUME FlushLoopInv, [Next]_vars PROVE FlushLoopInv'
    OBVIOUS
  <2> USE DEF FlushLoopInv, OneFlushLoop
  <2>1. CASE Start
    BY <2>1 DEF Start, SetTimeout
  <2>2. CASE EvaluatedConfig \/ TrackedEvent
    BY <2>2 DEF EvaluatedConfig, TrackedEvent, timerVars
  <2>3. CASE UpdateContext
    BY <2>3 DEF UpdateContext, CancelScheduledFlush
  <2>4. CASE ForceFlush
    BY <2>4 DEF ForceFlush, CancelScheduledFlush
  <2>5. CASE Close
    BY <2>5 DEF Close, CancelScheduledFlush
  <2>6. CASE FlushTimeout
    BY <2>6 DEF FlushTimeout
  <2>7. CASE SessionResolves
    BY <2>7 DEF SessionResolves, timerVars
  <2>8. ASSUME NEW i \in DOMAIN flushes, Reaction(i) \/ Environment(i) PROVE FlushLoopInv'
    <3>1. collecting => started
      BY <2>8
    <3>2. CASE Report(i) \/ SendReport(i) \/ HashingEnds(i) \/ ReportAnswered(i)
      <4>1. UNCHANGED <<started, collecting, timer, orphans>>
        BY <3>2 DEF Report, SendReport, HashingEnds, ReportAnswered, timerVars
      <4> QED
        BY <3>1, <4>1
    <3>3. CASE FlushReturns(i)
      <4>1. started' = started /\ (collecting' => collecting)
        BY <3>3 DEF FlushReturns, AdoptContext, ScheduleNext, ClearQueues
      <4>2. orphans' = 0 /\ (timer' => collecting')
        BY <3>3 DEF FlushReturns, AdoptContext, ScheduleNext, ClearQueues, Reschedule,
                    CancelScheduledFlush, timerVars
      <4> QED
        BY <3>1, <4>1, <4>2
    <3> QED
      BY <2>8, <3>2, <3>3 DEF Reaction, Environment
  <2>9. CASE UNCHANGED vars
    BY <2>9 DEF vars, timerVars
  <2> QED
    BY <2>1, <2>2, <2>3, <2>4, <2>5, <2>6, <2>7, <2>8, <2>9 DEF Next, Owner
<1> QED
  BY <1>1, <1>2, PTL DEF Spec

\* However flushes overlap, at most one flush timer is armed, and none once the collector
\* stopped collecting.
THEOREM OneFlushLoopOnly == Spec => []OneFlushLoop
<1>1. FlushLoopInv => OneFlushLoop
  BY DEF FlushLoopInv
<1> QED
  BY <1>1, FlushLoopInvariant, PTL

(***************************************************************************)
(* Types.                                                                  *)
(***************************************************************************)
Queue == [events : Seq(Events), dropped : Nat]

\* Pushing an event keeps the queue within its limit, however full it was (EventQueue.push).
LEMMA PushKeepsLimit ==
    ASSUME NEW q \in Queue, NEW e \in Events, NEW limit \in Nat \ {0}, Len(q.events) <= limit
    PROVE  /\ Push(q, e, limit) \in Queue
           /\ Len(Push(q, e, limit).events) <= limit
<1> DEFINE n == Overflow(q, limit)
           kept == Behead(q.events, n)
<1>1. n \in Nat /\ n <= Len(q.events) /\ Len(q.events) - n <= limit - 1
  BY DEF Overflow, Excess, Queue
<1>2. q.events \in Seq(Events) /\ q.dropped \in Nat
  BY DEF Queue
<1>3. kept \in Seq(Events) /\ Len(kept) = Len(q.events) - n
  BY <1>1, <1>2 DEF Behead
<1> HIDE DEF n, kept
<1>4. Append(kept, e) \in Seq(Events) /\ Len(Append(kept, e)) <= limit
  BY <1>1, <1>2, <1>3
<1>5. Push(q, e, limit) = [events |-> Append(kept, e), dropped |-> q.dropped + n]
  BY DEF Push, n, kept
<1> QED
  BY <1>1, <1>2, <1>4, <1>5 DEF Queue

\* The flush a snapshot of the queue begins (flush up to its await).
LEMMA FlushesAreTyped ==
    ASSUME TypeOK, NEW purpose \in Purposes, NEW update \in Updates, NEW f \in Flushes(purpose, update)
    PROVE  f \in Flush /\ f.stage \in {"report", "hashing"}
<1>1. PICK stage \in {"report", "hashing"} : f = Snapshot(purpose, update, stage)
  BY DEF Flushes
<1> QED
  BY <1>1 DEF Snapshot, Flush, Stages, TypeOK

\* What a new flush, or one begun in the place of another, leaves of the types.
LEMMA BeginFlushIsTyped ==
    ASSUME TypeOK, NEW purpose \in Purposes, NEW update \in Updates
    PROVE  /\ BeginFlush(purpose, update) =>
                  /\ flushes' \in Seq(Flush)
                  /\ queue' = EmptyQueue
                  /\ \E f \in Flushes(purpose, update) : flushes' = Append(flushes, f)
           /\ \A i \in DOMAIN flushes : FlushAgain(i, purpose) =>
                  /\ flushes' \in Seq(Flush)
                  /\ queue' = EmptyQueue
                  /\ \E f \in Flushes(purpose, 0) : flushes' = [flushes EXCEPT ![i] = f]
<1>1. flushes \in Seq(Flush) /\ 0 \in Updates
  BY BoundsAssumption DEF TypeOK, Updates
<1>2. ASSUME BeginFlush(purpose, update)
      PROVE  /\ flushes' \in Seq(Flush)
             /\ queue' = EmptyQueue
             /\ \E f \in Flushes(purpose, update) : flushes' = Append(flushes, f)
  <2>1. PICK f \in Flushes(purpose, update) : flushes' = Append(flushes, f)
    BY <1>2 DEF BeginFlush
  <2>2. f \in Flush
    BY FlushesAreTyped
  <2>3. flushes' \in Seq(Flush)
    BY <1>1, <2>1, <2>2
  <2>4. queue' = EmptyQueue
    BY <1>2 DEF BeginFlush, TakeSnapshot, AfterSnapshot
  <2> QED
    BY <2>1, <2>3, <2>4
<1>3. ASSUME NEW i \in DOMAIN flushes, FlushAgain(i, purpose)
      PROVE  /\ flushes' \in Seq(Flush)
             /\ queue' = EmptyQueue
             /\ \E f \in Flushes(purpose, 0) : flushes' = [flushes EXCEPT ![i] = f]
  <2>1. PICK f \in Flushes(purpose, 0) : flushes' = [flushes EXCEPT ![i] = f]
    BY <1>3 DEF FlushAgain
  <2>2. f \in Flush
    BY <1>1, FlushesAreTyped
  <2>3. flushes' \in Seq(Flush)
    BY <1>1, <2>1, <2>2, ExceptSeq
  <2>4. queue' = EmptyQueue
    BY <1>3 DEF FlushAgain, TakeSnapshot, AfterSnapshot
  <2> QED
    BY <2>1, <2>3, <2>4
<1> QED
  BY <1>2, <1>3

\* Changing a flush of the sequence to another flush keeps it a sequence of flushes.
LEMMA ChangedFlushIsTyped ==
    ASSUME TypeOK, NEW i \in DOMAIN flushes, NEW f \in Flush, flushes' = [flushes EXCEPT ![i] = f]
    PROVE  flushes' \in Seq(Flush)
BY ExceptSeq DEF TypeOK

\* A flush that ends leaves flushes that were there.
LEMMA EndIsTyped ==
    ASSUME TypeOK, NEW i \in DOMAIN flushes, flushes' = RemoveAt(flushes, i)
    PROVE  /\ flushes' \in Seq(Flush)
           /\ \A j \in DOMAIN flushes' : \E k \in DOMAIN flushes : flushes'[j] = flushes[k]
BY RemovalKeepsElements DEF TypeOK

\* Every step keeps every variable within its type and every queue within its limit.
LEMMA StepIsTyped == TypeOK /\ [Next]_vars => TypeOK'
<1> SUFFICES ASSUME TypeOK, [Next]_vars PROVE TypeOK'
  OBVIOUS
<1>a. EmptyQueue \in Queue /\ Len(EmptyQueue.events) = 0
  BY DEF EmptyQueue, Queue
<1>b. QueueLimit \in Nat \ {0} /\ BatchLimit \in Nat \ {0} /\ MaxEvents \in Nat /\ MaxCalls \in Nat
  BY LimitsAssumption, BoundsAssumption
<1>c. 0 \in Updates
  BY <1>b DEF Updates
<1>1. CASE Start
  BY <1>1 DEF Start, SetTimeout, TypeOK, ownerVars, history
<1>2. CASE EvaluatedConfig
  <2>1. recorded + 1 \in Events /\ recorded' \in Nat
    BY <1>2, <1>b DEF EvaluatedConfig, TypeOK, Events
  <2>2. queue' \in Queue /\ Len(queue'.events) <= QueueLimit
    BY <1>2, <1>b, <2>1, PushKeepsLimit DEF EvaluatedConfig, TypeOK, Queue
  <2>3. evicted' \subseteq Events
    <3>1. Overflow(queue, QueueLimit) <= Len(queue.events) /\ Overflow(queue, QueueLimit) \in Nat
      BY <1>b DEF Overflow, Excess, TypeOK
    <3>2. \A i \in 1 .. Overflow(queue, QueueLimit) : queue.events[i] \in Events
      BY <3>1 DEF TypeOK
    <3> QED
      BY <1>2, <3>2 DEF EvaluatedConfig, TypeOK
  <2> QED
    BY <1>2, <2>1, <2>2, <2>3 DEF EvaluatedConfig, TypeOK, timerVars, ownerVars, Queue
<1>3. CASE TrackedEvent
  <2>1. recorded + 1 \in Events /\ recorded' \in Nat
    BY <1>3, <1>b DEF TrackedEvent, TypeOK, Events
  <2>2. tracked' \in Seq(Events) /\ Len(tracked') <= BatchLimit
    BY <1>3, <1>b, <2>1 DEF TrackedEvent, TypeOK, Admits
  <2> QED
    BY <1>3, <2>1, <2>2 DEF TrackedEvent, TypeOK, timerVars, ownerVars
<1>d. ASSUME queue' = EmptyQueue \/ queue' = queue
      PROVE  queue' \in Queue /\ Len(queue'.events) <= QueueLimit
  BY <1>a, <1>b, <1>d DEF TypeOK, Queue
<1>4. ASSUME Call
      PROVE  calls' \in Updates /\ calls' = calls + 1 /\ current \in Updates /\ current <= calls'
  BY <1>4, <1>b DEF Call, TypeOK, Updates
<1>5. CASE UpdateContext
  <2>1. flushes' \in Seq(Flush) /\ queue' = EmptyQueue
    <3>1. Call /\ BeginFlush("update", calls + 1)
      BY <1>5 DEF UpdateContext
    <3>2. calls + 1 \in Updates /\ "update" \in Purposes
      BY <1>4, <3>1 DEF Purposes
    <3> QED
      BY <3>1, <3>2, BeginFlushIsTyped
  <2>2. calls' \in Updates /\ current' \in Updates /\ current' <= calls'
    <3>1. calls' \in Nat
      BY <1>4, <1>5 DEF UpdateContext, Updates
    <3> QED
      BY <1>4, <1>5, <3>1 DEF UpdateContext
  <2>3. /\ UNCHANGED <<started, collecting, executing, session, tracked, context, orphans>>
        /\ UNCHANGED <<recorded, evicted, reported, counted>> /\ timer' = FALSE
    BY <1>5 DEF UpdateContext, CancelScheduledFlush, history
  <2> QED
    BY <1>d, <2>1, <2>2, <2>3 DEF TypeOK, Queue
<1>6. CASE ForceFlush
  <2>1. flushes' \in Seq(Flush) /\ (queue' = EmptyQueue \/ queue' = queue)
    <3>1. CASE BeginFlush("scheduled", 0)
      BY <1>c, <3>1, BeginFlushIsTyped DEF Purposes
    <3>2. CASE UNCHANGED <<flushes, queue>>
      BY <3>2 DEF TypeOK
    <3> QED
      BY <1>6, <3>1, <3>2 DEF ForceFlush
  <2>2. calls' \in Updates /\ current' \in Updates /\ current' <= calls'
    BY <1>4, <1>6 DEF ForceFlush
  <2>3. /\ UNCHANGED <<started, collecting, executing, session, tracked, context, orphans>>
        /\ UNCHANGED <<recorded, evicted, reported, counted>> /\ timer' = FALSE
    BY <1>6 DEF ForceFlush, CancelScheduledFlush, history
  <2> QED
    BY <1>d, <2>1, <2>2, <2>3 DEF TypeOK, Queue
<1>7. CASE Close
  <2>1. flushes' \in Seq(Flush) /\ queue' = EmptyQueue
    BY <1>7, <1>c, BeginFlushIsTyped DEF Close, Purposes
  <2>2. calls' \in Updates /\ current' \in Updates /\ current' <= calls'
    BY <1>4, <1>7 DEF Close
  <2>3. /\ UNCHANGED <<started, executing, session, tracked, context, orphans>>
        /\ UNCHANGED <<recorded, evicted, reported, counted>>
        /\ timer' = FALSE /\ collecting' = FALSE
    BY <1>7 DEF Close, CancelScheduledFlush, history
  <2> QED
    BY <1>d, <2>1, <2>2, <2>3 DEF TypeOK, Queue
<1>8. CASE FlushTimeout
  <2>1. flushes' \in Seq(Flush) /\ (queue' = EmptyQueue \/ queue' = queue)
    <3>1. CASE BeginFlush("scheduled", 0)
      BY <1>c, <3>1, BeginFlushIsTyped DEF Purposes
    <3>2. CASE UNCHANGED <<flushes, queue>>
      BY <3>2 DEF TypeOK
    <3> QED
      BY <1>8, <3>1, <3>2 DEF FlushTimeout
  <2>2. timer' \in BOOLEAN /\ orphans' \in Nat
    <3>1. timer \in BOOLEAN /\ orphans \in Nat
      BY DEF TypeOK
    <3>2. \/ timer' = FALSE /\ orphans' = orphans
          \/ orphans > 0 /\ orphans' = orphans - 1 /\ timer' = timer
      BY <1>8 DEF FlushTimeout
    <3>3. timer' \in BOOLEAN
      BY <3>1, <3>2
    <3>4. orphans' \in Nat
      BY <3>1, <3>2
    <3> QED
      BY <3>3, <3>4
  <2>3. /\ UNCHANGED <<started, collecting, executing, session, tracked, context, current, calls>>
        /\ UNCHANGED <<recorded, evicted, reported, counted>>
    BY <1>8 DEF FlushTimeout, ownerVars, history
  <2> QED
    BY <1>d, <2>1, <2>2, <2>3 DEF TypeOK, Queue
<1>9. CASE SessionResolves
  BY <1>9 DEF SessionResolves, TypeOK, timerVars, ownerVars, history
<1>10. ASSUME NEW i \in DOMAIN flushes, Reaction(i) \/ Environment(i) PROVE TypeOK'
  <2>1. flushes[i] \in Flush
    BY <1>10 DEF TypeOK
  <2>2. CASE HashingEnds(i)
    <3>1. flushes' \in Seq(Flush)
      <4> DEFINE f == [flushes[i] EXCEPT !.stage = "report"]
      <4>1. f \in Flush
        BY <2>1 DEF Flush, Stages
      <4>2. flushes' = [flushes EXCEPT ![i] = f]
        BY <2>2 DEF HashingEnds
      <4> QED
        BY <4>1, <4>2, ChangedFlushIsTyped
    <3> QED
      BY <2>2, <3>1 DEF HashingEnds, TypeOK, timerVars, ownerVars, history
  <2>3. CASE Report(i)
    <3>1. flushes' \in Seq(Flush)
      <4> DEFINE f == [flushes[i] EXCEPT !.batch = tracked, !.fatal = ~executing,
                                         !.stage = IF executing THEN "session" ELSE "answered"]
      <4>1. f \in Flush
        BY <2>1 DEF Flush, Stages, TypeOK
      <4>2. flushes' = [flushes EXCEPT ![i] = f]
        BY <2>3 DEF Report
      <4> QED
        BY <4>1, <4>2, ChangedFlushIsTyped
    <3> QED
      BY <2>3, <1>b, <3>1 DEF Report, TypeOK, timerVars, ownerVars, history
  <2>4. CASE SendReport(i)
    <3>1. flushes' \in Seq(Flush)
      <4> DEFINE f == [flushes[i] EXCEPT !.stage =
                          IF IsReportEmpty(flushes[i]) THEN "answered" ELSE "sending"]
      <4>1. f \in Flush
        BY <2>1 DEF Flush, Stages
      <4>2. flushes' = [flushes EXCEPT ![i] = f]
        BY <2>4 DEF SendReport
      <4> QED
        BY <4>1, <4>2, ChangedFlushIsTyped
    <3>2. Contents(flushes[i]) \subseteq Events
      BY <2>1 DEF Contents, ToSet, Flush
    <3> QED
      BY <2>4, <3>1, <3>2 DEF SendReport, TypeOK, timerVars, ownerVars
  <2>5. CASE ReportAnswered(i)
    <3>1. PICK fatal \in BOOLEAN :
              /\ flushes' = [flushes EXCEPT ![i].stage = "answered", ![i].fatal = fatal]
              /\ executing' = (executing /\ ~fatal)
      BY <2>5 DEF ReportAnswered
    <3>2. flushes' \in Seq(Flush)
      <4> DEFINE f == [flushes[i] EXCEPT !.stage = "answered", !.fatal = fatal]
      <4>1. f \in Flush
        BY <2>1 DEF Flush, Stages
      <4>2. flushes' = [flushes EXCEPT ![i] = f]
        BY <3>1
      <4> QED
        BY <4>1, <4>2, ChangedFlushIsTyped
    <3>3. executing' \in BOOLEAN
      BY <3>1
    <3> QED
      BY <2>5, <3>2, <3>3 DEF ReportAnswered, TypeOK, timerVars, ownerVars, history
  <2>6. CASE FlushReturns(i)
    <3>1. counted' \in Nat
      <4>1. flushes[i].dropped \in Nat
        BY <2>1 DEF Flush
      <4>2. counted \in Nat /\ counted' = counted + flushes[i].dropped
        BY <2>6 DEF FlushReturns, TypeOK
      <4> QED
        BY <4>1, <4>2
    <3>2. /\ flushes' \in Seq(Flush)
          /\ queue' = EmptyQueue \/ queue' = queue
      <4>1. CASE FlushAgain(i, "scheduled") \/ FlushAgain(i, "close")
        BY <1>c, <4>1, BeginFlushIsTyped DEF Purposes
      <4>2. CASE flushes' = RemoveAt(flushes, i) /\ (queue' = queue \/ queue' = EmptyQueue)
        BY <4>2, EndIsTyped
      <4> QED
        BY <2>6, <4>1, <4>2 DEF FlushReturns, AdoptContext, ScheduleNext, ClearQueues, End
    <3>3. context' \in Updates
      BY <2>1, <2>6 DEF FlushReturns, AdoptContext, ScheduleNext, ClearQueues, TypeOK, Flush
    <3>4. timer' \in BOOLEAN /\ orphans' \in Nat /\ collecting' \in BOOLEAN
      BY <2>6 DEF FlushReturns, AdoptContext, ScheduleNext, ClearQueues, Reschedule,
                  CancelScheduledFlush, timerVars, TypeOK
    <3>5. tracked' = tracked \/ tracked' = <<>>
      BY <2>6 DEF FlushReturns, AdoptContext, ScheduleNext, ClearQueues
    <3> QED
      <4>1. tracked' \in Seq(Events) /\ Len(tracked') <= BatchLimit
        <5>1. CASE tracked' = tracked
          BY <5>1 DEF TypeOK
        <5>2. CASE tracked' = <<>>
          BY <1>b, <5>2
        <5> QED
          BY <3>5, <5>1, <5>2
      <4>2. UNCHANGED <<started, executing, session, current, calls, recorded, evicted, reported>>
        BY <2>6 DEF FlushReturns, ownerVars
      <4> QED
        BY <1>d, <3>1, <3>2, <3>3, <3>4, <4>1, <4>2 DEF TypeOK, Queue
  <2> QED
    BY <1>10, <2>2, <2>3, <2>4, <2>5, <2>6 DEF Reaction, Environment
<1>11. CASE UNCHANGED vars
  BY <1>11 DEF vars, timerVars, ownerVars, history, TypeOK
<1> QED
  BY <1>1, <1>2, <1>3, <1>5, <1>6, <1>7, <1>8, <1>9, <1>10, <1>11 DEF Next, Owner

LEMMA InitIsTyped == Init => TypeOK
<1> SUFFICES ASSUME Init PROVE TypeOK
  OBVIOUS
<1>1. 0 \in Updates /\ 0 <= QueueLimit /\ 0 <= BatchLimit
  BY LimitsAssumption, BoundsAssumption DEF Updates
<1>2. queue \in [events : Seq(Events), dropped : Nat] /\ Len(queue.events) <= QueueLimit
  BY <1>1 DEF Init, EmptyQueue
<1>3. tracked \in Seq(Events) /\ Len(tracked) <= BatchLimit /\ flushes \in Seq(Flush)
  BY <1>1 DEF Init
<1>4. /\ context \in Updates /\ current \in Updates /\ calls \in Updates /\ current <= calls
      /\ recorded \in Nat /\ counted \in Nat /\ orphans \in Nat
  BY <1>1 DEF Init
<1>5. /\ started \in BOOLEAN /\ collecting \in BOOLEAN /\ executing \in BOOLEAN
      /\ session \in BOOLEAN /\ timer \in BOOLEAN
  BY DEF Init
<1>6. evicted \subseteq Events /\ reported \subseteq Events
  BY DEF Init
<1> QED
  BY <1>2, <1>3, <1>4, <1>5, <1>6 DEF TypeOK

\* The queues never exceed their limits, and every variable keeps its type, however the
\* owner's calls and the flushes interleave.
THEOREM TypeCorrect == Spec => []TypeOK
BY InitIsTyped, StepIsTyped, PTL DEF Spec

(***************************************************************************)
(* The end of reporting.  report() reads executeRequests before it awaits  *)
(* the client session, so a flush past that check must not still wait when *)
(* the fatal answer comes.  It cannot: an answer is awaited only once the  *)
(* session is resolved, and an answer runs only when nothing is due, when  *)
(* no flush is left waiting for a resolved session.                        *)
(***************************************************************************)
FatalInv ==
    /\ \A i \in DOMAIN flushes : flushes[i].stage = "sending" => session
    /\ ~executing => session /\ \A i \in DOMAIN flushes : flushes[i].stage # "session"

\* Changing one flush keeps FatalInv if the changed flush satisfies it.
LEMMA FatalInvOfChange ==
    ASSUME TypeOK, FatalInv, NEW i \in DOMAIN flushes, NEW f \in Flush,
           flushes' = [flushes EXCEPT ![i] = f], UNCHANGED <<session, executing>>,
           f.stage = "sending" => session, ~executing => f.stage # "session"
    PROVE  FatalInv'
<1>1. DOMAIN flushes' = DOMAIN flushes
  OBVIOUS
<1>2. \A j \in DOMAIN flushes : flushes'[j] = IF j = i THEN f ELSE flushes[j]
  OBVIOUS
<1> QED
  BY <1>1, <1>2 DEF FatalInv

\* A flush that begins is neither sending nor waiting for the session.
LEMMA FatalInvOfBeginning ==
    ASSUME TypeOK, FatalInv, UNCHANGED <<session, executing>>,
           NEW purpose \in Purposes, NEW update \in Updates, BeginFlush(purpose, update)
    PROVE  FatalInv'
<1>1. PICK f \in Flushes(purpose, update) : flushes' = Append(flushes, f)
  BY BeginFlushIsTyped
<1>2. f \in Flush /\ f.stage \in {"report", "hashing"}
  BY FlushesAreTyped
<1>3. flushes \in Seq(Flush)
  BY DEF TypeOK
<1>4. /\ DOMAIN flushes' = DOMAIN flushes \cup {Len(flushes) + 1}
      /\ flushes'[Len(flushes) + 1] = f
      /\ \A j \in DOMAIN flushes : flushes'[j] = flushes[j]
  BY <1>1, <1>2, <1>3
<1> QED
  BY <1>2, <1>4 DEF FatalInv

\* Every step keeps FatalInv.
LEMMA StepKeepsFatalInv == TypeOK /\ FatalInv /\ [Next]_vars => FatalInv'
<1> SUFFICES ASSUME TypeOK, FatalInv, [Next]_vars PROVE FatalInv'
  OBVIOUS
<1>0. 0 \in Updates /\ {"scheduled", "update", "close"} \subseteq Purposes
  BY BoundsAssumption DEF Updates, Purposes
<1>1. CASE UNCHANGED <<flushes, session, executing>>
  BY <1>1 DEF FatalInv
<1>2. CASE Start \/ EvaluatedConfig \/ TrackedEvent
  BY <1>1, <1>2 DEF Start, EvaluatedConfig, TrackedEvent
<1>3. CASE UpdateContext
  <2>1. calls + 1 \in Updates
    BY <1>3, BoundsAssumption DEF UpdateContext, Call, Updates, TypeOK
  <2>2. BeginFlush("update", calls + 1) /\ UNCHANGED <<session, executing>>
    BY <1>3 DEF UpdateContext
  <2> QED
    BY <1>0, <2>1, <2>2, FatalInvOfBeginning
<1>4. CASE ForceFlush \/ Close \/ FlushTimeout
  <2>1. UNCHANGED <<session, executing>>
    BY <1>4 DEF ForceFlush, Close, FlushTimeout
  <2>2. BeginFlush("scheduled", 0) \/ BeginFlush("close", 0) \/ flushes' = flushes
    BY <1>4 DEF ForceFlush, Close, FlushTimeout
  <2> QED
    BY <1>0, <1>1, <2>1, <2>2, FatalInvOfBeginning
<1>5. CASE SessionResolves
  BY <1>5 DEF SessionResolves, FatalInv
<1>6. ASSUME NEW i \in DOMAIN flushes, Reaction(i) \/ Environment(i) PROVE FatalInv'
  <2>1. flushes[i] \in Flush /\ flushes \in Seq(Flush)
    BY <1>6 DEF TypeOK
  <2>2. CASE HashingEnds(i)
    <3> DEFINE f == [flushes[i] EXCEPT !.stage = "report"]
    <3>1. f \in Flush /\ f.stage = "report"
      BY <2>1 DEF Flush, Stages
    <3>2. flushes' = [flushes EXCEPT ![i] = f] /\ UNCHANGED <<session, executing>>
      BY <2>2 DEF HashingEnds
    <3> QED
      BY <3>1, <3>2, FatalInvOfChange
  <2>3. CASE Report(i)
    <3> DEFINE f == [flushes[i] EXCEPT !.batch = tracked, !.fatal = ~executing,
                                       !.stage = IF executing THEN "session" ELSE "answered"]
    <3>1. f \in Flush /\ f.stage = (IF executing THEN "session" ELSE "answered")
      BY <2>1 DEF Flush, Stages, TypeOK
    <3>2. flushes' = [flushes EXCEPT ![i] = f] /\ UNCHANGED <<session, executing>>
      BY <2>3 DEF Report
    <3> HIDE DEF f
    <3> QED
      BY <3>1, <3>2, FatalInvOfChange
  <2>4. CASE SendReport(i)
    <3> DEFINE f == [flushes[i] EXCEPT !.stage =
                        IF IsReportEmpty(flushes[i]) THEN "answered" ELSE "sending"]
    <3>1. f \in Flush /\ f.stage \in {"answered", "sending"}
      BY <2>1 DEF Flush, Stages
    <3>2. flushes' = [flushes EXCEPT ![i] = f] /\ UNCHANGED <<session, executing>> /\ session
      BY <2>4 DEF SendReport
    <3> QED
      BY <3>1, <3>2, FatalInvOfChange
  <2>5. CASE ReportAnswered(i)
    <3>1. PICK fatal \in BOOLEAN :
              flushes' = [flushes EXCEPT ![i].stage = "answered", ![i].fatal = fatal]
      BY <2>5 DEF ReportAnswered
    <3>2. session /\ session' = session
      BY <2>5 DEF ReportAnswered, FatalInv
    <3>3. \A j \in DOMAIN flushes : flushes[j].stage # "session"
      BY <2>5, <3>2 DEF ReportAnswered, Quiet, Due
    <3>4. /\ DOMAIN flushes' = DOMAIN flushes
          /\ flushes'[i].stage = "answered"
          /\ \A j \in DOMAIN flushes : j # i => flushes'[j] = flushes[j]
      <4> DEFINE f == [flushes[i] EXCEPT !.stage = "answered", !.fatal = fatal]
      <4>1. f.stage = "answered"
        BY <2>1 DEF Flush
      <4>2. flushes' = [flushes EXCEPT ![i] = f]
        BY <3>1
      <4> HIDE DEF f
      <4> QED
        BY <4>1, <4>2
    <3> QED
      BY <3>2, <3>3, <3>4 DEF FatalInv
  <2>6. CASE FlushReturns(i)
    <3>1. UNCHANGED <<session, executing>>
      BY <2>6 DEF FlushReturns
    <3>2. CASE flushes' = RemoveAt(flushes, i)
      BY <3>1, <3>2, EndIsTyped DEF FatalInv
    <3>3. ASSUME NEW purpose \in Purposes, FlushAgain(i, purpose) PROVE FatalInv'
      <4>1. PICK f \in Flushes(purpose, 0) : flushes' = [flushes EXCEPT ![i] = f]
        BY <3>3 DEF FlushAgain
      <4>2. f \in Flush /\ f.stage \in {"report", "hashing"}
        BY <1>0, FlushesAreTyped
      <4> QED
        BY <3>1, <4>1, <4>2, FatalInvOfChange
    <3> QED
      BY <1>0, <2>6, <3>2, <3>3
         DEF FlushReturns, AdoptContext, ScheduleNext, ClearQueues, End
  <2> QED
    BY <1>6, <2>2, <2>3, <2>4, <2>5, <2>6 DEF Reaction, Environment
<1>7. CASE UNCHANGED vars
  BY <1>1, <1>7 DEF vars
<1> QED
  BY <1>2, <1>3, <1>4, <1>5, <1>6, <1>7 DEF Next, Owner

\* After a fatal answer no further event is sent, not even by a flush that began before.
THEOREM FatalErrorIsAlwaysFinal == Spec => FatalErrorIsFinal
<1>1. Init => FatalInv
  BY DEF Init, FatalInv
<1>2. TypeOK /\ FatalInv /\ [Next]_vars => [~executing => reported' = reported]_vars
  <2> SUFFICES ASSUME FatalInv, Next, ~executing PROVE reported' = reported
    BY DEF vars, history
  <2>1. CASE Owner
    BY <2>1 DEF Owner, Start, EvaluatedConfig, TrackedEvent, UpdateContext, ForceFlush, Close,
                history
  <2>2. CASE FlushTimeout \/ SessionResolves
    BY <2>2 DEF FlushTimeout, SessionResolves, history
  <2>3. ASSUME NEW i \in DOMAIN flushes, Reaction(i) \/ Environment(i) PROVE reported' = reported
    <3>1. ~SendReport(i)
      BY DEF SendReport, FatalInv
    <3> QED
      BY <2>3, <3>1 DEF Reaction, Environment, Report, FlushReturns, HashingEnds, ReportAnswered,
                        history
  <2> QED
    BY <2>1, <2>2, <2>3 DEF Next
<1>3. Spec => [](TypeOK /\ FatalInv)
  <2>1. Spec => []TypeOK
    BY TypeCorrect
  <2>2. Spec => [][Next]_vars
    BY PTL DEF Spec
  <2> QED
    BY <1>1, <2>1, <2>2, StepKeepsFatalInv, PTL DEF Spec
<1> QED
  BY <1>2, <1>3, PTL DEF Spec, FatalErrorIsFinal

(***************************************************************************)
(* The accounting of events.  It is inductive once it says also where an   *)
(* event can be no longer: a flush that has not come to its report has no  *)
(* batch yet, a collector that stopped has an empty queue, and the flush   *)
(* of a close that is past its report found the last tracked events, so    *)
(* that clearing the queues after it loses nothing.                        *)
(***************************************************************************)
Admitted ==
    /\ Waiting \cup reported \subseteq 1 .. recorded
    /\ \A j \in DOMAIN flushes : Contents(flushes[j]) \subseteq 1 .. recorded

HeldOnce ==
    /\ ToSet(queue.events) \cap ToSet(tracked) = {}
    /\ Waiting \cap reported = {}
    /\ \A j \in DOMAIN flushes :
          /\ Contents(flushes[j]) \cap Waiting = {}
          /\ Unsent(flushes[j]) => Contents(flushes[j]) \cap reported = {}
    /\ \A j, k \in DOMAIN flushes :
          j # k => Contents(flushes[j]) \cap Contents(flushes[k]) = {}

CloseTakesTheLast ==
    /\ ~collecting => queue.events = <<>>
    /\ \A j \in DOMAIN flushes :
          /\ flushes[j].stage \in {"hashing", "report"} => flushes[j].batch = <<>>
          /\ flushes[j].purpose = "close" =>
                ~collecting /\ (flushes[j].stage \notin {"hashing", "report"} => tracked = <<>>)

AccountInv == Admitted /\ HeldOnce /\ CloseTakesTheLast /\ NothingLost

\* What the flushes that have not sent have taken, event by event.
LEMMA TakenEvents ==
    \A e : e \in Taken <=> \E j \in DOMAIN flushes : Unsent(flushes[j]) /\ e \in Contents(flushes[j])
BY DEF Taken

\* A pushed event and those the queue held are in the queue afterwards or dropped.
LEMMA PushAccounts ==
    ASSUME NEW q \in Queue, NEW e \in Events, NEW limit \in Nat \ {0}, Len(q.events) <= limit
    PROVE  ToSet(Push(q, e, limit).events) \cup {q.events[i] : i \in 1 .. Overflow(q, limit)}
               = ToSet(q.events) \cup {e}
<1> DEFINE n == Overflow(q, limit)
           kept == Behead(q.events, n)
<1>1. n \in Nat /\ n <= Len(q.events) /\ Len(q.events) \in Nat
  BY DEF Overflow, Excess, Queue
<1>2. q.events \in Seq(Events)
  BY DEF Queue
<1>3. /\ kept \in Seq(Events) /\ Len(kept) = Len(q.events) - n
      /\ \A j \in 1 .. Len(q.events) - n : kept[j] = q.events[n + j]
  BY <1>1, <1>2 DEF Behead
<1>4. Push(q, e, limit).events = Append(kept, e)
  BY DEF Push
<1> HIDE DEF n, kept
<1>5. ToSet(Append(kept, e)) = ToSet(kept) \cup {e}
  <2>1. /\ DOMAIN Append(kept, e) = 1 .. Len(kept) + 1 /\ DOMAIN kept = 1 .. Len(kept)
        /\ Append(kept, e)[Len(kept) + 1] = e /\ Len(kept) \in Nat
        /\ \A j \in 1 .. Len(kept) : Append(kept, e)[j] = kept[j]
    BY <1>3
  <2>2. 1 .. Len(kept) + 1 = (1 .. Len(kept)) \cup {Len(kept) + 1}
    BY <2>1
  <2> DEFINE longer == Append(kept, e)
  <2>3. /\ DOMAIN longer = DOMAIN kept \cup {Len(kept) + 1} /\ longer[Len(kept) + 1] = e
        /\ \A j \in DOMAIN kept : longer[j] = kept[j]
    BY <2>1, <2>2
  <2> HIDE DEF longer
  <2>4. ToSet(longer) = ToSet(kept) \cup {e}
    BY <2>3 DEF ToSet
  <2> QED
    BY <2>4 DEF longer
<1>6. ToSet(kept) \cup {q.events[i] : i \in 1 .. n} = ToSet(q.events)
  <2>1. DOMAIN q.events = 1 .. Len(q.events) /\ DOMAIN kept = 1 .. Len(q.events) - n
    BY <1>2, <1>3
  <2>2. ASSUME NEW j \in 1 .. Len(q.events) - n
        PROVE  n + j \in 1 .. Len(q.events) /\ kept[j] = q.events[n + j]
    <3>1. n + j \in 1 .. Len(q.events)
      BY <1>1
    <3> QED
      BY <1>3, <3>1
  <2>3. ASSUME NEW k \in 1 .. Len(q.events)
        PROVE  k \in 1 .. n \/ (k - n \in 1 .. Len(q.events) - n /\ kept[k - n] = q.events[k])
    BY <1>1, <1>3
  <2>4. 1 .. n \subseteq 1 .. Len(q.events)
    BY <1>1
  <2> QED
    BY <2>1, <2>2, <2>3, <2>4 DEF ToSet
<1> QED
  BY <1>4, <1>5, <1>6 DEF n

\* A flush that begins takes what the evaluation queue holds, and nothing else.
LEMMA BeginningAccounts ==
    ASSUME TypeOK, AccountInv, NEW purpose \in Purposes, NEW update \in Updates,
           BeginFlush(purpose, update), UNCHANGED <<tracked, recorded, evicted, reported, executing>>,
           collecting' => collecting, purpose = "close" => ~collecting'
    PROVE  AccountInv'
<1>1. PICK f \in Flushes(purpose, update) : flushes' = Append(flushes, f)
  BY BeginFlushIsTyped
<1>2. /\ f \in Flush /\ f.stage \in {"report", "hashing"} /\ f.purpose = purpose
      /\ f.batch = <<>> /\ f.events = queue.events
  BY <1>1, FlushesAreTyped DEF Flushes, Snapshot
<1>3. flushes \in Seq(Flush)
  BY DEF TypeOK
<1> DEFINE n == Len(flushes) + 1
<1>4. /\ DOMAIN flushes' = DOMAIN flushes \cup {n} /\ n \notin DOMAIN flushes
      /\ flushes'[n] = f
      /\ \A j \in DOMAIN flushes : flushes'[j] = flushes[j]
  BY <1>1, <1>2, <1>3
<1> HIDE DEF n
<1>5. queue' = EmptyQueue /\ queue'.events = <<>>
  BY BeginFlushIsTyped DEF EmptyQueue
<1>6. ToSet(<<>>) = {}
  BY DEF ToSet
<1>7. Contents(f) = ToSet(queue.events) /\ Unsent(f)
  BY <1>2, <1>6 DEF Contents, Unsent
<1>8. Waiting' = ToSet(tracked) /\ Waiting = ToSet(queue.events) \cup ToSet(tracked)
  BY <1>5, <1>6 DEF Waiting
<1>9. Taken' = Taken \cup ToSet(queue.events)
  BY <1>4, <1>7 DEF Taken
<1>10. Admitted'
  BY <1>4, <1>7, <1>8 DEF AccountInv, Admitted
<1>11. HeldOnce'
  BY <1>4, <1>5, <1>6, <1>7, <1>8 DEF AccountInv, HeldOnce
<1>12. CloseTakesTheLast'
  BY <1>2, <1>4, <1>5 DEF AccountInv, CloseTakesTheLast
<1>13. NothingLost'
  BY <1>8, <1>9 DEF AccountInv, NothingLost
<1> QED
  BY <1>10, <1>11, <1>12, <1>13 DEF AccountInv

\* The flush that goes on is the only one that changes.
LEMMA OneFlushChanges ==
    ASSUME TypeOK, NEW i \in DOMAIN flushes, NEW f, flushes' = [flushes EXCEPT ![i] = f]
    PROVE  /\ DOMAIN flushes' = DOMAIN flushes
           /\ flushes'[i] = f
           /\ \A j \in DOMAIN flushes : j # i => flushes'[j] = flushes[j]
OBVIOUS

\* The hashing of a flush ends: nothing moves.
LEMMA HashingAccounts ==
    ASSUME TypeOK, AccountInv, NEW i \in DOMAIN flushes, HashingEnds(i)
    PROVE  AccountInv'
<1> DEFINE f == [flushes[i] EXCEPT !.stage = "report"]
<1>1. flushes[i] \in Flush
  BY DEF TypeOK
<1>2. /\ f.stage = "report" /\ f.purpose = flushes[i].purpose
      /\ f.batch = flushes[i].batch /\ f.events = flushes[i].events
  BY <1>1 DEF Flush
<1>3. flushes' = [flushes EXCEPT ![i] = f]
  BY DEF HashingEnds
<1>4. /\ Contents(f) = Contents(flushes[i]) /\ Unsent(f) /\ Unsent(flushes[i])
      /\ flushes[i].stage = "hashing"
  BY <1>2 DEF Contents, Unsent, HashingEnds
<1> HIDE DEF f
<1>5. /\ DOMAIN flushes' = DOMAIN flushes
      /\ flushes'[i] = f
      /\ \A j \in DOMAIN flushes : j # i => flushes'[j] = flushes[j]
  BY <1>3, OneFlushChanges
<1>6. /\ UNCHANGED <<collecting, executing, queue, tracked, recorded, evicted, reported>>
      /\ Waiting' = Waiting
  BY DEF HashingEnds, history, Waiting
<1>7. \A j \in DOMAIN flushes :
          /\ Contents(flushes'[j]) = Contents(flushes[j])
          /\ Unsent(flushes'[j]) <=> Unsent(flushes[j])
  BY <1>4, <1>5
<1>8. Taken' = Taken
  BY <1>5, <1>7 DEF Taken
<1>9. Admitted' /\ HeldOnce'
  BY <1>5, <1>6, <1>7 DEF AccountInv, Admitted, HeldOnce
<1>10. CloseTakesTheLast'
  BY <1>2, <1>4, <1>5, <1>6 DEF AccountInv, CloseTakesTheLast
<1>11. NothingLost'
  BY <1>6, <1>8 DEF AccountInv, NothingLost
<1> QED
  BY <1>9, <1>10, <1>11 DEF AccountInv

\* A flush takes the tracked events into its batch, which was empty; only a collector that
\* has had a fatal answer loses them.
LEMMA ReportAccounts ==
    ASSUME TypeOK, AccountInv, NEW i \in DOMAIN flushes, Report(i)
    PROVE  AccountInv'
<1> DEFINE f == [flushes[i] EXCEPT !.batch = tracked, !.fatal = ~executing,
                                   !.stage = IF executing THEN "session" ELSE "answered"]
<1>1. flushes[i] \in Flush /\ flushes[i].stage = "report" /\ flushes[i].batch = <<>>
  BY DEF TypeOK, Report, AccountInv, CloseTakesTheLast
<1>2. /\ f.stage = (IF executing THEN "session" ELSE "answered")
      /\ f.purpose = flushes[i].purpose
      /\ f.batch = tracked /\ f.events = flushes[i].events
  BY <1>1 DEF Flush
<1>3. flushes' = [flushes EXCEPT ![i] = f]
  BY DEF Report
<1>4. ToSet(<<>>) = {}
  BY DEF ToSet
<1>5. /\ Contents(f) = Contents(flushes[i]) \cup ToSet(tracked)
      /\ Unsent(flushes[i]) /\ (executing => Unsent(f))
      /\ Unsent(f) => executing
  BY <1>1, <1>2, <1>4 DEF Contents, Unsent
<1> HIDE DEF f
<1>6. /\ DOMAIN flushes' = DOMAIN flushes
      /\ flushes'[i] = f
      /\ \A j \in DOMAIN flushes : j # i => flushes'[j] = flushes[j]
  BY <1>3, OneFlushChanges
<1>7. /\ UNCHANGED <<collecting, executing, queue, recorded, evicted, reported>>
      /\ tracked' = <<>>
  BY DEF Report, history
<1>8. Waiting' = ToSet(queue.events) /\ Waiting = ToSet(queue.events) \cup ToSet(tracked)
  BY <1>4, <1>7 DEF Waiting
<1>9. executing => Taken' = Taken \cup ToSet(tracked)
  BY <1>5, <1>6 DEF Taken
<1>10. Admitted'
  BY <1>5, <1>6, <1>7, <1>8 DEF AccountInv, Admitted
<1>11. HeldOnce'
  <2>1. ToSet(queue'.events) \cap ToSet(tracked') = {} /\ Waiting' \cap reported' = {}
    BY <1>4, <1>7, <1>8 DEF AccountInv, HeldOnce
  <2>2. ASSUME NEW j \in DOMAIN flushes'
        PROVE  /\ Contents(flushes'[j]) \cap Waiting' = {}
               /\ Unsent(flushes'[j]) => Contents(flushes'[j]) \cap reported' = {}
    BY <1>5, <1>6, <1>7, <1>8 DEF AccountInv, HeldOnce
  <2>3. ASSUME NEW j \in DOMAIN flushes', NEW k \in DOMAIN flushes', j # k
        PROVE  Contents(flushes'[j]) \cap Contents(flushes'[k]) = {}
    BY <1>5, <1>6, <1>7, <1>8, <2>3 DEF AccountInv, HeldOnce
  <2> QED
    BY <2>1, <2>2, <2>3 DEF HeldOnce
<1>12. CloseTakesTheLast'
  BY <1>2, <1>6, <1>7 DEF AccountInv, CloseTakesTheLast
<1>13. NothingLost'
  BY <1>7, <1>8, <1>9 DEF AccountInv, NothingLost
<1> QED
  BY <1>10, <1>11, <1>12, <1>13 DEF AccountInv

\* What a flush has taken is put in its request.
LEMMA SendingAccounts ==
    ASSUME TypeOK, AccountInv, NEW i \in DOMAIN flushes, SendReport(i)
    PROVE  AccountInv'
<1> DEFINE f == [flushes[i] EXCEPT !.stage =
                    IF IsReportEmpty(flushes[i]) THEN "answered" ELSE "sending"]
<1>1. flushes[i] \in Flush /\ flushes[i].stage = "session"
  BY DEF TypeOK, SendReport
<1>2. /\ f.stage \in {"answered", "sending"} /\ f.purpose = flushes[i].purpose
      /\ f.batch = flushes[i].batch /\ f.events = flushes[i].events
  BY <1>1 DEF Flush
<1>3. flushes' = [flushes EXCEPT ![i] = f]
  BY DEF SendReport
<1>4. Contents(f) = Contents(flushes[i]) /\ ~Unsent(f) /\ Unsent(flushes[i])
  BY <1>1, <1>2 DEF Contents, Unsent
<1> HIDE DEF f
<1>5. /\ DOMAIN flushes' = DOMAIN flushes
      /\ flushes'[i] = f
      /\ \A j \in DOMAIN flushes : j # i => flushes'[j] = flushes[j]
  BY <1>3, OneFlushChanges
<1>6. /\ UNCHANGED <<collecting, executing, queue, tracked, recorded, evicted>>
      /\ Waiting' = Waiting /\ reported' = reported \cup Contents(flushes[i])
  BY DEF SendReport, Waiting
<1>7. Taken = Taken' \cup Contents(flushes[i])
  BY <1>4, <1>5 DEF Taken
<1>8. Admitted'
  BY <1>4, <1>5, <1>6 DEF AccountInv, Admitted
<1>9. HeldOnce'
  <2>1. \A j \in DOMAIN flushes' : Contents(flushes'[j]) = Contents(flushes[j])
    BY <1>4, <1>5
  <2>2. ASSUME NEW j \in DOMAIN flushes', Unsent(flushes'[j])
        PROVE  Contents(flushes'[j]) \cap reported' = {}
    <3>1. j # i /\ Unsent(flushes[j])
      BY <1>4, <1>5, <2>2
    <3>2. Contents(flushes[j]) \cap Contents(flushes[i]) = {}
      BY <1>5, <3>1 DEF AccountInv, HeldOnce
    <3> QED
      BY <1>5, <1>6, <2>1, <3>1, <3>2 DEF AccountInv, HeldOnce
  <2> QED
    BY <1>5, <1>6, <2>1, <2>2 DEF AccountInv, HeldOnce
<1>10. CloseTakesTheLast'
  BY <1>1, <1>2, <1>5, <1>6 DEF AccountInv, CloseTakesTheLast
<1>11. NothingLost'
  BY <1>6, <1>7 DEF AccountInv, NothingLost
<1> QED
  BY <1>8, <1>9, <1>10, <1>11 DEF AccountInv

\* An answer moves no event; after a fatal one nothing is promised.
LEMMA AnswerAccounts ==
    ASSUME TypeOK, AccountInv, NEW i \in DOMAIN flushes, ReportAnswered(i)
    PROVE  AccountInv'
<1>0. PICK fatal \in BOOLEAN :
          /\ flushes' = [flushes EXCEPT ![i].stage = "answered", ![i].fatal = fatal]
          /\ executing' = (executing /\ ~fatal)
  BY DEF ReportAnswered
<1> DEFINE f == [flushes[i] EXCEPT !.stage = "answered", !.fatal = fatal]
<1>1. flushes[i] \in Flush /\ flushes[i].stage = "sending"
  BY DEF TypeOK, ReportAnswered
<1>2. /\ f.stage = "answered" /\ f.purpose = flushes[i].purpose
      /\ f.batch = flushes[i].batch /\ f.events = flushes[i].events
  BY <1>1 DEF Flush
<1>3. flushes' = [flushes EXCEPT ![i] = f]
  BY <1>0
<1>4. Contents(f) = Contents(flushes[i]) /\ ~Unsent(f) /\ ~Unsent(flushes[i])
  BY <1>1, <1>2 DEF Contents, Unsent
<1> HIDE DEF f
<1>5. /\ DOMAIN flushes' = DOMAIN flushes
      /\ flushes'[i] = f
      /\ \A j \in DOMAIN flushes : j # i => flushes'[j] = flushes[j]
  BY <1>3, OneFlushChanges
<1>6. /\ UNCHANGED <<collecting, queue, tracked, recorded, evicted, reported>>
      /\ Waiting' = Waiting /\ (executing' => executing)
  BY <1>0 DEF ReportAnswered, history, Waiting
<1>7. \A j \in DOMAIN flushes :
          /\ Contents(flushes'[j]) = Contents(flushes[j])
          /\ Unsent(flushes'[j]) <=> Unsent(flushes[j])
  BY <1>4, <1>5
<1>8. Taken' = Taken
  BY <1>5, <1>7 DEF Taken
<1>9. Admitted' /\ HeldOnce'
  BY <1>5, <1>6, <1>7 DEF AccountInv, Admitted, HeldOnce
<1>10. CloseTakesTheLast'
  BY <1>1, <1>2, <1>5, <1>6 DEF AccountInv, CloseTakesTheLast
<1>11. NothingLost'
  BY <1>6, <1>8 DEF AccountInv, NothingLost
<1> QED
  BY <1>9, <1>10, <1>11 DEF AccountInv

\* A flush that returned and begins anew has sent what it took, or had a fatal answer before.
LEMMA BeginningAgainAccounts ==
    ASSUME TypeOK, AccountInv, NEW i \in DOMAIN flushes, NEW purpose \in Purposes,
           flushes[i].stage = "answered", FlushAgain(i, purpose),
           UNCHANGED <<tracked, recorded, evicted, reported, executing>>,
           collecting' => collecting, purpose = "close" => ~collecting'
    PROVE  AccountInv'
<1>0. 0 \in Updates
  BY BoundsAssumption DEF Updates
<1>1. PICK f \in Flushes(purpose, 0) : flushes' = [flushes EXCEPT ![i] = f]
  BY DEF FlushAgain
<1>2. /\ f.stage \in {"report", "hashing"} /\ f.purpose = purpose
      /\ f.batch = <<>> /\ f.events = queue.events
  BY <1>0, <1>1, FlushesAreTyped DEF Flushes, Snapshot
<1>3. queue' = EmptyQueue /\ queue'.events = <<>>
  BY DEF FlushAgain, TakeSnapshot, AfterSnapshot, EmptyQueue
<1>4. ToSet(<<>>) = {}
  BY DEF ToSet
<1>5. Contents(f) = ToSet(queue.events) /\ Unsent(f) /\ ~Unsent(flushes[i])
  BY <1>2, <1>4 DEF Contents, Unsent
<1>6. /\ DOMAIN flushes' = DOMAIN flushes
      /\ flushes'[i] = f
      /\ \A j \in DOMAIN flushes : j # i => flushes'[j] = flushes[j]
  BY <1>1, OneFlushChanges
<1>7. Waiting' = ToSet(tracked) /\ Waiting = ToSet(queue.events) \cup ToSet(tracked)
  BY <1>3, <1>4 DEF Waiting
<1>8. Taken' = Taken \cup ToSet(queue.events)
  BY <1>5, <1>6 DEF Taken
<1>9. Admitted'
  BY <1>5, <1>6, <1>7 DEF AccountInv, Admitted
<1>10. HeldOnce'
  BY <1>3, <1>4, <1>5, <1>6, <1>7 DEF AccountInv, HeldOnce
<1>11. CloseTakesTheLast'
  BY <1>2, <1>3, <1>6 DEF AccountInv, CloseTakesTheLast
<1>12. NothingLost'
  BY <1>7, <1>8 DEF AccountInv, NothingLost
<1> QED
  BY <1>9, <1>10, <1>11, <1>12 DEF AccountInv

\* A flush that returned and ends takes nothing along that was not sent.
LEMMA EndAccounts ==
    ASSUME TypeOK, AccountInv, NEW i \in DOMAIN flushes, flushes[i].stage = "answered",
           flushes' = RemoveAt(flushes, i),
           UNCHANGED <<tracked, recorded, evicted, reported, executing, collecting>>,
           queue'.events = queue.events
    PROVE  AccountInv'
<1> DEFINE Old(j) == IF j < i THEN j ELSE j + 1
           New(k) == IF k < i THEN k ELSE k - 1
<1>1. flushes \in Seq(Flush) /\ i \in 1 .. Len(flushes) /\ Len(flushes) \in Nat
      /\ DOMAIN flushes = 1 .. Len(flushes)
  BY DEF TypeOK
<1>2. /\ DOMAIN flushes' = 1 .. Len(flushes) - 1
      /\ \A j \in DOMAIN flushes' : flushes'[j] = flushes[Old(j)]
  BY <1>1, RemovalShifts
<1>3. /\ \A j \in DOMAIN flushes' : Old(j) \in DOMAIN flushes
      /\ \A j, k \in DOMAIN flushes' : j # k => Old(j) # Old(k)
  BY <1>1, <1>2
<1>4. \A k \in DOMAIN flushes : k # i => New(k) \in DOMAIN flushes' /\ Old(New(k)) = k
  BY <1>1, <1>2
<1> HIDE DEF Old, New
<1>5. ~Unsent(flushes[i])
  BY DEF Unsent
<1>6. Taken' = Taken
  <2>1. ASSUME NEW e PROVE e \in Taken' => e \in Taken
    BY <1>2, <1>3 DEF Taken
  <2>2. ASSUME NEW e, e \in Taken PROVE e \in Taken'
    <3>1. PICK k \in DOMAIN flushes : Unsent(flushes[k]) /\ e \in Contents(flushes[k])
      BY <2>2, TakenEvents
    <3>2. New(k) \in DOMAIN flushes' /\ flushes'[New(k)] = flushes[k]
      BY <1>2, <1>4, <1>5, <3>1
    <3> QED
      BY <3>1, <3>2 DEF Taken
  <2> QED
    BY <2>1, <2>2
<1>7. Waiting' = Waiting
  BY DEF Waiting
<1>8. Admitted'
  BY <1>2, <1>3, <1>7 DEF AccountInv, Admitted
<1>9. HeldOnce'
  <2>1. \A j \in DOMAIN flushes' :
            /\ Contents(flushes'[j]) \cap Waiting' = {}
            /\ Unsent(flushes'[j]) => Contents(flushes'[j]) \cap reported' = {}
    BY <1>2, <1>3, <1>7 DEF AccountInv, HeldOnce
  <2>2. \A j, k \in DOMAIN flushes' : j # k => Contents(flushes'[j]) \cap Contents(flushes'[k]) = {}
    BY <1>2, <1>3 DEF AccountInv, HeldOnce
  <2> QED
    BY <1>7, <2>1, <2>2 DEF AccountInv, HeldOnce
<1>10. CloseTakesTheLast'
  BY <1>2, <1>3 DEF AccountInv, CloseTakesTheLast
<1>11. NothingLost'
  BY <1>6, <1>7 DEF AccountInv, NothingLost
<1> QED
  BY <1>8, <1>9, <1>10, <1>11 DEF AccountInv

\* An event that is recorded is a new one, and what it pushes out of the queue is dropped.
LEMMA RecordingAccounts ==
    ASSUME TypeOK, AccountInv, EvaluatedConfig \/ TrackedEvent
    PROVE  AccountInv'
<1> DEFINE e == recorded + 1
<1>1. recorded \in Nat /\ e \in Events /\ recorded' = e
  BY BoundsAssumption DEF EvaluatedConfig, TrackedEvent, TypeOK, Events
<1>2. 1 .. e = (1 .. recorded) \cup {e} /\ e \notin 1 .. recorded
  BY <1>1
<1> HIDE DEF e
<1>3. /\ UNCHANGED <<collecting, executing, flushes, reported>> /\ collecting
  BY DEF EvaluatedConfig, TrackedEvent
<1>4. Taken' = Taken
  BY <1>3 DEF Taken
<1> DEFINE Q == ToSet(queue.events)
           T == ToSet(tracked)
<1>5. /\ ToSet(queue'.events) \cup ToSet(tracked') \subseteq Q \cup T \cup {e}
      /\ ToSet(queue'.events) \cap ToSet(tracked') = {}
      /\ ToSet(queue'.events) \cup ToSet(tracked') \cup evicted' = Q \cup T \cup evicted \cup {e}
  <2>0. e \notin Q /\ e \notin T /\ Q \cap T = {}
    BY <1>2 DEF AccountInv, Admitted, HeldOnce, Waiting
  <2>1. CASE EvaluatedConfig
    <3> DEFINE dropped == {queue.events[i] : i \in 1 .. Overflow(queue, QueueLimit)}
    <3>1. ToSet(queue'.events) \cup dropped = Q \cup {e}
      BY <1>1, <2>1, LimitsAssumption, PushAccounts DEF EvaluatedConfig, TypeOK, Queue, e
    <3>2. evicted' = evicted \cup dropped /\ tracked' = tracked
      BY <2>1 DEF EvaluatedConfig
    <3> HIDE DEF dropped, Q
    <3> QED
      BY <2>0, <3>1, <3>2
  <2>2. CASE TrackedEvent
    <3>1. queue' = queue /\ evicted' = evicted /\ tracked' = Append(tracked, e)
      BY <2>2 DEF TrackedEvent, e
    <3>2. tracked \in Seq(Events)
      BY DEF TypeOK
    <3>3. /\ DOMAIN tracked' = DOMAIN tracked \cup {Len(tracked) + 1}
          /\ tracked'[Len(tracked) + 1] = e
          /\ \A j \in DOMAIN tracked : tracked'[j] = tracked[j]
      BY <3>1, <3>2
    <3>4. ToSet(tracked') = T \cup {e}
      BY <3>3 DEF ToSet
    <3> HIDE DEF T, Q
    <3> QED
      BY <2>0, <3>1, <3>4 DEF Q
  <2> QED
    BY <2>1, <2>2
<1> HIDE DEF Q, T
<1>6. Waiting' = ToSet(queue'.events) \cup ToSet(tracked') /\ Waiting = Q \cup T
  BY DEF Waiting, Q, T
<1>7. Admitted'
  BY <1>1, <1>2, <1>3, <1>5, <1>6 DEF AccountInv, Admitted
<1>8. HeldOnce'
  <2>1. e \notin reported /\ \A j \in DOMAIN flushes : e \notin Contents(flushes[j])
    BY <1>2 DEF AccountInv, Admitted
  <2> QED
    BY <1>3, <1>5, <1>6, <2>1 DEF AccountInv, HeldOnce
<1>9. CloseTakesTheLast'
  <2>1. \A j \in DOMAIN flushes : flushes[j].purpose # "close"
    BY <1>3 DEF AccountInv, CloseTakesTheLast
  <2> QED
    BY <1>3, <2>1 DEF AccountInv, CloseTakesTheLast
<1>10. NothingLost'
  BY <1>1, <1>2, <1>3, <1>4, <1>5, <1>6 DEF AccountInv, NothingLost
<1> QED
  BY <1>7, <1>8, <1>9, <1>10 DEF AccountInv

\* Every step keeps the accounting.
LEMMA StepKeepsAccountInv == TypeOK /\ AccountInv /\ [Next]_vars => AccountInv'
<1> SUFFICES ASSUME TypeOK, AccountInv, [Next]_vars PROVE AccountInv'
  OBVIOUS
<1>0. 0 \in Updates /\ {"scheduled", "update", "close"} \subseteq Purposes
  BY BoundsAssumption DEF Updates, Purposes
<1>1. CASE UNCHANGED <<collecting, executing, queue, tracked, flushes, recorded, evicted, reported>>
  BY <1>1 DEF AccountInv, Admitted, HeldOnce, CloseTakesTheLast, NothingLost, Waiting, Taken
<1>2. CASE Start \/ SessionResolves \/ UNCHANGED vars
  BY <1>1, <1>2 DEF Start, SessionResolves, vars, history
<1>3. CASE EvaluatedConfig \/ TrackedEvent
  BY <1>3, RecordingAccounts
<1>4. CASE UpdateContext
  <2>1. calls + 1 \in Updates
    BY <1>4, BoundsAssumption DEF UpdateContext, Call, Updates, TypeOK
  <2>2. /\ BeginFlush("update", calls + 1)
        /\ UNCHANGED <<collecting, executing, tracked, recorded, evicted, reported>>
    BY <1>4 DEF UpdateContext, history
  <2> QED
    BY <1>0, <2>1, <2>2, BeginningAccounts
<1>5. CASE ForceFlush \/ FlushTimeout
  <2>1. UNCHANGED <<collecting, executing, tracked, recorded, evicted, reported>>
    BY <1>5 DEF ForceFlush, FlushTimeout, history
  <2>2. BeginFlush("scheduled", 0) \/ UNCHANGED <<flushes, queue>>
    BY <1>5 DEF ForceFlush, FlushTimeout
  <2> QED
    BY <1>0, <1>1, <2>1, <2>2, BeginningAccounts
<1>6. CASE Close
  <2>1. /\ BeginFlush("close", 0) /\ collecting' = FALSE
        /\ UNCHANGED <<executing, tracked, recorded, evicted, reported>>
    BY <1>6 DEF Close, history
  <2> QED
    BY <1>0, <2>1, BeginningAccounts
<1>7. ASSUME NEW i \in DOMAIN flushes, Reaction(i) \/ Environment(i) PROVE AccountInv'
  <2>1. CASE FlushReturns(i)
    <3>1. UNCHANGED <<executing, recorded, evicted, reported>> /\ flushes[i].stage = "answered"
      BY <2>1 DEF FlushReturns
    <3>2. CASE AdoptContext(i)
      <4>1. UNCHANGED <<collecting, tracked>>
        BY <3>2 DEF AdoptContext
      <4>2. CASE FlushAgain(i, "scheduled")
        BY <1>0, <3>1, <4>1, <4>2, BeginningAgainAccounts
      <4>3. CASE End(i)
        BY <3>1, <4>1, <4>3, EndAccounts DEF End
      <4> QED
        BY <3>2, <4>2, <4>3 DEF AdoptContext
    <3>3. CASE ScheduleNext(i)
      <4>1. tracked' = tracked
        BY <3>3 DEF ScheduleNext
      <4>2. CASE FlushAgain(i, "close") /\ collecting' = FALSE
        BY <1>0, <3>1, <4>1, <4>2, BeginningAgainAccounts
      <4>3. CASE End(i) /\ collecting' = collecting
        BY <3>1, <4>1, <4>3, EndAccounts DEF End
      <4> QED
        BY <3>3, <4>2, <4>3 DEF ScheduleNext
    <3>4. CASE ClearQueues(i)
      <4>1. ~collecting /\ tracked = <<>> /\ queue.events = <<>>
        BY <3>1, <3>4 DEF ClearQueues, AccountInv, CloseTakesTheLast
      <4>2. /\ flushes' = RemoveAt(flushes, i) /\ collecting' = collecting
            /\ tracked' = tracked /\ queue'.events = queue.events
        BY <3>4, <4>1 DEF ClearQueues, EmptyQueue
      <4> QED
        BY <3>1, <4>2, EndAccounts
    <3> QED
      BY <2>1, <3>2, <3>3, <3>4 DEF FlushReturns
  <2> QED
    BY <1>7, <2>1, HashingAccounts, ReportAccounts, SendingAccounts, AnswerAccounts
       DEF Reaction, Environment
<1> QED
  BY <1>2, <1>3, <1>4, <1>5, <1>6, <1>7 DEF Next, Owner

LEMMA InitAccounts == Init => AccountInv
<1> SUFFICES ASSUME Init PROVE AccountInv
  OBVIOUS
<1>1. ToSet(<<>>) = {} /\ 1 .. 0 = {}
  BY DEF ToSet
<1>2. queue.events = <<>> /\ tracked = <<>> /\ flushes = <<>> /\ DOMAIN flushes = {}
  BY DEF Init, EmptyQueue
<1>3. Waiting = {} /\ Taken = {}
  BY <1>1, <1>2 DEF Waiting, Taken
<1> QED
  BY <1>1, <1>2, <1>3
     DEF Init, AccountInv, Admitted, HeldOnce, CloseTakesTheLast, NothingLost

LEMMA AccountsAlways == Spec => []AccountInv
<1>1. Spec => []TypeOK
  BY TypeCorrect
<1>2. Spec => [][Next]_vars
  BY PTL DEF Spec
<1> QED
  BY <1>1, <1>2, InitAccounts, StepKeepsAccountInv, PTL DEF Spec

\* However flushes, a full queue and a close overlap, an event waits, or is in one flush, or
\* was put in a request, and never two of these; short of a fatal answer it is one of them
\* or was dropped by the full queue (takeSnapshot, takeBatch, close).
THEOREM EventsNeverTwiceNorLost == Spec => [](EachReportedOnce /\ NothingLost)
<1>1. AccountInv => EachReportedOnce /\ NothingLost
  <2> SUFFICES ASSUME AccountInv PROVE EachReportedOnce
    BY DEF AccountInv
  <2>1. ASSUME NEW e, e \in Taken PROVE e \notin Waiting /\ e \notin reported
    BY <2>1, TakenEvents DEF AccountInv, HeldOnce
  <2> QED
    BY <2>1 DEF EachReportedOnce, AccountInv, HeldOnce
<1> QED
  BY <1>1, AccountsAlways, PTL

(***************************************************************************)
(* Sums.  What the flushes in flight have dropped is a sum by recursion,   *)
(* and every fact about it is proved of the least place it could fail at.  *)
(***************************************************************************)
\* A set of naturals that is not empty has a least element.
LEMMA LeastNat ==
  ASSUME NEW T \in SUBSET Nat, T # {}
  PROVE  \E n \in T : \A m \in T : n <= m
<1> DEFINE R == OpToRel(<, Nat)
<1>1. \A a, b \in Nat : a < b => <<a, b>> \in R
  BY DEF OpToRel
<1>2. IsWellFoundedOn(R, Nat)
  BY NatLessThanWellFounded
<1> HIDE DEF R
<1>3. PICK x \in T : \A y \in T : ~ (<<y, x>> \in R)
  BY <1>2, WFMin
<1>4. x \in Nat /\ T \subseteq Nat
  OBVIOUS
<1>5. ASSUME NEW y \in T PROVE x <= y
  <2>1. ~ (<<y, x>> \in R)
    BY <1>3
  <2>2. y \in Nat /\ x \in Nat
    BY <1>4
  <2>3. y < x => <<y, x>> \in R
    BY <1>1, <2>2
  <2> QED
    BY <2>1, <2>2, <2>3
<1> QED
  BY <1>5

\* The sums exist, and each adds one flush to the sum before.
LEMMA DroppedUpToAdds ==
  ASSUME NEW s \in Seq(Flush)
  PROVE  /\ DroppedUpTo(s)[0] = 0
         /\ \A n \in 1 .. Len(s) : DroppedUpTo(s)[n] = DroppedUpTo(s)[n - 1] + s[n].dropped
<1> DEFINE IsSum(h, k) == h = [n \in 0 .. k |-> IF n = 0 THEN 0 ELSE h[n - 1] + s[n].dropped]
<1>1. \A k \in 0 .. Len(s) : \E h : IsSum(h, k)
  <2>1. SUFFICES ASSUME NEW k \in 0 .. Len(s), ~ \E h : IsSum(h, k) PROVE FALSE
    OBVIOUS
  <2> DEFINE Bad == {n \in Nat : n \in 0 .. Len(s) /\ ~ \E h : IsSum(h, n)}
  <2>2. PICK m \in Bad : \A n \in Bad : m <= n
    <3>1. k \in Bad
      BY <2>1
    <3>2. Bad \in SUBSET Nat
      OBVIOUS
    <3> HIDE DEF Bad
    <3> QED
      BY <3>1, <3>2, LeastNat
  <2>3. m # 0
    <3>1. IsSum([n \in 0 .. 0 |-> 0], 0)
      OBVIOUS
    <3> QED
      BY <3>1
  <2>4. PICK h : IsSum(h, m - 1)
    <3>1. m - 1 \in Nat /\ m - 1 \in 0 .. Len(s) /\ ~ (m <= m - 1)
      BY <2>3
    <3>2. m - 1 \notin Bad
      <4> HIDE DEF Bad
      <4> QED
        BY <2>2, <3>1
    <3> HIDE DEF IsSum
    <3> QED
      BY <3>1, <3>2
  <2> DEFINE g == [n \in 0 .. m |-> IF n = m THEN h[m - 1] + s[m].dropped ELSE h[n]]
  <2>5. IsSum(g, m)
    BY <2>3, <2>4
  <2> QED
    BY <2>5
<1>2. PICK h : IsSum(h, Len(s))
  BY <1>1
<1> HIDE DEF IsSum
<1>3. IsSum(CHOOSE e : IsSum(e, Len(s)), Len(s))
  BY <1>2
<1>4. IsSum(DroppedUpTo(s), Len(s))
  BY <1>3 DEF DroppedUpTo, IsSum
<1> DEFINE sum == DroppedUpTo(s)
<1>5. sum = [n \in 0 .. Len(s) |-> IF n = 0 THEN 0 ELSE sum[n - 1] + s[n].dropped]
  BY <1>4 DEF IsSum
<1> HIDE DEF sum
<1>6. sum[0] = 0 /\ \A n \in 1 .. Len(s) : sum[n] = sum[n - 1] + s[n].dropped
  BY <1>5
<1> QED
  BY <1>6 DEF sum

\* Sums are natural numbers, and depend on no flush behind.
LEMMA DroppedUpToNat ==
  ASSUME NEW s \in Seq(Flush)
  PROVE  \A n \in 0 .. Len(s) : DroppedUpTo(s)[n] \in Nat
<1> DEFINE sum == DroppedUpTo(s)
<1> DEFINE Bad == {n \in Nat : n \in 0 .. Len(s) /\ sum[n] \notin Nat}
<1>1. /\ sum[0] = 0
      /\ \A n \in 1 .. Len(s) : sum[n] = sum[n - 1] + s[n].dropped
      /\ \A n \in 1 .. Len(s) : s[n].dropped \in Nat
  <2>1. \A n \in 1 .. Len(s) : s[n] \in Flush
    OBVIOUS
  <2> QED
    BY <2>1, DroppedUpToAdds DEF Flush
<1> HIDE DEF sum
<1>2. SUFFICES ASSUME Bad # {} PROVE FALSE
  BY DEF sum
<1>3. PICK m \in Bad : \A n \in Bad : m <= n
  <2>1. Bad \in SUBSET Nat
    OBVIOUS
  <2> HIDE DEF Bad
  <2> QED
    BY <1>2, <2>1, LeastNat
<1>4. m # 0 /\ m \in 1 .. Len(s)
  BY <1>1, <1>3
<1>5. m - 1 \notin Bad
  <2>1. ~ (m <= m - 1)
    BY <1>4
  <2> HIDE DEF Bad
  <2> QED
    BY <1>3, <2>1
<1>6. sum[m - 1] \in Nat
  BY <1>4, <1>5
<1> QED
  BY <1>1, <1>3, <1>4, <1>6

\* Where two sequences have the same flushes, shift places apart, their sums grow alike.
LEMMA DroppedGrowsAlike ==
  ASSUME NEW s \in Seq(Flush), NEW t \in Seq(Flush), NEW shift \in Nat, NEW m \in 0 .. Len(t),
         NEW i \in 0 .. m, m + shift <= Len(s),
         \A n \in i + 1 .. m : t[n] = s[n + shift]
  PROVE  \A n \in i .. m : DroppedUpTo(t)[n] - DroppedUpTo(t)[i]
                              = DroppedUpTo(s)[n + shift] - DroppedUpTo(s)[i + shift]
<1> DEFINE f == DroppedUpTo(t)
           g == DroppedUpTo(s)
<1>1. /\ \A n \in 1 .. Len(t) : f[n] = f[n - 1] + t[n].dropped
      /\ \A n \in 1 .. Len(s) : g[n] = g[n - 1] + s[n].dropped
  BY DroppedUpToAdds
<1>2. /\ \A n \in 0 .. Len(t) : f[n] \in Nat
      /\ \A n \in 0 .. Len(s) : g[n] \in Nat
  BY DroppedUpToNat
<1>3. \A n \in 1 .. Len(s) : s[n].dropped \in Nat
  <2>1. \A n \in 1 .. Len(s) : s[n] \in Flush
    OBVIOUS
  <2> QED
    BY <2>1 DEF Flush
<1> HIDE DEF f, g
<1> DEFINE Bad == {n \in Nat : n \in i .. m /\ f[n] - f[i] # g[n + shift] - g[i + shift]}
<1>4. SUFFICES ASSUME Bad # {} PROVE FALSE
  BY DEF f, g
<1>5. PICK k \in Bad : \A n \in Bad : k <= n
  <2>1. Bad \in SUBSET Nat
    OBVIOUS
  <2> HIDE DEF Bad
  <2> QED
    BY <1>4, <2>1, LeastNat
<1>6. i \in Nat /\ m \in Nat /\ k \in i .. m /\ Len(t) \in Nat /\ Len(s) \in Nat
  BY <1>5
<1>7. k # i
  <2>1. i \in 0 .. Len(t) /\ i + shift \in 0 .. Len(s)
    BY <1>6
  <2>2. f[i] \in Nat /\ g[i + shift] \in Nat
    BY <1>2, <2>1
  <2> QED
    BY <1>5, <2>2
<1>8. k - 1 \in i .. m /\ k - 1 \in Nat /\ k \in i + 1 .. m
  BY <1>6, <1>7
<1>9. f[k - 1] - f[i] = g[k - 1 + shift] - g[i + shift]
  <2>1. ~ (k <= k - 1)
    BY <1>6
  <2>2. k - 1 \notin Bad
    <3> HIDE DEF Bad
    <3> QED
      BY <1>5, <2>1
  <2> QED
    BY <1>8, <2>2
<1>10. f[k] = f[k - 1] + t[k].dropped /\ g[k + shift] = g[k - 1 + shift] + s[k + shift].dropped
  <2> HIDE DEF Bad, f, g
  <2>1. k \in 1 .. Len(t) /\ k + shift \in 1 .. Len(s) /\ k + shift - 1 = k - 1 + shift
    BY <1>6, <1>8
  <2> QED
    BY <1>1, <2>1
<1>11. t[k].dropped = s[k + shift].dropped /\ s[k + shift].dropped \in Nat
  BY <1>3, <1>6, <1>8
<1>12. /\ f[k - 1] \in Nat /\ f[i] \in Nat /\ g[k - 1 + shift] \in Nat /\ g[i + shift] \in Nat
       /\ f[k] \in Nat /\ g[k + shift] \in Nat
  BY <1>2, <1>6, <1>8
<1>13. f[k] - f[i] = g[k + shift] - g[i + shift]
  <2> DEFINE a == f[k - 1]
             b == f[i]
             c == g[k - 1 + shift]
             d == g[i + shift]
             e == s[k + shift].dropped
  <2>1. a \in Nat /\ b \in Nat /\ c \in Nat /\ d \in Nat /\ e \in Nat /\ a - b = c - d
    BY <1>9, <1>11, <1>12
  <2>2. f[k] = a + e /\ g[k + shift] = c + e
    BY <1>10, <1>11
  <2> HIDE DEF a, b, c, d, e, f, g, Bad
  <2>3. (a + e) - b = (c + e) - d
    BY <2>1
  <2> QED
    BY <2>2, <2>3 DEF b, d
<1> QED
  BY <1>5, <1>13

Total(s) == DroppedUpTo(s)[Len(s)]

LEMMA TotalNat ==
  ASSUME NEW s \in Seq(Flush)
  PROVE  Total(s) \in Nat
<1>1. Len(s) \in 0 .. Len(s)
  OBVIOUS
<1> QED
  BY <1>1, DroppedUpToNat DEF Total

LEMMA TotalOfAppended ==
  ASSUME NEW s \in Seq(Flush), NEW f \in Flush
  PROVE  Total(Append(s, f)) = Total(s) + f.dropped
<1> DEFINE t == Append(s, f)
<1>1. t \in Seq(Flush) /\ Len(t) = Len(s) + 1 /\ t[Len(s) + 1] = f /\ Len(s) \in Nat
      /\ \A n \in 1 .. Len(s) : t[n] = s[n]
  OBVIOUS
<1> HIDE DEF t
<1>2. \A n \in 0 .. Len(s) : DroppedUpTo(t)[n] - DroppedUpTo(t)[0]
                                = DroppedUpTo(s)[n + 0] - DroppedUpTo(s)[0 + 0]
  <2>1. /\ 0 \in Nat /\ Len(s) \in 0 .. Len(t) /\ 0 \in 0 .. Len(s) /\ Len(s) + 0 <= Len(s)
        /\ \A n \in 0 + 1 .. Len(s) : t[n] = s[n + 0]
    BY <1>1
  <2> QED
    BY <1>1, <2>1, DroppedGrowsAlike
<1>3. /\ DroppedUpTo(t)[0] = 0 /\ DroppedUpTo(s)[0] = 0
      /\ DroppedUpTo(t)[Len(s) + 1] = DroppedUpTo(t)[Len(s) + 1 - 1] + t[Len(s) + 1].dropped
  <2>1. Len(s) + 1 \in 1 .. Len(t)
    BY <1>1
  <2> QED
    BY <1>1, <2>1, DroppedUpToAdds
<1>4. DroppedUpTo(t)[Len(s)] \in Nat /\ DroppedUpTo(s)[Len(s)] \in Nat
  BY <1>1, DroppedUpToNat
<1>5. DroppedUpTo(t)[Len(s)] = DroppedUpTo(s)[Len(s)]
  <2>1. Len(s) \in 0 .. Len(s) /\ Len(s) + 0 = Len(s) /\ 0 + 0 = 0
    BY <1>1
  <2> QED
    BY <1>2, <1>3, <1>4, <2>1
<1>6. DroppedUpTo(t)[Len(t)] = DroppedUpTo(s)[Len(s)] + f.dropped
  <2>1. Len(s) + 1 - 1 = Len(s)
    BY <1>1
  <2> QED
    BY <1>1, <1>3, <1>5, <2>1
<1> QED
  BY <1>6 DEF Total, t

\* Sums before a place where s and t are the same.
LEMMA TotalBefore ==
  ASSUME NEW s \in Seq(Flush), NEW t \in Seq(Flush), NEW m \in 0 .. Len(t), m <= Len(s),
         \A n \in 1 .. m : t[n] = s[n]
  PROVE  DroppedUpTo(t)[m] = DroppedUpTo(s)[m]
<1>1. /\ 0 \in Nat /\ 0 \in 0 .. m /\ m + 0 <= Len(s) /\ m \in Nat
      /\ \A n \in 0 + 1 .. m : t[n] = s[n + 0]
  OBVIOUS
<1>2. \A n \in 0 .. m : DroppedUpTo(t)[n] - DroppedUpTo(t)[0]
                           = DroppedUpTo(s)[n + 0] - DroppedUpTo(s)[0 + 0]
  BY <1>1, DroppedGrowsAlike
<1>3. m \in 0 .. m /\ m + 0 = m /\ 0 + 0 = 0
  BY <1>1
<1>4. DroppedUpTo(t)[0] = 0 /\ DroppedUpTo(s)[0] = 0
  BY DroppedUpToAdds
<1>5. DroppedUpTo(t)[m] \in Nat /\ DroppedUpTo(s)[m] \in Nat
  BY <1>1, DroppedUpToNat
<1> QED
  BY <1>2, <1>3, <1>4, <1>5

LEMMA TotalOfReplaced ==
  ASSUME NEW s \in Seq(Flush), NEW t \in Seq(Flush), NEW i \in 1 .. Len(s), Len(t) = Len(s),
         \A n \in 1 .. Len(s) : n # i => t[n] = s[n]
  PROVE  Total(t) + s[i].dropped = Total(s) + t[i].dropped
<1>1. Len(s) \in Nat /\ i \in Nat /\ i >= 1 /\ i <= Len(s)
  OBVIOUS
<1>2. DroppedUpTo(t)[i - 1] = DroppedUpTo(s)[i - 1]
  <2>1. i - 1 \in 0 .. Len(t) /\ i - 1 <= Len(s) /\ \A n \in 1 .. i - 1 : t[n] = s[n]
    BY <1>1
  <2> QED
    BY <2>1, TotalBefore
<1>3. /\ DroppedUpTo(t)[i] = DroppedUpTo(t)[i - 1] + t[i].dropped
      /\ DroppedUpTo(s)[i] = DroppedUpTo(s)[i - 1] + s[i].dropped
  BY <1>1, DroppedUpToAdds
<1>4. \A n \in i .. Len(t) : DroppedUpTo(t)[n] - DroppedUpTo(t)[i]
                                = DroppedUpTo(s)[n + 0] - DroppedUpTo(s)[i + 0]
  <2>1. /\ 0 \in Nat /\ Len(t) \in 0 .. Len(t) /\ i \in 0 .. Len(t) /\ Len(t) + 0 <= Len(s)
        /\ \A n \in i + 1 .. Len(t) : t[n] = s[n + 0]
    BY <1>1
  <2> QED
    BY <2>1, DroppedGrowsAlike
<1>5. Total(t) - DroppedUpTo(t)[i] = Total(s) - DroppedUpTo(s)[i]
  <2>1. Len(t) \in i .. Len(t) /\ Len(t) + 0 = Len(s) /\ i + 0 = i
    BY <1>1
  <2> QED
    BY <1>4, <2>1 DEF Total
<1>6. /\ s[i].dropped \in Nat /\ t[i].dropped \in Nat /\ DroppedUpTo(s)[i - 1] \in Nat
      /\ DroppedUpTo(t)[i - 1] \in Nat /\ DroppedUpTo(s)[i] \in Nat /\ DroppedUpTo(t)[i] \in Nat
      /\ Total(s) \in Nat /\ Total(t) \in Nat
  <2>1. s[i] \in Flush /\ t[i] \in Flush /\ i - 1 \in 0 .. Len(s) /\ i \in 0 .. Len(s)
    BY <1>1
  <2> QED
    BY <2>1, DroppedUpToNat, TotalNat DEF Flush
<1> DEFINE a == Total(t)
           b == Total(s)
           c == DroppedUpTo(s)[i - 1]
           d == t[i].dropped
           e == s[i].dropped
<1>7. a \in Nat /\ b \in Nat /\ c \in Nat /\ d \in Nat /\ e \in Nat /\ a - (c + d) = b - (c + e)
  BY <1>2, <1>3, <1>5, <1>6
<1> HIDE DEF a, b, c, d, e
<1>8. a + e = b + d
  BY <1>7
<1> QED
  BY <1>8 DEF a, b, d, e

LEMMA TotalOfRemoved ==
  ASSUME NEW s \in Seq(Flush), NEW i \in DOMAIN s
  PROVE  Total(RemoveAt(s, i)) + s[i].dropped = Total(s)
<1> DEFINE t == RemoveAt(s, i)
<1>1. /\ t \in Seq(Flush) /\ DOMAIN t = 1 .. Len(s) - 1
      /\ \A n \in 1 .. Len(s) - 1 : t[n] = IF n < i THEN s[n] ELSE s[n + 1]
  BY RemovalShifts, RemovalKeepsElements
<1>2. Len(s) \in Nat /\ i \in Nat /\ i >= 1 /\ i <= Len(s) /\ i \in 1 .. Len(s)
  OBVIOUS
<1> HIDE DEF t
<1>3. Len(t) = Len(s) - 1
  BY <1>1, <1>2
<1>4. DroppedUpTo(t)[i - 1] = DroppedUpTo(s)[i - 1]
  <2>1. i - 1 \in 0 .. Len(t) /\ i - 1 <= Len(s) /\ \A n \in 1 .. i - 1 : t[n] = s[n]
    BY <1>1, <1>2, <1>3
  <2> QED
    BY <1>1, <2>1, TotalBefore
<1>5. DroppedUpTo(s)[i] = DroppedUpTo(s)[i - 1] + s[i].dropped
  BY <1>2, DroppedUpToAdds
<1>6. \A n \in i - 1 .. Len(t) : DroppedUpTo(t)[n] - DroppedUpTo(t)[i - 1]
                                    = DroppedUpTo(s)[n + 1] - DroppedUpTo(s)[i - 1 + 1]
  <2>1. /\ 1 \in Nat /\ Len(t) \in 0 .. Len(t) /\ i - 1 \in 0 .. Len(t) /\ Len(t) + 1 <= Len(s)
        /\ \A n \in i - 1 + 1 .. Len(t) : t[n] = s[n + 1]
    BY <1>1, <1>2, <1>3
  <2> QED
    BY <1>1, <2>1, DroppedGrowsAlike
<1>7. Total(t) - DroppedUpTo(t)[i - 1] = Total(s) - DroppedUpTo(s)[i]
  <2>1. Len(t) \in i - 1 .. Len(t) /\ Len(t) + 1 = Len(s) /\ i - 1 + 1 = i
    BY <1>2, <1>3
  <2> QED
    BY <1>6, <2>1 DEF Total
<1>8. /\ s[i].dropped \in Nat /\ DroppedUpTo(s)[i - 1] \in Nat /\ DroppedUpTo(s)[i] \in Nat
      /\ DroppedUpTo(t)[i - 1] \in Nat /\ Total(s) \in Nat /\ Total(t) \in Nat
  <2>1. s[i] \in Flush /\ i - 1 \in 0 .. Len(s) /\ i \in 0 .. Len(s) /\ i - 1 \in 0 .. Len(t)
    BY <1>2, <1>3
  <2> QED
    BY <1>1, <2>1, DroppedUpToNat, TotalNat DEF Flush
<1>9. Total(t) + s[i].dropped = Total(s)
  <2> DEFINE a == Total(t)
             b == Total(s)
             c == DroppedUpTo(s)[i - 1]
             e == s[i].dropped
  <2>1. a \in Nat /\ b \in Nat /\ c \in Nat /\ e \in Nat /\ a - c = b - (c + e)
    BY <1>4, <1>5, <1>7, <1>8
  <2> HIDE DEF a, b, c, e
  <2>2. a + e = b
    BY <2>1
  <2> QED
    BY <2>2 DEF a, b, e
<1> QED
  BY <1>9 DEF t

(***************************************************************************)
(* The drops are counted once.  For that no event is dropped twice: the    *)
(* queue holds each of its events once, and none it dropped before; and a  *)
(* queue that is cleared has no drops that its flush has not taken.        *)
(***************************************************************************)
DroppedApart ==
    /\ ~collecting => queue.dropped = 0
    /\ evicted \subseteq 1 .. recorded
    /\ evicted \cap ToSet(queue.events) = {}
    /\ \A j, k \in DOMAIN queue.events : j # k => queue.events[j] # queue.events[k]

DropInv == DropsCountedOnce /\ DroppedApart

LEMMA InFlightIsTotal == DroppedInFlight = Total(flushes)
BY DEF DroppedInFlight, Total

\* What pushing one event does to a queue that is not over its limit.
LEMMA PushDropsFirst ==
    ASSUME NEW q \in Queue, NEW e \in Events, NEW limit \in Nat \ {0}, Len(q.events) <= limit
    PROVE  \/ /\ Push(q, e, limit).dropped = q.dropped
              /\ {q.events[i] : i \in 1 .. Overflow(q, limit)} = {}
              /\ Push(q, e, limit).events = Append(q.events, e)
           \/ /\ Push(q, e, limit).dropped = q.dropped + 1
              /\ {q.events[i] : i \in 1 .. Overflow(q, limit)} = {q.events[1]}
              /\ q.events # <<>>
              /\ Push(q, e, limit).events = Append(Tail(q.events), e)
<1>1. q.events \in Seq(Events) /\ q.dropped \in Nat /\ Len(q.events) \in Nat
  BY DEF Queue
<1>2. Overflow(q, limit) = IF Len(q.events) = limit THEN 1 ELSE 0
  BY <1>1 DEF Overflow, Excess
<1>3. CASE Len(q.events) = limit
  <2>1. Behead(q.events, 1) = Tail(q.events)
    <3>1. /\ SubSeq(q.events, 2, Len(q.events)) = Tail(q.events)
      BY <1>1, <1>3, TailIsSubSeq
    <3> QED
      BY <3>1 DEF Behead
  <2>2. {q.events[i] : i \in 1 .. 1} = {q.events[1]}
    OBVIOUS
  <2>3. q.events # <<>>
    BY <1>1, <1>3
  <2> QED
    BY <1>2, <1>3, <2>1, <2>2, <2>3 DEF Push
<1>4. CASE Len(q.events) # limit
  <2>1. Behead(q.events, 0) = q.events
    BY <1>1 DEF Behead
  <2>2. q.dropped + 0 = q.dropped /\ {q.events[i] : i \in 1 .. 0} = {}
    BY <1>1
  <2> QED
    BY <1>2, <1>4, <2>1, <2>2 DEF Push
<1> QED
  BY <1>3, <1>4

LEMMA RecordingCounts ==
    ASSUME TypeOK, DropInv, EvaluatedConfig, AccountInv
    PROVE  DropInv'
<1> DEFINE e == recorded + 1
           pushed == Push(queue, e, QueueLimit)
           gone == {queue.events[i] : i \in 1 .. Overflow(queue, QueueLimit)}
<1>1. /\ recorded \in Nat /\ e \in Events /\ recorded' = e /\ collecting' = collecting /\ collecting
      /\ queue' = pushed /\ evicted' = evicted \cup gone
      /\ UNCHANGED <<flushes, counted>>
  BY BoundsAssumption DEF EvaluatedConfig, TypeOK, Events
<1>2. /\ queue \in Queue /\ Len(queue.events) <= QueueLimit /\ queue.events \in Seq(Events)
      /\ queue.dropped \in Nat
  BY DEF TypeOK, Queue
<1>3. 1 .. recorded \subseteq 1 .. e /\ e \notin 1 .. recorded
  BY <1>1
<1>4. \A j \in DOMAIN queue.events : queue.events[j] \in 1 .. recorded
  BY DEF AccountInv, Admitted, Waiting, ToSet
<1>5. \/ pushed.dropped = queue.dropped /\ gone = {} /\ pushed.events = Append(queue.events, e)
      \/ /\ pushed.dropped = queue.dropped + 1 /\ gone = {queue.events[1]} /\ queue.events # <<>>
         /\ pushed.events = Append(Tail(queue.events), e)
  BY <1>1, <1>2, LimitsAssumption, PushDropsFirst
<1> HIDE DEF pushed, gone, e
<1>6. DroppedInFlight' = DroppedInFlight
  BY <1>1 DEF DroppedInFlight
<1>7. Total(flushes) \in Nat /\ counted \in Nat
  BY TotalNat DEF TypeOK
<1>8. CASE pushed.dropped = queue.dropped /\ gone = {} /\ pushed.events = Append(queue.events, e)
  <2>1. DropsCountedOnce'
    BY <1>1, <1>6, <1>8 DEF DropInv, DropsCountedOnce
  <2>2. /\ DOMAIN pushed.events = DOMAIN queue.events \cup {Len(queue.events) + 1}
        /\ pushed.events[Len(queue.events) + 1] = e
        /\ \A j \in DOMAIN queue.events : pushed.events[j] = queue.events[j]
    BY <1>2, <1>8
  <2>3. evicted' = evicted /\ queue'.events = pushed.events /\ collecting'
    BY <1>1, <1>8
  <2>4. \A j \in DOMAIN queue.events : queue.events[j] \notin evicted /\ queue.events[j] # e
    BY <1>3, <1>4 DEF DropInv, DroppedApart, ToSet
  <2>5. evicted \subseteq 1 .. recorded' /\ e \notin evicted
    BY <1>1, <1>3 DEF DropInv, DroppedApart
  <2>6. \A j, k \in DOMAIN pushed.events : j # k => pushed.events[j] # pushed.events[k]
    BY <2>2, <2>4 DEF DropInv, DroppedApart
  <2>7. \A j \in DOMAIN pushed.events : pushed.events[j] \notin evicted
    BY <2>2, <2>4, <2>5
  <2>8. DroppedApart'
    BY <2>3, <2>5, <2>6, <2>7 DEF DroppedApart, ToSet
  <2> QED
    BY <2>1, <2>8 DEF DropInv
<1>9. CASE /\ pushed.dropped = queue.dropped + 1 /\ gone = {queue.events[1]}
           /\ queue.events # <<>> /\ pushed.events = Append(Tail(queue.events), e)
  <2>1. Len(queue.events) \in Nat /\ Len(queue.events) # 0 /\ 1 \in DOMAIN queue.events
        /\ DOMAIN queue.events = 1 .. Len(queue.events)
    BY <1>2, <1>9
  <2>2. queue.events[1] \notin evicted
    BY <2>1 DEF DropInv, DroppedApart, ToSet
  <2>3. IsFiniteSet(evicted)
    <3>1. IsFiniteSet(1 .. recorded)
      BY <1>1, FS_Interval
    <3> QED
      BY <3>1, FS_Subset DEF DropInv, DroppedApart
  <2>4. Cardinality(evicted') = Cardinality(evicted) + 1
    BY <1>1, <1>9, <2>2, <2>3, FS_AddElement
  <2>5. DropsCountedOnce'
    BY <1>1, <1>2, <1>6, <1>7, <1>9, <2>4, InFlightIsTotal DEF DropInv, DropsCountedOnce
  <2>6. /\ DOMAIN pushed.events = 1 .. Len(queue.events)
        /\ pushed.events[Len(queue.events)] = e
        /\ \A j \in 1 .. Len(queue.events) - 1 :
              pushed.events[j] = queue.events[j + 1] /\ j + 1 \in DOMAIN queue.events
    BY <1>1, <1>2, <1>9, <2>1
  <2>7. \A j \in 1 .. Len(queue.events) : j = Len(queue.events) \/ j \in 1 .. Len(queue.events) - 1
    BY <2>1
  <2>8. \A j \in 1 .. Len(queue.events) - 1 : pushed.events[j] \in 1 .. recorded
    BY <1>4, <2>6
  <2>9. e \notin evicted'
    BY <1>1, <1>3, <1>4, <1>9, <2>1 DEF DropInv, DroppedApart
  <2>10. \A j \in 1 .. Len(queue.events) - 1 : pushed.events[j] \notin evicted'
    <3> SUFFICES ASSUME NEW j \in 1 .. Len(queue.events) - 1 PROVE pushed.events[j] \notin evicted'
      OBVIOUS
    <3>1. j + 1 \in DOMAIN queue.events /\ j + 1 # 1 /\ pushed.events[j] = queue.events[j + 1]
      BY <2>6, <2>1
    <3>2. queue.events[j + 1] # queue.events[1] /\ queue.events[j + 1] \notin evicted
      BY <2>1, <3>1 DEF DropInv, DroppedApart, ToSet
    <3> QED
      BY <1>1, <1>9, <3>1, <3>2
  <2>11. \A j, k \in 1 .. Len(queue.events) : j # k => pushed.events[j] # pushed.events[k]
    <3> SUFFICES ASSUME NEW j \in 1 .. Len(queue.events), NEW k \in 1 .. Len(queue.events), j # k
                 PROVE  pushed.events[j] # pushed.events[k]
      OBVIOUS
    <3>1. CASE j = Len(queue.events) \/ k = Len(queue.events)
      BY <1>3, <2>6, <2>7, <2>8, <3>1
    <3>2. CASE j # Len(queue.events) /\ k # Len(queue.events)
      <4>1. j \in 1 .. Len(queue.events) - 1 /\ k \in 1 .. Len(queue.events) - 1
        BY <2>7, <3>2
      <4>2. j + 1 # k + 1
        BY <4>1
      <4> QED
        BY <2>6, <4>1, <4>2 DEF DropInv, DroppedApart
    <3> QED
      BY <3>1, <3>2
  <2>12. DroppedApart'
    <3>1. evicted' \subseteq 1 .. recorded'
      BY <1>1, <1>3, <1>4, <1>9, <2>1 DEF DropInv, DroppedApart
    <3>2. \A j \in DOMAIN pushed.events : pushed.events[j] \notin evicted'
      BY <2>6, <2>7, <2>9, <2>10
    <3> QED
      BY <1>1, <2>6, <2>11, <3>1, <3>2 DEF DroppedApart, ToSet
  <2> QED
    BY <2>5, <2>12 DEF DropInv
<1> QED
  BY <1>5, <1>8, <1>9

\* A flush takes the drops of the queue with it.
LEMMA TakingCounts ==
    ASSUME TypeOK, TypeOK', DropInv, queue' = EmptyQueue,
           Total(flushes') + counted' = Total(flushes) + counted + queue.dropped,
           UNCHANGED <<recorded, evicted>>
    PROVE  DropInv'
<1>1. Total(flushes) \in Nat /\ Total(flushes') \in Nat
  BY TotalNat DEF TypeOK
<1>2. counted \in Nat /\ counted' \in Nat /\ queue.dropped \in Nat
  BY DEF TypeOK
<1>3. queue'.dropped = 0 /\ queue'.events = <<>>
  BY DEF EmptyQueue
<1>4. DroppedInFlight' = Total(flushes') /\ DroppedInFlight = Total(flushes)
  BY DEF DroppedInFlight, Total
<1>5. DropsCountedOnce'
  BY <1>1, <1>2, <1>3, <1>4 DEF DropInv, DropsCountedOnce
<1>6. DroppedApart'
  BY <1>3 DEF DropInv, DroppedApart, ToSet
<1> QED
  BY <1>5, <1>6 DEF DropInv

LEMMA KeepingCounts ==
    ASSUME TypeOK, TypeOK', DropInv, queue' = queue,
           Total(flushes') + counted' = Total(flushes) + counted,
           recorded' >= recorded, evicted' = evicted, collecting' = collecting
    PROVE  DropInv'
<1>1. Total(flushes) \in Nat /\ Total(flushes') \in Nat
  BY TotalNat DEF TypeOK
<1>2. counted \in Nat /\ counted' \in Nat /\ queue.dropped \in Nat
  BY DEF TypeOK
<1>4. DroppedInFlight' = Total(flushes') /\ DroppedInFlight = Total(flushes)
  BY DEF DroppedInFlight, Total
<1>5. DropsCountedOnce'
  BY <1>1, <1>2, <1>4 DEF DropInv, DropsCountedOnce
<1>6. 1 .. recorded \subseteq 1 .. recorded'
  BY DEF TypeOK
<1>7. DroppedApart'
  BY <1>6 DEF DropInv, DroppedApart
<1> QED
  BY <1>5, <1>7 DEF DropInv

LEMMA BeginningCounts ==
    ASSUME TypeOK, TypeOK', DropInv, NEW purpose \in Purposes, NEW update \in Updates,
           BeginFlush(purpose, update), UNCHANGED <<recorded, evicted, counted>>
    PROVE  DropInv'
<1>1. PICK f \in Flushes(purpose, update) : flushes' = Append(flushes, f)
  BY BeginFlushIsTyped
<1>2. f \in Flush /\ f.dropped = queue.dropped
  BY FlushesAreTyped DEF Flushes, Snapshot
<1>3. Total(flushes') = Total(flushes) + queue.dropped
  BY <1>1, <1>2, TotalOfAppended DEF TypeOK
<1>4. counted \in Nat /\ Total(flushes) \in Nat /\ queue.dropped \in Nat
  BY TotalNat DEF TypeOK
<1> QED
  BY <1>3, <1>4, BeginFlushIsTyped, TakingCounts

\* A flush that goes on keeps its drops.
LEMMA GoingOnCounts ==
    ASSUME TypeOK, TypeOK', DropInv, NEW i \in DOMAIN flushes,
           HashingEnds(i) \/ Report(i) \/ SendReport(i) \/ ReportAnswered(i)
    PROVE  DropInv'
<1>1. UNCHANGED <<queue, counted, recorded, evicted, collecting>>
  BY DEF HashingEnds, Report, SendReport, ReportAnswered, history
<1>2. flushes[i] \in Flush
  BY DEF TypeOK
<1>3. \E f : f.dropped = flushes[i].dropped /\ flushes' = [flushes EXCEPT ![i] = f]
  <2>1. CASE HashingEnds(i)
    BY <1>2, <2>1 DEF HashingEnds, Flush
  <2>2. CASE Report(i)
    BY <1>2, <2>2 DEF Report, Flush
  <2>3. CASE SendReport(i)
    BY <1>2, <2>3 DEF SendReport, Flush
  <2>4. CASE ReportAnswered(i)
    <3>1. PICK fatal \in BOOLEAN :
             flushes' = [flushes EXCEPT ![i].stage = "answered", ![i].fatal = fatal]
      BY <2>4 DEF ReportAnswered
    <3>2. flushes' = [flushes EXCEPT ![i] = [flushes[i] EXCEPT !.stage = "answered", !.fatal = fatal]]
      BY <3>1
    <3>3. [flushes[i] EXCEPT !.stage = "answered", !.fatal = fatal].dropped = flushes[i].dropped
      BY <1>2 DEF Flush
    <3> QED
      BY <3>2, <3>3
  <2> QED
    BY <2>1, <2>2, <2>3, <2>4
<1>4. PICK f : f.dropped = flushes[i].dropped /\ flushes' = [flushes EXCEPT ![i] = f]
  BY <1>3
<1>5. flushes \in Seq(Flush) /\ flushes' \in Seq(Flush) /\ i \in 1 .. Len(flushes)
  BY DEF TypeOK
<1>6. Len(flushes') = Len(flushes) /\ flushes'[i] = f
      /\ \A n \in 1 .. Len(flushes) : n # i => flushes'[n] = flushes[n]
  BY <1>4, <1>5
<1>7. Total(flushes') + flushes[i].dropped = Total(flushes) + flushes'[i].dropped
  BY <1>5, <1>6, TotalOfReplaced
<1>8. Total(flushes') \in Nat /\ Total(flushes) \in Nat /\ counted \in Nat
      /\ flushes[i].dropped \in Nat
  BY <1>2, <1>5, TotalNat DEF TypeOK, Flush
<1>9. Total(flushes') = Total(flushes)
  BY <1>4, <1>6, <1>7, <1>8
<1>10. recorded \in Nat
  BY DEF TypeOK
<1> QED
  BY <1>1, <1>8, <1>9, <1>10, KeepingCounts

\* A flush that returns hands its drops over, and may begin anew.
LEMMA ReturningCounts ==
    ASSUME TypeOK, TypeOK', DropInv, AccountInv, NEW i \in DOMAIN flushes, FlushReturns(i)
    PROVE  DropInv'
<1>1. /\ counted' = counted + flushes[i].dropped
      /\ UNCHANGED <<recorded, evicted>>
  BY DEF FlushReturns
<1>2. flushes \in Seq(Flush) /\ flushes' \in Seq(Flush) /\ i \in 1 .. Len(flushes)
      /\ flushes[i] \in Flush
  BY DEF TypeOK
<1>3. Total(flushes') \in Nat /\ Total(flushes) \in Nat /\ counted \in Nat
      /\ flushes[i].dropped \in Nat /\ queue.dropped \in Nat /\ recorded \in Nat
  <2>1. Total(flushes') \in Nat /\ Total(flushes) \in Nat
    BY <1>2, TotalNat
  <2>2. flushes[i].dropped \in Nat
    BY <1>2 DEF Flush
  <2>3. counted \in Nat /\ queue.dropped \in Nat /\ recorded \in Nat
    BY DEF TypeOK
  <2> QED
    BY <2>1, <2>2, <2>3
<1>4. ASSUME NEW purpose \in Purposes, FlushAgain(i, purpose)
      PROVE  DropInv'
    <2>0. 0 \in Updates
      BY BoundsAssumption DEF Updates
    <2>1. PICK f \in Flushes(purpose, 0) : flushes' = [flushes EXCEPT ![i] = f]
      BY <1>4 DEF FlushAgain
    <2>2. f.dropped = queue.dropped
      BY DEF Flushes, Snapshot
    <2>3. Len(flushes') = Len(flushes) /\ flushes'[i] = f
          /\ \A n \in 1 .. Len(flushes) : n # i => flushes'[n] = flushes[n]
      BY <1>2, <2>1
    <2>4. Total(flushes') + flushes[i].dropped = Total(flushes) + flushes'[i].dropped
      BY <1>2, <2>3, TotalOfReplaced
    <2>5. Total(flushes') + counted' = Total(flushes) + counted + queue.dropped
      <3> DEFINE a == Total(flushes')
                 b == Total(flushes)
                 c == flushes[i].dropped
                 d == queue.dropped
      <3>1. a \in Nat /\ b \in Nat /\ c \in Nat /\ d \in Nat /\ counted \in Nat /\ a + c = b + d
        BY <1>3, <2>2, <2>3, <2>4
      <3> HIDE DEF a, b, c, d
      <3>2. a + (counted + c) = b + counted + d
        BY <3>1
      <3> QED
        BY <1>1, <3>2 DEF a, b, c, d
    <2>6. queue' = EmptyQueue
      BY <1>4 DEF FlushAgain, TakeSnapshot, AfterSnapshot
    <2> QED
      BY <1>1, <2>5, <2>6, TakingCounts
<1>5. ASSUME flushes' = RemoveAt(flushes, i) PROVE Total(flushes') + counted' = Total(flushes) + counted
  <2>1. Total(flushes') + flushes[i].dropped = Total(flushes)
    BY <1>2, <1>5, TotalOfRemoved
  <2> QED
    BY <1>1, <1>3, <2>1
<1>6. ASSUME End(i), collecting' = collecting PROVE DropInv'
  BY <1>1, <1>3, <1>5, <1>6, KeepingCounts DEF End
<1>7. CASE AdoptContext(i)
  BY <1>4, <1>6, <1>7 DEF AdoptContext, Purposes
<1>8. CASE ScheduleNext(i)
  BY <1>4, <1>6, <1>8 DEF ScheduleNext, Purposes
<1>9. CASE ClearQueues(i)
  <2>1. ~collecting /\ queue.dropped = 0
    BY <1>9 DEF ClearQueues, AccountInv, CloseTakesTheLast, DropInv, DroppedApart
  <2>2. queue' = EmptyQueue /\ flushes' = RemoveAt(flushes, i)
    BY <1>9 DEF ClearQueues
  <2>3. Total(flushes') + counted' = Total(flushes) + counted + queue.dropped
    BY <1>3, <1>5, <2>1, <2>2
  <2> QED
    BY <1>1, <2>2, <2>3, TakingCounts
<1> QED
  BY <1>7, <1>8, <1>9 DEF FlushReturns

LEMMA StepCounts == TypeOK /\ TypeOK' /\ AccountInv /\ DropInv /\ [Next]_vars => DropInv'
<1> SUFFICES ASSUME TypeOK, TypeOK', AccountInv, DropInv, [Next]_vars PROVE DropInv'
  OBVIOUS
<1>0. 0 \in Updates /\ {"scheduled", "update", "close"} \subseteq Purposes
  BY BoundsAssumption DEF Updates, Purposes
<1>1. ASSUME UNCHANGED <<collecting, queue, flushes, evicted, counted>>, recorded' >= recorded
      PROVE  DropInv'
  BY <1>1, KeepingCounts
<1>2. recorded \in Nat
  BY DEF TypeOK
<1>3. CASE Start \/ SessionResolves \/ UNCHANGED vars
  BY <1>1, <1>2, <1>3 DEF Start, SessionResolves, vars, history
<1>4. CASE TrackedEvent
  BY <1>1, <1>2, <1>4 DEF TrackedEvent
<1>5. CASE EvaluatedConfig
  BY <1>5, RecordingCounts
<1>6. CASE UpdateContext
  <2>1. calls + 1 \in Updates
    BY <1>6, BoundsAssumption DEF UpdateContext, Call, Updates, TypeOK
  <2> QED
    BY <1>0, <1>6, <2>1, BeginningCounts DEF UpdateContext, history
<1>7. CASE ForceFlush \/ FlushTimeout
  <2>1. UNCHANGED <<collecting, recorded, evicted, counted>>
    BY <1>7 DEF ForceFlush, FlushTimeout, history
  <2>2. BeginFlush("scheduled", 0) \/ UNCHANGED <<flushes, queue>>
    BY <1>7 DEF ForceFlush, FlushTimeout
  <2> QED
    BY <1>0, <1>1, <1>2, <2>1, <2>2, BeginningCounts
<1>8. CASE Close
  BY <1>0, <1>8, BeginningCounts DEF Close, history
<1>9. ASSUME NEW i \in DOMAIN flushes, Reaction(i) \/ Environment(i) PROVE DropInv'
  BY <1>9, GoingOnCounts, ReturningCounts DEF Reaction, Environment
<1> QED
  BY <1>3, <1>4, <1>5, <1>6, <1>7, <1>8, <1>9 DEF Next, Owner

\* What happens to an event is one thing and not none, and each event the full queue
\* dropped is counted in exactly one flush, however flushes, a full queue and a close overlap.
THEOREM EventsAlwaysAccountedFor == Spec => []EventsAccountedFor
<1>1. Init => DropInv
  <2> SUFFICES ASSUME Init PROVE DropInv
    OBVIOUS
  <2>1. /\ flushes = <<>> /\ Len(flushes) = 0 /\ flushes \in Seq(Flush)
        /\ queue.dropped = 0 /\ queue.events = <<>> /\ evicted = {} /\ counted = 0
    BY DEF Init, EmptyQueue
  <2>2. DroppedInFlight = 0
    BY <2>1, DroppedUpToAdds DEF DroppedInFlight
  <2>3. Cardinality({}) = 0
    BY FS_EmptySet
  <2>4. ToSet(<<>>) = {} /\ DOMAIN queue.events = {}
    BY <2>1 DEF ToSet
  <2> QED
    BY <2>1, <2>2, <2>3, <2>4 DEF DropInv, DropsCountedOnce, DroppedApart
<1>2. Spec => []DropInv
  <2>1. Spec => []TypeOK
    BY TypeCorrect
  <2>2. Spec => []AccountInv
    BY AccountsAlways
  <2>3. Spec => [][Next]_vars
    BY PTL DEF Spec
  <2>4. Spec => DropInv
    BY <1>1 DEF Spec
  <2> QED
    BY <2>1, <2>2, <2>3, <2>4, StepCounts, PTL
<1>3. DropInv => DropsCountedOnce
  BY DEF DropInv
<1> QED
  BY <1>2, <1>3, EventsNeverTwiceNorLost, PTL DEF EventsAccountedFor

----------------------------------------------------------------------------
(***************************************************************************)
(* The worker's thread against its page.  No thread runs without a worker  *)
(* that the page started and has not terminated, and a started worker has  *)
(* taken the backlog over; a context that finds no worker starts one, so   *)
(* without a worker none was given.                                        *)
(***************************************************************************)
PageInv ==
    /\ worker = "none" => thread = "none" /\ toWorker = <<>> /\ received = 0 /\ (turnedOff \/ asked = 0)
    /\ turnedOff => worker = "none" /\ evaluations = <<>> /\ entries = <<>>
    /\ worker # "none" => evaluations = <<>> /\ entries = <<>>
    /\ worker = "terminated" => thread # "running"
    /\ closeTimer \/ closedSent => worker # "none"
    /\ asked <= pageCalls /\ received <= calls
    /\ Len(flushes) <= MaxFlushes

\* The collector as the entries of the backlog find it: nothing but the backlog's
\* evaluations came before them, and without a client session no flush gets past its
\* report.  absorbTrackedEventEntries can do without the checks of trackedEvent.
Untouched ==
    /\ ~session /\ collecting /\ executing /\ tracked = <<>>
    /\ \A i \in DOMAIN flushes : Unsent(flushes[i])

BacklogFirst(k) ==
    /\ Len(toWorker[k].items) <= BatchLimit
    /\ \A j \in 1 .. k - 1 : toWorker[j].type \in
          {"Initialize", "EvaluatedConfigEvent", "InvalidContextSubmissions"}

EntriesComeEarly ==
    /\ thread = "none" => Untouched
    /\ \A k \in DOMAIN toWorker :
          toWorker[k].type = "TrackedEventEntries" => Untouched /\ BacklogFirst(k)

\* The flush the worker awaits is that of a close, so that the queues are cleared when it
\* ends, and nothing is recorded in a worker that closed itself.
CloseAwaited ==
    /\ awaited # 0 => awaited \in DOMAIN flushes /\ flushes[awaited].purpose = "close"
    /\ thread = "closed" => Waiting = {}

\* What the worker does to its collector is a step of the collector, but for the backlog's
\* entries, which only a worker hands over.
LEMMA WorkerStepsAreCollectorSteps == [WorkerNext]_allVars => [Next]_vars \/ OnTrackedEventEntries
<1> SUFFICES ASSUME [WorkerNext]_allVars PROVE [Next]_vars \/ OnTrackedEventEntries
  OBVIOUS
<1>1. CASE UNCHANGED allVars
  BY <1>1 DEF allVars
<1>2. CASE Page
  <2>1. UNCHANGED vars
    BY <1>2 DEF Page, ForwardClientSession, PageSessionResolves, RecordEvaluation, RecordTrackedEvent,
                RecordInvalidContext, GiveContext, HidePage, PerformClose, CloseTimesOut, HandleClosed,
                FinishClose, collectorVars
  <2> QED
    BY <2>1
<1>3. CASE Handlers
  BY <1>3 DEF Handlers, OnInitialize, OnClientSession, OnEvaluatedConfig, OnTrackedEvent,
              OnInvalidContextSubmissions, OnUpdateContext, OnFlush, OnClose, Next, Owner
<1>4. CASE CollectorTimeout \/ WorkerFails
  BY <1>4 DEF CollectorTimeout, WorkerFails, collectorVars, Next
<1>5. ASSUME NEW i \in DOMAIN flushes, CollectorStep(i) PROVE Next
  BY <1>5 DEF CollectorStep, Next
<1> QED
  BY <1>1, <1>2, <1>3, <1>4, <1>5 DEF WorkerNext

\* A message keeps its type in the channel.
LEMMA PlainIsTyped ==
  ASSUME NEW type \in {"Initialize", "ClientSession", "InvalidContextSubmissions", "UpdateContext",
                       "Flush", "Close"}
  PROVE  Plain(type) \in Message /\ Plain(type).type = type
BY DEF Plain, Message

LEMMA MadeIsTyped ==
  ASSUME NEW type \in {"EvaluatedConfigEvent", "TrackedEvent"}, made \in Nat, asked \in Updates
  PROVE  /\ Made(type) \in Message /\ Made(type).type = type
         /\ Made(type).item \in Recorded /\ Made(type).item.asked = asked
<1>1. made + 1 \in Events
  BY DEF Events
<1> QED
  BY <1>1 DEF Made, Message, Recorded

LEMMA PostIsTyped ==
  ASSUME toWorker \in Seq(Message), NEW m \in Message, Post(<<m>>)
  PROVE  toWorker' \in Seq(Message)
BY DEF Post

LEMMA BacklogIsTyped ==
  ASSUME WorkerTypeOK
  PROVE  /\ Backlog \in Seq(Message)
         /\ \A k \in DOMAIN Backlog :
               \/ /\ Backlog[k].type = "EvaluatedConfigEvent"
                  /\ Backlog[k].item \in ToSet(evaluations)
               \/ Backlog[k].type = "InvalidContextSubmissions"
               \/ /\ Backlog[k].type = "TrackedEventEntries"
                  /\ Backlog[k].items = entries
                  /\ k = Len(Backlog)
<1> DEFINE first == [i \in DOMAIN evaluations |->
                        [type |-> "EvaluatedConfigEvent", item |-> evaluations[i]]]
           second == IF submissions THEN <<Plain("InvalidContextSubmissions")>> ELSE <<>>
           third == IF entries # <<>>
                    THEN <<[type |-> "TrackedEventEntries", items |-> entries]>> ELSE <<>>
<1>1. first \in Seq(Message) /\ Len(first) = Len(evaluations)
  <2>1. \A i \in DOMAIN evaluations :
           [type |-> "EvaluatedConfigEvent", item |-> evaluations[i]] \in Message
    BY DEF WorkerTypeOK, Message
  <2>2. DOMAIN evaluations = 1 .. Len(evaluations) /\ Len(evaluations) \in Nat
    BY DEF WorkerTypeOK
  <2> QED
    BY <2>1, <2>2
<1>2. \A i \in 1 .. Len(first) :
         first[i].type = "EvaluatedConfigEvent" /\ first[i].item \in ToSet(evaluations)
  <2> SUFFICES ASSUME NEW i \in 1 .. Len(first)
               PROVE  /\ first[i].type = "EvaluatedConfigEvent"
                      /\ first[i].item \in ToSet(evaluations)
    OBVIOUS
  <2>1. i \in DOMAIN evaluations
    BY <1>1 DEF WorkerTypeOK
  <2>2. first[i] = [type |-> "EvaluatedConfigEvent", item |-> evaluations[i]]
    BY <2>1
  <2>3. evaluations[i] \in ToSet(evaluations)
    BY <2>1 DEF ToSet
  <2> QED
    BY <2>2, <2>3
<1>3. second \in Seq(Message) /\ \A i \in 1 .. Len(second) : second[i].type = "InvalidContextSubmissions"
  BY PlainIsTyped
<1>4. /\ third \in Seq(Message) /\ Len(third) <= 1
      /\ \A i \in 1 .. Len(third) : third[i].type = "TrackedEventEntries" /\ third[i].items = entries
  <2>1. [type |-> "TrackedEventEntries", items |-> entries] \in Message
    BY DEF WorkerTypeOK, Message
  <2> QED
    BY <2>1
<1>5. Backlog = first \o second \o third
  BY DEF Backlog
<1> HIDE DEF first, second, third
<1> QED
  BY <1>1, <1>2, <1>3, <1>4, <1>5

LEMMA BacklogStaysTyped ==
  ASSUME NEW s \in Seq(Recorded), NEW item \in Recorded, Len(s) <= QueueLimit
  PROVE  /\ Append(Behead(s, Excess(Len(s) + 1, QueueLimit)), item) \in Seq(Recorded)
         /\ Len(Append(Behead(s, Excess(Len(s) + 1, QueueLimit)), item)) <= QueueLimit
         /\ \A i \in DOMAIN Behead(s, Excess(Len(s) + 1, QueueLimit)) :
               Behead(s, Excess(Len(s) + 1, QueueLimit))[i] \in ToSet(s)
<1> DEFINE x == Excess(Len(s) + 1, QueueLimit)
           kept == Behead(s, x)
<1>1. QueueLimit \in Nat \ {0} /\ Len(s) \in Nat
  BY LimitsAssumption
<1>2. x \in Nat /\ x <= Len(s) /\ Len(s) - x + 1 <= QueueLimit
  BY <1>1 DEF Excess
<1> HIDE DEF x
<1>3. kept \in Seq(Recorded) /\ Len(kept) = Len(s) - x
  BY <1>2 DEF Behead
<1>4. \A i \in DOMAIN kept : kept[i] = s[i + x] /\ i + x \in DOMAIN s
  BY <1>1, <1>2 DEF Behead
<1>5. \A i \in DOMAIN kept : kept[i] \in ToSet(s)
  BY <1>4 DEF ToSet
<1> HIDE DEF kept
<1>6. Append(kept, item) \in Seq(Recorded) /\ Len(Append(kept, item)) <= QueueLimit
  BY <1>1, <1>2, <1>3
<1> QED
  BY <1>5, <1>6 DEF x, kept

\* A step of the page keeps every variable of the worker and the page within its type.
LEMMA PageStepIsTyped ==
  ASSUME WorkerTypeOK, PageInv, Page
  PROVE  WorkerTypeOK' /\ PageInv'
<1>0. /\ UNCHANGED <<flushes, calls>> /\ Len(flushes) <= MaxFlushes
  BY DEF Page, ForwardClientSession, PageSessionResolves, RecordEvaluation, RecordTrackedEvent,
         RecordInvalidContext, GiveContext, HidePage, PerformClose, CloseTimesOut, HandleClosed,
         FinishClose, collectorVars, vars, ownerVars, PageInv
<1>1. /\ made \in Nat /\ asked \in Nat /\ asked \in Updates /\ pageCalls \in Nat
      /\ MaxEvents \in Nat /\ MaxCalls \in Nat
  BY BoundsAssumption DEF WorkerTypeOK, Updates
<1>p. ASSUME NEW type \in {"ClientSession", "InvalidContextSubmissions", "UpdateContext", "Flush",
                           "Close"}, Post(<<Plain(type)>>)
      PROVE  toWorker' \in Seq(Message) /\ (thread # "running" => toWorker' = toWorker)
  <2>1. Plain(type) \in Message
    BY PlainIsTyped
  <2> QED
    BY <1>p, <2>1, PostIsTyped DEF Post, WorkerTypeOK
<1>m. ASSUME NEW type \in {"EvaluatedConfigEvent", "TrackedEvent"}, Post(<<Made(type)>>)
      PROVE  toWorker' \in Seq(Message) /\ (thread # "running" => toWorker' = toWorker)
  <2>1. Made(type) \in Message
    BY <1>1, MadeIsTyped
  <2> QED
    BY <1>m, <2>1, PostIsTyped DEF Post, WorkerTypeOK
<1>e. /\ <<>> \in Seq(Recorded) /\ <<>> \in Seq(Message) /\ Len(<<>>) = 0
      /\ Len(<<>>) <= QueueLimit /\ Len(<<>>) <= BatchLimit
  BY LimitsAssumption
<1>2. CASE ForwardClientSession
  <2>1. toWorker' \in Seq(Message) /\ (thread # "running" => toWorker' = toWorker)
    BY <1>2, <1>p DEF ForwardClientSession
  <2> QED
    BY <1>0, <1>2, <2>1 DEF ForwardClientSession, WorkerTypeOK, PageInv, backlogVars, closeVars,
                            workerVars
<1>3. CASE PageSessionResolves
  BY <1>0, <1>3 DEF PageSessionResolves, WorkerTypeOK, PageInv, backlogVars, closeVars, workerVars
<1>4. CASE RecordEvaluation
  <2>1. made' \in 0 .. MaxEvents
    BY <1>1, <1>4 DEF RecordEvaluation, RecordEvent
  <2>2. toWorker' \in Seq(Message) /\ (thread # "running" => toWorker' = toWorker)
    BY <1>4, <1>m DEF RecordEvaluation, WorkerTypeOK
  <2>3. evaluations' \in Seq(Recorded) /\ Len(evaluations') <= QueueLimit
    <3>1. Made("EvaluatedConfigEvent").item \in Recorded
      BY <1>1, MadeIsTyped
    <3> QED
      BY <1>4, <3>1, BacklogStaysTyped DEF RecordEvaluation, WorkerTypeOK
  <2>4. worker # "none" => evaluations' = evaluations
    BY <1>4 DEF RecordEvaluation
  <2> QED
    BY <1>0, <1>4, <2>1, <2>2, <2>3, <2>4
       DEF RecordEvaluation, WorkerTypeOK, PageInv, closeVars, workerVars
<1>5. CASE RecordTrackedEvent
  <2>1. made' \in 0 .. MaxEvents
    BY <1>1, <1>5 DEF RecordTrackedEvent, RecordEvent
  <2>2. toWorker' \in Seq(Message) /\ (thread # "running" => toWorker' = toWorker)
    BY <1>5, <1>m DEF RecordTrackedEvent, WorkerTypeOK
  <2>3. entries' \in Seq(Recorded) /\ Len(entries') <= BatchLimit
    <3>1. Made("TrackedEvent").item \in Recorded
      BY <1>1, MadeIsTyped
    <3>2. entries \in Seq(Recorded) /\ Len(entries) <= BatchLimit /\ Len(entries) \in Nat
      BY DEF WorkerTypeOK
    <3>3. CASE entries' = entries
      BY <3>2, <3>3
    <3>4. CASE Admits(entries, BatchLimit) /\ entries' = Append(entries, Made("TrackedEvent").item)
      BY <3>1, <3>2, <3>4, LimitsAssumption DEF Admits
    <3> QED
      BY <1>5, <3>3, <3>4 DEF RecordTrackedEvent
  <2>4. worker # "none" => entries' = entries
    BY <1>5 DEF RecordTrackedEvent
  <2> QED
    BY <1>0, <1>5, <2>1, <2>2, <2>3, <2>4
       DEF RecordTrackedEvent, WorkerTypeOK, PageInv, closeVars, workerVars
<1>6. CASE RecordInvalidContext
  <2>1. made' \in 0 .. MaxEvents
    BY <1>1, <1>6 DEF RecordInvalidContext, RecordEvent
  <2>2. toWorker' \in Seq(Message) /\ (thread # "running" => toWorker' = toWorker)
    BY <1>6, <1>p DEF RecordInvalidContext, WorkerTypeOK
  <2>3. submissions' \in BOOLEAN
    BY <1>6 DEF RecordInvalidContext, WorkerTypeOK
  <2> QED
    BY <1>0, <1>6, <2>1, <2>2, <2>3
       DEF RecordInvalidContext, WorkerTypeOK, PageInv, closeVars, workerVars
<1>7. CASE GiveContext
  <2>1. asked' = asked + 1 /\ pageCalls' = pageCalls + 1 /\ pageCalls < MaxCalls /\ asked <= pageCalls
    BY <1>7 DEF GiveContext, CallPage, PageInv
  <2>2. asked' \in Updates /\ pageCalls' \in 0 .. MaxCalls /\ asked' <= pageCalls'
    BY <1>1, <2>1 DEF Updates
  <2>3. UNCHANGED <<closing, closeTimer, pageSession, forwarded, made, closedSent, awaited, received>>
    BY <1>7 DEF GiveContext, closeVars
  <2>4. CASE StartWorker
    <3>1. toWorker' \in Seq(Message)
      <4>1. <<Plain("Initialize")>> \in Seq(Message) /\ <<Plain("UpdateContext")>> \in Seq(Message)
        BY PlainIsTyped
      <4>2. Backlog \in Seq(Message)
        BY BacklogIsTyped
      <4> QED
        BY <2>4, <4>1, <4>2 DEF StartWorker
    <3>2. worker' = "started" /\ thread' = "running" /\ evaluations' = <<>> /\ entries' = <<>>
          /\ submissions' = FALSE /\ turnedOff' = turnedOff
      BY <2>4 DEF StartWorker
    <3>3. ~turnedOff
      BY <1>7, <2>4 DEF GiveContext, StartWorker, PageInv
    <3>4. WorkerTypeOK'
      <4>1. /\ submissions' \in BOOLEAN /\ turnedOff' \in BOOLEAN /\ closeTimer' \in BOOLEAN
            /\ pageSession' \in BOOLEAN /\ forwarded' \in BOOLEAN /\ closedSent' \in BOOLEAN
        BY <2>3, <3>2 DEF WorkerTypeOK
      <4>2. /\ evaluations' \in Seq(Recorded) /\ Len(evaluations') <= QueueLimit
            /\ entries' \in Seq(Recorded) /\ Len(entries') <= BatchLimit
        BY <1>e, <3>2
      <4> QED
        BY <2>2, <2>3, <3>1, <3>2, <4>1, <4>2 DEF WorkerTypeOK
    <3> QED
      BY <1>0, <2>2, <2>3, <3>2, <3>3, <3>4 DEF PageInv
  <2>5. CASE worker = "none" /\ TurnOff
    <3>1. worker = "none"
      BY <2>5
    <3>2. /\ turnedOff' = TRUE /\ evaluations' = <<>> /\ entries' = <<>>
          /\ UNCHANGED <<worker, thread, toWorker, submissions>>
      BY <2>5 DEF TurnOff
    <3>3. WorkerTypeOK'
      BY <2>2, <2>3, <3>2, LimitsAssumption DEF WorkerTypeOK
    <3> QED
      BY <1>0, <2>2, <2>3, <3>1, <3>2, <3>3 DEF PageInv
  <2>6. CASE /\ worker # "none" \/ turnedOff
             /\ Post(<<Plain("UpdateContext")>>)
             /\ UNCHANGED <<worker, thread, backlogVars, turnedOff>>
    <3>1. toWorker' \in Seq(Message) /\ (thread # "running" => toWorker' = toWorker)
      BY <1>p, <2>6
    <3> QED
      BY <1>0, <2>2, <2>3, <2>6, <3>1 DEF WorkerTypeOK, PageInv, backlogVars
  <2> QED
    BY <1>7, <2>4, <2>5, <2>6 DEF GiveContext
<1>8. CASE HidePage
  <2>1. toWorker' \in Seq(Message) /\ (thread # "running" => toWorker' = toWorker)
    BY <1>8, <1>p DEF HidePage
  <2>2. pageCalls' \in 0 .. MaxCalls /\ asked <= pageCalls'
    BY <1>1, <1>8 DEF HidePage, CallPage, PageInv
  <2> QED
    BY <1>0, <1>8, <2>1, <2>2
       DEF HidePage, WorkerTypeOK, PageInv, backlogVars, closeVars, workerVars
<1>9. CASE PerformClose
  <2>1. toWorker' \in Seq(Message) /\ (thread # "running" => toWorker' = toWorker)
    BY <1>9, <1>p DEF PerformClose, WorkerTypeOK
  <2>2. pageCalls' \in 0 .. MaxCalls /\ asked <= pageCalls'
    BY <1>1, <1>9 DEF PerformClose, CallPage, PageInv
  <2>3. /\ closing' \in {"open", "closing", "closed"} /\ closeTimer' \in BOOLEAN
        /\ submissions' \in BOOLEAN
        /\ \/ evaluations' = <<>> /\ entries' = <<>>
           \/ evaluations' = evaluations /\ entries' = entries
    BY <1>9 DEF PerformClose, WorkerTypeOK, backlogVars
  <2> QED
    BY <1>0, <1>9, <2>1, <2>2, <2>3, LimitsAssumption, SMTT(30)
       DEF PerformClose, WorkerTypeOK, PageInv, workerVars
<1>10. CASE CloseTimesOut \/ HandleClosed
  <2>1. /\ FinishClose /\ closedSent' \in BOOLEAN /\ worker # "none" /\ ~turnedOff
    BY <1>10 DEF CloseTimesOut, HandleClosed, WorkerTypeOK, PageInv
  <2>2. UNCHANGED <<turnedOff, evaluations, entries, submissions, pageSession, forwarded, made, asked,
                    pageCalls, awaited, received>>
    BY <2>1 DEF FinishClose, backlogVars
  <2>3. /\ closing' = "closed" /\ closeTimer' = FALSE /\ worker' = "terminated" /\ toWorker' = <<>>
        /\ thread' # "running" /\ thread' \in {"none", "running", "closed", "gone"}
    BY <2>1 DEF FinishClose, WorkerTypeOK
  <2>4. WorkerTypeOK'
    <3>1. /\ submissions' \in BOOLEAN /\ turnedOff' \in BOOLEAN /\ closeTimer' \in BOOLEAN
          /\ pageSession' \in BOOLEAN /\ forwarded' \in BOOLEAN
      BY <2>2, <2>3 DEF WorkerTypeOK
    <3>2. /\ made' \in 0 .. MaxEvents /\ asked' \in Updates /\ received' \in Updates
          /\ pageCalls' \in 0 .. MaxCalls /\ awaited' \in 0 .. MaxFlushes
      BY <2>2 DEF WorkerTypeOK
    <3> QED
      BY <1>e, <2>1, <2>2, <2>3, <3>1, <3>2 DEF WorkerTypeOK
  <2> QED
    BY <1>0, <2>1, <2>2, <2>3, <2>4 DEF PageInv
<1> QED
  BY <1>2, <1>3, <1>4, <1>5, <1>6, <1>7, <1>8, <1>9, <1>10 DEF Page

(***************************************************************************)
(* The entries of the backlog find the collector untouched.                *)
(***************************************************************************)

\* Starting, recording an evaluation, and what the collector does by itself before the
\* session is there leave it untouched.
LEMMA UntouchedStays ==
  ASSUME TypeOK, Untouched,
         \/ Start \/ EvaluatedConfig \/ FlushTimeout \/ UNCHANGED vars
         \/ \E i \in DOMAIN flushes : Reaction(i) \/ Environment(i)
  PROVE  Untouched'
<1>0. flushes \in Seq(Flush)
  BY DEF TypeOK
<1>1. CASE Start \/ EvaluatedConfig \/ UNCHANGED vars
  <2>1. UNCHANGED <<session, collecting, executing, tracked, flushes>>
    BY <1>1 DEF Start, EvaluatedConfig, vars
  <2> QED
    BY <2>1 DEF Untouched
<1>2. CASE FlushTimeout
  <2>1. UNCHANGED <<session, collecting, executing, tracked>>
    BY <1>2 DEF FlushTimeout
  <2>2. CASE flushes' = flushes
    BY <2>1, <2>2 DEF Untouched
  <2>3. CASE BeginFlush("scheduled", 0)
    <3>1. PICK f \in Flushes("scheduled", 0) : flushes' = Append(flushes, f)
      BY <2>3 DEF BeginFlush
    <3>2. Unsent(f)
      BY <3>1 DEF Flushes, Snapshot, Unsent
    <3>3. \A i \in DOMAIN flushes' : flushes'[i] = f \/ (i \in DOMAIN flushes /\ flushes'[i] = flushes[i])
      BY <1>0, <3>1
    <3> QED
      BY <2>1, <3>2, <3>3 DEF Untouched, Unsent
  <2> QED
    BY <1>2, <2>2, <2>3 DEF FlushTimeout
<1>3. ASSUME NEW i \in DOMAIN flushes, Reaction(i) \/ Environment(i) PROVE Untouched'
  <2>1. Unsent(flushes[i]) /\ ~session /\ executing /\ flushes[i] \in Flush
    BY <1>0 DEF Untouched
  <2>2. flushes[i].stage \notin {"sending", "answered"}
    BY <2>1 DEF Unsent
  <2>3. CASE HashingEnds(i)
    <3>1. flushes' = [flushes EXCEPT ![i].stage = "report"]
          /\ UNCHANGED <<session, collecting, executing, tracked>>
      BY <2>3 DEF HashingEnds
    <3>2. \A j \in DOMAIN flushes' : Unsent(flushes'[j])
      BY <1>0, <2>1, <3>1 DEF Untouched, Unsent, Flush
    <3> QED
      BY <3>1, <3>2 DEF Untouched, Unsent
  <2>4. CASE Report(i)
    <3>1. flushes' = [flushes EXCEPT ![i].batch = tracked, ![i].fatal = ~executing,
                                     ![i].stage = "session"]
          /\ UNCHANGED <<session, collecting, executing>> /\ tracked' = <<>>
      BY <2>1, <2>4 DEF Report
    <3>2. \A j \in DOMAIN flushes' : Unsent(flushes'[j])
      BY <1>0, <2>1, <3>1 DEF Untouched, Unsent, Flush
    <3> QED
      BY <3>1, <3>2 DEF Untouched, Unsent
  <2> QED
    BY <1>3, <2>1, <2>2, <2>3, <2>4
       DEF Reaction, Environment, SendReport, ReportAnswered, FlushReturns
<1> QED
  BY <1>1, <1>2, <1>3

\* Posting after the entries changes nothing for them.
LEMMA PostingStaysEarly ==
  ASSUME toWorker \in Seq(Message), EntriesComeEarly,
         NEW m \in Message, m.type # "TrackedEventEntries", Post(<<m>>),
         UNCHANGED <<session, collecting, executing, tracked, flushes>>,
         thread' = thread
  PROVE  EntriesComeEarly'
<1>1. (Untouched => Untouched')
  BY DEF Untouched
<1>2. CASE toWorker' = toWorker
  BY <1>1, <1>2 DEF EntriesComeEarly, BacklogFirst
<1>3. CASE toWorker' = toWorker \o <<m>>
  <2>1. ASSUME NEW k \in DOMAIN toWorker', toWorker'[k].type = "TrackedEventEntries"
        PROVE  Untouched' /\ BacklogFirst(k)'
    <3>1. Len(toWorker') = Len(toWorker) + 1 /\ toWorker'[Len(toWorker) + 1] = m
      BY <1>3
    <3>2. k \in DOMAIN toWorker /\ toWorker'[k] = toWorker[k]
      BY <1>3, <2>1, <3>1
    <3>3. Untouched /\ BacklogFirst(k)
      BY <2>1, <3>2 DEF EntriesComeEarly
    <3>4. \A j \in 1 .. k - 1 : toWorker'[j] = toWorker[j]
      BY <1>3, <3>2
    <3> QED
      BY <1>1, <3>2, <3>3, <3>4 DEF BacklogFirst
  <2> QED
    BY <1>1, <2>1 DEF EntriesComeEarly
<1> QED
  BY <1>2, <1>3 DEF Post

\* Nor does delivering what came before them.
LEMMA ReceivingStaysEarly ==
  ASSUME toWorker \in Seq(Message), toWorker # <<>>, toWorker' = Tail(toWorker), EntriesComeEarly,
         Head(toWorker).type \in {"Initialize", "EvaluatedConfigEvent", "InvalidContextSubmissions"}
             /\ Untouched => Untouched',
         thread' = "running"
  PROVE  EntriesComeEarly'
<1>1. ASSUME NEW k \in DOMAIN toWorker', toWorker'[k].type = "TrackedEventEntries"
      PROVE  Untouched' /\ BacklogFirst(k)'
  <2>1. k \in 1 .. Len(toWorker) - 1 /\ k + 1 \in DOMAIN toWorker /\ toWorker'[k] = toWorker[k + 1]
    OBVIOUS
  <2>2. Untouched /\ BacklogFirst(k + 1)
    BY <1>1, <2>1 DEF EntriesComeEarly
  <2>3. \A j \in 1 .. k - 1 : toWorker'[j] = toWorker[j + 1] /\ j + 1 \in 1 .. (k + 1) - 1
    BY <2>1
  <2>4. 1 \in 1 .. (k + 1) - 1 /\ Head(toWorker) = toWorker[1]
    BY <2>1
  <2>5. Untouched'
    BY <2>2, <2>4 DEF BacklogFirst
  <2>6. BacklogFirst(k)'
    BY <2>1, <2>2, <2>3 DEF BacklogFirst
  <2> QED
    BY <2>5, <2>6
<1> QED
  BY <1>1 DEF EntriesComeEarly

LEMMA EntriesStayEarly ==
  ASSUME TypeOK, WorkerTypeOK, PageInv, EntriesComeEarly, [WorkerNext]_allVars
  PROVE  EntriesComeEarly'
<1>0. /\ toWorker \in Seq(Message) /\ made \in Nat /\ asked \in Updates /\ MaxCalls \in Nat
  BY BoundsAssumption DEF WorkerTypeOK
<1>1. ASSUME UNCHANGED <<thread, toWorker, session, collecting, executing, tracked, flushes>>
      PROVE  EntriesComeEarly'
  <2>1. Untouched => Untouched'
    BY <1>1 DEF Untouched
  <2> QED
    BY <1>1, <2>1 DEF EntriesComeEarly, BacklogFirst
<1>2. ASSUME toWorker' = <<>>, thread' # "none" PROVE EntriesComeEarly'
  BY <1>2 DEF EntriesComeEarly
<1>3. CASE Page
  <2>1. UNCHANGED <<session, collecting, executing, tracked, flushes>>
    BY <1>3 DEF Page, ForwardClientSession, PageSessionResolves, RecordEvaluation,
                RecordTrackedEvent, RecordInvalidContext, GiveContext, HidePage, PerformClose,
                CloseTimesOut, HandleClosed, FinishClose, collectorVars, vars
  <2>2. ASSUME UNCHANGED <<thread, toWorker>> PROVE EntriesComeEarly'
    BY <1>1, <2>1, <2>2
  <2>3. ASSUME NEW type \in {"ClientSession", "InvalidContextSubmissions", "UpdateContext", "Flush",
                             "Close"},
               Post(<<Plain(type)>>), thread' = thread
        PROVE  EntriesComeEarly'
    BY <1>0, <2>1, <2>3, PlainIsTyped, PostingStaysEarly
  <2>4. ASSUME NEW type \in {"EvaluatedConfigEvent", "TrackedEvent"},
               Post(<<Made(type)>>), thread' = thread
        PROVE  EntriesComeEarly'
    BY <1>0, <2>1, <2>4, MadeIsTyped, PostingStaysEarly
  <2>5. CASE ForwardClientSession \/ HidePage
    BY <2>3, <2>5 DEF ForwardClientSession, HidePage, workerVars
  <2>6. CASE PageSessionResolves
    BY <2>2, <2>6 DEF PageSessionResolves, workerVars
  <2>7. CASE RecordEvaluation
    BY <2>2, <2>4, <2>7 DEF RecordEvaluation, workerVars
  <2>8. CASE RecordTrackedEvent
    BY <2>2, <2>4, <2>8 DEF RecordTrackedEvent, workerVars
  <2>9. CASE RecordInvalidContext
    BY <2>2, <2>3, <2>9 DEF RecordInvalidContext, workerVars
  <2>10. CASE PerformClose
    BY <2>2, <2>3, <2>10 DEF PerformClose, workerVars
  <2>11. CASE CloseTimesOut \/ HandleClosed
    <3>1. FinishClose /\ worker # "none"
      BY <2>11 DEF CloseTimesOut, HandleClosed, PageInv
    <3>2. toWorker' = <<>> /\ (thread' = "none" => thread = "none")
      BY <3>1 DEF FinishClose
    <3>3. Untouched => Untouched'
      BY <2>1 DEF Untouched
    <3> QED
      BY <3>2, <3>3 DEF EntriesComeEarly
  <2>12. CASE GiveContext
    <3>1. CASE /\ worker # "none" \/ turnedOff
               /\ Post(<<Plain("UpdateContext")>>)
               /\ UNCHANGED <<worker, thread, backlogVars, turnedOff>>
      BY <2>3, <3>1
    <3>2. CASE TurnOff
      BY <2>2, <3>2 DEF TurnOff
    <3>3. CASE worker = "none" /\ StartWorker
      <4>1. Untouched'
        <5>1. Untouched
          BY <3>3 DEF PageInv, EntriesComeEarly
        <5> QED
          BY <2>1, <5>1 DEF Untouched
      <4>2. toWorker' = <<Plain("Initialize")>> \o Backlog \o <<Plain("UpdateContext")>>
            /\ thread' = "running"
        BY <3>3 DEF StartWorker
      <4>3. /\ Backlog \in Seq(Message) /\ Len(entries) <= BatchLimit
            /\ Plain("Initialize") \in Message /\ Plain("Initialize").type = "Initialize"
            /\ Plain("UpdateContext") \in Message /\ Plain("UpdateContext").type = "UpdateContext"
        BY BacklogIsTyped, PlainIsTyped DEF WorkerTypeOK
      <4>4. ASSUME NEW k \in DOMAIN toWorker', toWorker'[k].type = "TrackedEventEntries"
            PROVE  BacklogFirst(k)'
        <5> DEFINE b == Backlog
        <5>1. /\ b \in Seq(Message) /\ DOMAIN b = 1 .. Len(b) /\ Len(b) \in Nat
          BY <4>3
        <5>2. /\ Len(toWorker') = Len(b) + 2 /\ toWorker'[1] = Plain("Initialize")
              /\ toWorker'[Len(b) + 2] = Plain("UpdateContext")
              /\ \A j \in 1 .. Len(b) : toWorker'[j + 1] = b[j]
              /\ DOMAIN toWorker' = 1 .. Len(b) + 2
          <6> HIDE DEF b
          <6> QED
            BY <4>2, <4>3, <5>1 DEF b
        <5>3. /\ \A j \in 1 .. Len(b) : b[j].type = "TrackedEventEntries" =>
                    j = Len(b) /\ b[j].items = entries
              /\ \A j \in 1 .. Len(b) : b[j].type \in
                    {"EvaluatedConfigEvent", "InvalidContextSubmissions", "TrackedEventEntries"}
          BY <5>1, BacklogIsTyped
        <5> HIDE DEF b
        <5>4. k = Len(b) + 1 /\ k - 1 \in 1 .. Len(b)
          <6>1. k # 1 /\ k # Len(b) + 2
            BY <4>3, <4>4, <5>2
          <6>2. k - 1 \in 1 .. Len(b)
            BY <5>1, <5>2, <6>1
          <6>3. toWorker'[k] = b[k - 1]
            BY <5>2, <6>2
          <6>4. b[k - 1].type = "TrackedEventEntries"
            BY <4>4, <6>3
          <6>5. k - 1 = Len(b)
            BY <5>3, <6>2, <6>4
          <6>6. k \in Int
            BY <4>4, <5>2
          <6> QED
            BY <5>1, <6>2, <6>5, <6>6
        <5>5. toWorker'[k] = b[k - 1] /\ Len(toWorker'[k].items) <= BatchLimit
          BY <4>3, <4>4, <5>2, <5>3, <5>4
        <5>6. ASSUME NEW j \in 1 .. k - 1
              PROVE  toWorker'[j].type \in
                        {"Initialize", "EvaluatedConfigEvent", "InvalidContextSubmissions"}
          <6>1. CASE j = 1
            BY <4>3, <5>2, <6>1
          <6>2. CASE j # 1
            <7>1. j - 1 \in 1 .. Len(b) /\ j - 1 # Len(b) /\ toWorker'[j] = b[j - 1]
              BY <5>1, <5>2, <5>4, <6>2
            <7> QED
              BY <5>3, <7>1
          <6> QED
            BY <6>1, <6>2
        <5> QED
          BY <5>5, <5>6 DEF BacklogFirst
      <4> QED
        BY <4>1, <4>2, <4>4 DEF EntriesComeEarly
    <3> QED
      BY <2>12, <3>1, <3>2, <3>3 DEF GiveContext
  <2> QED
    BY <1>3, <2>5, <2>6, <2>7, <2>8, <2>9, <2>10, <2>11, <2>12 DEF Page
<1>4. CASE Handlers
  <2>1. PICK type \in {"Initialize", "ClientSession", "EvaluatedConfigEvent", "TrackedEvent",
                        "TrackedEventEntries", "InvalidContextSubmissions", "UpdateContext", "Flush",
                        "Close"} : Receive(type)
    BY <1>4 DEF Handlers, OnInitialize, OnClientSession, OnEvaluatedConfig, OnTrackedEvent,
                OnTrackedEventEntries, OnInvalidContextSubmissions, OnUpdateContext, OnFlush, OnClose
  <2>2. toWorker # <<>> /\ toWorker' = Tail(toWorker) /\ thread' = "running" /\ Head(toWorker).type = type
    BY <2>1 DEF Receive
  <2>3. ASSUME Untouched,
               type \in {"Initialize", "EvaluatedConfigEvent", "InvalidContextSubmissions"}
        PROVE  Untouched'
    <3>1. Start \/ EvaluatedConfig \/ UNCHANGED vars
      BY <1>4, <2>2, <2>3 DEF Handlers, OnInitialize, OnClientSession, OnEvaluatedConfig,
            OnTrackedEvent, OnTrackedEventEntries, OnInvalidContextSubmissions, OnUpdateContext,
            OnFlush, OnClose, Receive
    <3> QED
      BY <2>3, <3>1, UntouchedStays
  <2> QED
    BY <1>0, <2>2, <2>3, ReceivingStaysEarly
<1>5. CASE CollectorTimeout \/ \E i \in DOMAIN flushes : CollectorStep(i)
  <2>1. /\ thread = "running" /\ toWorker' = toWorker /\ thread' # "none"
        /\ FlushTimeout \/ \E i \in DOMAIN flushes : Reaction(i) \/ Environment(i)
    <3>1. CASE CollectorTimeout
      BY <3>1 DEF CollectorTimeout, workerVars
    <3>2. ASSUME NEW i \in DOMAIN flushes, CollectorStep(i)
          PROVE  /\ thread = "running" /\ toWorker' = toWorker /\ thread' # "none"
                 /\ Reaction(i) \/ Environment(i)
      BY <3>2 DEF CollectorStep
    <3> QED
      BY <1>5, <3>1, <3>2
  <2>2. Untouched => Untouched'
    BY <2>1, UntouchedStays
  <2> QED
    BY <2>1, <2>2 DEF EntriesComeEarly, BacklogFirst
<1>6. CASE WorkerFails
  BY <1>2, <1>6 DEF WorkerFails
<1>7. CASE UNCHANGED allVars
  BY <1>1, <1>7 DEF allVars, vars, workerVars
<1> QED
  BY <1>3, <1>4, <1>5, <1>6, <1>7 DEF WorkerNext

(***************************************************************************)
(* The collector of a worker.  Handing over the backlog keeps its types    *)
(* and its accounting, as every other step does.                           *)
(***************************************************************************)
LEMMA EntriesAreAbsorbed ==
  ASSUME TypeOK, WorkerTypeOK, EntriesComeEarly, OnTrackedEventEntries
  PROVE  \E n \in Nat :
            /\ n <= BatchLimit /\ tracked = <<>> /\ collecting
            /\ recorded' = recorded + n
            /\ tracked' = [i \in 1 .. n |-> recorded + i]
            /\ UNCHANGED <<started, collecting, timer, orphans, executing, session, queue, context,
                           flushes, current, calls, evicted, reported, counted>>
<1>1. /\ toWorker \in Seq(Message) /\ toWorker # <<>> /\ Head(toWorker) \in Message
      /\ toWorker[1] = Head(toWorker) /\ 1 \in DOMAIN toWorker
      /\ Head(toWorker).type = "TrackedEventEntries"
  BY DEF OnTrackedEventEntries, Receive, WorkerTypeOK
<1>2. Untouched /\ BacklogFirst(1)
  BY <1>1 DEF EntriesComeEarly
<1> DEFINE items == Head(toWorker).items
<1>3. items \in Seq(Recorded)
  BY <1>1 DEF Message
<1>4. Len(items) <= BatchLimit
  BY <1>1, <1>2 DEF BacklogFirst
<1>5. recorded' = recorded + Len(items) /\ tracked' = tracked \o [i \in DOMAIN items |-> recorded + i]
  BY DEF OnTrackedEventEntries
<1> HIDE DEF items
<1>6. tracked = <<>> /\ collecting
  BY <1>2 DEF Untouched
<1>7. DOMAIN items = 1 .. Len(items) /\ Len(items) \in Nat /\ recorded \in Nat
  BY <1>3 DEF TypeOK
<1>8. [i \in 1 .. Len(items) |-> recorded + i] \in Seq(Nat)
  BY <1>7
<1>9. tracked' = [i \in 1 .. Len(items) |-> recorded + i]
  BY <1>5, <1>6, <1>7, <1>8
<1>10. UNCHANGED <<started, collecting, timer, orphans, executing, session, queue, context,
                   flushes, current, calls, evicted, reported, counted>>
  BY DEF OnTrackedEventEntries, timerVars, ownerVars
<1> QED
  BY <1>4, <1>5, <1>6, <1>7, <1>9, <1>10

LEMMA AbsorbingIsTyped ==
  ASSUME TypeOK, WorkerTypeOK, EntriesComeEarly, OnTrackedEventEntries
  PROVE  TypeOK'
<1>1. PICK n \in Nat :
            /\ n <= BatchLimit /\ tracked = <<>> /\ collecting
            /\ recorded' = recorded + n
            /\ tracked' = [i \in 1 .. n |-> recorded + i]
            /\ UNCHANGED <<started, collecting, timer, orphans, executing, session, queue, context,
                           flushes, current, calls, evicted, reported, counted>>
  BY EntriesAreAbsorbed
<1>2. recorded \in Nat /\ recorded' \in Nat
  BY <1>1 DEF TypeOK
<1>3. \A i \in 1 .. n : recorded + i \in Events
  BY <1>2 DEF Events
<1>4. tracked' \in Seq(Events) /\ Len(tracked') <= BatchLimit
  BY <1>1, <1>3
<1> QED
  BY <1>1, <1>2, <1>4 DEF TypeOK

LEMMA AbsorbingAccounts ==
  ASSUME TypeOK, WorkerTypeOK, EntriesComeEarly, AccountInv, OnTrackedEventEntries
  PROVE  AccountInv'
<1>1. PICK n \in Nat :
            /\ n <= BatchLimit /\ tracked = <<>> /\ collecting
            /\ recorded' = recorded + n
            /\ tracked' = [i \in 1 .. n |-> recorded + i]
            /\ UNCHANGED <<started, collecting, timer, orphans, executing, session, queue, context,
                           flushes, current, calls, evicted, reported, counted>>
  BY EntriesAreAbsorbed
<1>2. recorded \in Nat /\ recorded' \in Nat
  BY <1>1 DEF TypeOK
<1> DEFINE new == (recorded + 1) .. (recorded + n)
<1>3. ToSet(tracked') = new /\ ToSet(tracked) = {}
  <2>1. ToSet(tracked') = {recorded + i : i \in 1 .. n}
    BY <1>1 DEF ToSet
  <2>2. \A e \in new : e - recorded \in 1 .. n /\ recorded + (e - recorded) = e
    BY <1>2
  <2> QED
    BY <1>1, <1>2, <2>1, <2>2 DEF ToSet
<1>4. 1 .. recorded' = (1 .. recorded) \cup new /\ (1 .. recorded) \cap new = {}
  BY <1>1, <1>2
<1> HIDE DEF new
<1>5. Waiting' = Waiting \cup new /\ Waiting = ToSet(queue.events) /\ Taken' = Taken
  BY <1>1, <1>3 DEF Waiting, Taken
<1>6. Admitted'
  BY <1>1, <1>4, <1>5 DEF AccountInv, Admitted
<1>7. HeldOnce'
  <2>1. \A j \in DOMAIN flushes : Contents(flushes[j]) \cap new = {}
    BY <1>4 DEF AccountInv, Admitted
  <2>2. reported \cap new = {} /\ ToSet(queue.events) \cap new = {}
    BY <1>4, <1>5 DEF AccountInv, Admitted
  <2>3. ToSet(queue'.events) \cap ToSet(tracked') = {}
    BY <1>1, <1>3, <2>2
  <2> QED
    BY <1>1, <1>5, <2>1, <2>2, <2>3 DEF AccountInv, HeldOnce
<1>8. CloseTakesTheLast'
  BY <1>1 DEF AccountInv, CloseTakesTheLast
<1>9. NothingLost'
  BY <1>1, <1>4, <1>5 DEF AccountInv, NothingLost
<1> QED
  BY <1>6, <1>7, <1>8, <1>9 DEF AccountInv

LEMMA LengthOfDomain ==
  ASSUME NEW S, NEW s \in Seq(S), NEW n \in Nat, DOMAIN s = 1 .. n
  PROVE  Len(s) = n
<1>1. Len(s) \in Nat /\ 1 .. Len(s) = 1 .. n
  OBVIOUS
<1> QED
  BY <1>1

\* The flushes in flight stay within their bound, and no call is taken back.
LEMMA CollectorBounds ==
  ASSUME TypeOK, TypeOK', [Next]_vars, Len(flushes) <= MaxFlushes
  PROVE  Len(flushes') <= MaxFlushes /\ calls <= calls'
<1>0. flushes \in Seq(Flush) /\ calls \in Nat /\ MaxFlushes \in Nat
  BY BoundsAssumption DEF TypeOK, Updates
<1>d. ASSUME NEW n \in Nat, n <= Len(flushes), DOMAIN flushes' = 1 .. n
      PROVE  Len(flushes') <= MaxFlushes
  <2>1. flushes' \in Seq(Flush)
    BY DEF TypeOK
  <2>2. Len(flushes') = n
    BY <1>d, <2>1
  <2> QED
    BY <1>0, <1>d, <2>2
<1>1. ASSUME NEW purpose, NEW update, BeginFlush(purpose, update) PROVE Len(flushes') <= MaxFlushes
  BY <1>0, <1>1 DEF BeginFlush
<1>2. CASE UNCHANGED <<flushes, calls>>
  BY <1>0, <1>2
<1>3. CASE Start \/ EvaluatedConfig \/ TrackedEvent \/ SessionResolves \/ UNCHANGED vars
  BY <1>2, <1>3 DEF Start, EvaluatedConfig, TrackedEvent, SessionResolves, vars, ownerVars
<1>4. CASE UpdateContext \/ ForceFlush \/ Close
  BY <1>0, <1>1, <1>4 DEF UpdateContext, ForceFlush, Close, Call
<1>5. CASE FlushTimeout
  BY <1>0, <1>1, <1>5 DEF FlushTimeout, ownerVars
<1>6. ASSUME NEW i \in DOMAIN flushes, Reaction(i) \/ Environment(i)
      PROVE  Len(flushes') <= MaxFlushes /\ calls' = calls
  <2>1. calls' = calls
    BY <1>6 DEF Reaction, Environment, Report, SendReport, FlushReturns, HashingEnds, ReportAnswered,
                ownerVars
  <2>2. Len(flushes) \in Nat /\ Len(flushes) - 1 \in Nat /\ Len(flushes) - 1 <= Len(flushes)
        /\ DOMAIN flushes = 1 .. Len(flushes)
    BY <1>0
  <2>3. CASE DOMAIN flushes' = DOMAIN flushes
    <3>1. /\ Len(flushes) \in Nat /\ Len(flushes) <= Len(flushes)
          /\ DOMAIN flushes' = 1 .. Len(flushes)
      BY <2>2, <2>3
    <3>2. Len(flushes') <= MaxFlushes
      BY <1>d, <3>1
    <3> QED
      BY <2>1, <3>2
  <2>4. CASE flushes' = RemoveAt(flushes, i)
    BY <1>0, <1>d, <2>1, <2>2, <2>4, RemovalShifts
  <2>5. DOMAIN flushes' = DOMAIN flushes \/ flushes' = RemoveAt(flushes, i)
    BY <1>6 DEF Reaction, Environment, Report, SendReport, FlushReturns, HashingEnds, ReportAnswered,
                AdoptContext, ScheduleNext, ClearQueues, End, FlushAgain
  <2> QED
    BY <2>1, <2>3, <2>4, <2>5
<1> QED
  BY <1>0, <1>3, <1>4, <1>5, <1>6 DEF Next, Owner

\* A step of the worker keeps what the page and the worker agree on.
LEMMA ThreadStepIsTyped ==
  ASSUME TypeOK, TypeOK', WorkerTypeOK, PageInv, Len(flushes') <= MaxFlushes, calls <= calls',
         \/ Handlers \/ CollectorTimeout \/ WorkerFails
         \/ \E i \in DOMAIN flushes : CollectorStep(i)
  PROVE  WorkerTypeOK' /\ PageInv'
<1>0. /\ UNCHANGED <<worker, turnedOff, evaluations, entries, submissions, closing, closeTimer,
                     pageSession, forwarded, made, asked, pageCalls>>
      /\ thread = "running" /\ thread' # "none" /\ worker # "none" /\ worker # "terminated"
  BY DEF Handlers, OnInitialize, OnClientSession, OnEvaluatedConfig, OnTrackedEvent,
         OnTrackedEventEntries, OnInvalidContextSubmissions, OnUpdateContext, OnFlush, OnClose,
         Receive, CollectorTimeout, WorkerFails, CollectorStep, pageVars, backlogVars, closeVars,
         workerVars, PageInv
<1>1. /\ Len(flushes) \in Nat /\ Len(flushes') \in Nat /\ MaxFlushes \in Nat /\ MaxCalls \in Nat
      /\ calls \in Nat /\ calls' \in Nat /\ calls' <= MaxCalls /\ received \in Nat
      /\ received <= calls /\ awaited \in 0 .. MaxFlushes
  <2>1. MaxFlushes \in Nat /\ MaxCalls \in Nat
    BY BoundsAssumption
  <2>2. flushes \in Seq(Flush) /\ flushes' \in Seq(Flush)
    BY DEF TypeOK
  <2>3. calls \in Updates /\ calls' \in Updates /\ received \in Updates
    BY DEF TypeOK, WorkerTypeOK
  <2>4. received <= calls /\ awaited \in 0 .. MaxFlushes
    BY DEF WorkerTypeOK, PageInv
  <2> QED
    BY <2>1, <2>2, <2>3, <2>4 DEF Updates
<1>2. toWorker' \in Seq(Message)
  <2>1. toWorker' = toWorker \/ toWorker' = <<>> \/ (toWorker # <<>> /\ toWorker' = Tail(toWorker))
    BY DEF Handlers, OnInitialize, OnClientSession, OnEvaluatedConfig, OnTrackedEvent,
         OnTrackedEventEntries, OnInvalidContextSubmissions, OnUpdateContext, OnFlush, OnClose,
         Receive, CollectorTimeout, WorkerFails, CollectorStep
  <2>2. toWorker \in Seq(Message) /\ <<>> \in Seq(Message)
    BY DEF WorkerTypeOK
  <2>3. toWorker # <<>> => Tail(toWorker) \in Seq(Message)
    BY <2>2
  <2> QED
    BY <2>1, <2>2, <2>3
<1>3. received' \in Updates /\ received' <= calls'
  <2>1. CASE received' = received
    BY <1>1, <2>1 DEF Updates
  <2>2. CASE OnUpdateContext
    BY <1>1, <2>2 DEF OnUpdateContext, UpdateContext, Call, Updates
  <2> QED
    BY <2>1, <2>2 DEF Handlers, OnInitialize, OnClientSession, OnEvaluatedConfig, OnTrackedEvent,
         OnTrackedEventEntries, OnInvalidContextSubmissions, OnFlush, OnClose, CollectorTimeout,
         WorkerFails, CollectorStep, workerVars
<1>4. awaited' \in 0 .. MaxFlushes
  <2>1. CASE awaited' = awaited \/ awaited' = 0
    BY <1>1, <2>1
  <2>2. CASE OnClose
    BY <1>1, <2>2 DEF OnClose, Close, BeginFlush
  <2>3. ASSUME NEW i \in DOMAIN flushes, i < awaited, awaited' = awaited - 1
        PROVE  awaited' \in 0 .. MaxFlushes
    <3>1. i \in Nat \ {0}
      BY DEF TypeOK
    <3> QED
      BY <1>1, <2>3, <3>1
  <2> QED
    BY <2>1, <2>2, <2>3 DEF Handlers, OnInitialize, OnClientSession, OnEvaluatedConfig, OnTrackedEvent,
         OnTrackedEventEntries, OnInvalidContextSubmissions, OnUpdateContext, OnFlush, CollectorTimeout,
         WorkerFails, CollectorStep, workerVars
<1>5. thread' \in {"none", "running", "closed", "gone"} /\ closedSent' \in BOOLEAN
  BY <1>0 DEF Handlers, OnInitialize, OnClientSession, OnEvaluatedConfig, OnTrackedEvent,
         OnTrackedEventEntries, OnInvalidContextSubmissions, OnUpdateContext, OnFlush, OnClose,
         Receive, CollectorTimeout, WorkerFails, CollectorStep, workerVars, WorkerTypeOK
<1>6. WorkerTypeOK'
  BY <1>0, <1>2, <1>3, <1>4, <1>5 DEF WorkerTypeOK
<1> QED
  BY <1>0, <1>3, <1>6 DEF PageInv

(***************************************************************************)
(* The flush the worker awaits.                                            *)
(***************************************************************************)

\* A close() that ends has cleared the queues, and until then its flush stays a close.
LEMMA CloseKeepsItsPurpose ==
  ASSUME TypeOK, TypeOK', NEW i \in DOMAIN flushes, Reaction(i) \/ Environment(i),
         NEW a \in DOMAIN flushes, flushes[a].purpose = "close"
  PROVE  /\ Len(flushes') >= Len(flushes) => a \in DOMAIN flushes' /\ flushes'[a].purpose = "close"
         /\ Len(flushes') < Len(flushes) /\ i = a => Waiting' = {}
         /\ Len(flushes') < Len(flushes) /\ i > a =>
               a \in DOMAIN flushes' /\ flushes'[a].purpose = "close"
         /\ Len(flushes') < Len(flushes) /\ i < a =>
               a - 1 \in DOMAIN flushes' /\ flushes'[a - 1].purpose = "close"
<1>0. /\ flushes \in Seq(Flush) /\ DOMAIN flushes = 1 .. Len(flushes) /\ Len(flushes) \in Nat
      /\ i \in Nat \ {0} /\ a \in Nat \ {0} /\ flushes' \in Seq(Flush) /\ Len(flushes') \in Nat
  BY DEF TypeOK
<1>1. ASSUME NEW f, flushes' = [flushes EXCEPT ![i] = f], i = a => f.purpose = "close"
      PROVE  /\ Len(flushes') = Len(flushes)
             /\ a \in DOMAIN flushes' /\ flushes'[a].purpose = "close"
  BY <1>0, <1>1
<1>2. CASE flushes' = RemoveAt(flushes, i) /\ (i = a => Waiting' = {})
  <2>1. /\ DOMAIN flushes' = 1 .. Len(flushes) - 1
        /\ \A j \in 1 .. Len(flushes) - 1 :
                 flushes'[j] = IF j < i THEN flushes[j] ELSE flushes[j + 1]
    BY <1>0, <1>2, RemovalShifts
  <2>2. Len(flushes') = Len(flushes) - 1
    <3>1. Len(flushes) - 1 \in Nat
      BY <1>0
    <3>2. DOMAIN flushes' = 1 .. Len(flushes) - 1
      BY <2>1
    <3>3. flushes' \in Seq(Flush)
      BY <1>0
    <3> QED
      BY <3>1, <3>2, <3>3, LengthOfDomain
  <2>3. ASSUME i > a PROVE a \in DOMAIN flushes' /\ flushes'[a].purpose = "close"
    BY <1>0, <2>1, <2>3
  <2>4. ASSUME i < a PROVE a - 1 \in DOMAIN flushes' /\ flushes'[a - 1].purpose = "close"
    <3>1. a - 1 \in 1 .. Len(flushes) - 1 /\ ~(a - 1 < i) /\ (a - 1) + 1 = a
      BY <1>0, <2>4
    <3> QED
      BY <2>1, <3>1
  <2> QED
    BY <1>0, <1>2, <2>2, <2>3, <2>4
<1>3. ASSUME NEW f, flushes' = [flushes EXCEPT ![i] = f], i = a => f.purpose = "close"
      PROVE  /\ Len(flushes') >= Len(flushes) => a \in DOMAIN flushes' /\ flushes'[a].purpose = "close"
             /\ ~(Len(flushes') < Len(flushes))
  BY <1>0, <1>1, <1>3
<1>4. CASE HashingEnds(i)
  <2> DEFINE f == [flushes[i] EXCEPT !.stage = "report"]
  <2>1. flushes' = [flushes EXCEPT ![i] = f] /\ f.purpose = flushes[i].purpose
    BY <1>0, <1>4 DEF HashingEnds, Flush
  <2> QED
    BY <1>3, <2>1
<1>5. CASE Report(i)
  <2> DEFINE f == [flushes[i] EXCEPT !.batch = tracked, !.fatal = ~executing,
                                     !.stage = IF executing THEN "session" ELSE "answered"]
  <2>1. flushes' = [flushes EXCEPT ![i] = f]
    BY <1>0, <1>5 DEF Report
  <2>2. flushes[i] \in Flush
    BY <1>0
  <2>3. f.purpose = flushes[i].purpose
    BY <2>2 DEF Flush
  <2> QED
    BY <1>3, <2>1, <2>3
<1>6. CASE SendReport(i)
  <2> DEFINE f == [flushes[i] EXCEPT !.stage =
                      IF IsReportEmpty(flushes[i]) THEN "answered" ELSE "sending"]
  <2>1. flushes' = [flushes EXCEPT ![i] = f] /\ f.purpose = flushes[i].purpose
    BY <1>0, <1>6 DEF SendReport, Flush
  <2> QED
    BY <1>3, <2>1
<1>7. CASE ReportAnswered(i)
  <2>1. PICK fatal \in BOOLEAN :
           flushes' = [flushes EXCEPT ![i].stage = "answered", ![i].fatal = fatal]
    BY <1>7 DEF ReportAnswered
  <2> DEFINE f == [flushes[i] EXCEPT !.stage = "answered", !.fatal = fatal]
  <2>2. flushes' = [flushes EXCEPT ![i] = f]
    BY <1>0, <2>1
  <2>3. flushes[i] \in Flush
    BY <1>0
  <2>4. f.purpose = flushes[i].purpose
    BY <2>3 DEF Flush
  <2> QED
    BY <1>3, <2>2, <2>4
<1>8. CASE FlushReturns(i)
  <2>1. CASE ClearQueues(i)
    <3>1. ToSet(<<>>) = {}
      BY DEF ToSet
    <3>2. Waiting' = {}
      BY <2>1, <3>1 DEF ClearQueues, EmptyQueue, Waiting
    <3> QED
      BY <1>2, <2>1, <3>2 DEF ClearQueues
  <2>2. CASE flushes[i].purpose # "close" /\ End(i)
    BY <1>2, <2>2 DEF End
  <2>3. CASE /\ flushes[i].purpose # "close"
             /\ FlushAgain(i, "scheduled") \/ FlushAgain(i, "close")
    <3>1. PICK f : flushes' = [flushes EXCEPT ![i] = f]
      BY <2>3 DEF FlushAgain
    <3> QED
      BY <1>3, <2>3, <3>1
  <2> QED
    BY <1>8, <2>1, <2>2, <2>3 DEF FlushReturns, AdoptContext, ScheduleNext
<1> QED
  BY <1>4, <1>5, <1>6, <1>7, <1>8 DEF Reaction, Environment

LEMMA CloseStaysAwaited ==
  ASSUME TypeOK, TypeOK', WorkerTypeOK, CloseAwaited, [WorkerNext]_allVars
  PROVE  CloseAwaited'
<1>0. /\ flushes \in Seq(Flush) /\ DOMAIN flushes = 1 .. Len(flushes) /\ Len(flushes) \in Nat
      /\ awaited \in Nat
  BY BoundsAssumption DEF TypeOK, WorkerTypeOK
<1>1. ASSUME UNCHANGED <<awaited, flushes, queue, tracked>>, thread' = "closed" => thread = "closed"
      PROVE  CloseAwaited'
  BY <1>1 DEF CloseAwaited, Waiting
<1>2. ASSUME thread' = "running", awaited' = awaited,
             flushes' = flushes \/ \E f : flushes' = Append(flushes, f)
      PROVE  CloseAwaited'
  BY <1>0, <1>2 DEF CloseAwaited
<1>3. ASSUME NEW purpose, NEW update,
             BeginFlush(purpose, update) \/ UNCHANGED <<flushes, queue>>
      PROVE  flushes' = flushes \/ \E f : flushes' = Append(flushes, f)
  BY <1>3 DEF BeginFlush
<1>4. CASE Page
  <2>1. UNCHANGED <<awaited, flushes, queue, tracked>> /\ (thread' = "closed" => thread = "closed")
    BY <1>4 DEF Page, ForwardClientSession, PageSessionResolves, RecordEvaluation,
                RecordTrackedEvent, RecordInvalidContext, GiveContext, HidePage, PerformClose,
                CloseTimesOut, HandleClosed, FinishClose, StartWorker, TurnOff, workerVars,
                collectorVars, vars
  <2> QED
    BY <1>1, <2>1
<1>5. CASE Handlers
  <2>1. thread' = "running"
    BY <1>5 DEF Handlers, OnInitialize, OnClientSession, OnEvaluatedConfig, OnTrackedEvent,
                OnTrackedEventEntries, OnInvalidContextSubmissions, OnUpdateContext, OnFlush, OnClose,
                Receive
  <2>2. CASE OnInitialize \/ OnClientSession \/ OnEvaluatedConfig \/ OnTrackedEvent
             \/ OnTrackedEventEntries \/ OnInvalidContextSubmissions
    <3>1. UNCHANGED <<awaited, flushes>>
      BY <2>2 DEF OnInitialize, OnClientSession, OnEvaluatedConfig, OnTrackedEvent,
            OnTrackedEventEntries, OnInvalidContextSubmissions, Start, SessionResolves,
            EvaluatedConfig, TrackedEvent, vars
    <3> QED
      BY <1>2, <2>1, <3>1
  <2>3. CASE OnUpdateContext
    BY <1>2, <1>3, <2>1, <2>3 DEF OnUpdateContext, UpdateContext
  <2>4. CASE OnFlush
    BY <1>2, <1>3, <2>1, <2>4 DEF OnFlush, ForceFlush
  <2>5. CASE OnClose
    <3>1. PICK f \in Flushes("close", 0) : flushes' = Append(flushes, f)
      BY <2>5 DEF OnClose, Close, BeginFlush
    <3>2. f.purpose = "close" /\ awaited' = Len(flushes) + 1
      BY <2>5, <3>1 DEF OnClose, Flushes, Snapshot
    <3> QED
      BY <1>0, <2>1, <3>1, <3>2 DEF CloseAwaited
  <2> QED
    BY <1>5, <2>2, <2>3, <2>4, <2>5 DEF Handlers
<1>6. CASE CollectorTimeout
  <2>1. thread' = "running" /\ awaited' = awaited /\ FlushTimeout
    BY <1>6 DEF CollectorTimeout, workerVars
  <2> QED
    BY <1>2, <1>3, <2>1 DEF FlushTimeout
<1>7. ASSUME NEW i \in DOMAIN flushes, CollectorStep(i) PROVE CloseAwaited'
  <2> DEFINE ended == Len(flushes') < Len(flushes)
  <2>1. /\ thread = "running"
        /\ Reaction(i) \/ Environment(i)
        /\ IF ended /\ i = awaited THEN thread' = "closed" /\ awaited' = 0
           ELSE /\ awaited' = IF ended /\ i < awaited THEN awaited - 1 ELSE awaited
                /\ thread' = thread
    BY <1>7 DEF CollectorStep
  <2>2. i \in Nat \ {0}
    BY <1>0
  <2>3. CASE awaited = 0
    BY <2>1, <2>2, <2>3 DEF CloseAwaited
  <2>4. CASE awaited # 0
    <3>1. awaited \in DOMAIN flushes /\ flushes[awaited].purpose = "close"
      BY <2>4 DEF CloseAwaited
    <3>2. /\ ~ended => awaited \in DOMAIN flushes' /\ flushes'[awaited].purpose = "close"
          /\ ended /\ i = awaited => Waiting' = {}
          /\ ended /\ i > awaited => awaited \in DOMAIN flushes' /\ flushes'[awaited].purpose = "close"
          /\ ended /\ i < awaited =>
                awaited - 1 \in DOMAIN flushes' /\ flushes'[awaited - 1].purpose = "close"
      <4>1. Len(flushes') \in Nat => (ended <=> ~(Len(flushes') >= Len(flushes)))
        BY <1>0
      <4> QED
        BY <2>1, <3>1, <4>1, CloseKeepsItsPurpose
    <3> QED
      BY <1>0, <2>1, <2>2, <2>4, <3>2 DEF CloseAwaited
  <2> QED
    BY <2>3, <2>4
<1>8. CASE WorkerFails
  BY <1>1, <1>8 DEF WorkerFails, collectorVars, vars
<1>9. CASE UNCHANGED allVars
  BY <1>1, <1>9 DEF allVars, workerVars, vars
<1> QED
  BY <1>4, <1>5, <1>6, <1>7, <1>8, <1>9 DEF WorkerNext

(***************************************************************************)
(* Page, channel, worker and collector together.                           *)
(***************************************************************************)
WorkerInv ==
    TypeOK /\ AccountInv /\ WorkerTypeOK /\ PageInv /\ EntriesComeEarly /\ CloseAwaited

LEMMA StepKeepsWorkerInv == WorkerInv /\ [WorkerNext]_allVars => WorkerInv'
<1> SUFFICES ASSUME WorkerInv, [WorkerNext]_allVars PROVE WorkerInv'
  OBVIOUS
<1>1. TypeOK /\ AccountInv /\ WorkerTypeOK /\ PageInv /\ EntriesComeEarly /\ CloseAwaited
  BY DEF WorkerInv
<1>2. TypeOK' /\ AccountInv'
  BY <1>1, WorkerStepsAreCollectorSteps, StepIsTyped, StepKeepsAccountInv, AbsorbingIsTyped,
     AbsorbingAccounts
<1>3. Len(flushes') <= MaxFlushes /\ calls <= calls'
  <2>1. Len(flushes) <= MaxFlushes /\ calls \in Nat
    BY <1>1, BoundsAssumption DEF PageInv, TypeOK, Updates
  <2>2. CASE OnTrackedEventEntries
    BY <2>1, <2>2 DEF OnTrackedEventEntries, ownerVars
  <2> QED
    BY <1>1, <1>2, <2>1, <2>2, WorkerStepsAreCollectorSteps, CollectorBounds
<1>4. WorkerTypeOK' /\ PageInv'
  <2>1. CASE UNCHANGED allVars
    BY <1>1, <2>1 DEF allVars, pageVars, backlogVars, closeVars, workerVars, vars, ownerVars,
                      WorkerTypeOK, PageInv
  <2> QED
    BY <1>1, <1>2, <1>3, <2>1, PageStepIsTyped, ThreadStepIsTyped DEF WorkerNext
<1> QED
  BY <1>1, <1>2, <1>4, EntriesStayEarly, CloseStaysAwaited DEF WorkerInv

LEMMA WorkerInvHolds == WorkerSpec => []WorkerInv
<1>1. WorkerInit => WorkerInv
  <2> SUFFICES ASSUME WorkerInit PROVE WorkerInv
    OBVIOUS
  <2>1. TypeOK
    BY InitIsTyped DEF WorkerInit
  <2>2. AccountInv
    BY InitAccounts DEF WorkerInit
  <2>3. 0 \in Updates /\ 0 \in 0 .. MaxEvents /\ 0 \in 0 .. MaxCalls /\ 0 \in 0 .. MaxFlushes
        /\ 0 <= QueueLimit /\ 0 <= BatchLimit /\ 0 <= MaxFlushes
    BY LimitsAssumption, BoundsAssumption DEF Updates
  <2>4. <<>> \in Seq(Recorded) /\ <<>> \in Seq(Message) /\ Len(<<>>) = 0 /\ DOMAIN <<>> = {}
    OBVIOUS
  <2>5. WorkerTypeOK
    BY <2>3, <2>4 DEF WorkerInit, WorkerTypeOK
  <2>6. PageInv
    BY <2>3, <2>4 DEF WorkerInit, Init, PageInv
  <2>7. EntriesComeEarly
    BY <2>4 DEF WorkerInit, Init, EntriesComeEarly, Untouched
  <2>8. CloseAwaited
    BY DEF WorkerInit, CloseAwaited
  <2> QED
    BY <2>1, <2>2, <2>5, <2>6, <2>7, <2>8 DEF WorkerInv
<1> QED
  BY <1>1, StepKeepsWorkerInv, PTL DEF WorkerSpec

\* Page, channel and worker keep their types, and the collector the types it has by
\* itself, although the backlog is handed over without the checks its recording makes
\* (WebWorkerTelemetryClient.startWorker, absorbTrackedEventEntries).
THEOREM WorkerTypesCorrect == WorkerSpec => [](TypeOK /\ WorkerTypeOK)
<1>1. WorkerInv => TypeOK /\ WorkerTypeOK
  BY DEF WorkerInv
<1> QED
  BY <1>1, WorkerInvHolds, PTL

\* Once the worker has answered the close, no event it was given before waits in a queue, and
\* short of a fatal answer each was sent, dropped by the full queue, or taken by a flush, one
\* begun before the close perhaps still in flight (worker.ts, the Close message;
\* TelemetryEventCollector.close).
THEOREM ClosedAlwaysMeansFlushed == WorkerSpec => []ClosedMeansFlushed
<1>1. WorkerInv => ClosedMeansFlushed
  BY DEF WorkerInv, CloseAwaited, AccountInv, NothingLost, ClosedMeansFlushed
<1> QED
  BY <1>1, WorkerInvHolds, PTL

(***************************************************************************)
(* The contexts in the channel.                                            *)
(***************************************************************************)
UpdatesBefore(s, k) == {j \in 1 .. k - 1 : s[j].type = "UpdateContext"}
Contexts(s, k) == Cardinality(UpdatesBefore(s, k))
IsUpdate(m) == IF m.type = "UpdateContext" THEN 1 ELSE 0

LEMMA UpdatesAreFinite ==
  ASSUME NEW s, NEW k \in Nat
  PROVE  IsFiniteSet(UpdatesBefore(s, k)) /\ Cardinality(UpdatesBefore(s, k)) \in Nat
<1>1. IsFiniteSet(1 .. k - 1)
  BY FS_Interval
<1>2. UpdatesBefore(s, k) \in SUBSET (1 .. k - 1)
  BY DEF UpdatesBefore
<1> HIDE DEF UpdatesBefore
<1>3. IsFiniteSet(UpdatesBefore(s, k))
  BY <1>1, <1>2, FS_Subset
<1> QED
  BY <1>3, FS_CardinalityType

LEMMA OneMoreUpdate ==
  ASSUME NEW s, NEW k \in Nat \ {0}
  PROVE  Cardinality(UpdatesBefore(s, k + 1)) = Cardinality(UpdatesBefore(s, k)) + IsUpdate(s[k])
<1>1. IsFiniteSet(UpdatesBefore(s, k)) /\ Cardinality(UpdatesBefore(s, k)) \in Nat
  BY UpdatesAreFinite
<1>2. k \notin UpdatesBefore(s, k)
  BY DEF UpdatesBefore
<1>3. CASE s[k].type = "UpdateContext"
  <2>1. UpdatesBefore(s, k + 1) = UpdatesBefore(s, k) \cup {k}
    BY <1>3 DEF UpdatesBefore
  <2> QED
    BY <1>1, <1>2, <1>3, <2>1, FS_AddElement DEF IsUpdate
<1>4. CASE s[k].type # "UpdateContext"
  <2>1. UpdatesBefore(s, k + 1) = UpdatesBefore(s, k)
    BY <1>4 DEF UpdatesBefore
  <2> QED
    BY <1>1, <1>4, <2>1 DEF IsUpdate
<1> QED
  BY <1>3, <1>4

\* Without its first message the channel has the same contexts, one place further on.
LEMMA UpdatesOfTail ==
  ASSUME NEW s \in Seq(Message), s # <<>>, NEW k \in 1 .. Len(s)
  PROVE  Cardinality(UpdatesBefore(s, k + 1)) =
            Cardinality(UpdatesBefore(Tail(s), k)) + IsUpdate(s[1])
<1> DEFINE here == UpdatesBefore(Tail(s), k)
           later == {j \in 2 .. k : s[j].type = "UpdateContext"}
           shift == [j \in here |-> j + 1]
<1>1. Len(s) \in Nat /\ k \in Nat /\ \A j \in 1 .. k - 1 : Tail(s)[j] = s[j + 1]
  OBVIOUS
<1>2. here = {j \in 1 .. k - 1 : s[j + 1].type = "UpdateContext"}
  BY <1>1 DEF UpdatesBefore
<1>3. IsFiniteSet(here) /\ Cardinality(here) \in Nat
  BY <1>1, UpdatesAreFinite
<1>4. shift \in Bijection(here, later)
  <2>1. shift \in [here -> later]
    BY <1>1, <1>2
  <2>2. \A a, b \in here : shift[a] = shift[b] => a = b
    BY <1>1, <1>2
  <2>3. \A t \in later : t - 1 \in here /\ shift[t - 1] = t
    BY <1>1, <1>2
  <2> HIDE DEF here, later, shift
  <2> QED
    BY <2>1, <2>2, <2>3, Fun_IsBij
<1>5. IsFiniteSet(later) /\ Cardinality(later) = Cardinality(here)
  <2> HIDE DEF here, later, shift
  <2>1. ExistsBijection(here, later)
    BY <1>4 DEF ExistsBijection
  <2> QED
    BY <1>3, <2>1, FS_Bijection
<1>6. 1 \notin later
  OBVIOUS
<1>7. CASE s[1].type = "UpdateContext"
  <2>1. UpdatesBefore(s, k + 1) = later \cup {1}
    BY <1>1, <1>7 DEF UpdatesBefore
  <2> HIDE DEF here, later, shift
  <2>2. Cardinality(later \cup {1}) = Cardinality(later) + 1
    BY <1>5, <1>6, FS_AddElement
  <2> QED
    BY <1>5, <1>7, <2>1, <2>2 DEF IsUpdate, here
<1>8. CASE s[1].type # "UpdateContext"
  <2>1. UpdatesBefore(s, k + 1) = later
    BY <1>1, <1>8 DEF UpdatesBefore
  <2> HIDE DEF here, later, shift
  <2> QED
    BY <1>3, <1>5, <1>8, <2>1 DEF IsUpdate, here
<1> QED
  BY <1>7, <1>8

\* What comes later in the channel changes no count before it.
LEMMA UpdatesOfPrefix ==
  ASSUME NEW s \in Seq(Message), NEW m \in Message, NEW k \in 1 .. Len(s) + 1
  PROVE  UpdatesBefore(s \o <<m>>, k) = UpdatesBefore(s, k)
<1>1. \A j \in 1 .. k - 1 : (s \o <<m>>)[j] = s[j]
  OBVIOUS
<1> QED
  BY <1>1 DEF UpdatesBefore

ChannelInOrder ==
    \A k \in DOMAIN toWorker : \A item \in Items(toWorker[k]) : item.asked = received + Contexts(toWorker, k)

BacklogUpToDate ==
    \A item \in ToSet(evaluations) \cup ToSet(entries) : closing = "open" => item.asked = asked

NothingMissed == thread = "running" => asked = received + Contexts(toWorker, Len(toWorker) + 1)

LEMMA ContextsByPart == ContextsKeepTheirEvents <=> ChannelInOrder /\ BacklogUpToDate /\ NothingMissed
<1>1. \A k : ContextsBefore(k) = Contexts(toWorker, k)
  BY DEF ContextsBefore, Contexts, UpdatesBefore
<1> QED
  BY <1>1 DEF ContextsKeepTheirEvents, ChannelInOrder, BacklogUpToDate, NothingMissed

\* A message is posted under the context that is current, and a context counts from then on.
LEMMA PostingKeepsOrder ==
  ASSUME WorkerInv, ChannelInOrder, NothingMissed, NEW m \in Message, Post(<<m>>),
         UNCHANGED <<thread, received>>, \A item \in Items(m) : item.asked = asked,
         asked' = asked + IsUpdate(m)
  PROVE  ChannelInOrder' /\ NothingMissed'
<1>0. /\ toWorker \in Seq(Message) /\ Len(toWorker) \in Nat /\ received \in Nat /\ asked \in Nat
      /\ thread = "running" => worker # "terminated"
  BY BoundsAssumption DEF WorkerInv, WorkerTypeOK, PageInv, Updates
<1>1. CASE thread # "running"
  <2>1. toWorker' = toWorker
    BY <1>1 DEF Post
  <2> QED
    BY <1>1, <2>1 DEF ChannelInOrder, NothingMissed
<1>2. CASE thread = "running"
  <2> DEFINE n == Len(toWorker) + 1
  <2>1. toWorker' = toWorker \o <<m>>
    BY <1>0, <1>2 DEF Post
  <2>2. /\ toWorker' \in Seq(Message) /\ Len(toWorker') = n /\ toWorker'[n] = m
        /\ DOMAIN toWorker' = 1 .. n /\ \A k \in 1 .. Len(toWorker) : toWorker'[k] = toWorker[k]
    BY <1>0, <2>1
  <2>3. \A k \in 1 .. n : UpdatesBefore(toWorker', k) = UpdatesBefore(toWorker, k)
    BY <1>0, <2>1, UpdatesOfPrefix
  <2>4. asked = received + Contexts(toWorker, n)
    BY <1>2 DEF NothingMissed
  <2>5. Contexts(toWorker, n) \in Nat
    BY <1>0, UpdatesAreFinite DEF Contexts
  <2>6. Contexts(toWorker', n) = Contexts(toWorker, n)
    BY <1>0, <2>3 DEF Contexts
  <2>7. ChannelInOrder'
    <3> SUFFICES ASSUME NEW k \in DOMAIN toWorker', NEW item \in Items(toWorker'[k])
                 PROVE  item.asked = received' + Contexts(toWorker', k)
      BY DEF ChannelInOrder, Items
    <3>1. Contexts(toWorker', k) = Contexts(toWorker, k)
      BY <2>2, <2>3 DEF Contexts
    <3>2. CASE k = n
      BY <2>2, <2>4, <3>1, <3>2
    <3>3. CASE k # n
      <4>1. k \in DOMAIN toWorker /\ toWorker'[k] = toWorker[k]
        BY <1>0, <2>2, <3>3
      <4> QED
        BY <3>1, <4>1 DEF ChannelInOrder
    <3> QED
      BY <3>2, <3>3
  <2>8. NothingMissed'
    <3>1. n \in Nat \ {0}
      BY <1>0
    <3>2. Contexts(toWorker', n + 1) = Contexts(toWorker, n) + IsUpdate(m)
      BY <2>2, <2>6, <3>1, OneMoreUpdate DEF Contexts
    <3>3. IsUpdate(m) \in Nat
      BY DEF IsUpdate
    <3> HIDE DEF n
    <3>4. asked' = received' + Contexts(toWorker', n + 1)
      BY <1>0, <2>4, <2>5, <3>2, <3>3
    <3> QED
      BY <2>2, <3>4 DEF NothingMissed
  <2> QED
    BY <2>7, <2>8
<1> QED
  BY <1>1, <1>2

\* A delivered message leaves the others in order, and a delivered context is one received.
LEMMA ReceivingKeepsOrder ==
  ASSUME WorkerInv, ChannelInOrder, NothingMissed, toWorker # <<>>, toWorker' = Tail(toWorker),
         thread = "running", asked' = asked, received' = received + IsUpdate(Head(toWorker))
  PROVE  ChannelInOrder' /\ NothingMissed'
<1>0. /\ toWorker \in Seq(Message) /\ Len(toWorker) \in Nat \ {0} /\ received \in Nat
      /\ Head(toWorker) = toWorker[1]
  BY DEF WorkerInv, WorkerTypeOK, Updates
<1>1. /\ DOMAIN toWorker' = 1 .. Len(toWorker) - 1 /\ Len(toWorker') = Len(toWorker) - 1
      /\ \A k \in 1 .. Len(toWorker) - 1 : toWorker'[k] = toWorker[k + 1]
  BY <1>0
<1>2. ASSUME NEW k \in 1 .. Len(toWorker)
      PROVE  received' + Contexts(toWorker', k) = received + Contexts(toWorker, k + 1)
  <2>1. Contexts(toWorker, k + 1) = Contexts(toWorker', k) + IsUpdate(toWorker[1])
    BY <1>0, UpdatesOfTail DEF Contexts
  <2>2. Contexts(toWorker', k) \in Nat
    BY <1>0, UpdatesAreFinite DEF Contexts
  <2>3. IsUpdate(toWorker[1]) \in Nat
    BY DEF IsUpdate
  <2> QED
    BY <1>0, <2>1, <2>2, <2>3
<1>3. ChannelInOrder'
  <2> SUFFICES ASSUME NEW k \in DOMAIN toWorker', NEW item \in Items(toWorker'[k])
               PROVE  item.asked = received' + Contexts(toWorker', k)
    BY DEF ChannelInOrder, Items
  <2>1. k \in 1 .. Len(toWorker) /\ k + 1 \in DOMAIN toWorker /\ toWorker'[k] = toWorker[k + 1]
    BY <1>0, <1>1
  <2>2. item.asked = received + Contexts(toWorker, k + 1)
    BY <2>1 DEF ChannelInOrder
  <2> QED
    BY <1>2, <2>1, <2>2
<1>4. NothingMissed'
  <2>1. Len(toWorker) \in 1 .. Len(toWorker) /\ Len(toWorker') + 1 = Len(toWorker)
    BY <1>0, <1>1
  <2>2. asked = received + Contexts(toWorker, Len(toWorker) + 1)
    BY DEF NothingMissed
  <2>3. asked' = received' + Contexts(toWorker', Len(toWorker))
    BY <1>2, <2>1, <2>2
  <2> QED
    BY <2>1, <2>3 DEF NothingMissed
<1> QED
  BY <1>3, <1>4

\* Whatever is handed over at the start of the worker was recorded before the first context,
\* which follows it in the channel.
LEMMA StartingKeepsOrder ==
  ASSUME WorkerInv, BacklogUpToDate, worker = "none", ~turnedOff, closing = "open",
         StartWorker, asked' = asked + 1, received' = received
  PROVE  ChannelInOrder' /\ NothingMissed'
<1> DEFINE b == Backlog
<1>1. /\ received = 0 /\ asked = 0
  BY DEF WorkerInv, PageInv
<1>2. /\ b \in Seq(Message) /\ Len(b) \in Nat
      /\ \A k \in 1 .. Len(b) : \A item \in Items(b[k]) : item.asked = 0
      /\ \A k \in 1 .. Len(b) : b[k].type # "UpdateContext"
  <2>1. WorkerTypeOK
    BY DEF WorkerInv
  <2>2. \A item \in ToSet(evaluations) \cup ToSet(entries) : item.asked = 0
    BY <1>1 DEF BacklogUpToDate
  <2>3. b \in Seq(Message) /\ DOMAIN b = 1 .. Len(b) /\ Len(b) \in Nat
    BY <2>1, BacklogIsTyped
  <2>4. \A k \in DOMAIN b :
               \/ b[k].type = "EvaluatedConfigEvent" /\ b[k].item \in ToSet(evaluations)
               \/ b[k].type = "InvalidContextSubmissions"
               \/ b[k].type = "TrackedEventEntries" /\ b[k].items = entries
    BY <2>1, BacklogIsTyped
  <2> HIDE DEF b
  <2>5. ASSUME NEW k \in DOMAIN b, NEW item \in Items(b[k])
        PROVE  item \in ToSet(evaluations) \cup ToSet(entries)
    BY <2>4, <2>5 DEF Items
  <2>6. \A k \in DOMAIN b : \A item \in Items(b[k]) : item.asked = 0
    BY <2>2, <2>5
  <2>7. \A k \in DOMAIN b : b[k].type # "UpdateContext"
    BY <2>4
  <2> QED
    BY <2>3, <2>6, <2>7
<1>3. /\ toWorker' = <<Plain("Initialize")>> \o b \o <<Plain("UpdateContext")>>
      /\ thread' = "running"
  BY DEF StartWorker
<1> HIDE DEF b
<1> DEFINE n == Len(b) + 2
<1>4. /\ Len(toWorker') = n /\ DOMAIN toWorker' = 1 .. n
      /\ toWorker'[1] = Plain("Initialize") /\ toWorker'[n] = Plain("UpdateContext")
      /\ \A k \in 2 .. n - 1 : k - 1 \in 1 .. Len(b) /\ toWorker'[k] = b[k - 1]
  <2>1. Plain("Initialize") \in Message /\ Plain("UpdateContext") \in Message
    BY PlainIsTyped
  <2> QED
    BY <1>2, <1>3, <2>1
<1>5. /\ Plain("Initialize").type = "Initialize" /\ Plain("UpdateContext").type = "UpdateContext"
      /\ Items(Plain("Initialize")) = {} /\ Items(Plain("UpdateContext")) = {}
  BY DEF Plain, Items
<1>6. \A k \in 1 .. n - 1 : toWorker'[k].type # "UpdateContext"
  <2> SUFFICES ASSUME NEW k \in 1 .. n - 1 PROVE toWorker'[k].type # "UpdateContext"
    OBVIOUS
  <2>1. CASE k = 1
    BY <1>4, <1>5, <2>1
  <2>2. CASE k # 1
    <3>1. k \in 2 .. n - 1
      BY <1>2, <2>2
    <3> QED
      BY <1>2, <1>4, <3>1
  <2> QED
    BY <2>1, <2>2
<1>7. \A k \in 1 .. n : Contexts(toWorker', k) = 0
  <2>1. \A k \in 1 .. n : UpdatesBefore(toWorker', k) = {}
    BY <1>2, <1>6 DEF UpdatesBefore
  <2> QED
    BY <2>1, FS_EmptySet DEF Contexts
<1>8. ChannelInOrder'
  <2> SUFFICES ASSUME NEW k \in DOMAIN toWorker', NEW item \in Items(toWorker'[k])
               PROVE  item.asked = received' + Contexts(toWorker', k)
    BY DEF ChannelInOrder, Items
  <2>1. k # 1 /\ k # n
    BY <1>4, <1>5
  <2>2. k \in 2 .. n - 1
    BY <1>2, <1>4, <2>1
  <2>3. item.asked = 0
    BY <1>2, <1>4, <2>2
  <2> QED
    BY <1>1, <1>4, <1>7, <2>3
<1>9. NothingMissed'
  <2>1. Contexts(toWorker', n + 1) = 1
    <3>1. n \in Nat \ {0} /\ n \in 1 .. n
      BY <1>2
    <3>2. Contexts(toWorker', n + 1) = Contexts(toWorker', n) + IsUpdate(toWorker'[n])
      BY <3>1, OneMoreUpdate DEF Contexts
    <3>3. Contexts(toWorker', n) = 0 /\ IsUpdate(toWorker'[n]) = 1
      BY <1>4, <1>5, <1>7, <3>1 DEF IsUpdate
    <3> QED
      BY <3>2, <3>3
  <2> QED
    BY <1>1, <1>4, <2>1 DEF NothingMissed
<1> QED
  BY <1>8, <1>9

LEMMA StepKeepsContexts ==
  ASSUME WorkerInv, ChannelInOrder, BacklogUpToDate, NothingMissed, [WorkerNext]_allVars
  PROVE  ChannelInOrder' /\ BacklogUpToDate' /\ NothingMissed'
<1>0. /\ made \in Nat /\ asked \in Updates /\ asked \in Nat /\ received \in Nat
      /\ toWorker \in Seq(Message)
      /\ worker # "none" => evaluations = <<>> /\ entries = <<>>
      /\ turnedOff => worker = "none" /\ evaluations = <<>> /\ entries = <<>>
  BY BoundsAssumption DEF WorkerInv, WorkerTypeOK, PageInv, Updates
<1>1. ASSUME UNCHANGED <<toWorker, received, asked>>, thread' = "running" => thread = "running"
      PROVE  ChannelInOrder' /\ NothingMissed'
  BY <1>1 DEF ChannelInOrder, NothingMissed
<1>2. ASSUME toWorker' = <<>>, thread' # "running" PROVE ChannelInOrder' /\ NothingMissed'
  BY <1>2 DEF ChannelInOrder, NothingMissed
<1>3. ASSUME UNCHANGED <<evaluations, entries, asked>>, closing' = "open" => closing = "open"
      PROVE  BacklogUpToDate'
  BY <1>3 DEF BacklogUpToDate
<1>4. ASSUME evaluations' = <<>>, entries' = <<>> PROVE BacklogUpToDate'
  <2>1. ToSet(<<>>) = {}
    BY DEF ToSet
  <2> QED
    BY <1>4, <2>1 DEF BacklogUpToDate
<1>5. ASSUME NEW type \in {"ClientSession", "InvalidContextSubmissions", "Flush", "Close"},
             Post(<<Plain(type)>>), UNCHANGED <<thread, received, asked>>
      PROVE  ChannelInOrder' /\ NothingMissed'
  <2>1. Plain(type) \in Message /\ Items(Plain(type)) = {} /\ IsUpdate(Plain(type)) = 0
    BY PlainIsTyped DEF Plain, Items, IsUpdate
  <2> QED
    BY <1>0, <1>5, <2>1, PostingKeepsOrder
<1>6. ASSUME Post(<<Plain("UpdateContext")>>), UNCHANGED <<thread, received>>, asked' = asked + 1
      PROVE  ChannelInOrder' /\ NothingMissed'
  <2>1. /\ Plain("UpdateContext") \in Message /\ Items(Plain("UpdateContext")) = {}
        /\ IsUpdate(Plain("UpdateContext")) = 1
    BY PlainIsTyped DEF Plain, Items, IsUpdate
  <2> QED
    BY <1>6, <2>1, PostingKeepsOrder
<1>7. ASSUME NEW type \in {"EvaluatedConfigEvent", "TrackedEvent"},
             Post(<<Made(type)>>), UNCHANGED <<thread, received, asked>>
      PROVE  ChannelInOrder' /\ NothingMissed'
  <2>1. /\ Made(type) \in Message /\ Made(type).type = type /\ Made(type).item.asked = asked
    BY <1>0, MadeIsTyped
  <2>2. Items(Made(type)) = {Made(type).item} /\ IsUpdate(Made(type)) = 0
    BY <2>1 DEF Items, IsUpdate
  <2> QED
    BY <1>0, <1>7, <2>1, <2>2, PostingKeepsOrder
<1>8. CASE ForwardClientSession \/ HidePage
  BY <1>3, <1>5, <1>8 DEF ForwardClientSession, HidePage, workerVars, backlogVars, closeVars
<1>9. CASE PageSessionResolves
  BY <1>1, <1>3, <1>9 DEF PageSessionResolves, workerVars, backlogVars, closeVars
<1>10. CASE RecordEvaluation
  <2>1. UNCHANGED <<thread, received, asked, closing, entries>>
    BY <1>10 DEF RecordEvaluation, workerVars, closeVars
  <2>2. CASE worker # "none" /\ Post(<<Made("EvaluatedConfigEvent")>>) /\ evaluations' = evaluations
    BY <1>3, <1>7, <2>1, <2>2
  <2>3. CASE /\ evaluations' = Append(Behead(evaluations, Excess(Len(evaluations) + 1, QueueLimit)),
                                      Made("EvaluatedConfigEvent").item)
             /\ toWorker' = toWorker
    <3> DEFINE kept == Behead(evaluations, Excess(Len(evaluations) + 1, QueueLimit))
               item == Made("EvaluatedConfigEvent").item
    <3>1. item \in Recorded /\ item.asked = asked
      BY <1>0, MadeIsTyped
    <3>2. evaluations \in Seq(Recorded) /\ Len(evaluations) <= QueueLimit
      BY DEF WorkerInv, WorkerTypeOK
    <3>3. \A i \in DOMAIN kept : kept[i] \in ToSet(evaluations)
      BY <3>1, <3>2, BacklogStaysTyped
    <3>4. evaluations' = Append(kept, item)
      BY <2>3
    <3>5. kept \in Seq(Recorded)
      BY <3>2, LimitsAssumption DEF Behead, Excess
    <3> HIDE DEF kept, item
    <3>6. ToSet(evaluations') \subseteq ToSet(evaluations) \cup {item}
      BY <3>1, <3>3, <3>4, <3>5 DEF ToSet
    <3>7. BacklogUpToDate'
      BY <2>1, <3>1, <3>6 DEF BacklogUpToDate
    <3> QED
      BY <1>1, <2>1, <2>3, <3>7
  <2> QED
    BY <1>10, <2>2, <2>3 DEF RecordEvaluation
<1>11. CASE RecordTrackedEvent
  <2>1. UNCHANGED <<thread, received, asked, closing, evaluations>>
    BY <1>11 DEF RecordTrackedEvent, workerVars, closeVars
  <2>2. CASE Post(<<Made("TrackedEvent")>>) /\ entries' = entries
    BY <1>3, <1>7, <2>1, <2>2
  <2>3. CASE entries' = Append(entries, Made("TrackedEvent").item) /\ toWorker' = toWorker
    <3> DEFINE item == Made("TrackedEvent").item
    <3>1. item \in Recorded /\ item.asked = asked
      BY <1>0, MadeIsTyped
    <3>2. entries \in Seq(Recorded)
      BY DEF WorkerInv, WorkerTypeOK
    <3>3. entries' = Append(entries, item)
      BY <2>3
    <3> HIDE DEF item
    <3>4. ToSet(entries') \subseteq ToSet(entries) \cup {item}
      BY <3>1, <3>2, <3>3 DEF ToSet
    <3>5. BacklogUpToDate'
      BY <2>1, <3>1, <3>4 DEF BacklogUpToDate
    <3> QED
      BY <1>1, <2>1, <2>3, <3>5
  <2> QED
    BY <1>11, <2>2, <2>3 DEF RecordTrackedEvent
<1>12. CASE RecordInvalidContext
  BY <1>1, <1>3, <1>5, <1>12 DEF RecordInvalidContext, workerVars, closeVars
<1>13. CASE PerformClose
  <2>1. UNCHANGED <<thread, received, asked>>
    BY <1>13 DEF PerformClose, workerVars
  <2>2. CASE closing' = "closed" /\ evaluations' = <<>> /\ entries' = <<>> /\ toWorker' = toWorker
    BY <1>1, <1>4, <2>1, <2>2
  <2>3. CASE closing' = "closing" /\ Post(<<Plain("Close")>>) /\ UNCHANGED backlogVars
    BY <1>3, <1>5, <2>1, <2>3 DEF backlogVars
  <2> QED
    BY <1>13, <2>2, <2>3 DEF PerformClose
<1>14. CASE CloseTimesOut \/ HandleClosed
  <2>1. FinishClose
    BY <1>14 DEF CloseTimesOut, HandleClosed
  <2>2. toWorker' = <<>> /\ thread' # "running" /\ UNCHANGED <<evaluations, entries, asked>>
        /\ closing' = "closed"
    BY <2>1 DEF FinishClose, backlogVars
  <2> QED
    BY <1>2, <1>3, <2>2
<1>15. CASE GiveContext
  <2>1. asked' = asked + 1 /\ received' = received /\ closing = "open" /\ closing' = closing
    BY <1>15 DEF GiveContext, closeVars
  <2>2. CASE worker = "none" /\ ~turnedOff /\ StartWorker
    BY <1>4, <2>1, <2>2, StartingKeepsOrder DEF StartWorker
  <2>3. CASE worker = "none" /\ TurnOff
    <3>1. toWorker = <<>> /\ thread # "running"
      BY <2>3 DEF WorkerInv, PageInv
    <3> QED
      BY <1>2, <1>4, <2>3, <3>1 DEF TurnOff
  <2>4. CASE /\ worker # "none" \/ turnedOff
             /\ Post(<<Plain("UpdateContext")>>)
             /\ UNCHANGED <<worker, thread, backlogVars, turnedOff>>
    BY <1>0, <1>4, <1>6, <2>1, <2>4 DEF backlogVars
  <2> QED
    BY <1>15, <2>2, <2>3, <2>4 DEF GiveContext
<1>16. CASE Handlers
  <2>1. UNCHANGED <<evaluations, entries, asked, closing>>
    BY <1>16 DEF Handlers, OnInitialize, OnClientSession, OnEvaluatedConfig, OnTrackedEvent,
         OnTrackedEventEntries, OnInvalidContextSubmissions, OnUpdateContext, OnFlush, OnClose,
         Receive, pageVars, backlogVars, closeVars
  <2>2. thread = "running" /\ toWorker # <<>> /\ toWorker' = Tail(toWorker)
    BY <1>16 DEF Handlers, OnInitialize, OnClientSession, OnEvaluatedConfig, OnTrackedEvent,
         OnTrackedEventEntries, OnInvalidContextSubmissions, OnUpdateContext, OnFlush, OnClose,
         Receive
  <2>3. received' = received + IsUpdate(Head(toWorker))
    <3>1. CASE OnUpdateContext
      BY <3>1 DEF OnUpdateContext, Receive, IsUpdate
    <3>2. CASE ~OnUpdateContext
      <4>1. received' = received /\ Head(toWorker).type # "UpdateContext"
        BY <1>16, <3>2 DEF Handlers, OnInitialize, OnClientSession, OnEvaluatedConfig, OnTrackedEvent,
             OnTrackedEventEntries, OnInvalidContextSubmissions, OnFlush, OnClose, Receive
      <4> QED
        BY <1>0, <4>1 DEF IsUpdate
    <3> QED
      BY <3>1, <3>2
  <2> QED
    BY <1>3, <2>1, <2>2, <2>3, ReceivingKeepsOrder
<1>17. CASE CollectorTimeout \/ \E i \in DOMAIN flushes : CollectorStep(i)
  <2>1. /\ UNCHANGED <<toWorker, received, asked, evaluations, entries, closing>>
        /\ thread' = "running" => thread = "running"
    BY <1>17 DEF CollectorTimeout, CollectorStep, pageVars, workerVars, backlogVars, closeVars
  <2> QED
    BY <1>1, <1>3, <2>1
<1>18. CASE WorkerFails
  BY <1>2, <1>3, <1>18 DEF WorkerFails, pageVars, backlogVars, closeVars
<1>19. CASE UNCHANGED allVars
  BY <1>1, <1>3, <1>19 DEF allVars, pageVars, workerVars, backlogVars, closeVars
<1> QED
  BY <1>8, <1>9, <1>10, <1>11, <1>12, <1>13, <1>14, <1>15, <1>16, <1>17, <1>18, <1>19
     DEF WorkerNext, Page

\* In the backlog of a late worker as in the channel to a running one, every event stays
\* behind the context it was recorded under and before the next, and a running worker is
\* sent every context (WebWorkerTelemetryClient.updateContext, startWorker, worker.ts).
THEOREM ContextsAlwaysKeepTheirEvents == WorkerSpec => []ContextsKeepTheirEvents
<1>1. WorkerInit => ChannelInOrder /\ BacklogUpToDate /\ NothingMissed
  BY DEF WorkerInit, ChannelInOrder, BacklogUpToDate, NothingMissed, ToSet
<1>2. WorkerInv /\ ChannelInOrder /\ BacklogUpToDate /\ NothingMissed /\ [WorkerNext]_allVars
        => ChannelInOrder' /\ BacklogUpToDate' /\ NothingMissed'
  BY StepKeepsContexts
<1>3. WorkerSpec => []WorkerInv
  BY WorkerInvHolds
<1>4. WorkerSpec => [](ChannelInOrder /\ BacklogUpToDate /\ NothingMissed)
  BY <1>1, <1>2, <1>3, PTL DEF WorkerSpec
<1> QED
  BY <1>4, ContextsByPart, PTL
=============================================================================
