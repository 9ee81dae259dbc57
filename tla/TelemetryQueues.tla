-------------------------- MODULE TelemetryQueues --------------------------
(***************************************************************************)
(* The bounded queues telemetry collects events in: EventQueue, which      *)
(* drops its oldest events and counts them, and TrackedEventQueue, which   *)
(* refuses new ones without counting (it warns, and logging is left out). *)
(* Timestamps are left out.                                                *)
(***************************************************************************)
EXTENDS Naturals, Sequences

EmptyQueue == [events |-> <<>>, dropped |-> 0]

Excess(n, limit) == IF n > limit THEN n - limit ELSE 0

\* The last of s, without its first n.
Behead(s, n) == SubSeq(s, n + 1, Len(s))

\* The events that pushing one event makes the queue drop.
Overflow(queue, limit) == Excess(Len(queue.events) + 1, limit)

PushUncounted(queue, event, limit) ==
    [queue EXCEPT !.events = Append(Behead(@, Overflow(queue, limit)), event)]

\* EventQueue.push of one event, for a limit of at least one.
Push(queue, event, limit) ==
    [events  |-> Append(Behead(queue.events, Overflow(queue, limit)), event),
     dropped |-> queue.dropped + Overflow(queue, limit)]

\* What takeSnapshot leaves behind.
KeepEvents(queue) == [queue EXCEPT !.dropped = 0]
AfterSnapshot(queue) == EmptyQueue

Admits(batch, limit) == Len(batch) < limit
=============================================================================
