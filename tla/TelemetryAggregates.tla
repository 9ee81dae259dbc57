------------------------ MODULE TelemetryAggregates ------------------------
(***************************************************************************)
(* What telemetry gathers beside its event queues, as data: LimitedMap,    *)
(* InvalidContextSubmissions, EventAggregator and the admission of tracked *)
(* events.  Times, and the values a map holds, are left out.               *)
(***************************************************************************)
EXTENDS Naturals, Sequences, SequencesExt, FiniteSetsExt

\* The sum of the values of a function, and of those it has on a part of its domain.
SumsOf(f) ==
    LET sum[S \in SUBSET DOMAIN f] ==
          IF S = {} THEN 0 ELSE LET x == CHOOSE x \in S : TRUE IN f[x] + sum[S \ {x}]
    IN  sum

SumOf(f) == SumsOf(f)[DOMAIN f]

\* A call of track: whether its name has 1 to 150 characters, and what its options are.
TrackCalls ==
    [named : BOOLEAN, value : {"absent", "finite", "other"}, details : {"absent", "small", "other"}]

IsAdmitted(call) == call.named

\* The options an admitted event is reported with: a value that is no finite number and
\* details that are no small object are left out, the event is not.
ReportedFields(call) ==
    {field \in {"value", "details"} :
        \/ field = "value" /\ call.value = "finite"
        \/ field = "details" /\ call.details = "small"}

EmptyMap == [keys |-> <<>>, dropped |-> 0]

SetLimitedUncounted(map, key, limit) ==
    LET keys == IF key \in ToSet(map.keys) THEN map.keys ELSE Append(map.keys, key)
    IN  [map EXCEPT !.keys = SubSeq(keys, IF Len(keys) > limit THEN Len(keys) - limit + 1 ELSE 1, Len(keys))]

\* LimitedMap.set: a key that is there keeps its place; a new one may push out the
\* oldest, which is counted.
SetLimited(map, key, limit) ==
    LET keys == IF key \in ToSet(map.keys) THEN map.keys ELSE Append(map.keys, key)
        excess == IF Len(keys) > limit THEN Len(keys) - limit ELSE 0
    IN  [keys |-> SubSeq(keys, excess + 1, Len(keys)), dropped |-> map.dropped + excess]

\* A function with one more place.
Including(f, x, value) == [y \in DOMAIN f \cup {x} |-> IF y \in DOMAIN f THEN f[y] ELSE value]

NoSubmissions == [counts |-> <<>>, beyond |-> 0]

AddSubmissionsSampled(held, sample, count, limit) ==
    IF sample \in DOMAIN held.counts
    THEN [held EXCEPT !.counts[sample] = @ + count]
    ELSE IF Cardinality(DOMAIN held.counts) < limit
    THEN [held EXCEPT !.counts = Including(@, sample, count)]
    ELSE held

\* InvalidContextSubmissions.add of `count` submissions: counted under their sample while
\* there is room for another, or beyond the samples.
AddSubmissions(held, sample, count, limit) ==
    IF sample \in DOMAIN held.counts
    THEN [held EXCEPT !.counts[sample] = @ + count]
    ELSE IF Cardinality(DOMAIN held.counts) < limit
    THEN [held EXCEPT !.counts = Including(@, sample, count)]
    ELSE [held EXCEPT !.beyond = @ + count]

\* The entries of takeSnapshot.
SubmissionEntries(held) ==
    IF held.beyond > 0 THEN Including(held.counts, "none", held.beyond) ELSE held.counts

Submitted(held) == SumOf(held.counts) + held.beyond

\* EventAggregator.aggregate: equal events once, with their number.
Aggregate(events) ==
    [event \in ToSet(events) |-> Cardinality({i \in DOMAIN events : events[i] = event})]

AggregateSum(aggregated) == SumOf(aggregated)

=============================================================================
