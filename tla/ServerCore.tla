----------------------------- MODULE ServerCore -----------------------------
(***************************************************************************)
(* The transport-independent half of the server's                          *)
(* DefaultConfigDirectorClient: initialize, the readyPromise it races, the *)
(* handling of config bundles, and dispose.  ServerClient conjoins its     *)
(* operators with what the transports do in the same turn.                 *)
(*                                                                         *)
(* A bundle carries configs, each with the segments its rules use, and     *)
(* segments.  Versions are the number of the bundle something came with;   *)
(* what a config evaluates to depends on its version and on the versions   *)
(* of the segments it uses (rules and contexts are left out).              *)
(***************************************************************************)
EXTENDS Naturals, FiniteSets

CONSTANTS
    Keys,        \* config keys
    Segments,    \* segment ids
    MaxCalls,    \* bound: calls of initialize in a behaviour
    MaxBundles   \* bound: bundles received in a behaviour

ASSUME ServerBoundsAssumption == MaxCalls \in Nat \ {0} /\ MaxBundles \in Nat

\* Calls of initialize in the order they are made; 0 stands for no call.
Calls == 1 .. MaxCalls
CallsOrNone == 0 .. MaxCalls

VARIABLES
    pc,          \* where each initialize is suspended
    promise,     \* the readyPromise each initialize created
    waitsOn,     \* the call whose readyPromise a waiting initialize races
    lastCall,    \* owner of readyPromise and readyResolve
    armed,       \* calls whose readiness timer has neither fired nor been cleared
    readyTimer,  \* the call whose timer this.readyTimer is
    ready,
    hasSet,      \* configSet is defined
    configs,     \* per key, the definition held (version 0: none)
    segments,    \* per segment id, the version held (0: none)
    seen,        \* per key, the evaluation its watcher was last called with
    observed,    \* the application's listeners and watchers are registered
    bundles,     \* bundles received so far
    turn         \* the handler that is emitting or calling watchers

raceVars == <<promise, waitsOn, lastCall, armed, readyTimer>>
callVars == <<pc, raceVars>>
setVars == <<hasSet, configs, segments, bundles>>
viewVars == <<ready, setVars, seen, observed>>
coreVars == <<callVars, viewVars, turn>>

\* "connecting": in transport.connect; Settled: its reaction is due; "waiting": in
\* the race for readiness.
Settled == {"attached", "timedOut", "rejected"}
Phases == {"unused", "connecting", "waiting", "returned", "thrown"} \cup Settled
EmptyStack == [at |-> "none", call |-> 0, keys |-> {}]
NoConfig == [version |-> 0, uses |-> {}]
PromiseStates == {"none", "pending", "resolved", "cancelled", "settled"}
Turns == [at : {"none", "updated", "watchers", "fatal"}, call : CallsOrNone, keys : SUBSET Keys]
Definitions == {NoConfig} \cup [version : 1 .. MaxBundles, uses : SUBSET Segments]

\* What the evaluator sees of a config; without one the watcher's default is served.
Evaluation(definition, held) ==
    [version |-> definition.version, members |-> [s \in definition.uses |-> held[s]]]

CoreTypeOK ==
    /\ pc \in [Calls -> Phases]
    /\ promise \in [Calls -> PromiseStates]
    /\ waitsOn \in [Calls -> CallsOrNone]
    /\ lastCall \in CallsOrNone /\ readyTimer \in CallsOrNone
    /\ armed \subseteq Calls
    /\ ready \in BOOLEAN /\ hasSet \in BOOLEAN /\ observed \in BOOLEAN
    /\ bundles \in 0 .. MaxBundles
    /\ configs \in [Keys -> Definitions]
    /\ segments \in [Segments -> 0 .. MaxBundles]
    /\ turn \in Turns

CoreInit ==
    /\ pc = [i \in Calls |-> "unused"]
    /\ promise = [i \in Calls |-> "none"]
    /\ waitsOn = [i \in Calls |-> 0]
    /\ lastCall = 0 /\ armed = {} /\ readyTimer = 0
    /\ ready = FALSE /\ hasSet = FALSE /\ observed = TRUE /\ bundles = 0
    /\ configs = [k \in Keys |-> NoConfig]
    /\ segments = [s \in Segments |-> 0]
    /\ seen = [k \in Keys |-> Evaluation(NoConfig, segments)]
    /\ turn = EmptyStack

StackEmpty == turn = EmptyStack

\* Resolving a promise that is no longer pending has no effect.
Resolve(outcome) ==
    IF lastCall # 0 /\ promise[lastCall] = "pending"
    THEN [promise EXCEPT ![lastCall] = outcome] ELSE promise

----------------------------------------------------------------------------
(* initialize.                                                             *)

\* Up to the await of transport.connect, which may settle at once.
StartInitialize(phase) ==
    /\ lastCall < MaxCalls
    /\ lastCall' = lastCall + 1
    /\ pc' = [pc EXCEPT ![lastCall + 1] = phase]
    /\ promise' = [promise EXCEPT ![lastCall + 1] = "pending"]
    /\ ready' = FALSE
    /\ UNCHANGED <<waitsOn, armed, readyTimer, setVars, seen, observed, turn>>

AwaitReadinessUntimed(i) ==
    /\ StackEmpty
    /\ pc[i] \in {"attached", "timedOut"}
    /\ pc' = [pc EXCEPT ![i] = "waiting"]
    /\ waitsOn' = [waitsOn EXCEPT ![i] = lastCall]
    /\ UNCHANGED <<armed, readyTimer, promise, lastCall, viewVars, turn>>

\* The transport settled: race the readyPromise of the latest call for what is left
\* of the timeout; nothing is left when the transport itself timed out, and a slow
\* answer may have eaten it.  The previous readyTimer is forgotten, not cleared.
AwaitReadiness(i) ==
    /\ StackEmpty
    /\ pc[i] \in {"attached", "timedOut"}
    /\ \/ /\ pc[i] # "timedOut"
          /\ pc' = [pc EXCEPT ![i] = "waiting"]
          /\ waitsOn' = [waitsOn EXCEPT ![i] = lastCall]
          /\ armed' = armed \cup {i} /\ readyTimer' = i
       \/ /\ pc' = [pc EXCEPT ![i] = "returned"]
          /\ UNCHANGED <<waitsOn, armed, readyTimer>>
    /\ UNCHANGED <<promise, lastCall, viewVars, turn>>

\* An error of the transport is logged; only an initialization error is rethrown.
ReturnAfterError(i) ==
    /\ StackEmpty
    /\ pc[i] = "rejected"
    /\ pc' = [pc EXCEPT ![i] = "returned"]
    /\ UNCHANGED <<raceVars, viewVars, turn>>

\* clearReadyTimer, which may clear the timer of another call.
ClearReadyTimer(running) ==
    /\ armed' = running \ {readyTimer}
    /\ readyTimer' = 0

RaceWon(i) ==
    /\ StackEmpty
    /\ pc[i] = "waiting" /\ promise[waitsOn[i]] = "settled"
    /\ pc' = [pc EXCEPT ![i] = "returned"]
    /\ ClearReadyTimer(armed)
    /\ UNCHANGED <<promise, waitsOn, lastCall, viewVars, turn>>

\* The reaction on readyResolve: unless dispose cancelled it, the client is ready.
SettleReadyPromise(i) ==
    /\ StackEmpty
    /\ promise[i] \in {"resolved", "cancelled"}
    /\ promise' = [promise EXCEPT ![i] = "settled"]
    /\ ready' = (ready \/ promise[i] = "resolved")
    /\ UNCHANGED <<pc, waitsOn, lastCall, armed, readyTimer, setVars, seen, observed, turn>>

ReactionDue(i) ==
    \/ pc[i] \in Settled
    \/ promise[i] \in {"resolved", "cancelled"}
    \/ pc[i] = "waiting" /\ promise[waitsOn[i]] = "settled"

\* The stack is empty and no promise reaction is due: the next task may run.
Quiet == StackEmpty /\ \A i \in Calls : ~ReactionDue(i)

\* A timer may outlive its race; then it resolves nothing.
ReadyTimerFires(i) ==
    /\ Quiet
    /\ i \in armed
    /\ IF pc[i] = "waiting"
       THEN pc' = [pc EXCEPT ![i] = "returned"] /\ ClearReadyTimer(armed \ {i})
       ELSE armed' = armed \ {i} /\ UNCHANGED <<pc, readyTimer>>
    /\ UNCHANGED <<promise, waitsOn, lastCall, viewVars, turn>>

----------------------------------------------------------------------------
(* The "configBundleReceived" handler.                                     *)

\* `uses` gives the configs carried, each with the segments its rules use.
Bundles ==
    [kind : {"full", "delta"},
     uses : UNION {[carried -> SUBSET Segments] : carried \in SUBSET Keys},
     segments : SUBSET Segments]

Replaces(b) == ~hasSet \/ b.kind = "full"

MergedConfigs(b) ==
    [k \in Keys |-> IF k \in DOMAIN b.uses THEN [version |-> bundles + 1, uses |-> b.uses[k]]
                    ELSE IF Replaces(b) THEN NoConfig ELSE configs[k]]

MergedSegments(b) ==
    [s \in Segments |-> IF s \in b.segments THEN bundles + 1
                        ELSE IF Replaces(b) THEN 0 ELSE segments[s]]

\* Against the configs held before the bundle ...
KeysRemovedBy(b) ==
    IF hasSet /\ b.kind = "full"
    THEN {k \in Keys \ DOMAIN b.uses : configs[k].version # 0} ELSE {}

KeysCarriedBy(b, merged) == DOMAIN b.uses

\* ... and against those held after it: carried, or using a segment that is.
KeysUpdatedBy(b, merged) ==
    DOMAIN b.uses \cup
    {k \in Keys : merged[k].version # 0 /\ merged[k].uses \cap b.segments # {}}

\* Resolve readiness, take the bundle over and emit configsUpdated (pc is left to the
\* transport) ...
BundleReceived(b, from) ==
    /\ bundles < MaxBundles
    /\ bundles' = bundles + 1
    /\ promise' = Resolve("resolved")
    /\ hasSet' = TRUE
    /\ configs' = MergedConfigs(b)
    /\ segments' = MergedSegments(b)
    /\ turn' = [at |-> "updated", call |-> from,
                keys |-> KeysUpdatedBy(b, configs') \cup KeysRemovedBy(b)]
    /\ UNCHANGED <<waitsOn, lastCall, armed, readyTimer, ready, seen, observed>>

\* ... and after its listeners, call the watchers that are still registered.
UpdateWatchers ==
    /\ turn.at = "updated"
    /\ turn' = [turn EXCEPT !.at = "watchers", !.keys = {}]
    /\ seen' = [k \in Keys |-> IF observed /\ k \in turn.keys
                               THEN Evaluation(configs[k], segments) ELSE seen[k]]
    /\ UNCHANGED <<callVars, ready, setVars, observed>>

EndOfHandler ==
    /\ turn.at = "watchers"
    /\ turn' = EmptyStack
    /\ UNCHANGED <<callVars, ready, setVars, seen, observed>>

----------------------------------------------------------------------------
(* closeConnection and dispose, without the transport.                     *)

CloseClient ==
    /\ ready' = FALSE
    /\ UNCHANGED <<callVars, setVars, seen, observed, turn>>

DisposeAsReady ==
    /\ observed' = FALSE
    /\ ready' = FALSE
    /\ promise' = Resolve("resolved")
    /\ ClearReadyTimer(armed)
    /\ UNCHANGED <<pc, waitsOn, lastCall, setVars, seen, turn>>

DisposeClient ==
    /\ observed' = FALSE
    /\ ready' = FALSE
    /\ promise' = Resolve("cancelled")
    /\ ClearReadyTimer(armed)
    /\ UNCHANGED <<pc, waitsOn, lastCall, setVars, seen, turn>>
=============================================================================
