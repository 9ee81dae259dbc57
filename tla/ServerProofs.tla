---------------------------- MODULE ServerProofs ----------------------------
(***************************************************************************)
(* What TLAPS proves of the server's parts: of ServerClient, for any       *)
(* number of calls, bundles, polls, closes, keys and segments, over each   *)
(* of the transports; of ServerTelemetry, for any limits and any number of *)
(* records, closes and flushes; and of ConfigEvaluation, for any bundles,  *)
(* contexts, buckets and default values.                                   *)
(***************************************************************************)
EXTENDS ServerClient, ServerTelemetry, ConfigEvaluation,
        FunctionTheorems, FiniteSetTheorems, SequenceTheorems, WellFoundedInduction,
        NaturalsInduction, TLAPS

LEMMA CallNumbers ==
    /\ MaxCalls \in Nat /\ Calls \subseteq CallsOrNone /\ 0 \in CallsOrNone
    /\ \A c \in CallsOrNone : c \in Nat
    /\ \A c \in Calls : c \in Nat /\ c # 0
    /\ \A c \in CallsOrNone : c < MaxCalls => c + 1 \in Calls
    /\ \A c \in CallsOrNone : c # 0 => c \in Calls
  BY ServerBoundsAssumption DEF Calls, CallsOrNone

----------------------------------------------------------------------------
(* Type correctness.                                                       *)

LEMMA StackTypes ==
    /\ EmptyStack \in Turns
    /\ \A c \in CallsOrNone : [at |-> "fatal", call |-> c, keys |-> {}] \in Turns
    /\ \A t \in Turns : [t EXCEPT !.at = "watchers", !.keys = {}] \in Turns
  BY CallNumbers DEF EmptyStack, Turns

LEMMA PlansNameTransports ==
    \A options \in ServerOptions({}) :
        ServerPlan(options) # Throws => TransportOf(ServerPlan(options)) \in Modes
<1> SUFFICES ASSUME NEW options \in ServerOptions({}), ServerPlan(options) # Throws
             PROVE  TransportOf(ServerPlan(options)) \in Modes
  OBVIOUS
<1>1. ServerSource(options) \in OfflineSources /\ "rejected" \in OfflineSources
  BY DEF ServerOptions, ServerSource, OfflineSources
<1>2. ~IsOffline(options) => ModeOf(options) \in {"streaming", "polling"}
  <2>1. options.mode \in {{}, {"streaming"}, {"polling"}, {"offline"}}
    BY DEF ServerOptions
  <2>2. \A m \in {"streaming", "polling"} : (CHOOSE n \in {m} : TRUE) = m
    OBVIOUS
  <2> QED
    BY <2>1, <2>2 DEF IsOffline, ModeOf
<1> QED
  BY <1>1, <1>2 DEF ServerPlan, TransportOf, StayOffline, Connect, Throws, Modes

LEMMA InitTypeOK == Init => TypeOK
<1> SUFFICES ASSUME Init PROVE TypeOK
  OBVIOUS
<1> USE CallNumbers DEF Init, CoreInit
<1>1. CoreTypeOK
  <2>1. configs \in [Keys -> Definitions] /\ segments \in [Segments -> 0 .. MaxBundles]
    BY ServerBoundsAssumption DEF Definitions
  <2>2. armed \subseteq Calls /\ turn \in Turns
    BY StackTypes
  <2>4. bundles \in 0 .. MaxBundles
    BY ServerBoundsAssumption
  <2>3. pc \in [Calls -> Phases] /\ promise \in [Calls -> PromiseStates]
    BY DEF Phases, PromiseStates
  <2> QED
    BY <2>1, <2>2, <2>3, <2>4 DEF CoreTypeOK
<1>2. /\ sent \in 0 .. lastCall + polls /\ cuts \in 0 .. MaxCuts /\ polls \in 0 .. MaxPolls
      /\ fetchOf \in [Fetches -> CallsOrNone] /\ fetch \in [Fetches -> FetchStates]
  BY TransportBoundsAssumption DEF FetchStates
<1> QED
  <2>1. mode \in Modes
    BY PlansNameTransports
  <2> QED
    BY <1>1, <1>2, <2>1 DEF TypeOK, StreamStates

(***************************************************************************)
(* Whatever interval is configured, a client that plans to poll is given   *)
(* one above zero, so schedulePollingInterval, which ignores any other,    *)
(* schedules the polls.  (resolvePollingInterval, pollingIntervalFor)      *)
(***************************************************************************)
LEMMA PollsAreScheduled ==
  ASSUME NEW options \in ServerOptions(Int), ServerPlan(options) = Connect("polling")
  PROVE  SchedulesPolls(ServerPlan(options), options, ServerIntervals)
<1>1. options.pollingInterval \in {{}} \cup {{seconds} : seconds \in Int}
  BY DEF ServerOptions
<1>2. ResolvePollingInterval(options.pollingInterval, ServerIntervals) \in Int
      /\ ResolvePollingInterval(options.pollingInterval, ServerIntervals) > 0
  <2>1. CASE options.pollingInterval = {}
    BY <2>1 DEF ResolvePollingInterval, ServerIntervals
  <2>2. CASE options.pollingInterval # {}
    <3>1. PICK seconds \in Int : options.pollingInterval = {seconds}
      BY <1>1, <2>2
    <3>2. (CHOOSE s \in options.pollingInterval : TRUE) = seconds
      BY <3>1
    <3> QED
      BY <2>2, <3>1, <3>2 DEF ResolvePollingInterval, ServerIntervals
  <2> QED
    BY <2>1, <2>2
<1> QED
  BY <1>2 DEF SchedulesPolls, PollingIntervalFor

LEMMA ResolveType ==
  ASSUME TypeOK, NEW o \in PromiseStates
  PROVE  Resolve(o) \in [Calls -> PromiseStates]
  BY DEF TypeOK, CoreTypeOK, Resolve

LEMMA ClosedType == TypeOK => Closed \in [Calls -> StreamStates]
  BY DEF TypeOK, Closed, StreamStates

\* What a received bundle leaves in the client has the types the evaluator reads.
LEMMA BundleTypeOK ==
  ASSUME TypeOK, NEW b \in Bundles, NEW from \in CallsOrNone, BundleReceived(b, from)
  PROVE  /\ bundles' \in 0 .. MaxBundles /\ hasSet' \in BOOLEAN
         /\ promise' \in [Calls -> PromiseStates]
         /\ configs' \in [Keys -> Definitions]
         /\ segments' \in [Segments -> 0 .. MaxBundles]
         /\ turn' \in Turns
         /\ UNCHANGED <<waitsOn, lastCall, armed, readyTimer, ready, seen, observed>>
<1> USE DEF TypeOK, CoreTypeOK, BundleReceived
<1>1. bundles + 1 \in 1 .. MaxBundles /\ bundles' \in 0 .. MaxBundles
  BY ServerBoundsAssumption
<1>2. \A k \in DOMAIN b.uses : b.uses[k] \in SUBSET Segments
  BY DEF Bundles
<1>3. MergedConfigs(b) \in [Keys -> Definitions]
  BY <1>1, <1>2 DEF MergedConfigs, Definitions
<1>4. MergedSegments(b) \in [Segments -> 0 .. MaxBundles]
  <2>1. \A s \in Segments : segments[s] \in 0 .. MaxBundles
    OBVIOUS
  <2>2. 0 \in 0 .. MaxBundles /\ bundles + 1 \in 0 .. MaxBundles
    BY <1>1, ServerBoundsAssumption
  <2> HIDE DEF TypeOK, CoreTypeOK, BundleReceived
  <2> QED
    BY <2>1, <2>2 DEF MergedSegments
<1>5. promise' \in [Calls -> PromiseStates]
  BY ResolveType DEF PromiseStates
<1>6. KeysUpdatedBy(b, configs') \cup KeysRemovedBy(b) \in SUBSET Keys
  <2>1. DOMAIN b.uses \subseteq Keys
    BY DEF Bundles
  <2> QED
    BY <2>1 DEF KeysUpdatedBy, KeysRemovedBy
<1>7. turn' \in Turns
  BY <1>6 DEF Turns
<1> QED
  BY <1>1, <1>3, <1>4, <1>5, <1>7

\* Every request belongs to a call or to a poll, so the numbers of the next are free.
LEMMA SendBound ==
  ASSUME TypeOK
  PROVE  /\ sent \in Nat /\ lastCall \in Nat /\ polls \in Nat
         /\ sent + 1 \in 0 .. (lastCall + 1) + polls /\ sent + 1 \in 0 .. lastCall + (polls + 1)
         /\ lastCall < MaxCalls => sent + 1 \in Fetches
         /\ polls < MaxPolls => sent + 1 \in Fetches
<1> USE CallNumbers, TransportBoundsAssumption DEF TypeOK
<1>1. lastCall \in Nat /\ polls \in Nat /\ sent \in Nat /\ sent <= lastCall + polls
  BY DEF CoreTypeOK
<1>2. lastCall <= MaxCalls /\ polls <= MaxPolls
  BY DEF CoreTypeOK, CallsOrNone
<1> HIDE DEF TypeOK
<1> QED
  BY <1>1, <1>2 DEF Fetches

LEMMA InitializeTypeOK == TypeOK /\ Initialize => TypeOK'
<1> SUFFICES ASSUME TypeOK, Initialize PROVE TypeOK'
  OBVIOUS
<1> USE CallNumbers DEF TypeOK, CoreTypeOK
<1>1. ASSUME NEW phase \in {"connecting", "attached"}, StartInitialize(phase)
      PROVE  CoreTypeOK' /\ lastCall' \in Calls /\ lastCall' = lastCall + 1
  <2>1. lastCall + 1 \in Calls /\ lastCall' \in Calls
    BY <1>1 DEF StartInitialize
  <2>2. pc' \in [Calls -> Phases] /\ promise' \in [Calls -> PromiseStates]
    BY <1>1, <2>1 DEF StartInitialize, Phases, Settled, PromiseStates
  <2> QED
    BY <1>1, <2>1, <2>2 DEF StartInitialize, setVars
<1>2. CASE InitializeStreaming
  <2>1. CoreTypeOK' /\ lastCall + 1 \in Calls
    BY <1>1, <1>2 DEF InitializeStreaming
  <2>2. stream' \in [Calls -> StreamStates]
    BY <1>2, <2>1, ClosedType DEF InitializeStreaming, StreamStates
  <2>3. source' \in CallsOrNone /\ heartbeatTimer' \in CallsOrNone /\ heartbeats' \subseteq Calls
    BY <1>2, <2>1 DEF InitializeStreaming
  <2> QED
    BY <1>1, <1>2, <2>1, <2>2, <2>3, SendBound DEF InitializeStreaming, pollVars, boundVars
<1>3. CASE InitializePolling
  <2>1. CoreTypeOK' /\ lastCall + 1 \in Calls /\ lastCall' = lastCall + 1
    BY <1>1, <1>3 DEF InitializePolling
  <2>2. CASE Send(lastCall + 1)
    <3>1. sent + 1 \in Fetches /\ sent' \in 0 .. lastCall' + polls'
      BY <1>3, <2>1, <2>2, SendBound DEF InitializePolling, Send, boundVars, StartInitialize
    <3>2. fetchOf' \in [Fetches -> CallsOrNone] /\ fetch' \in [Fetches -> FetchStates]
      BY <2>1, <2>2, <3>1 DEF Send, FetchStates
    <3> QED
      BY <1>3, <2>1, <3>1, <3>2 DEF InitializePolling, streamVars, boundVars
  <2>3. CASE UNCHANGED <<sent, fetchOf, fetch>>
    <3>1. sent' \in 0 .. lastCall' + polls'
      BY <1>3, <2>1, <2>3, SendBound DEF InitializePolling, boundVars
    <3> QED
      BY <1>3, <2>1, <2>3, <3>1 DEF InitializePolling, streamVars, boundVars
  <2> QED
    BY <1>3, <2>2, <2>3 DEF InitializePolling
<1>4. CASE InitializeOffline
  BY <1>1, <1>4 DEF InitializeOffline, streamVars, pollVars, boundVars
<1> QED
  BY <1>2, <1>3, <1>4 DEF Initialize

LEMMA CutTypeOK ==
  ASSUME TypeOK, CloseConnection \/ Dispose
  PROVE  TypeOK'
<1> USE CallNumbers DEF TypeOK, CoreTypeOK
<1>1. ASSUME CloseTransport, Cut
      PROVE  /\ stream' \in [Calls -> StreamStates] /\ heartbeats' \subseteq Calls
             /\ heartbeatTimer' \in CallsOrNone /\ interval' \in BOOLEAN /\ cutAt' \in CallsOrNone
             /\ cuts' \in 0 .. MaxCuts
             /\ UNCHANGED <<mode, source, fatalError, sent, fetchOf, fetch, polls>>
  <2>1. cuts' \in 0 .. MaxCuts
    BY <1>1, TransportBoundsAssumption DEF Cut
  <2> QED
    BY <1>1, <2>1, ClosedType DEF CloseTransport, Cut
<1>2. CASE CloseConnection
  BY <1>1, <1>2 DEF CloseConnection, CloseClient, callVars, raceVars, setVars
<1>3. CASE Dispose
  <2>1. promise' \in [Calls -> PromiseStates]
    BY <1>3, ResolveType DEF Dispose, DisposeClient, PromiseStates
  <2>2. disposal' \in [at : CallsOrNone, inListener : BOOLEAN]
    BY <1>3 DEF Dispose
  <2>3. armed' \subseteq Calls /\ readyTimer' = 0
    BY <1>3 DEF Dispose, DisposeClient, ClearReadyTimer
  <2> QED
    BY <1>1, <1>3, <2>1, <2>2, <2>3 DEF Dispose, DisposeClient, setVars
<1> QED
  BY <1>2, <1>3

LEMMA CoreStepTypeOK ==
  ASSUME TypeOK, NEW i \in Calls, CoreStep(i)
  PROVE  TypeOK'
<1> USE CallNumbers DEF TypeOK, CoreTypeOK, CoreStep, Phases, Settled
<1> USE DEF raceVars, viewVars, setVars, streamVars, pollVars, boundVars
<1>1. CASE AwaitReadiness(i)
  <2>1. CASE pc' = [pc EXCEPT ![i] = "waiting"] /\ waitsOn' = [waitsOn EXCEPT ![i] = lastCall]
             /\ armed' = armed \cup {i} /\ readyTimer' = i
    BY <1>1, <2>1 DEF AwaitReadiness
  <2>2. CASE pc' = [pc EXCEPT ![i] = "returned"] /\ UNCHANGED <<waitsOn, armed, readyTimer>>
    BY <1>1, <2>2 DEF AwaitReadiness
  <2> QED
    BY <1>1, <2>1, <2>2 DEF AwaitReadiness
<1>2. CASE ReturnAfterError(i)
  BY <1>2 DEF ReturnAfterError
<1>3. CASE RaceWon(i)
  BY <1>3 DEF RaceWon, ClearReadyTimer
<1>4. CASE SettleReadyPromise(i)
  BY <1>4 DEF SettleReadyPromise, PromiseStates
<1>5. CASE ReadyTimerFires(i)
  <2>1. pc' \in [Calls -> Phases] /\ armed' \subseteq Calls /\ readyTimer' \in CallsOrNone
    BY <1>5 DEF ReadyTimerFires, ClearReadyTimer
  <2> QED
    BY <1>5, <2>1 DEF ReadyTimerFires
<1> QED
  BY <1>1, <1>2, <1>3, <1>4, <1>5

LEMMA HandlerTypeOK == TypeOK /\ (HandlerStep \/ EndOfFatalEmit) => TypeOK'
<1> SUFFICES ASSUME TypeOK, HandlerStep \/ EndOfFatalEmit PROVE TypeOK'
  OBVIOUS
<1> USE StackTypes DEF TypeOK, CoreTypeOK, HandlerStep
<1> USE DEF callVars, raceVars, viewVars, setVars, streamVars, pollVars, boundVars
<1>1. CASE HandlerStep /\ UpdateWatchers
  BY <1>1 DEF UpdateWatchers
<1>2. CASE HandlerStep /\ EndOfHandler
  BY <1>2 DEF EndOfHandler
<1>3. CASE EndOfFatalEmit
  BY <1>3 DEF EndOfFatalEmit
<1> QED
  BY <1>1, <1>2, <1>3

LEMMA StreamTypeOK ==
  ASSUME TypeOK, NEW i \in Calls, StreamTimeout(i) \/ RejectConnect(i) \/ Network(i)
  PROVE  TypeOK'
<1> USE CallNumbers, StackTypes DEF TypeOK, CoreTypeOK, Phases, Settled, StreamStates
<1> USE DEF callVars, raceVars, viewVars, setVars, pollVars, boundVars
<1>1. CASE StreamTimeout(i)
  BY <1>1 DEF StreamTimeout, streamVars
<1>2. CASE RejectConnect(i)
  BY <1>2 DEF RejectConnect
<1>3. CASE StreamOpens(i)
  BY <1>3 DEF StreamOpens
<1>4. CASE StreamStops(i)
  <2>1. \E state \in StreamStates : stream' = [stream EXCEPT ![i] = state]
    BY <1>4 DEF StreamStops
  <2>3. stream' \in [Calls -> StreamStates]
    BY <2>1
  <2>2. UNCHANGED <<coreVars, mode, source, heartbeats, heartbeatTimer, pollVars, boundVars>>
    BY <1>4 DEF StreamStops, coreVars
  <2> HIDE DEF StreamStates
  <2> QED
    BY <2>2, <2>3 DEF coreVars
<1>5. CASE StreamRefused(i)
  BY <1>5 DEF StreamRefused
<1>6. CASE DispatchMessage(i)
  <2>1. PICK b \in Bundles : BundleReceived(b, i)
    BY <1>6 DEF DispatchMessage
  <2> QED
    BY <1>6, <2>1, BundleTypeOK DEF DispatchMessage, streamVars
<1> QED
  BY <1>1, <1>2, <1>3, <1>4, <1>5, <1>6 DEF Network

LEMMA RequestTypeOK ==
  ASSUME TypeOK, NEW f \in Fetches, FinishConnect(f) \/ Request(f)
  PROVE  TypeOK'
<1> USE CallNumbers, StackTypes DEF TypeOK, CoreTypeOK, FetchStates
<1> USE DEF callVars, raceVars, viewVars, setVars, streamVars, boundVars
<1>1. CASE FinishConnect(f)
  BY <1>1 DEF FinishConnect, Phases, Settled
<1>2. CASE ResponseOk(f)
  <2>1. fetch' \in [Fetches -> FetchStates]
    BY <1>2 DEF ResponseOk, Reach
  <2>2. UNCHANGED <<mode, streamVars, sent, fetchOf, boundVars, fatalError, interval>>
    BY <1>2 DEF ResponseOk, Reach
  <2>3. UNCHANGED coreVars
    BY <1>2 DEF ResponseOk, coreVars
  <2> HIDE DEF FetchStates
  <2> QED
    BY <2>1, <2>2, <2>3 DEF coreVars
<1>3. CASE ResponseFatal(f)
  BY <1>3 DEF ResponseFatal, Reach, coreVars
<1>4. CASE BodyRead(f)
  <2>1. PICK b \in Bundles : BundleReceived(b, fetchOf[f])
    BY <1>4 DEF BodyRead
  <2> QED
    BY <1>4, <2>1, BundleTypeOK DEF BodyRead, Reach
<1>5. CASE FetchFails(f)
  BY <1>5 DEF FetchFails, Reach
<1> QED
  BY <1>1, <1>2, <1>3, <1>4, <1>5 DEF Request

LEMMA PollTypeOK == TypeOK /\ Poll => TypeOK'
<1> SUFFICES ASSUME TypeOK, Poll PROVE TypeOK'
  OBVIOUS
<1>1. sent + 1 \in Fetches /\ sent' \in 0 .. lastCall' + polls' /\ polls' \in 0 .. MaxPolls
  BY SendBound, TransportBoundsAssumption
  DEF Poll, Send, coreVars, callVars, raceVars, TypeOK
<1>2. fetchOf' \in [Fetches -> CallsOrNone] /\ fetch' \in [Fetches -> FetchStates]
  BY <1>1, CallNumbers DEF Poll, Send, FetchStates, TypeOK
<1> QED
  BY <1>1, <1>2
  DEF Poll, coreVars, callVars, raceVars, viewVars, setVars, streamVars, TypeOK, CoreTypeOK

LEMMA OfflineBundles ==
  \A carried \in SUBSET Keys :
      [kind |-> "full", uses |-> [k \in carried |-> {}], segments |-> {}] \in Bundles
<1> TAKE carried \in SUBSET Keys
<1>1. [k \in carried |-> {}] \in [carried -> SUBSET Segments]
  OBVIOUS
<1> QED
  BY <1>1 DEF Bundles

LEMMA OfflineTypeOK ==
  ASSUME TypeOK, NEW i \in Calls, Offline(i)
  PROVE  TypeOK'
<1> USE CallNumbers DEF TypeOK, CoreTypeOK, Phases, Settled
<1> USE DEF raceVars, viewVars, setVars, streamVars, pollVars, boundVars
<1>1. CASE OfflineLoaded(i)
  <2>1. PICK b \in Bundles : BundleReceived(b, i)
    BY <1>1, OfflineBundles DEF OfflineLoaded
  <2> QED
    BY <1>1, <2>1, BundleTypeOK DEF OfflineLoaded
<1>2. CASE OfflineRejected(i)
  BY <1>2 DEF OfflineRejected
<1> QED
  BY <1>1, <1>2 DEF Offline

\* Every reachable state of the server client is well-typed over each transport: timers,
\* requests and event sources always belong to a call that was made.
THEOREM TypeCorrect == Spec => []TypeOK
<1>1. TypeOK /\ [Next]_vars => TypeOK'
  <2> SUFFICES ASSUME TypeOK, [Next]_vars PROVE TypeOK'
    OBVIOUS
  <2>1. CASE UNCHANGED vars
    BY <2>1 DEF vars, coreVars, callVars, raceVars, viewVars, setVars, streamVars, pollVars,
                boundVars, TypeOK, CoreTypeOK
  <2>2. CASE Application
    BY <2>2, InitializeTypeOK, CutTypeOK DEF Application
  <2> QED
    BY <2>1, <2>2, CoreStepTypeOK, HandlerTypeOK, StreamTypeOK, RequestTypeOK, PollTypeOK,
       OfflineTypeOK DEF Next
<1> QED
  BY <1>1, InitTypeOK, PTL DEF Spec

----------------------------------------------------------------------------
(* What the watchers were told.                                            *)

\* An evaluation depends on a held version through the segments its config uses.
LEMMA EvaluationReadsItsSegments ==
  ASSUME NEW definition, NEW held, NEW later, \A s \in definition.uses : later[s] = held[s]
  PROVE  Evaluation(definition, later) = Evaluation(definition, held)
  BY DEF Evaluation

\* A key a bundle does not report as updated or removed evaluates as before it.
LEMMA UnreportedKeysKeepTheirValue ==
  ASSUME TypeOK, WatchersFollow, NEW b \in Bundles,
         NEW k \in Keys, k \notin KeysRemovedBy(b), k \notin KeysUpdatedBy(b, MergedConfigs(b))
  PROVE  Evaluation(MergedConfigs(b)[k], MergedSegments(b)) = Evaluation(configs[k], segments)
<1>1. k \notin DOMAIN b.uses
  BY DEF KeysUpdatedBy
<1>2. configs[k] \in Definitions /\ (configs[k].version = 0 => configs[k] = NoConfig)
  BY ServerBoundsAssumption DEF TypeOK, CoreTypeOK, Definitions
<1>3. NoConfig.uses = {}
  BY DEF NoConfig
<1>4. CASE Replaces(b)
  <2>1. MergedConfigs(b)[k] = NoConfig
    BY <1>1, <1>4 DEF MergedConfigs
  <2>2. configs[k] = NoConfig
    BY <1>1, <1>2, <1>4 DEF Replaces, KeysRemovedBy, WatchersFollow
  <2> QED
    BY <1>3, <2>1, <2>2, EvaluationReadsItsSegments
<1>5. CASE ~Replaces(b)
  <2>1. MergedConfigs(b)[k] = configs[k]
    BY <1>1, <1>5 DEF MergedConfigs
  <2>2. configs[k].uses \cap b.segments = {} \/ configs[k].uses = {}
    BY <1>2, <1>3, <2>1 DEF KeysUpdatedBy
  <2>3. configs[k].uses \subseteq Segments
    BY <1>2, <1>3 DEF Definitions
  <2>4. \A s \in configs[k].uses : MergedSegments(b)[s] = segments[s]
    BY <1>5, <2>2, <2>3 DEF MergedSegments
  <2> QED
    BY <2>1, <2>4, EvaluationReadsItsSegments
<1> QED
  BY <1>4, <1>5

LEMMA BundleKeepsWatchers ==
  ASSUME TypeOK, WatchersFollow, turn.at # "updated",
         NEW b \in Bundles, NEW from, BundleReceived(b, from)
  PROVE  WatchersFollow'
<1>1. ASSUME observed', NEW k \in Keys,
             k \notin KeysUpdatedBy(b, MergedConfigs(b)) \cup KeysRemovedBy(b)
      PROVE  seen'[k] = Evaluation(configs'[k], segments')
  <2>1. seen[k] = Evaluation(configs[k], segments)
    BY <1>1 DEF BundleReceived, WatchersFollow
  <2> QED
    BY <1>1, <2>1, UnreportedKeysKeepTheirValue DEF BundleReceived
<1>2. turn'.at = "updated" /\ hasSet'
      /\ turn'.keys = KeysUpdatedBy(b, MergedConfigs(b)) \cup KeysRemovedBy(b)
  BY DEF BundleReceived
<1> QED
  BY <1>1, <1>2 DEF WatchersFollow

\* A step that calls no watcher and changes no value.
LeavesWatchers ==
    /\ UNCHANGED <<hasSet, configs, segments, seen>>
    /\ observed' => observed
    /\ turn' = turn \/ turn.at # "updated"

LEMMA LeavingWatchersKeeps == WatchersFollow /\ LeavesWatchers => WatchersFollow'
  BY DEF WatchersFollow, LeavesWatchers, Evaluation

LEMMA TasksStartOnAnEmptyStack == TaskMayRun => turn = EmptyStack /\ turn.at = "none"
  BY DEF TaskMayRun, Quiet, StackEmpty, EmptyStack

LEMMA NextKeepsWatchers == TypeOK /\ WatchersFollow /\ [Next]_vars => WatchersFollow'
<1> SUFFICES ASSUME TypeOK, WatchersFollow, [Next]_vars PROVE WatchersFollow'
  OBVIOUS
<1> USE TasksStartOnAnEmptyStack
<1> USE DEF coreVars, callVars, viewVars, setVars
<1>1. CASE UNCHANGED vars
  BY <1>1, LeavingWatchersKeeps DEF LeavesWatchers, vars
<1>2. CASE Application
  <2>1. CASE Initialize
    BY <2>1, LeavingWatchersKeeps DEF LeavesWatchers, Initialize, InitializeStreaming,
       InitializePolling, InitializeOffline, StartInitialize
  <2>2. CASE CloseConnection \/ Dispose
    BY <2>2, LeavingWatchersKeeps DEF LeavesWatchers, CloseConnection, CloseClient, Dispose,
       DisposeClient
  <2> QED
    BY <1>2, <2>1, <2>2 DEF Application
<1>3. CASE HandlerStep
  <2>1. CASE UpdateWatchers
    BY <2>1 DEF UpdateWatchers, WatchersFollow
  <2>2. CASE EndOfHandler
    BY <2>2, LeavingWatchersKeeps DEF LeavesWatchers, EndOfHandler
  <2> QED
    BY <1>3, <2>1, <2>2 DEF HandlerStep
<1>4. CASE EndOfFatalEmit \/ Poll
  BY <1>4, LeavingWatchersKeeps DEF LeavesWatchers, EndOfFatalEmit, Poll
<1>5. ASSUME NEW i \in Calls,
             CoreStep(i) \/ StreamTimeout(i) \/ RejectConnect(i) \/ Network(i) \/ Offline(i)
      PROVE  WatchersFollow'
  <2>1. CASE CoreStep(i)
    BY <2>1, LeavingWatchersKeeps DEF LeavesWatchers, CoreStep, AwaitReadiness,
       ReturnAfterError, RaceWon, SettleReadyPromise, ReadyTimerFires
  <2>2. CASE StreamTimeout(i) \/ RejectConnect(i) \/ OfflineRejected(i)
    BY <2>2, LeavingWatchersKeeps DEF LeavesWatchers, StreamTimeout, RejectConnect,
       OfflineRejected
  <2>3. CASE StreamOpens(i) \/ StreamStops(i) \/ StreamRefused(i)
    BY <2>3, LeavingWatchersKeeps DEF LeavesWatchers, StreamOpens, StreamStops, StreamRefused
  <2>4. CASE DispatchMessage(i)
    BY <2>4, BundleKeepsWatchers DEF DispatchMessage
  <2>5. CASE OfflineLoaded(i)
    BY <2>5, BundleKeepsWatchers, OfflineBundles DEF OfflineLoaded
  <2> QED
    BY <1>5, <2>1, <2>2, <2>3, <2>4, <2>5 DEF Network, Offline
<1>6. ASSUME NEW f \in Fetches, FinishConnect(f) \/ Request(f)
      PROVE  WatchersFollow'
  <2>1. CASE FinishConnect(f) \/ ResponseOk(f) \/ ResponseFatal(f) \/ FetchFails(f)
    BY <2>1, LeavingWatchersKeeps DEF LeavesWatchers, FinishConnect, ResponseOk,
       ResponseFatal, FetchFails
  <2>2. CASE BodyRead(f)
    BY <2>2, BundleKeepsWatchers DEF BodyRead
  <2> QED
    BY <1>6, <2>1, <2>2 DEF Request
<1> QED
  BY <1>1, <1>2, <1>3, <1>4, <1>5, <1>6 DEF Next

\* Once the handler of a bundle has called the watchers, a registered watcher knows what
\* its config evaluates to: no merge of a full or a delta bundle, in any order, changes a
\* value through a segment or a removal without calling it.
THEOREM WatchersAlwaysCurrent == Spec => []WatchersAreCurrent
<1>1. Init => WatchersFollow
  BY DEF Init, CoreInit, WatchersFollow
<1>2. WatchersFollow => WatchersAreCurrent
  BY DEF WatchersFollow, WatchersAreCurrent
<1> QED
  BY <1>1, <1>2, TypeCorrect, NextKeepsWatchers, PTL DEF Spec

----------------------------------------------------------------------------
(* Event sources and their heartbeats.                                     *)

\* A step that neither opens nor stops an event source or a heartbeat, and does not end
\* the fatal answer of a live one.
LeavesStreams ==
    /\ UNCHANGED <<mode, source, heartbeats, heartbeatTimer, cutAt>>
    /\ lastCall' = lastCall
    /\ \A i \in Calls : Live(i)' => Live(i)
    /\ turn.at = "fatal" /\ turn.call = source /\ source # 0 /\ Live(source)' => turn' = turn

LEMMA LeavingStreamsKeeps == TypeOK /\ HeartbeatOwned /\ LeavesStreams => HeartbeatOwned'
<1> SUFFICES ASSUME TypeOK, HeartbeatOwned, LeavesStreams PROVE HeartbeatOwned'
  OBVIOUS
<1>1. source # 0 => source \in Calls
  BY CallNumbers DEF TypeOK
<1> QED
  BY <1>1 DEF HeartbeatOwned, LeavesStreams

LEMMA NothingLiveAfterClosing ==
  ASSUME TypeOK, HeartbeatOwned
  PROVE  /\ Closed \in [Calls -> StreamStates]
         /\ \A i \in Calls : Closed[i] \notin {"connecting", "open"}
<1>1. \A i \in Calls : Live(i) => i = source
  BY DEF HeartbeatOwned
<1>2. source = 0 => \A i \in Calls : ~Live(i)
  BY <1>1, CallNumbers
<1> QED
  BY <1>1, <1>2, ClosedType DEF Closed, Live, TypeOK

LEMMA InitializeOwnsHeartbeat ==
  ASSUME TypeOK, HeartbeatOwned, InitializeStreaming
  PROVE  HeartbeatOwned'
<1>1. lastCall' = lastCall + 1 /\ source' = lastCall' /\ source' \in Calls
      /\ lastCall \in CallsOrNone /\ lastCall \in Nat
  BY CallNumbers DEF InitializeStreaming, StartInitialize, TypeOK, CoreTypeOK
<1>2. heartbeats' = {source'} /\ heartbeatTimer' = source'
  BY <1>1 DEF InitializeStreaming, HeartbeatOwned
<1>3. \A i \in Calls : Live(i)' => i = source'
  BY <1>1, NothingLiveAfterClosing DEF InitializeStreaming, Live
<1>4. cutAt' = cutAt /\ cutAt < source' /\ cutAt \in Nat
  BY <1>1, CallNumbers DEF InitializeStreaming, boundVars, HeartbeatOwned, TypeOK
<1>5. mode' = "streaming"
  BY DEF InitializeStreaming
<1>6. source' # 0 /\ source' <= lastCall' /\ cutAt' <= lastCall'
  BY <1>1, <1>4, CallNumbers
<1> QED
  BY <1>2, <1>3, <1>4, <1>5, <1>6 DEF HeartbeatOwned

LEMMA ClosingOwnsHeartbeat ==
  ASSUME TypeOK, HeartbeatOwned, CloseTransport, Cut, lastCall' = lastCall
  PROVE  HeartbeatOwned'
<1>1. heartbeats' = {} /\ heartbeatTimer' = 0 /\ UNCHANGED <<mode, source>>
  BY DEF CloseTransport, HeartbeatOwned
<1>2. \A i \in Calls : ~Live(i)'
  BY NothingLiveAfterClosing DEF CloseTransport, Live
<1>3. cutAt' = lastCall' /\ lastCall' <= lastCall'
  BY CallNumbers DEF Cut, TypeOK, CoreTypeOK
<1>4. source # 0 => ~Live(source)'
  BY <1>2, <1>1, CallNumbers DEF TypeOK
<1> QED
  BY <1>1, <1>2, <1>3, <1>4 DEF HeartbeatOwned

LEMMA RefusalOwnsHeartbeat ==
  ASSUME TypeOK, HeartbeatOwned, NEW i \in Calls, StreamRefused(i)
  PROVE  HeartbeatOwned'
<1>1. i = source
  BY DEF StreamRefused, HeartbeatOwned, Live
<1>2. heartbeats' = {} /\ heartbeatTimer' = 0
  BY DEF StreamRefused, HeartbeatOwned
<1>3. turn'.at = "fatal" /\ turn'.call = source'
  BY <1>1 DEF StreamRefused
<1>4. UNCHANGED <<lastCall, mode, source, stream, cutAt>>
  BY DEF StreamRefused, callVars, raceVars, boundVars
<1> QED
  BY <1>2, <1>3, <1>4 DEF HeartbeatOwned, Live

LEMMA NextOwnsHeartbeat == TypeOK /\ HeartbeatOwned /\ [Next]_vars => HeartbeatOwned'
<1> SUFFICES ASSUME TypeOK, HeartbeatOwned, [Next]_vars PROVE HeartbeatOwned'
  OBVIOUS
<1> USE TasksStartOnAnEmptyStack
<1> USE DEF coreVars, callVars, raceVars, viewVars, setVars, streamVars, pollVars, boundVars
<1>1. CASE UNCHANGED vars
  BY <1>1, LeavingStreamsKeeps DEF LeavesStreams, vars, Live
<1>2. CASE Application
  <2>1. CASE InitializeStreaming
    BY <2>1, InitializeOwnsHeartbeat
  <2>2. CASE InitializePolling \/ InitializeOffline
    <3>1. lastCall' = lastCall + 1 /\ lastCall \in Nat /\ cutAt \in Nat /\ source \in Nat
      BY <2>2, CallNumbers DEF InitializePolling, InitializeOffline, StartInitialize,
         TypeOK, CoreTypeOK
    <3>2. UNCHANGED <<turn, mode, source, stream, heartbeats, heartbeatTimer, cutAt>>
      BY <2>2 DEF InitializePolling, InitializeOffline, StartInitialize
    <3>3. source <= lastCall' /\ cutAt <= lastCall'
      BY <3>1 DEF HeartbeatOwned
    <3> QED
      BY <3>2, <3>3 DEF HeartbeatOwned, Live
  <2>3. CASE CloseConnection \/ Dispose
    BY <2>3, ClosingOwnsHeartbeat DEF CloseConnection, CloseClient, Dispose, DisposeClient
  <2> QED
    BY <1>2, <2>1, <2>2, <2>3 DEF Application, Initialize
<1>3. CASE HandlerStep
  BY <1>3, LeavingStreamsKeeps DEF LeavesStreams, Live, HandlerStep, UpdateWatchers,
     EndOfHandler
<1>4. CASE EndOfFatalEmit \/ Poll
  BY <1>4, LeavingStreamsKeeps DEF LeavesStreams, Live, EndOfFatalEmit, Poll, HeartbeatOwned
<1>5. ASSUME NEW i \in Calls,
             CoreStep(i) \/ StreamTimeout(i) \/ RejectConnect(i) \/ Network(i) \/ Offline(i)
      PROVE  HeartbeatOwned'
  <2>1. CASE CoreStep(i)
    BY <2>1, LeavingStreamsKeeps DEF LeavesStreams, Live, CoreStep, AwaitReadiness,
       ReturnAfterError, RaceWon, SettleReadyPromise, ReadyTimerFires
  <2>2. CASE StreamTimeout(i)
    BY <2>2, LeavingStreamsKeeps DEF LeavesStreams, Live, StreamTimeout
  <2>3. CASE RejectConnect(i)
    BY <2>3, LeavingStreamsKeeps DEF LeavesStreams, Live, RejectConnect, TypeOK
  <2>4. CASE StreamOpens(i) \/ StreamStops(i)
    BY <2>4, LeavingStreamsKeeps DEF LeavesStreams, Live, StreamOpens, StreamStops, TypeOK
  <2>5. CASE StreamRefused(i)
    BY <2>5, RefusalOwnsHeartbeat
  <2>6. CASE DispatchMessage(i)
    <3>1. turn.at # "fatal" /\ UNCHANGED <<mode, source, stream, heartbeats, heartbeatTimer>>
          /\ UNCHANGED <<cutAt, lastCall>>
      BY <2>6 DEF DispatchMessage, BundleReceived
    <3> QED
      BY <3>1, LeavingStreamsKeeps DEF LeavesStreams, Live
  <2>7. CASE Offline(i)
    <3>1. turn.at # "fatal" /\ UNCHANGED <<mode, source, stream, heartbeats, heartbeatTimer>>
          /\ UNCHANGED <<cutAt, lastCall>>
      BY <2>7 DEF Offline, OfflineLoaded, OfflineRejected, BundleReceived
    <3> QED
      BY <3>1, LeavingStreamsKeeps DEF LeavesStreams, Live
  <2> QED
    BY <1>5, <2>1, <2>2, <2>3, <2>4, <2>5, <2>6, <2>7 DEF Network
<1>6. ASSUME NEW f \in Fetches, FinishConnect(f) \/ Request(f)
      PROVE  HeartbeatOwned'
  <2>1. CASE FinishConnect(f)
    BY <2>1, LeavingStreamsKeeps DEF LeavesStreams, Live, FinishConnect
  <2>2. CASE ResponseOk(f) \/ ResponseFatal(f) \/ FetchFails(f)
    BY <2>2, LeavingStreamsKeeps DEF LeavesStreams, Live, ResponseOk, ResponseFatal,
       FetchFails, Reach
  <2>3. CASE BodyRead(f)
    <3>1. turn.at # "fatal" /\ UNCHANGED <<mode, source, stream, heartbeats, heartbeatTimer>>
          /\ UNCHANGED <<cutAt, lastCall>>
      BY <2>3 DEF BodyRead, BundleReceived, Reach
    <3> QED
      BY <3>1, LeavingStreamsKeeps DEF LeavesStreams, Live
  <2> QED
    BY <1>6, <2>1, <2>2, <2>3 DEF Request
<1> QED
  BY <1>1, <1>2, <1>3, <1>4, <1>5, <1>6 DEF Next

\* No connect, close or fatal answer, in any order and from any listener, leaves behind a
\* second event source or a heartbeat that nothing stops any more.
THEOREM OneHeartbeatOnly == Spec => []OneConnectionOneHeartbeat
<1>1. Init => HeartbeatOwned
  BY DEF Init, CoreInit, HeartbeatOwned, Live
<1>2. TypeOK /\ HeartbeatOwned => OneConnectionOneHeartbeat
  BY CallNumbers DEF TypeOK, HeartbeatOwned, OneConnectionOneHeartbeat
<1> QED
  BY <1>1, <1>2, TypeCorrect, NextOwnsHeartbeat, PTL DEF Spec

----------------------------------------------------------------------------
(* The polling interval.                                                   *)

\* Once the first fetch of the call made last has ended, polls are scheduled, unless it
\* was cut off or a failure was fatal; a fatal emission of polling is nobody's connect.
PollingGoesOn ==
    /\ fatalError => ~interval
    /\ mode # "streaming" /\ turn.at = "fatal" => turn.call = 0
    /\ mode = "polling" /\ lastCall > cutAt /\ ~fatalError /\ pc[lastCall] # "connecting"
           => interval

\* A step that ends no first fetch, starts or stops no interval, and emits no fatal error.
LeavesPolling ==
    /\ UNCHANGED <<mode, fatalError, interval, cutAt, lastCall>>
    /\ mode = "polling" => \A i \in Calls : pc[i] = "connecting" => pc'[i] = "connecting"
    /\ turn' = turn \/ turn'.at # "fatal"

LEMMA LatestCallIsACall ==
  ASSUME TypeOK, lastCall > cutAt
  PROVE  lastCall \in Calls
  BY CallNumbers DEF TypeOK, CoreTypeOK

LEMMA LeavingPollingKeeps == TypeOK /\ PollingGoesOn /\ LeavesPolling => PollingGoesOn'
  BY LatestCallIsACall DEF PollingGoesOn, LeavesPolling

\* No event source is live unless streaming, so none settles the connect of a poll.
LEMMA OnlyStreamingIsLive ==
  ASSUME TypeOK, HeartbeatOwned, NEW i \in Calls, Live(i)
  PROVE  mode = "streaming"
  BY CallNumbers DEF HeartbeatOwned

LEMMA NextGoesOnPolling ==
  TypeOK /\ HeartbeatOwned /\ PollingGoesOn /\ [Next]_vars => PollingGoesOn'
<1> SUFFICES ASSUME TypeOK, HeartbeatOwned, PollingGoesOn, [Next]_vars PROVE PollingGoesOn'
  OBVIOUS
<1> USE TasksStartOnAnEmptyStack
<1> USE DEF coreVars, callVars, raceVars, viewVars, setVars, streamVars, pollVars, boundVars
<1>1. CASE UNCHANGED vars
  BY <1>1, LeavingPollingKeeps DEF LeavesPolling, vars
<1>2. CASE Application
  <2>1. CASE InitializeStreaming \/ InitializeOffline
    <3>1. mode' # "polling" /\ mode' = mode /\ UNCHANGED <<fatalError, interval, turn>>
      BY <2>1 DEF InitializeStreaming, InitializeOffline, StartInitialize, OfflineSources
    <3> QED
      BY <3>1 DEF PollingGoesOn
  <2>2. CASE InitializePolling
    <3>1. lastCall + 1 \in Calls /\ lastCall' = lastCall + 1 /\ pc \in [Calls -> Phases]
      BY <2>2, CallNumbers DEF InitializePolling, StartInitialize, TypeOK, CoreTypeOK
    <3>2. fatalError' \/ pc'[lastCall'] = "connecting"
      BY <2>2, <3>1 DEF InitializePolling, StartInitialize
    <3> QED
      BY <2>2, <3>2 DEF PollingGoesOn, InitializePolling, StartInitialize
  <2>3. CASE CloseConnection \/ Dispose
    <3>1. interval' = FALSE /\ cutAt' = lastCall /\ lastCall' = lastCall /\ lastCall \in Nat
          /\ UNCHANGED <<mode, turn, fatalError>>
      BY <2>3, CallNumbers DEF CloseConnection, CloseClient, Dispose, DisposeClient,
         CloseTransport, Cut, TypeOK, CoreTypeOK
    <3> QED
      BY <3>1 DEF PollingGoesOn
  <2> QED
    BY <1>2, <2>1, <2>2, <2>3 DEF Application, Initialize
<1>3. CASE HandlerStep \/ EndOfFatalEmit
  <2>1. turn' = [turn EXCEPT !.at = "watchers", !.keys = {}] \/ turn' = EmptyStack
    BY <1>3 DEF HandlerStep, UpdateWatchers, EndOfHandler, EndOfFatalEmit
  <2>2. \A t \in Turns : [t EXCEPT !.at = "watchers", !.keys = {}].at = "watchers"
    BY DEF Turns
  <2>3. turn \in Turns
    BY DEF TypeOK, CoreTypeOK
  <2>4. turn'.at \in {"watchers", "none"}
    <3>1. CASE turn' = [turn EXCEPT !.at = "watchers", !.keys = {}]
      BY <2>2, <2>3, <3>1
    <3>2. CASE turn' = EmptyStack
      BY <3>2 DEF EmptyStack
    <3> QED
      BY <2>1, <3>1, <3>2
  <2> QED
    BY <1>3, <2>4, LeavingPollingKeeps
    DEF LeavesPolling, HandlerStep, UpdateWatchers, EndOfHandler, EndOfFatalEmit
<1>4. CASE Poll
  BY <1>4, LeavingPollingKeeps DEF LeavesPolling, Poll
<1>5. ASSUME NEW i \in Calls,
             CoreStep(i) \/ StreamTimeout(i) \/ RejectConnect(i) \/ Network(i) \/ Offline(i)
      PROVE  PollingGoesOn'
  <2>1. CASE CoreStep(i)
    <3>1. \A j \in Calls : pc[j] = "connecting" => pc'[j] = "connecting"
      BY <2>1 DEF CoreStep, AwaitReadiness, ReturnAfterError, RaceWon, SettleReadyPromise,
         ReadyTimerFires, Settled, TypeOK, CoreTypeOK
    <3>2. UNCHANGED <<mode, fatalError, interval, cutAt, lastCall, turn>>
      BY <2>1 DEF CoreStep, AwaitReadiness, ReturnAfterError, RaceWon, SettleReadyPromise,
         ReadyTimerFires
    <3> QED
      BY <3>1, <3>2, LeavingPollingKeeps DEF LeavesPolling
  <2>2. CASE StreamTimeout(i) \/ Offline(i)
    <3>1. mode # "polling" /\ UNCHANGED <<mode, fatalError, interval, cutAt, lastCall>>
      BY <2>2 DEF StreamTimeout, Offline, OfflineLoaded, OfflineRejected, BundleReceived,
         OfflineSources
    <3>2. CASE OfflineLoaded(i)
      <4>1. PICK b : BundleReceived(b, i)
        BY <3>2 DEF OfflineLoaded
      <4>2. turn'.at # "fatal"
        BY <4>1 DEF BundleReceived
      <4> QED
        BY <3>1, <4>2, LeavingPollingKeeps DEF LeavesPolling
    <3>3. CASE StreamTimeout(i) \/ OfflineRejected(i)
      BY <3>1, <3>3, LeavingPollingKeeps DEF LeavesPolling, StreamTimeout, OfflineRejected
    <3> QED
      BY <2>2, <3>2, <3>3 DEF Offline
  <2>3. CASE RejectConnect(i)
    <3>1. mode = "streaming"
      BY <2>3, CallNumbers DEF RejectConnect, PollingGoesOn
    <3> QED
      BY <2>3, <3>1, LeavingPollingKeeps DEF RejectConnect, LeavesPolling, EmptyStack
  <2>4. CASE StreamOpens(i) \/ StreamStops(i) \/ StreamRefused(i)
    <3>1. mode = "streaming"
      BY <2>4, OnlyStreamingIsLive DEF StreamOpens, StreamStops, StreamRefused, Live
    <3> QED
      BY <2>4, <3>1 DEF StreamOpens, StreamStops, StreamRefused, PollingGoesOn
  <2>5. CASE DispatchMessage(i)
    BY <2>5, LeavingPollingKeeps DEF DispatchMessage, BundleReceived, LeavesPolling
  <2> QED
    BY <1>5, <2>1, <2>2, <2>3, <2>4, <2>5 DEF Network
<1>6. ASSUME NEW f \in Fetches, FinishConnect(f) \/ Request(f)
      PROVE  PollingGoesOn'
  <2>1. CASE FinishConnect(f)
    BY <2>1 DEF FinishConnect, PollingGoesOn
  <2>2. CASE ResponseOk(f)
    BY <2>2, LeavingPollingKeeps DEF ResponseOk, Reach, LeavesPolling
  <2>3. CASE ResponseFatal(f)
    BY <2>3 DEF ResponseFatal, Reach, PollingGoesOn
  <2>4. CASE BodyRead(f)
    BY <2>4, LeavingPollingKeeps DEF BodyRead, BundleReceived, Reach, LeavesPolling
  <2>5. CASE FetchFails(f)
    BY <2>5 DEF FetchFails, Reach, PollingGoesOn
  <2> QED
    BY <1>6, <2>1, <2>2, <2>3, <2>4, <2>5 DEF Request
<1> QED
  BY <1>1, <1>2, <1>3, <1>4, <1>5, <1>6 DEF Next

\* Requests are never aborted by a close or an overtaking call: whatever the order of
\* their answers, a transient failure leaves polling on and a fatal one stops it for good.
THEOREM AlwaysPollsUnlessFatal == Spec => []PollsUnlessFatal
<1>1. Init => HeartbeatOwned /\ PollingGoesOn
  BY DEF Init, CoreInit, HeartbeatOwned, Live, PollingGoesOn, EmptyStack
<1>2. PollingGoesOn => PollsUnlessFatal
  BY DEF PollingGoesOn, PollsUnlessFatal
<1> QED
  BY <1>1, <1>2, TypeCorrect, NextOwnsHeartbeat, NextGoesOnPolling, PTL DEF Spec

----------------------------------------------------------------------------
(* Disposal.                                                               *)

\* A dispose outside of every handler settles the promise that makes the client ready,
\* and no reaction that does so is due: until the next initialize nothing can.
DisposalSettles ==
    /\ disposal.at <= lastCall
    /\ disposal.at # 0 /\ disposal.at = lastCall /\ ~disposal.inListener =>
           /\ ~ready /\ promise[lastCall] # "pending"
           /\ \A i \in Calls : promise[i] # "resolved"

\* A step that makes no call, no dispose, and resolves no promise.
LeavesReadiness ==
    /\ UNCHANGED <<disposal, lastCall, ready, promise>>

LEMMA LeavingReadinessKeeps == DisposalSettles /\ LeavesReadiness => DisposalSettles'
  BY DEF DisposalSettles, LeavesReadiness

\* A bundle resolves the latest promise only while it is pending.
LEMMA BundleKeepsDisposal ==
  ASSUME TypeOK, DisposalSettles, NEW b, NEW from, BundleReceived(b, from), UNCHANGED disposal
  PROVE  DisposalSettles'
<1>1. UNCHANGED <<disposal, lastCall, ready>> /\ promise' = Resolve("resolved")
  BY DEF BundleReceived
<1>2. promise[lastCall] # "pending" => promise' = promise
  BY <1>1 DEF Resolve
<1> QED
  BY <1>1, <1>2 DEF DisposalSettles

LEMMA DisposeSettles ==
  ASSUME TypeOK, DisposalSettles, Application, Dispose
  PROVE  DisposalSettles'
<1>1. /\ disposal' = [at |-> lastCall, inListener |-> ~StackEmpty]
      /\ lastCall' = lastCall /\ ready' = FALSE /\ promise' = Resolve("cancelled")
  BY DEF Dispose, DisposeClient
<1>2. lastCall \in Nat /\ (lastCall # 0 => lastCall \in Calls)
  BY CallNumbers DEF TypeOK, CoreTypeOK
<1>3. ~disposal'.inListener => \A i \in Calls : promise[i] # "resolved"
  BY <1>1 DEF Application
<1>4. /\ lastCall # 0 => promise'[lastCall] # "pending"
      /\ \A i \in Calls : promise[i] # "resolved" => promise'[i] # "resolved"
  BY <1>1, <1>2 DEF Resolve, TypeOK, CoreTypeOK
<1> QED
  BY <1>1, <1>2, <1>3, <1>4 DEF DisposalSettles

LEMMA NextKeepsDisposal == TypeOK /\ DisposalSettles /\ [Next]_vars => DisposalSettles'
<1> SUFFICES ASSUME TypeOK, DisposalSettles, [Next]_vars PROVE DisposalSettles'
  OBVIOUS
<1> USE DEF coreVars, callVars, raceVars, viewVars, setVars, streamVars, pollVars, boundVars
<1>1. CASE UNCHANGED vars
  BY <1>1, LeavingReadinessKeeps DEF LeavesReadiness, vars
<1>2. CASE Application
  <2>1. CASE Initialize
    <3>1. lastCall' = lastCall + 1 /\ disposal' = disposal
      BY <2>1 DEF Initialize, InitializeStreaming, InitializePolling, InitializeOffline,
         StartInitialize
    <3>2. lastCall \in Nat /\ disposal.at \in Nat
      BY CallNumbers DEF TypeOK, CoreTypeOK
    <3> QED
      BY <3>1, <3>2 DEF DisposalSettles
  <2>2. CASE CloseConnection
    BY <2>2 DEF CloseConnection, CloseClient, DisposalSettles
  <2>3. CASE Dispose
    BY <1>2, <2>3, DisposeSettles
  <2> QED
    BY <1>2, <2>1, <2>2, <2>3 DEF Application
<1>3. CASE HandlerStep \/ EndOfFatalEmit \/ Poll
  BY <1>3, LeavingReadinessKeeps
  DEF LeavesReadiness, HandlerStep, UpdateWatchers, EndOfHandler, EndOfFatalEmit, Poll
<1>4. ASSUME NEW i \in Calls,
             CoreStep(i) \/ StreamTimeout(i) \/ RejectConnect(i) \/ Network(i) \/ Offline(i)
      PROVE  DisposalSettles'
  <2>1. CASE CoreStep(i)
    <3>1. CASE AwaitReadiness(i) \/ ReturnAfterError(i) \/ RaceWon(i) \/ ReadyTimerFires(i)
      BY <2>1, <3>1, LeavingReadinessKeeps
      DEF LeavesReadiness, CoreStep, AwaitReadiness, ReturnAfterError, RaceWon, ReadyTimerFires
    <3>2. CASE SettleReadyPromise(i)
      BY <2>1, <3>2
      DEF CoreStep, SettleReadyPromise, DisposalSettles, TypeOK, CoreTypeOK
    <3> QED
      BY <2>1, <3>1, <3>2 DEF CoreStep
  <2>2. CASE StreamTimeout(i) \/ RejectConnect(i) \/ OfflineRejected(i)
    BY <2>2, LeavingReadinessKeeps
    DEF LeavesReadiness, StreamTimeout, RejectConnect, OfflineRejected
  <2>3. CASE StreamOpens(i) \/ StreamStops(i) \/ StreamRefused(i)
    BY <2>3, LeavingReadinessKeeps DEF LeavesReadiness, StreamOpens, StreamStops, StreamRefused
  <2>4. CASE DispatchMessage(i)
    BY <2>4, BundleKeepsDisposal DEF DispatchMessage
  <2>5. CASE OfflineLoaded(i)
    BY <2>5, BundleKeepsDisposal DEF OfflineLoaded
  <2> QED
    BY <1>4, <2>1, <2>2, <2>3, <2>4, <2>5 DEF Network, Offline
<1>5. ASSUME NEW f \in Fetches, FinishConnect(f) \/ Request(f)
      PROVE  DisposalSettles'
  <2>1. CASE FinishConnect(f) \/ ResponseOk(f) \/ ResponseFatal(f) \/ FetchFails(f)
    BY <2>1, LeavingReadinessKeeps
    DEF LeavesReadiness, FinishConnect, ResponseOk, ResponseFatal, FetchFails, Reach
  <2>2. CASE BodyRead(f)
    BY <2>2, BundleKeepsDisposal DEF BodyRead, Reach
  <2> QED
    BY <1>5, <2>1, <2>2 DEF Request
<1> QED
  BY <1>1, <1>2, <1>3, <1>4, <1>5 DEF Next

\* A dispose made outside of a handler leaves the client not ready, whatever bundles,
\* answers or timers arrive after it, until initialize is called anew.
THEOREM DisposedIsNeverReady == Spec => []DisposedIsNotReady
<1>1. Init => DisposalSettles
  BY DEF Init, CoreInit, DisposalSettles
<1>2. DisposalSettles => DisposedIsNotReady
  BY DEF DisposalSettles, DisposedIsNotReady
<1> QED
  BY <1>1, <1>2, TypeCorrect, NextKeepsDisposal, PTL DEF Spec

(***************************************************************************)
(* Sums over finite sets.                                                  *)
(***************************************************************************)

\* A set of natural numbers that is not empty has a least one.
LEMMA LeastNat ==
  ASSUME NEW T \in SUBSET Nat, T # {}
  PROVE  \E n \in T : \A m \in T : n <= m
<1> DEFINE R == OpToRel(<, Nat)
<1>1. \A a, b \in Nat : a < b => <<a, b>> \in R
  BY DEF OpToRel
<1>2. IsWellFoundedOn(R, Nat)
  BY NatLessThanWellFounded
<1> HIDE DEF R
<1>3. PICK x \in T : \A y \in T : ~ (<<y, x>> \in R)
  BY <1>2, WFMin
<1>4. x \in Nat /\ T \subseteq Nat
  OBVIOUS
<1>5. ASSUME NEW y \in T PROVE x <= y
  <2>1. ~ (<<y, x>> \in R)
    BY <1>3
  <2>2. y \in Nat /\ x \in Nat
    BY <1>4
  <2>3. y < x => <<y, x>> \in R
    BY <1>1, <2>2
  <2> QED
    BY <2>1, <2>2, <2>3
<1> QED
  BY <1>5

\* Among subsets of a finite set there is a smallest: the induction over finite sets.
LEMMA SmallestSubset ==
  ASSUME NEW S, IsFiniteSet(S), NEW Bad \in SUBSET (SUBSET S), Bad # {}
  PROVE  \E T \in Bad : \A U \in Bad : U \subseteq T => U = T
<1>1. Bad \subseteq FiniteSubsetsOf(S)
  <2>1. \A T \in SUBSET S : IsFiniteSet(T)
    BY FS_Subset
  <2> QED
    BY <2>1 DEF FiniteSubsetsOf
<1>2. PICK T \in Bad : \A U \in Bad : ~ (<<U, T>> \in StrictSubsetOrdering(S))
  BY <1>1, FS_StrictSubsetOrderingWellFounded, WFMin
<1>3. \A U \in Bad : U \subseteq T /\ U # T => <<U, T>> \in StrictSubsetOrdering(S)
  BY DEF StrictSubsetOrdering
<1>4. \A U \in Bad : U \subseteq T => U = T
  <2> TAKE U \in Bad
  <2>1. ~ (<<U, T>> \in StrictSubsetOrdering(S))
    BY <1>2
  <2>2. U \subseteq T /\ U # T => <<U, T>> \in StrictSubsetOrdering(S)
    BY <1>3
  <2> QED
    BY <2>1, <2>2
<1> QED
  BY <1>4

\* SumsOf is the function its recursion describes.
LEMMA SumsExist ==
  ASSUME NEW f, IsFiniteSet(DOMAIN f)
  PROVE  /\ SumsOf(f)[{}] = 0
         /\ \A S \in SUBSET DOMAIN f : S # {} =>
               SumsOf(f)[S] = f[CHOOSE x \in S : TRUE] + SumsOf(f)[S \ {CHOOSE x \in S : TRUE}]
<1> DEFINE D == DOMAIN f
           First1(S) == CHOOSE x \in S : TRUE
           Upto(n) == {S \in SUBSET D : Cardinality(S) <= n}
           Sums(h, A) == h = [S \in A |-> IF S = {} THEN 0 ELSE f[First1(S)] + h[S \ {First1(S)}]]
<1>1. \A S \in SUBSET D : /\ IsFiniteSet(S) /\ Cardinality(S) \in Nat
                          /\ Cardinality(S) <= Cardinality(D)
                          /\ S # {} => /\ First1(S) \in S
                                       /\ Cardinality(S \ {First1(S)}) = Cardinality(S) - 1
                                       /\ Cardinality(S) # 0
  <2> TAKE S \in SUBSET D
  <2>1. IsFiniteSet(S) /\ Cardinality(S) <= Cardinality(D)
    BY FS_Subset
  <2>2. S # {} => First1(S) \in S
    OBVIOUS
  <2>3. Cardinality(S) \in Nat /\ (S # {} => Cardinality(S) # 0)
    BY <2>1, FS_CardinalityType, FS_EmptySet
  <2>4. Cardinality(S \ {First1(S)}) = IF First1(S) \in S THEN Cardinality(S) - 1 ELSE Cardinality(S)
    BY <2>1, FS_RemoveElement
  <2> QED
    BY <2>1, <2>2, <2>3, <2>4
<1>2. Cardinality(D) \in Nat /\ Cardinality({}) = 0
  BY FS_CardinalityType, FS_EmptySet
<1> HIDE DEF First1, Sums
<1>3. \A n \in Nat : \E h : Sums(h, Upto(n))
  <2>1. SUFFICES ASSUME NEW k \in Nat, ~ \E h : Sums(h, Upto(k)) PROVE FALSE
    OBVIOUS
  <2> DEFINE Bad == {n \in Nat : ~ \E h : Sums(h, Upto(n))}
  <2>2. PICK m \in Bad : \A n \in Bad : m <= n
    <3>1. k \in Bad /\ Bad \in SUBSET Nat
      BY <2>1
    <3> HIDE DEF Bad
    <3> QED
      BY <3>1, LeastNat
  <2>3. m # 0
    <3>1. SUFFICES m = 0 => \E h : Sums(h, Upto(m))
      OBVIOUS
    <3>2. ASSUME m = 0, NEW S \in Upto(m) PROVE S = {}
      <4>1. S \in SUBSET D /\ Cardinality(S) <= 0
        BY <3>2
      <4>2. Cardinality(S) \in Nat /\ (S # {} => Cardinality(S) # 0)
        BY <1>1, <4>1
      <4> QED
        BY <4>1, <4>2
    <3>3. m = 0 => Sums([S \in Upto(m) |-> 0], Upto(m))
      BY <3>2 DEF Sums
    <3> QED
      BY <3>3
  <2>4. PICK h : Sums(h, Upto(m - 1))
    <3>1. m - 1 \in Nat /\ ~ (m <= m - 1)
      BY <2>3
    <3>2. m - 1 \notin Bad
      <4> HIDE DEF Bad
      <4> QED
        BY <2>2, <3>1
    <3> QED
      BY <3>1, <3>2
  <2> DEFINE g == [S \in Upto(m) |-> IF Cardinality(S) <= m - 1 THEN h[S]
                                     ELSE f[First1(S)] + h[S \ {First1(S)}]]
  <2>5. ASSUME NEW S \in Upto(m)
        PROVE  g[S] = IF S = {} THEN 0 ELSE f[First1(S)] + g[S \ {First1(S)}]
    <3>1. S \in SUBSET D /\ Cardinality(S) <= m /\ m \in Nat \ {0}
      BY <2>3
    <3>2. CASE S = {}
      <4>1. S \in Upto(m - 1) /\ h[S] = 0
        BY <1>2, <2>4, <3>1, <3>2 DEF Sums
      <4> QED
        BY <3>2, <4>1
    <3>3. CASE S # {}
      <4> DEFINE R == S \ {First1(S)}
      <4>1. R \in SUBSET D /\ Cardinality(R) = Cardinality(S) - 1 /\ Cardinality(S) \in Nat
        BY <1>1, <3>1, <3>3
      <4>2. R \in Upto(m - 1) /\ R \in Upto(m) /\ g[R] = h[R]
        BY <3>1, <4>1
      <4>3. S \in Upto(m - 1) => h[S] = f[First1(S)] + h[R]
        BY <2>4, <3>3 DEF Sums
      <4> QED
        BY <3>1, <3>3, <4>2, <4>3
    <3> QED
      BY <3>2, <3>3
  <2>6. Sums(g, Upto(m))
    <3> DEFINE t(S) == IF S = {} THEN 0 ELSE f[First1(S)] + g[S \ {First1(S)}]
    <3>1. g = [S \in Upto(m) |-> g[S]]
      OBVIOUS
    <3> HIDE DEF g
    <3> QED
      BY <2>5, <3>1 DEF Sums
  <2> QED
    BY <2>6
<1>4. Upto(Cardinality(D)) = SUBSET D
  BY <1>1
<1>5. \E h : Sums(h, SUBSET D)
  BY <1>2, <1>3, <1>4
<1>6. Sums(CHOOSE h : Sums(h, SUBSET D), SUBSET D)
  BY <1>5
<1>7. Sums(SumsOf(f), SUBSET D)
  BY <1>6 DEF SumsOf, Sums, First1
<1> DEFINE sum == SumsOf(f)
<1>8. sum = [S \in SUBSET D |-> IF S = {} THEN 0 ELSE f[First1(S)] + sum[S \ {First1(S)}]]
  BY <1>7 DEF Sums
<1> HIDE DEF sum
<1>9. \A S \in SUBSET D : sum[S] = IF S = {} THEN 0 ELSE f[First1(S)] + sum[S \ {First1(S)}]
  BY <1>8
<1> QED
  BY <1>9 DEF sum, First1

\* Functions with natural values on a finite domain.
IsCount(f) == /\ IsFiniteSet(DOMAIN f)
              /\ \A x \in DOMAIN f : f[x] \in Nat

LEMMA SumsAreNat ==
  ASSUME NEW f, IsCount(f)
  PROVE  \A S \in SUBSET DOMAIN f : SumsOf(f)[S] \in Nat
<1> DEFINE sum == SumsOf(f)
           Bad == {S \in SUBSET DOMAIN f : sum[S] \notin Nat}
<1>1. /\ sum[{}] = 0
      /\ \A S \in SUBSET DOMAIN f : S # {} => \E x \in S : sum[S] = f[x] + sum[S \ {x}]
  <2>1. IsFiniteSet(DOMAIN f)
    BY DEF IsCount
  <2> QED
    BY <2>1, SumsExist
<1> HIDE DEF sum
<1>2. SUFFICES ASSUME Bad # {} PROVE FALSE
  BY DEF sum
<1>3. PICK T \in Bad : \A U \in Bad : U \subseteq T => U = T
  <2>1. Bad \in SUBSET (SUBSET DOMAIN f)
    OBVIOUS
  <2> HIDE DEF Bad
  <2> QED
    BY <1>2, <2>1, SmallestSubset DEF IsCount
<1>4. T # {} /\ T \in SUBSET DOMAIN f /\ sum[T] \notin Nat
  <2>1. T \in SUBSET DOMAIN f /\ sum[T] \notin Nat
    OBVIOUS
  <2>2. sum[{}] \in Nat
    BY <1>1
  <2> QED
    BY <2>1, <2>2
<1>5. PICK x \in T : sum[T] = f[x] + sum[T \ {x}]
  BY <1>1, <1>4
<1>6. T \ {x} \notin Bad
  <2> HIDE DEF Bad
  <2> QED
    BY <1>3
<1>7. sum[T \ {x}] \in Nat /\ f[x] \in Nat
  BY <1>4, <1>6 DEF IsCount
<1> QED
  BY <1>4, <1>5, <1>7

LEMMA Exchange ==
  ASSUME NEW a \in Nat, NEW b \in Nat, NEW c \in Nat
  PROVE  a + (b + c) = b + (a + c)
OBVIOUS

\* Whatever element is left out, the sum is its value and that of the rest.
LEMMA SumsAdd ==
  ASSUME NEW f, IsCount(f)
  PROVE  \A S \in SUBSET DOMAIN f : \A x \in S : SumsOf(f)[S] = f[x] + SumsOf(f)[S \ {x}]
<1> DEFINE sum == SumsOf(f)
           Bad == {S \in SUBSET DOMAIN f : \E x \in S : sum[S] # f[x] + sum[S \ {x}]}
<1>1. \A S \in SUBSET DOMAIN f : S # {} => \E x \in S : sum[S] = f[x] + sum[S \ {x}]
  <2>1. IsFiniteSet(DOMAIN f)
    BY DEF IsCount
  <2> QED
    BY <2>1, SumsExist
<1>2. \A S \in SUBSET DOMAIN f : sum[S] \in Nat
  BY SumsAreNat
<1> HIDE DEF sum
<1>3. SUFFICES ASSUME Bad # {} PROVE FALSE
  BY DEF sum
<1>4. PICK T \in Bad : \A U \in Bad : U \subseteq T => U = T
  <2>1. Bad \in SUBSET (SUBSET DOMAIN f)
    OBVIOUS
  <2> HIDE DEF Bad
  <2> QED
    BY <1>3, <2>1, SmallestSubset DEF IsCount
<1>5. T \in SUBSET DOMAIN f
  OBVIOUS
<1>6. PICK x \in T : sum[T] # f[x] + sum[T \ {x}]
  OBVIOUS
<1>7. PICK c \in T : sum[T] = f[c] + sum[T \ {c}]
  BY <1>1, <1>5
<1>8. c # x
  BY <1>6, <1>7
<1>9. T \ {c} \notin Bad /\ T \ {x} \notin Bad
  <2> HIDE DEF Bad
  <2> QED
    BY <1>4
<1>10. /\ x \in T \ {c} /\ T \ {c} \in SUBSET DOMAIN f
       /\ c \in T \ {x} /\ T \ {x} \in SUBSET DOMAIN f
       /\ (T \ {c}) \ {x} = (T \ {x}) \ {c} /\ (T \ {x}) \ {c} \in SUBSET DOMAIN f
  BY <1>5, <1>8
<1>11. sum[T \ {c}] = f[x] + sum[(T \ {c}) \ {x}]
  BY <1>9, <1>10
<1>12. sum[T \ {x}] = f[c] + sum[(T \ {x}) \ {c}]
  BY <1>9, <1>10
<1>13. f[x] \in Nat /\ f[c] \in Nat /\ sum[(T \ {x}) \ {c}] \in Nat
  BY <1>2, <1>5, <1>10 DEF IsCount
<1>14. f[c] + (f[x] + sum[(T \ {x}) \ {c}]) = f[x] + (f[c] + sum[(T \ {x}) \ {c}])
  BY <1>13, Exchange
<1>15. (T \ {c}) \ {x} = (T \ {x}) \ {c}
  BY <1>10
<1>16. sum[T \ {c}] = f[x] + sum[(T \ {x}) \ {c}]
  BY <1>11, <1>15
<1>17. sum[T] = f[c] + (f[x] + sum[(T \ {x}) \ {c}])
  BY <1>7, <1>16
<1>18. sum[T] = f[x] + (f[c] + sum[(T \ {x}) \ {c}])
  BY <1>14, <1>17
<1>19. sum[T] = f[x] + sum[T \ {x}]
  BY <1>12, <1>18
<1> QED
  BY <1>6, <1>19

\* Sums are the same under other names, and do not depend on other values.
LEMMA SumsOfRenamed ==
  ASSUME NEW f, NEW g, IsCount(f), IsCount(g), NEW h \in [DOMAIN f -> DOMAIN g],
         \A x, y \in DOMAIN f : h[x] = h[y] => x = y,
         \A x \in DOMAIN f : f[x] = g[h[x]]
  PROVE  \A S \in SUBSET DOMAIN f : SumsOf(f)[S] = SumsOf(g)[{h[x] : x \in S}]
<1> DEFINE sf == SumsOf(f)
           sg == SumsOf(g)
           Img(S) == {h[x] : x \in S}
           Bad == {S \in SUBSET DOMAIN f : sf[S] # sg[Img(S)]}
<1>1. sf[{}] = 0 /\ sg[{}] = 0
  <2>1. IsFiniteSet(DOMAIN f) /\ IsFiniteSet(DOMAIN g)
    BY DEF IsCount
  <2> QED
    BY <2>1, SumsExist
<1>2. /\ \A S \in SUBSET DOMAIN f : \A x \in S : sf[S] = f[x] + sf[S \ {x}]
      /\ \A S \in SUBSET DOMAIN g : \A x \in S : sg[S] = g[x] + sg[S \ {x}]
  BY SumsAdd
<1> HIDE DEF sf, sg
<1>4. Bad = {}
  <2>1. SUFFICES ASSUME Bad # {} PROVE FALSE
    OBVIOUS
  <2>2. PICK T \in Bad : \A U \in Bad : U \subseteq T => U = T
    <3>1. Bad \in SUBSET (SUBSET DOMAIN f)
      OBVIOUS
    <3> HIDE DEF Bad
    <3> QED
      BY <2>1, <3>1, SmallestSubset DEF IsCount
  <2>3. T \in SUBSET DOMAIN f /\ sf[T] # sg[Img(T)]
    OBVIOUS
  <2>4. T # {}
    <3>1. Img({}) = {}
      OBVIOUS
    <3> QED
      BY <1>1, <2>3, <3>1
  <2>5. PICK x \in T : TRUE
    BY <2>4
  <2>6. sf[T \ {x}] = sg[Img(T \ {x})]
    <3>1. T \ {x} \notin Bad
      <4> HIDE DEF Bad
      <4> QED
        BY <2>2
    <3> QED
      BY <2>3, <3>1
  <2>7. Img(T \ {x}) = Img(T) \ {h[x]} /\ h[x] \in Img(T) /\ Img(T) \in SUBSET DOMAIN g
    BY <2>3
  <2>8. sf[T] = f[x] + sf[T \ {x}] /\ sg[Img(T)] = g[h[x]] + sg[Img(T) \ {h[x]}]
    <3> HIDE DEF Img
    <3> QED
      BY <1>2, <2>3, <2>7
  <2>9. f[x] = g[h[x]]
    BY <2>3
  <2> HIDE DEF Img
  <2> QED
    BY <2>3, <2>6, <2>7, <2>8, <2>9
<1>5. \A S \in SUBSET DOMAIN f : sf[S] = sg[Img(S)]
  BY <1>4
<1> QED
  BY <1>5 DEF sf, sg

LEMMA SumOfRenamed ==
  ASSUME NEW f, NEW g, IsCount(f), IsCount(g), NEW h \in [DOMAIN f -> DOMAIN g],
         \A x, y \in DOMAIN f : h[x] = h[y] => x = y,
         \A y \in DOMAIN g : \E x \in DOMAIN f : h[x] = y,
         \A x \in DOMAIN f : f[x] = g[h[x]]
  PROVE  SumOf(f) = SumOf(g)
<1>1. {h[x] : x \in DOMAIN f} = DOMAIN g
  OBVIOUS
<1>2. SumsOf(f)[DOMAIN f] = SumsOf(g)[{h[x] : x \in DOMAIN f}]
  BY SumsOfRenamed
<1> QED
  BY <1>1, <1>2 DEF SumOf

\* One more place adds its value.
LEMMA SumOfExtended ==
  ASSUME NEW f, NEW g, IsCount(g), NEW x \in DOMAIN g, DOMAIN f = DOMAIN g \ {x},
         \A y \in DOMAIN f : f[y] = g[y]
  PROVE  /\ IsCount(f)
         /\ SumOf(g) = g[x] + SumOf(f) /\ SumOf(f) \in Nat /\ g[x] \in Nat
<1>1. IsCount(f)
  <2>1. IsFiniteSet(DOMAIN g)
    BY DEF IsCount
  <2>2. IsFiniteSet(DOMAIN f)
    BY <2>1, FS_RemoveElement
  <2> QED
    BY <2>2 DEF IsCount
<1>2. SumsOf(f)[DOMAIN f] = SumsOf(g)[DOMAIN f]
  <2> DEFINE h == [y \in DOMAIN f |-> y]
  <2>1. h \in [DOMAIN f -> DOMAIN g] /\ {h[y] : y \in DOMAIN f} = DOMAIN f
    OBVIOUS
  <2>2. /\ \A y, z \in DOMAIN f : h[y] = h[z] => y = z
        /\ \A y \in DOMAIN f : f[y] = g[h[y]]
    OBVIOUS
  <2> HIDE DEF h
  <2>3. SumsOf(f)[DOMAIN f] = SumsOf(g)[{h[y] : y \in DOMAIN f}]
    BY <1>1, <2>1, <2>2, SumsOfRenamed
  <2> QED
    BY <2>1, <2>3
<1>3. SumsOf(g)[DOMAIN g] = g[x] + SumsOf(g)[DOMAIN g \ {x}]
  BY SumsAdd
<1>4. SumsOf(f)[DOMAIN f] \in Nat /\ g[x] \in Nat
  BY <1>1, SumsAreNat DEF IsCount
<1> QED
  BY <1>1, <1>2, <1>3, <1>4 DEF SumOf

LEMMA ChangedPart ==
  ASSUME NEW a \in Nat, NEW b \in Nat, NEW r \in Nat, NEW s, NEW t, s = a + r, t = b + r
  PROVE  s + b = t + a
OBVIOUS

\* A change of one value changes the sum as much.
LEMMA SumOfChanged ==
  ASSUME NEW f, NEW g, IsCount(f), IsCount(g), DOMAIN f = DOMAIN g, NEW x \in DOMAIN f,
         \A y \in DOMAIN f \ {x} : f[y] = g[y]
  PROVE  SumOf(f) + g[x] = SumOf(g) + f[x]
<1> DEFINE r == [y \in DOMAIN f \ {x} |-> f[y]]
<1>1. DOMAIN r = DOMAIN f \ {x} /\ \A y \in DOMAIN r : r[y] = f[y] /\ r[y] = g[y]
  OBVIOUS
<1> HIDE DEF r
<1>2. SumOf(f) = f[x] + SumOf(r) /\ SumOf(r) \in Nat /\ f[x] \in Nat
  BY <1>1, SumOfExtended
<1>3. SumOf(g) = g[x] + SumOf(r) /\ g[x] \in Nat
  BY <1>1, SumOfExtended
<1> QED
  BY <1>2, <1>3, ChangedPart

LEMMA SumOfNat == ASSUME NEW f, IsCount(f) PROVE SumOf(f) \in Nat
  BY SumsAreNat DEF SumOf

LEMMA SumOfNothing == ASSUME NEW f, DOMAIN f = {} PROVE SumOf(f) = 0
<1>1. IsFiniteSet(DOMAIN f)
  BY FS_EmptySet
<1> QED
  BY <1>1, SumsExist DEF SumOf

\* Aggregation counts every event.
LEMMA AggregationCounts == ASSUME NEW E, NEW s \in Seq(E) PROVE AggregateSum(Aggregate(s)) = Len(s)
<1> DEFINE f == Aggregate(s)
           At(S) == {i \in DOMAIN s : s[i] \in S}
           Bad == {S \in SUBSET ToSet(s) : SumsOf(f)[S] # Cardinality(At(S))}
<1>1. DOMAIN f = ToSet(s) /\ \A e \in ToSet(s) : f[e] = Cardinality({i \in DOMAIN s : s[i] = e})
  BY DEF Aggregate
<1>2. IsFiniteSet(DOMAIN s) /\ Cardinality(DOMAIN s) = Len(s)
  <2>1. DOMAIN s = 1 .. Len(s) /\ Len(s) \in Nat
    OBVIOUS
  <2> QED
    BY <2>1, FS_Interval
<1>3. IsFiniteSet(ToSet(s))
  <2>1. [i \in DOMAIN s |-> s[i]] \in Surjection(DOMAIN s, ToSet(s))
    BY DEF Surjection, ToSet
  <2> QED
    BY <1>2, <2>1, FS_Surjection
<1>4. \A S : IsFiniteSet(At(S)) /\ Cardinality(At(S)) \in Nat
  BY <1>2, FS_Subset, FS_CardinalityType
<1>5. IsCount(f)
  <2>1. \A e : {i \in DOMAIN s : s[i] = e} = At({e})
    OBVIOUS
  <2> HIDE DEF At, f
  <2>2. ASSUME NEW e \in DOMAIN f PROVE f[e] \in Nat
    <3>1. f[e] = Cardinality({i \in DOMAIN s : s[i] = e})
      BY <1>1
    <3>2. f[e] = Cardinality(At({e}))
      BY <2>1, <3>1
    <3> QED
      BY <1>4, <3>2
  <2> QED
    BY <1>1, <1>3, <2>2 DEF IsCount
<1> HIDE DEF f
<1>6. SUFFICES Bad = {}
  <2>1. ToSet(s) \notin Bad
    BY <1>6
  <2>2. At(ToSet(s)) = DOMAIN s
    BY DEF ToSet
  <2> QED
    BY <1>1, <1>2, <2>1, <2>2 DEF SumOf, AggregateSum, f
<1>7. SUFFICES ASSUME Bad # {} PROVE FALSE
  OBVIOUS
<1>8. PICK T \in Bad : \A U \in Bad : U \subseteq T => U = T
  <2>1. Bad \in SUBSET (SUBSET ToSet(s))
    OBVIOUS
  <2> HIDE DEF Bad
  <2> QED
    BY <1>3, <1>7, <2>1, SmallestSubset
<1>9. T \in SUBSET ToSet(s) /\ SumsOf(f)[T] # Cardinality(At(T))
  OBVIOUS
<1>10. T # {}
  <2>1. At({}) = {}
    OBVIOUS
  <2>2. SumsOf(f)[{}] = 0
    BY <1>5, SumsExist DEF IsCount
  <2> QED
    BY <1>9, <2>1, <2>2, FS_EmptySet
<1>11. PICK e \in T : TRUE
  BY <1>10
<1>12. SumsOf(f)[T \ {e}] = Cardinality(At(T \ {e}))
  <2>1. T \ {e} \notin Bad
    <3> HIDE DEF Bad
    <3> QED
      BY <1>8
  <2> QED
    BY <1>9, <2>1
<1>13. SumsOf(f)[T] = f[e] + SumsOf(f)[T \ {e}]
  <2>1. T \in SUBSET DOMAIN f /\ e \in T
    BY <1>1, <1>9
  <2> HIDE DEF At, Bad
  <2>2. \A S \in SUBSET DOMAIN f : \A x \in S : SumsOf(f)[S] = f[x] + SumsOf(f)[S \ {x}]
    BY <1>5, SumsAdd
  <2> QED
    BY <2>1, <2>2
<1>14. Cardinality(At(T)) = Cardinality(At({e})) + Cardinality(At(T \ {e}))
  <2>1. At(T) = At({e}) \cup At(T \ {e}) /\ At({e}) \cap At(T \ {e}) = {}
    OBVIOUS
  <2>2. Cardinality(At({e}) \cap At(T \ {e})) = 0
    BY <2>1, FS_EmptySet
  <2> HIDE DEF At
  <2>3. Cardinality(At({e}) \cup At(T \ {e})) =
            Cardinality(At({e})) + Cardinality(At(T \ {e})) - Cardinality(At({e}) \cap At(T \ {e}))
    BY <1>4, FS_Union
  <2>4. Cardinality(At({e})) \in Nat /\ Cardinality(At(T \ {e})) \in Nat
    BY <1>4
  <2>5. Cardinality(At({e}) \cup At(T \ {e})) = Cardinality(At({e})) + Cardinality(At(T \ {e}))
    BY <2>2, <2>3, <2>4
  <2> QED
    BY <2>1, <2>5
<1>15. f[e] = Cardinality(At({e}))
  <2>1. {i \in DOMAIN s : s[i] = e} = At({e})
    OBVIOUS
  <2> QED
    BY <1>1, <1>9, <2>1
<1> QED
  BY <1>9, <1>12, <1>13, <1>14, <1>15

(***************************************************************************)
(* The server's telemetry.  What its flushes have not sent yet adds up to  *)
(* the weight of their sequence.                                           *)
(***************************************************************************)

\* Removing an element of a sequence moves those behind it one place forward.
LEMMA RemovalShifts ==
    ASSUME NEW S, NEW s \in Seq(S), NEW i \in DOMAIN s
    PROVE  /\ DOMAIN RemoveAt(s, i) = 1 .. Len(s) - 1
           /\ \A j \in 1 .. Len(s) - 1 :
                 RemoveAt(s, i)[j] = IF j < i THEN s[j] ELSE s[j + 1]
<1>1. RemoveAt(s, i) = SubSeq(s, 1, i - 1) \o SubSeq(s, i + 1, Len(s))
  BY DEF RemoveAt
<1> DEFINE front == SubSeq(s, 1, i - 1)
           back == SubSeq(s, i + 1, Len(s))
<1>2. i \in 1 .. Len(s) /\ Len(s) \in Nat
  OBVIOUS
<1>3. front \in Seq(S) /\ Len(front) = i - 1 /\ \A j \in 1 .. i - 1 : front[j] = s[j]
  BY <1>2
<1>4. back \in Seq(S) /\ Len(back) = Len(s) - i /\ \A j \in 1 .. Len(s) - i : back[j] = s[i + j]
  BY <1>2
<1> HIDE DEF front, back
<1>5. DOMAIN (front \o back) = 1 .. Len(s) - 1
  BY <1>2, <1>3, <1>4
<1>6. ASSUME NEW j \in 1 .. Len(s) - 1
      PROVE  (front \o back)[j] = IF j < i THEN s[j] ELSE s[j + 1]
  <2>1. CASE j < i
    <3>1. j \in 1 .. i - 1 /\ j \in 1 .. Len(front)
      BY <1>2, <1>3, <2>1
    <3>2. (front \o back)[j] = front[j]
      BY <1>3, <1>4, <3>1, ConcatProperties
    <3> QED
      BY <1>3, <2>1, <3>1, <3>2
  <2>2. CASE ~(j < i)
    <3>0. j \in 1 .. Len(front) + Len(back) /\ ~(j <= Len(front)) /\ Len(front) = i - 1
      BY <1>2, <1>3, <1>4, <2>2
    <3>x. (front \o back)[j] = back[j - Len(front)]
      BY <1>3, <1>4, <3>0, ConcatProperties
    <3>1. (front \o back)[j] = back[j - (i - 1)]
      BY <3>0, <3>x
    <3>2. back[j - (i - 1)] = s[j + 1]
      BY <1>2, <1>4, <2>2
    <3> QED
      BY <2>2, <3>1, <3>2
  <2> QED
    BY <2>1, <2>2
<1> QED
  BY <1>1, <1>5, <1>6 DEF front, back

\* Removing an element of a sequence leaves only elements that were there
\* (a flush that ended).
LEMMA RemovalKeepsElements ==
    ASSUME NEW S, NEW s \in Seq(S), NEW i \in DOMAIN s
    PROVE  /\ RemoveAt(s, i) \in Seq(S)
           /\ \A j \in DOMAIN RemoveAt(s, i) :
                 \E k \in DOMAIN s : RemoveAt(s, i)[j] = s[k]
<1>1. RemoveAt(s, i) \in Seq(S)
  BY DEF RemoveAt
<1>2. ASSUME NEW j \in DOMAIN RemoveAt(s, i) PROVE \E k \in DOMAIN s : RemoveAt(s, i)[j] = s[k]
  <2>1. /\ j \in 1 .. Len(s) - 1 /\ RemoveAt(s, i)[j] = IF j < i THEN s[j] ELSE s[j + 1]
        /\ j \in DOMAIN s /\ j + 1 \in DOMAIN s
    BY RemovalShifts
  <2> QED
    BY <2>1
<1> QED
  BY <1>1, <1>2

Numbers(S) == UNION {[D -> Nat] : D \in SUBSET S}

Flush ==
    [purpose : {"scheduled", "close"}, stage : {"report", "hashing", "sending", "answered"},
     events : Seq(Contexts), dropped : Nat, contexts : SUBSET Identified, contextsDropped : Nat,
     batch : Seq(SUBSET {"value", "details"}), invalid : Numbers(Samples \cup {"none"}),
     fatal : BOOLEAN]

InFlightOf(s) ==
    [i \in {i \in DOMAIN s : ~Hashed(s[i])} |-> Len(s[i].events) + s[i].dropped]
Weight(s) == SumOf(InFlightOf(s))
Holds(f) == Len(f.events) + f.dropped

LEMMA InFlightIsWeight ==
    SumOf([i \in Unsent |-> Len(flushes[i].events) + flushes[i].dropped]) = Weight(flushes)
  BY DEF Unsent, Weight, InFlightOf

LEMMA InFlightCounts ==
  ASSUME NEW s \in Seq(Flush)
  PROVE  /\ IsCount(InFlightOf(s))
         /\ DOMAIN InFlightOf(s) = {i \in DOMAIN s : ~Hashed(s[i])}
         /\ \A i \in DOMAIN InFlightOf(s) : InFlightOf(s)[i] = Holds(s[i])
<1>1. IsFiniteSet(DOMAIN s)
  <2>1. DOMAIN s = 1 .. Len(s) /\ Len(s) \in Nat
    OBVIOUS
  <2> QED
    BY <2>1, FS_Interval
<1>2. DOMAIN InFlightOf(s) = {i \in DOMAIN s : ~Hashed(s[i])} /\ IsFiniteSet(DOMAIN InFlightOf(s))
  BY <1>1, FS_Subset DEF InFlightOf
<1>3. \A i \in DOMAIN s : Holds(s[i]) \in Nat
  <2>1. \A i \in DOMAIN s : s[i] \in Flush
    OBVIOUS
  <2>2. \A f \in Flush : Len(f.events) \in Nat /\ f.dropped \in Nat
    BY DEF Flush
  <2> QED
    BY <2>1, <2>2 DEF Holds
<1>4. \A i \in DOMAIN InFlightOf(s) : InFlightOf(s)[i] = Holds(s[i])
  BY DEF InFlightOf, Holds
<1> QED
  BY <1>2, <1>3, <1>4 DEF IsCount

LEMMA WeightNat == ASSUME NEW s \in Seq(Flush) PROVE Weight(s) \in Nat
  BY InFlightCounts, SumOfNat DEF Weight

\* One more flush in flight adds what it holds, at the end or in place of one that sent.
LEMMA WeightOfMore ==
  ASSUME NEW s \in Seq(Flush), NEW t \in Seq(Flush), NEW i \in DOMAIN t, ~Hashed(t[i]),
         \A j \in DOMAIN s : j # i => j \in DOMAIN t /\ t[j] = s[j],
         \A j \in DOMAIN t : j # i => j \in DOMAIN s,
         i \in DOMAIN s => Hashed(s[i])
  PROVE  Weight(t) = Holds(t[i]) + Weight(s) /\ Weight(s) \in Nat /\ Holds(t[i]) \in Nat
<1> DEFINE f == InFlightOf(s)
           g == InFlightOf(t)
<1>1. IsCount(g)
  BY InFlightCounts
<1>2. i \in DOMAIN g /\ g[i] = Holds(t[i])
  BY InFlightCounts
<1>3. DOMAIN f = DOMAIN g \ {i}
  <2>1. /\ DOMAIN f = {j \in DOMAIN s : ~Hashed(s[j])}
        /\ DOMAIN g = {j \in DOMAIN t : ~Hashed(t[j])}
    BY InFlightCounts
  <2> HIDE DEF f, g
  <2> QED
    BY <2>1
<1>4. \A j \in DOMAIN f : f[j] = g[j]
  <2> TAKE j \in DOMAIN f
  <2>1. j \in DOMAIN s /\ j \in DOMAIN g /\ j # i
    BY <1>3, InFlightCounts
  <2>2. f[j] = Holds(s[j]) /\ g[j] = Holds(t[j])
    BY <2>1, InFlightCounts
  <2> QED
    BY <2>1, <2>2
<1> HIDE DEF f, g
<1>5. SumOf(g) = g[i] + SumOf(f) /\ SumOf(f) \in Nat /\ g[i] \in Nat
  BY <1>1, <1>2, <1>3, <1>4, SumOfExtended
<1> QED
  BY <1>2, <1>5 DEF Weight, f, g

\* A flush that changes nothing of what counts.
LEMMA WeightOfSame ==
  ASSUME NEW s \in Seq(Flush), NEW t \in Seq(Flush), DOMAIN s = DOMAIN t,
         \A j \in DOMAIN s : Hashed(s[j]) = Hashed(t[j]) /\ Holds(s[j]) = Holds(t[j])
  PROVE  Weight(t) = Weight(s)
<1>1. InFlightOf(s) = InFlightOf(t)
  BY DEF InFlightOf, Holds
<1> QED
  BY <1>1 DEF Weight

LEMMA WeightOfRemoved ==
  ASSUME NEW s \in Seq(Flush), NEW i \in DOMAIN s, Hashed(s[i])
  PROVE  RemoveAt(s, i) \in Seq(Flush) /\ Weight(RemoveAt(s, i)) = Weight(s)
<1> DEFINE t == RemoveAt(s, i)
           f == InFlightOf(t)
           g == InFlightOf(s)
           h == [j \in DOMAIN f |-> IF j < i THEN j ELSE j + 1]
<1>1. t \in Seq(Flush)
  BY RemovalKeepsElements
<1>2. /\ DOMAIN t = 1 .. Len(s) - 1
      /\ \A j \in DOMAIN t : t[j] = IF j < i THEN s[j] ELSE s[j + 1]
  BY RemovalShifts
<1>3. DOMAIN s = 1 .. Len(s) /\ Len(s) \in Nat
  OBVIOUS
<1> HIDE DEF t
<1>4. /\ IsCount(f) /\ DOMAIN f = {j \in DOMAIN t : ~Hashed(t[j])}
      /\ \A j \in DOMAIN f : f[j] = Holds(t[j])
  BY <1>1, InFlightCounts
<1>5. /\ IsCount(g) /\ DOMAIN g = {j \in DOMAIN s : ~Hashed(s[j])}
      /\ \A j \in DOMAIN g : g[j] = Holds(s[j])
  BY InFlightCounts
<1> HIDE DEF f, g
<1>6. h \in [DOMAIN f -> DOMAIN g]
  BY <1>2, <1>3, <1>4, <1>5
<1>7. \A j, k \in DOMAIN f : h[j] = h[k] => j = k
  BY <1>2, <1>3, <1>4
<1>8. ASSUME NEW k \in DOMAIN g PROVE \E j \in DOMAIN f : h[j] = k
  <2>1. k \in 1 .. Len(s) /\ ~Hashed(s[k]) /\ k # i
    BY <1>3, <1>5
  <2>2. CASE k < i
    <3>1. k \in DOMAIN t /\ t[k] = s[k]
      BY <1>2, <1>3, <2>1, <2>2
    <3> QED
      BY <1>4, <2>1, <2>2, <3>1
  <2>3. CASE ~(k < i)
    <3>1. k - 1 \in DOMAIN t /\ ~(k - 1 < i) /\ t[k - 1] = s[k]
      BY <1>2, <1>3, <2>1, <2>3
    <3>2. k - 1 \in DOMAIN f /\ (k - 1) + 1 = k
      BY <1>4, <2>1, <3>1
    <3> QED
      BY <3>1, <3>2
  <2> QED
    BY <2>2, <2>3
<1>9. \A j \in DOMAIN f : f[j] = g[h[j]]
  <2> TAKE j \in DOMAIN f
  <2>1. f[j] = Holds(t[j]) /\ h[j] \in DOMAIN g /\ g[h[j]] = Holds(s[h[j]])
    BY <1>4, <1>5, <1>6
  <2>2. t[j] = s[h[j]]
    BY <1>2, <1>4
  <2> QED
    BY <2>1, <2>2
<1> HIDE DEF h
<1>10. SumOf(f) = SumOf(g)
  <2>1. IsCount(f) /\ IsCount(g)
    BY <1>4, <1>5
  <2> QED
    BY <1>6, <1>7, <1>8, <1>9, <2>1, SumOfRenamed
<1> QED
  BY <1>1, <1>10 DEF Weight, f, g, t

EventQueues == [events : Seq(Contexts), dropped : Nat]
ContextMaps == [keys : Seq(Identified), dropped : Nat]
Submissions == [counts : Numbers(Samples), beyond : Nat]
Requests == [evaluations : Nat, contexts : SUBSET Identified, submissions : Nat, dropped : Nat,
             contextsDropped : Nat]

CollectorTypeOK ==
    /\ collecting \in BOOLEAN /\ timer \in BOOLEAN /\ executing \in BOOLEAN
    /\ queue \in EventQueues
    /\ contexts \in ContextMaps
    /\ tracked \in Seq(SUBSET {"value", "details"})
    /\ submissions \in Submissions /\ IsFiniteSet(DOMAIN submissions.counts)
    /\ flushes \in Seq(Flush)
    /\ evaluated \in Nat /\ submitted \in Nat
    /\ requested \in Requests

\* Pushing an event adds one to what the queue holds or has dropped.
LEMMA PushCounts ==
  ASSUME NEW q \in EventQueues, NEW e \in Contexts
  PROVE  /\ Push(q, e, QueueLimit) \in EventQueues
         /\ Len(Push(q, e, QueueLimit).events) + Push(q, e, QueueLimit).dropped
              = Len(q.events) + q.dropped + 1
         /\ ToSet(Push(q, e, QueueLimit).events) \subseteq ToSet(q.events) \cup {e}
<1> DEFINE n == Overflow(q, QueueLimit)
           kept == Behead(q.events, n)
<1>1. q.events \in Seq(Contexts) /\ q.dropped \in Nat /\ Len(q.events) \in Nat
  BY DEF EventQueues
<1>2. n \in Nat /\ n <= Len(q.events)
  BY <1>1, LimitsAssumption DEF Overflow, Excess
<1> HIDE DEF n
<1>3. /\ kept \in Seq(Contexts) /\ Len(kept) = Len(q.events) - n
      /\ \A j \in 1 .. Len(kept) : kept[j] = q.events[j + n]
  BY <1>1, <1>2 DEF Behead
<1>4. ToSet(kept) \subseteq ToSet(q.events)
  <2>1. \A j \in 1 .. Len(kept) : j + n \in DOMAIN q.events
    BY <1>1, <1>2, <1>3
  <2>2. DOMAIN kept = 1 .. Len(kept)
    BY <1>3
  <2> HIDE DEF kept
  <2> QED
    BY <1>3, <2>1, <2>2 DEF ToSet
<1> HIDE DEF kept
<1>5. /\ Append(kept, e) \in Seq(Contexts) /\ Len(Append(kept, e)) = Len(q.events) - n + 1
      /\ ToSet(Append(kept, e)) \subseteq ToSet(kept) \cup {e}
  BY <1>3 DEF ToSet
<1>6. Push(q, e, QueueLimit) = [events |-> Append(kept, e), dropped |-> q.dropped + n]
  BY DEF Push, kept, n
<1> QED
  BY <1>1, <1>2, <1>4, <1>5, <1>6 DEF EventQueues

\* A submission counts once, under its sample or beyond the samples.
LEMMA AddingCounts ==
  ASSUME NEW held \in Submissions, IsFiniteSet(DOMAIN held.counts), NEW sample \in Samples
  PROVE  /\ AddSubmissions(held, sample, 1, SampleLimit) \in Submissions
         /\ IsFiniteSet(DOMAIN AddSubmissions(held, sample, 1, SampleLimit).counts)
         /\ Submitted(AddSubmissions(held, sample, 1, SampleLimit)) = Submitted(held) + 1
<1> DEFINE added == AddSubmissions(held, sample, 1, SampleLimit)
           c == held.counts
           d == added.counts
<1>1. PICK D \in SUBSET Samples : c \in [D -> Nat]
  BY DEF Submissions, Numbers
<1>2. held.beyond \in Nat /\ IsCount(c) /\ SumOf(c) \in Nat
  BY <1>1, SumOfNat DEF Submissions, IsCount
<1>3. CASE sample \in DOMAIN c
  <2>1. added = [held EXCEPT !.counts = [c EXCEPT ![sample] = @ + 1]]
    BY <1>3 DEF AddSubmissions
  <2>2. d = [c EXCEPT ![sample] = @ + 1] /\ added.beyond = held.beyond /\ added \in Submissions
    BY <1>1, <1>3, <2>1 DEF Submissions, Numbers
  <2>3. IsCount(d) /\ DOMAIN d = DOMAIN c
    BY <1>1, <1>2, <2>2 DEF IsCount
  <2>4. d[sample] = c[sample] + 1 /\ \A y \in DOMAIN c \ {sample} : c[y] = d[y]
    BY <1>1, <1>3, <2>2
  <2>5. SumOf(c) + d[sample] = SumOf(d) + c[sample]
    <3> HIDE DEF c, d
    <3> QED
      BY <1>2, <1>3, <2>3, <2>4, SumOfChanged
  <2>6. SumOf(d) \in Nat /\ c[sample] \in Nat
    BY <1>2, <1>3, <2>3, SumOfNat DEF IsCount
  <2>7. SumOf(d) = SumOf(c) + 1
    BY <1>2, <2>4, <2>5, <2>6
  <2> QED
    BY <1>2, <2>2, <2>3, <2>6, <2>7 DEF Submitted, IsCount
<1>4. CASE sample \notin DOMAIN c /\ Cardinality(DOMAIN c) < SampleLimit
  <2>1. added = [held EXCEPT !.counts = Including(c, sample, 1)]
    BY <1>4 DEF AddSubmissions
  <2>2. d = Including(c, sample, 1) /\ added.beyond = held.beyond
    BY <2>1 DEF Submissions
  <2>3. d = [x \in D \cup {sample} |-> IF x \in D THEN c[x] ELSE 1]
    BY <1>1, <1>4, <2>2 DEF Including
  <2>4. added \in Submissions
    BY <1>1, <2>1, <2>3 DEF Submissions, Numbers
  <2>5. IsFiniteSet(D \cup {sample})
    BY <1>1, <1>2, FS_AddElement DEF IsCount
  <2>6. IsCount(d) /\ sample \in DOMAIN d /\ d[sample] = 1 /\ DOMAIN c = DOMAIN d \ {sample}
    BY <1>1, <1>4, <2>3, <2>5 DEF IsCount
  <2>7. \A y \in DOMAIN c : c[y] = d[y]
    BY <1>1, <2>3
  <2>8. SumOf(d) = d[sample] + SumOf(c)
    <3> HIDE DEF c, d
    <3> QED
      BY <2>6, <2>7, SumOfExtended
  <2> QED
    BY <1>2, <2>2, <2>4, <2>6, <2>8 DEF Submitted, IsCount
<1>5. CASE sample \notin DOMAIN c /\ ~(Cardinality(DOMAIN c) < SampleLimit)
  <2>1. added = [held EXCEPT !.beyond = @ + 1]
    BY <1>5 DEF AddSubmissions
  <2>2. added \in Submissions /\ d = c /\ added.beyond = held.beyond + 1
    BY <2>1 DEF Submissions
  <2> QED
    BY <1>2, <2>2 DEF Submitted, IsCount
<1> QED
  BY <1>3, <1>4, <1>5

\* The entries of a snapshot count every submission.
LEMMA EntriesCount ==
  ASSUME NEW held \in Submissions, IsFiniteSet(DOMAIN held.counts)
  PROVE  /\ SubmissionEntries(held) \in Numbers(Samples \cup {"none"})
         /\ SumOf(SubmissionEntries(held)) = Submitted(held)
         /\ Submitted(held) \in Nat
<1> DEFINE c == held.counts
           d == SubmissionEntries(held)
<1>1. PICK D \in SUBSET Samples : c \in [D -> Nat]
  BY DEF Submissions, Numbers
<1>2. held.beyond \in Nat /\ IsCount(c) /\ SumOf(c) \in Nat
  BY <1>1, SumOfNat DEF Submissions, IsCount
<1>3. Submitted(held) \in Nat
  BY <1>2 DEF Submitted
<1>4. CASE held.beyond > 0
  <2>1. d = Including(c, "none", held.beyond)
    BY <1>4 DEF SubmissionEntries
  <2>2. d = [x \in D \cup {"none"} |-> IF x \in D THEN c[x] ELSE held.beyond] /\ "none" \notin D
    BY <1>1, <2>1, LimitsAssumption DEF Including
  <2>3. d \in Numbers(Samples \cup {"none"})
    BY <1>1, <1>2, <2>2 DEF Numbers
  <2>4. IsFiniteSet(D \cup {"none"})
    BY <1>1, <1>2, FS_AddElement DEF IsCount
  <2>5. IsCount(d) /\ "none" \in DOMAIN d /\ d["none"] = held.beyond /\ DOMAIN c = DOMAIN d \ {"none"}
    BY <1>1, <1>2, <2>2, <2>4 DEF IsCount
  <2>6. \A y \in DOMAIN c : c[y] = d[y]
    BY <1>1, <2>2
  <2>7. SumOf(d) = d["none"] + SumOf(c)
    <3> HIDE DEF c, d
    <3> QED
      BY <2>5, <2>6, SumOfExtended
  <2> QED
    BY <1>2, <1>3, <2>3, <2>5, <2>7 DEF Submitted
<1>5. CASE ~(held.beyond > 0)
  <2>2. d = c
    BY <1>5 DEF SubmissionEntries
  <2>3. d \in Numbers(Samples \cup {"none"})
    BY <1>1, <2>2 DEF Numbers
  <2> QED
    BY <1>2, <1>3, <1>5, <2>2, <2>3 DEF Submitted
<1> QED
  BY <1>4, <1>5

\* A context is in the map afterwards, or was pushed out and counted; so is each that was there.
LEMMA SettingCounts ==
  ASSUME NEW map \in ContextMaps, NEW key \in Identified
  PROVE  /\ SetLimited(map, key, ContextLimit) \in ContextMaps
         /\ \E gone \in SUBSET Identified :
              /\ IsFiniteSet(gone)
              /\ SetLimited(map, key, ContextLimit).dropped >= map.dropped + Cardinality(gone)
              /\ ToSet(map.keys) \cup {key} \subseteq ToSet(SetLimited(map, key, ContextLimit).keys) \cup gone
<1> DEFINE keys == IF key \in ToSet(map.keys) THEN map.keys ELSE Append(map.keys, key)
           n == IF Len(keys) > ContextLimit THEN Len(keys) - ContextLimit ELSE 0
           kept == SubSeq(keys, n + 1, Len(keys))
           gone == {keys[j] : j \in 1 .. n}
<1>1. map.keys \in Seq(Identified) /\ map.dropped \in Nat /\ ContextLimit \in Nat
  BY LimitsAssumption DEF ContextMaps
<1>2. keys \in Seq(Identified) /\ ToSet(map.keys) \cup {key} = ToSet(keys)
  <2>1. CASE key \in ToSet(map.keys)
    BY <1>1, <2>1
  <2>2. CASE key \notin ToSet(map.keys)
    <3> DEFINE s == map.keys
    <3>1. s \in Seq(Identified)
      BY <1>1
    <3>2. keys = Append(s, key)
      BY <2>2
    <3> HIDE DEF s
    <3>3. Append(s, key) \in Seq(Identified) /\ DOMAIN Append(s, key) = 1 .. Len(s) + 1
      BY <3>1
    <3>4. \A j \in 1 .. Len(s) + 1 : Append(s, key)[j] = IF j <= Len(s) THEN s[j] ELSE key
      BY <3>1
    <3>5. ToSet(Append(s, key)) = ToSet(s) \cup {key}
      <4>1. DOMAIN s = 1 .. Len(s) /\ Len(s) \in Nat
        BY <3>1
      <4>2. Len(s) + 1 \in 1 .. Len(s) + 1
        BY <4>1
      <4>3. \A j \in DOMAIN s : j \in DOMAIN Append(s, key) /\ Append(s, key)[j] = s[j]
        BY <3>3, <3>4, <4>1
      <4>4. /\ Len(s) + 1 \in DOMAIN Append(s, key) /\ Append(s, key)[Len(s) + 1] = key
        BY <3>3, <3>4, <4>1, <4>2
      <4>5. \A j \in DOMAIN Append(s, key) :
               \/ Append(s, key)[j] = key
               \/ j \in DOMAIN s /\ Append(s, key)[j] = s[j]
        BY <3>3, <3>4, <4>1
      <4> QED
        BY <4>3, <4>4, <4>5 DEF ToSet
    <3> QED
      BY <3>2, <3>3, <3>5 DEF s
  <2> QED
    BY <2>1, <2>2
<1> HIDE DEF keys
<1>3. n \in Nat /\ n <= Len(keys) /\ Len(keys) \in Nat
  BY <1>1, <1>2
<1> HIDE DEF n
<1>4. /\ kept \in Seq(Identified) /\ Len(kept) = Len(keys) - n
      /\ \A j \in 1 .. Len(kept) : kept[j] = keys[j + n]
  BY <1>2, <1>3
<1>5. ToSet(keys) \subseteq ToSet(kept) \cup gone
  <2>1. SUFFICES ASSUME NEW j \in 1 .. Len(keys) PROVE keys[j] \in ToSet(kept) \cup gone
    <3>1. DOMAIN keys = 1 .. Len(keys)
      BY <1>2
    <3>2. \A x \in ToSet(keys) : \E j \in 1 .. Len(keys) : x = keys[j]
      BY <3>1 DEF ToSet
    <3> HIDE DEF kept, gone
    <3> QED
      BY <3>2
  <2>2. CASE j <= n
    BY <1>3, <2>2
  <2>3. CASE ~(j <= n)
    <3>1. j - n \in 1 .. Len(kept) /\ kept[j - n] = keys[j]
      BY <1>3, <1>4, <2>3
    <3>2. DOMAIN kept = 1 .. Len(kept)
      BY <1>4
    <3> HIDE DEF kept
    <3> QED
      BY <3>1, <3>2 DEF ToSet
  <2> QED
    BY <2>2, <2>3
<1>6. IsFiniteSet(gone) /\ Cardinality(gone) <= n
  <2>1. [j \in 1 .. n |-> keys[j]] \in Surjection(1 .. n, gone)
    BY DEF Surjection
  <2>2. IsFiniteSet(1 .. n) /\ Cardinality(1 .. n) = n
    BY <1>3, FS_Interval
  <2> HIDE DEF gone
  <2> QED
    BY <2>1, <2>2, FS_Surjection
<1>7. gone \in SUBSET Identified
  BY <1>2, <1>3
<1>8. SetLimited(map, key, ContextLimit) = [keys |-> kept, dropped |-> map.dropped + n]
  BY DEF SetLimited, kept, n, keys
<1>9. Cardinality(gone) \in Nat
  BY <1>6, FS_CardinalityType
<1> HIDE DEF kept, gone
<1>10. SetLimited(map, key, ContextLimit) \in ContextMaps
  BY <1>1, <1>3, <1>4, <1>8 DEF ContextMaps
<1>11. map.dropped + n >= map.dropped + Cardinality(gone)
  BY <1>1, <1>3, <1>6, <1>9
<1>12. /\ SetLimited(map, key, ContextLimit).dropped = map.dropped + n
       /\ SetLimited(map, key, ContextLimit).keys = kept
  BY <1>8
<1> QED
  BY <1>2, <1>5, <1>6, <1>7, <1>10, <1>11, <1>12

\* A flush takes what is queued.
LEMMA FlushesTake ==
  ASSUME CollectorTypeOK, NEW purpose \in {"scheduled", "close"}, NEW f \in Flushes(purpose)
  PROVE  /\ f \in Flush /\ ~Hashed(f) /\ f.events = queue.events /\ f.purpose = purpose
         /\ Holds(f) = Len(queue.events) + queue.dropped
<1>1. queue \in EventQueues
  BY DEF CollectorTypeOK
<1>2. <<>> \in Numbers(Samples \cup {"none"})
  <2>1. <<>> = [x \in {} |-> 0]
    OBVIOUS
  <2>2. <<>> \in [{} -> Nat]
    BY <2>1
  <2> QED
    BY <2>2 DEF Numbers
<1>3. PICK stage \in {"report", "hashing"} :
        f = [purpose |-> purpose, stage |-> stage, events |-> queue.events, dropped |-> queue.dropped,
             contexts |-> {}, contextsDropped |-> 0, batch |-> <<>>, invalid |-> <<>>, fatal |-> FALSE]
  BY DEF Flushes
<1> QED
  BY <1>1, <1>2, <1>3 DEF Flush, Hashed, Holds, EventQueues

LEMMA EmptyIsTyped ==
  /\ EmptyQueue \in EventQueues /\ EmptyMap \in ContextMaps
  /\ NoSubmissions \in Submissions /\ IsFiniteSet(DOMAIN NoSubmissions.counts)
  /\ Submitted(NoSubmissions) = 0
<1>1. NoSubmissions.counts = <<>> /\ NoSubmissions.beyond = 0
  BY DEF NoSubmissions
<1>2. DOMAIN NoSubmissions.counts = {}
  BY <1>1
<1>3. <<>> \in [{} -> Nat]
  <2>1. <<>> = [x \in {} |-> 0]
    OBVIOUS
  <2> QED
    BY <2>1
<1>4. NoSubmissions \in Submissions
  BY <1>3 DEF Submissions, Numbers, NoSubmissions
<1>5. SumOf(NoSubmissions.counts) = 0
  BY <1>2, SumOfNothing
<1>6. IsFiniteSet(DOMAIN NoSubmissions.counts)
  BY <1>2, FS_EmptySet
<1> QED
  BY <1>1, <1>4, <1>5, <1>6 DEF EmptyQueue, EventQueues, EmptyMap, ContextMaps, Submitted

(***************************************************************************)
(* The invariant of the server's collector.                                *)
(***************************************************************************)

\* A collector that stopped has nothing queued, so that its last flush loses nothing when
\* it clears the queue.
StoppedIsEmpty ==
    /\ ~collecting => queue = EmptyQueue
    /\ \A i \in DOMAIN flushes : flushes[i].purpose = "close" => ~collecting

Conserved ==
    executing => /\ evaluated = Holds(queue) + requested.evaluations + requested.dropped + Weight(flushes)
                 /\ submitted = Submitted(submissions) + requested.submissions

Missing == ReportedContexts \ (ToSet(contexts.keys) \cup requested.contexts)
ContextsHeld ==
    executing => /\ IsFiniteSet(Missing)
                 /\ Cardinality(Missing) <= contexts.dropped + requested.contextsDropped

CollectorInv == CollectorTypeOK /\ StoppedIsEmpty /\ Conserved /\ ContextsHeld

LEMMA Primes == /\ Weight(flushes)' = Weight(flushes')
                /\ Submitted(submissions)' = Submitted(submissions')
                /\ Holds(queue)' = Holds(queue')
  OBVIOUS

LEMMA RecordInvalidContextKeeps ==
  ASSUME CollectorInv, NEW sample \in Samples, RecordInvalidContext(sample)
  PROVE  CollectorInv'
<1>1. CollectorTypeOK /\ StoppedIsEmpty /\ Conserved /\ ContextsHeld
  BY DEF CollectorInv
<1>2. /\ submissions' = AddSubmissions(submissions, sample, 1, SampleLimit)
      /\ submitted' = submitted + 1
      /\ UNCHANGED <<collecting, timer, executing, queue, contexts, tracked, flushes, evaluated, requested>>
  BY DEF RecordInvalidContext
<1>3. /\ submissions' \in Submissions /\ IsFiniteSet(DOMAIN submissions'.counts)
      /\ Submitted(submissions') = Submitted(submissions) + 1
  BY <1>1, <1>2, AddingCounts DEF CollectorTypeOK
<1>4. CollectorTypeOK'
  BY <1>1, <1>2, <1>3 DEF CollectorTypeOK
<1>5. StoppedIsEmpty'
  BY <1>1, <1>2 DEF StoppedIsEmpty
<1>6. Conserved'
  <2>1. submitted \in Nat /\ requested.submissions \in Nat /\ Submitted(submissions) \in Nat
    BY <1>1, EntriesCount DEF CollectorTypeOK, Requests
  <2>2. Weight(flushes)' = Weight(flushes) /\ Holds(queue)' = Holds(queue)
    BY <1>2
  <2> QED
    BY <1>1, <1>2, <1>3, <2>1, <2>2, Primes DEF Conserved
<1>7. ContextsHeld'
  BY <1>1, <1>2 DEF ContextsHeld, Missing, ReportedContexts
<1> QED
  BY <1>4, <1>5, <1>6, <1>7 DEF CollectorInv

LEMMA MissingGrows ==
  ASSUME NEW M, IsFiniteSet(M), NEW gone, IsFiniteSet(gone), NEW N \in SUBSET (M \cup gone)
  PROVE  /\ IsFiniteSet(N) /\ Cardinality(M) \in Nat /\ Cardinality(gone) \in Nat
         /\ Cardinality(N) \in Nat /\ Cardinality(N) <= Cardinality(M) + Cardinality(gone)
<1>1. Cardinality(M) \in Nat /\ Cardinality(gone) \in Nat /\ Cardinality(M \cap gone) \in Nat
  BY FS_CardinalityType, FS_Intersection
<1>2. /\ IsFiniteSet(M \cup gone)
      /\ Cardinality(M \cup gone) = Cardinality(M) + Cardinality(gone) - Cardinality(M \cap gone)
  BY FS_Union
<1>3. IsFiniteSet(N) /\ Cardinality(N) <= Cardinality(M \cup gone) /\ Cardinality(N) \in Nat
  BY <1>2, FS_Subset, FS_CardinalityType
<1> QED
  BY <1>1, <1>2, <1>3

LEMMA EvaluatedConfigKeeps ==
  ASSUME CollectorInv, NEW c \in Contexts, EvaluatedConfig(c)
  PROVE  CollectorInv'
<1>1. CollectorTypeOK /\ StoppedIsEmpty /\ Conserved /\ ContextsHeld
  BY DEF CollectorInv
<1>2. /\ collecting
      /\ contexts' = IF c = "anonymous" THEN contexts ELSE SetLimited(contexts, c, ContextLimit)
      /\ queue' = Push(queue, c, QueueLimit)
      /\ evaluated' = evaluated + 1
      /\ UNCHANGED <<collecting, timer, executing, tracked, submissions, flushes, submitted, requested>>
  BY DEF EvaluatedConfig
<1>3. /\ queue' \in EventQueues
      /\ Len(queue'.events) + queue'.dropped = Len(queue.events) + queue.dropped + 1
      /\ ToSet(queue'.events) \subseteq ToSet(queue.events) \cup {c}
  BY <1>1, <1>2, PushCounts DEF CollectorTypeOK
<1>4. /\ contexts' \in ContextMaps
      /\ \E gone : /\ IsFiniteSet(gone)
                   /\ contexts'.dropped >= contexts.dropped + Cardinality(gone)
                   /\ (ToSet(contexts.keys) \cup {c}) \ {"anonymous"}
                         \subseteq ToSet(contexts'.keys) \cup gone
  <2>1. CASE c = "anonymous"
    <3>1. contexts \in ContextMaps /\ contexts.dropped \in Nat /\ contexts' = contexts
      BY <1>1, <1>2, <2>1 DEF CollectorTypeOK, ContextMaps
    <3>2. IsFiniteSet({}) /\ Cardinality({}) = 0
      BY FS_EmptySet
    <3>3. contexts'.dropped >= contexts.dropped + Cardinality({})
      BY <3>1, <3>2
    <3>4. (ToSet(contexts.keys) \cup {c}) \ {"anonymous"} \subseteq ToSet(contexts'.keys) \cup {}
      BY <2>1, <3>1
    <3> QED
      BY <3>1, <3>2, <3>3, <3>4
  <2>2. CASE c # "anonymous"
    <3>1. c \in Identified /\ contexts \in ContextMaps /\ contexts' = SetLimited(contexts, c, ContextLimit)
      BY <1>1, <1>2, <2>2 DEF CollectorTypeOK, Contexts
    <3>2. PICK gone \in SUBSET Identified :
            /\ IsFiniteSet(gone)
            /\ contexts'.dropped >= contexts.dropped + Cardinality(gone)
            /\ ToSet(contexts.keys) \cup {c} \subseteq ToSet(contexts'.keys) \cup gone
      BY <3>1, SettingCounts
    <3>3. contexts' \in ContextMaps
      BY <3>1, SettingCounts
    <3> QED
      BY <3>2, <3>3
  <2> QED
    BY <2>1, <2>2
<1>5. evaluated \in Nat
  BY <1>1 DEF CollectorTypeOK
<1>6. CollectorTypeOK'
  BY <1>1, <1>2, <1>3, <1>4, <1>5 DEF CollectorTypeOK
<1>7. StoppedIsEmpty'
  BY <1>1, <1>2 DEF StoppedIsEmpty
<1>8. Conserved'
  <2>1. /\ Len(queue.events) \in Nat /\ queue.dropped \in Nat /\ requested.evaluations \in Nat
        /\ requested.dropped \in Nat /\ Weight(flushes) \in Nat
    BY <1>1, WeightNat DEF CollectorTypeOK, EventQueues, Requests
  <2>2. Weight(flushes)' = Weight(flushes) /\ Submitted(submissions)' = Submitted(submissions)
    BY <1>2
  <2>3. Holds(queue)' = Holds(queue) + 1 /\ Holds(queue) \in Nat
    BY <1>3, <2>1 DEF Holds
  <2>4. SUFFICES ASSUME executing
        PROVE  /\ evaluated' = Holds(queue)' + requested'.evaluations + requested'.dropped + Weight(flushes)'
               /\ submitted' = Submitted(submissions)' + requested'.submissions
    BY <1>2 DEF Conserved
  <2>5. /\ evaluated = Holds(queue) + requested.evaluations + requested.dropped + Weight(flushes)
        /\ submitted = Submitted(submissions) + requested.submissions
    BY <1>1, <2>4 DEF Conserved
  <2>6. evaluated' = evaluated + 1 /\ submitted' = submitted /\ requested' = requested
    BY <1>2
  <2>7. submitted' = Submitted(submissions)' + requested'.submissions
    BY <2>2, <2>5, <2>6
  <2>8. evaluated + 1 = (Holds(queue) + 1) + requested.evaluations + requested.dropped + Weight(flushes)
    <3> DEFINE a == Holds(queue)
               b == requested.evaluations
               c1 == requested.dropped
               d == Weight(flushes)
    <3>1. a \in Nat /\ b \in Nat /\ c1 \in Nat /\ d \in Nat /\ evaluated = a + b + c1 + d
      BY <2>1, <2>3, <2>5
    <3> HIDE DEF a, b, c1, d
    <3>2. evaluated + 1 = (a + 1) + b + c1 + d
      BY <3>1
    <3> QED
      BY <3>2 DEF a, b, c1, d
  <2>9. evaluated' = Holds(queue)' + requested'.evaluations + requested'.dropped + Weight(flushes)'
    BY <2>2, <2>3, <2>6, <2>8
  <2> QED
    BY <2>7, <2>9
<1>9. ContextsHeld'
  <2>1. SUFFICES ASSUME executing
        PROVE  /\ IsFiniteSet(Missing')
               /\ Cardinality(Missing') <= contexts'.dropped + requested'.contextsDropped
    BY <1>2 DEF ContextsHeld
  <2>2. PICK gone : /\ IsFiniteSet(gone)
                    /\ contexts'.dropped >= contexts.dropped + Cardinality(gone)
                    /\ (ToSet(contexts.keys) \cup {c}) \ {"anonymous"}
                         \subseteq ToSet(contexts'.keys) \cup gone
    BY <1>4
  <2>3. IsFiniteSet(Missing) /\ Cardinality(Missing) <= contexts.dropped + requested.contextsDropped
    BY <1>1, <2>1 DEF ContextsHeld
  <2>4. Missing' \in SUBSET (Missing \cup gone)
    <3>1. ReportedContexts' \subseteq ReportedContexts \cup ({c} \ {"anonymous"})
      BY <1>2, <1>3 DEF ReportedContexts
    <3>2. "anonymous" \notin ReportedContexts
      BY DEF ReportedContexts
    <3> QED
      BY <1>2, <2>2, <3>1, <3>2 DEF Missing
  <2>5. contexts.dropped \in Nat /\ contexts'.dropped \in Nat /\ requested.contextsDropped \in Nat
    BY <1>1, <1>4 DEF CollectorTypeOK, ContextMaps, Requests
  <2>6. /\ IsFiniteSet(Missing') /\ Cardinality(Missing) \in Nat /\ Cardinality(gone) \in Nat
        /\ Cardinality(Missing') \in Nat /\ Cardinality(Missing') <= Cardinality(Missing) + Cardinality(gone)
    BY <2>2, <2>3, <2>4, MissingGrows
  <2>7. requested'.contextsDropped = requested.contextsDropped
    BY <1>2
  <2> HIDE DEF Missing
  <2> QED
    BY <2>2, <2>3, <2>5, <2>6, <2>7
<1> QED
  BY <1>6, <1>7, <1>8, <1>9 DEF CollectorInv

LEMMA TrackedEventKeeps ==
  ASSUME CollectorInv, NEW call \in TrackCalls, TrackedEvent(call)
  PROVE  CollectorInv'
<1>1. CollectorTypeOK /\ StoppedIsEmpty /\ Conserved /\ ContextsHeld
  BY DEF CollectorInv
<1>2. /\ tracked' = Append(tracked, ReportedFields(call))
      /\ UNCHANGED <<collecting, timer, executing, queue, contexts, submissions, flushes, evaluated,
                     submitted, requested>>
  BY DEF TrackedEvent, history
<1>3. ReportedFields(call) \in SUBSET {"value", "details"}
  BY DEF ReportedFields
<1>4. CollectorTypeOK'
  BY <1>1, <1>2, <1>3 DEF CollectorTypeOK
<1>5. StoppedIsEmpty'
  BY <1>1, <1>2 DEF StoppedIsEmpty
<1>6. Conserved'
  BY <1>1, <1>2 DEF Conserved, Weight, InFlightOf, Holds
<1>7. ContextsHeld'
  BY <1>1, <1>2 DEF ContextsHeld, Missing, ReportedContexts
<1> QED
  BY <1>4, <1>5, <1>6, <1>7 DEF CollectorInv

\* Fewer reported contexts leave fewer missing.
LEMMA FewerMissing ==
  ASSUME CollectorInv, executing' => executing, UNCHANGED <<contexts, requested>>,
         ReportedContexts' \subseteq ReportedContexts
  PROVE  ContextsHeld'
<1>1. SUFFICES ASSUME executing
      PROVE  /\ IsFiniteSet(Missing')
             /\ Cardinality(Missing') <= contexts.dropped + requested.contextsDropped
  BY DEF ContextsHeld
<1>2. IsFiniteSet(Missing) /\ Cardinality(Missing) <= contexts.dropped + requested.contextsDropped
  BY <1>1 DEF CollectorInv, ContextsHeld
<1>3. Missing' \in SUBSET Missing
  BY DEF Missing
<1>4. IsFiniteSet(Missing') /\ Cardinality(Missing') <= Cardinality(Missing)
  BY <1>2, <1>3, FS_Subset
<1>5. /\ Cardinality(Missing') \in Nat /\ Cardinality(Missing) \in Nat
      /\ contexts.dropped \in Nat /\ requested.contextsDropped \in Nat
  BY <1>2, <1>4, FS_CardinalityType DEF CollectorInv, CollectorTypeOK, ContextMaps, Requests
<1> HIDE DEF Missing
<1> QED
  BY <1>2, <1>4, <1>5

\* A flush in place i takes the queue.
LEMMA TakingKeeps ==
  ASSUME CollectorInv, NEW purpose \in {"scheduled", "close"}, NEW f \in Flushes(purpose), NEW i,
         flushes' \in Seq(Flush), i \in DOMAIN flushes', flushes'[i] = f, queue' = EmptyQueue,
         \A j \in DOMAIN flushes : j # i => j \in DOMAIN flushes' /\ flushes'[j] = flushes[j],
         \A j \in DOMAIN flushes' : j # i => j \in DOMAIN flushes,
         i \in DOMAIN flushes => Hashed(flushes[i]),
         UNCHANGED <<executing, contexts, submissions, evaluated, submitted, requested>>
  PROVE  Conserved' /\ ContextsHeld'
<1>1. CollectorTypeOK
  BY DEF CollectorInv
<1>2. /\ f \in Flush /\ ~Hashed(f) /\ f.events = queue.events
      /\ Holds(f) = Len(queue.events) + queue.dropped
  BY <1>1, FlushesTake
<1>3. flushes \in Seq(Flush)
  BY <1>1 DEF CollectorTypeOK
<1>4. Weight(flushes') = Holds(f) + Weight(flushes) /\ Weight(flushes) \in Nat /\ Holds(f) \in Nat
  BY <1>2, <1>3, WeightOfMore
<1>5. Conserved'
  <2>1. SUFFICES ASSUME executing
        PROVE  /\ evaluated' = Holds(queue)' + requested'.evaluations + requested'.dropped + Weight(flushes)'
               /\ submitted' = Submitted(submissions)' + requested'.submissions
    BY DEF Conserved
  <2>2. /\ evaluated = Holds(queue) + requested.evaluations + requested.dropped + Weight(flushes)
        /\ submitted = Submitted(submissions) + requested.submissions
    BY <2>1 DEF CollectorInv, Conserved
  <2>3. Holds(queue)' = 0 /\ Holds(queue) = Holds(f)
    BY <1>2 DEF Holds, EmptyQueue
  <2>4. Weight(flushes)' = Holds(queue) + Weight(flushes)
    BY <1>4, <2>3
  <2>5. requested.evaluations \in Nat /\ requested.dropped \in Nat /\ Holds(queue) \in Nat
    BY <1>1, <1>4, <2>3 DEF CollectorTypeOK, Requests
  <2>6. evaluated = 0 + requested.evaluations + requested.dropped + (Holds(queue) + Weight(flushes))
    BY <1>4, <2>2, <2>5
  <2>7. evaluated' = Holds(queue)' + requested'.evaluations + requested'.dropped + Weight(flushes)'
    BY <2>3, <2>4, <2>6
  <2>8. submitted' = Submitted(submissions)' + requested'.submissions
    BY <2>2
  <2> QED
    BY <2>7, <2>8
<1>6. ReportedContexts' \subseteq ReportedContexts
  <2>1. ToSet(queue'.events) = {}
    BY DEF EmptyQueue, ToSet
  <2>2. \A j \in DOMAIN flushes' :
           \/ ToSet(flushes'[j].events) = ToSet(queue.events)
           \/ j \in DOMAIN flushes /\ flushes'[j] = flushes[j]
    BY <1>2
  <2> QED
    BY <2>1, <2>2 DEF ReportedContexts
<1>7. ContextsHeld'
  BY <1>6, FewerMissing
<1> QED
  BY <1>5, <1>7

LEMMA AppendedFlush ==
  ASSUME NEW s \in Seq(Flush), NEW f \in Flush
  PROVE  /\ Append(s, f) \in Seq(Flush) /\ Len(s) + 1 \in DOMAIN Append(s, f)
         /\ Append(s, f)[Len(s) + 1] = f /\ Len(s) + 1 \notin DOMAIN s
         /\ \A j \in DOMAIN s : j # Len(s) + 1 => j \in DOMAIN Append(s, f) /\ Append(s, f)[j] = s[j]
         /\ \A j \in DOMAIN Append(s, f) : j # Len(s) + 1 => j \in DOMAIN s
<1>1. Append(s, f) \in Seq(Flush) /\ DOMAIN Append(s, f) = 1 .. Len(s) + 1 /\ DOMAIN s = 1 .. Len(s)
      /\ Len(s) \in Nat
  OBVIOUS
<1>2. \A j \in 1 .. Len(s) + 1 : Append(s, f)[j] = IF j <= Len(s) THEN s[j] ELSE f
  OBVIOUS
<1> QED
  BY <1>1, <1>2

LEMMA BeginFlushKeeps ==
  ASSUME CollectorInv, NEW purpose \in {"scheduled", "close"}, BeginFlush(purpose),
         purpose = "close" => ~collecting', collecting' => collecting, collecting' \in BOOLEAN,
         timer' \in BOOLEAN,
         UNCHANGED <<executing, contexts, tracked, submissions, evaluated, submitted, requested>>
  PROVE  CollectorInv'
<1>1. CollectorTypeOK /\ StoppedIsEmpty
  BY DEF CollectorInv
<1>2. PICK f \in Flushes(purpose) : flushes' = Append(flushes, f)
  BY DEF BeginFlush
<1>3. f \in Flush /\ f.purpose = purpose
  BY <1>1, FlushesTake
<1>4. queue' = EmptyQueue
  BY DEF BeginFlush, AfterSnapshot
<1>5. flushes \in Seq(Flush)
  BY <1>1 DEF CollectorTypeOK
<1>6. /\ flushes' \in Seq(Flush) /\ Len(flushes) + 1 \in DOMAIN flushes'
      /\ flushes'[Len(flushes) + 1] = f /\ Len(flushes) + 1 \notin DOMAIN flushes
      /\ \A j \in DOMAIN flushes : j # Len(flushes) + 1 => j \in DOMAIN flushes' /\ flushes'[j] = flushes[j]
      /\ \A j \in DOMAIN flushes' : j # Len(flushes) + 1 => j \in DOMAIN flushes
  BY <1>2, <1>3, <1>5, AppendedFlush
<1>7. Conserved' /\ ContextsHeld'
  BY <1>4, <1>6, TakingKeeps
<1>8. CollectorTypeOK'
  BY <1>1, <1>4, <1>6, EmptyIsTyped DEF CollectorTypeOK
<1>9. StoppedIsEmpty'
  <2>1. \A j \in DOMAIN flushes' : flushes'[j].purpose = "close" => ~collecting'
    BY <1>1, <1>3, <1>6 DEF StoppedIsEmpty
  <2> QED
    BY <1>4, <2>1 DEF StoppedIsEmpty
<1> QED
  BY <1>7, <1>8, <1>9 DEF CollectorInv

\* A step of a flush that changes nothing of what it took.
LEMMA SteppingKeeps ==
  ASSUME CollectorInv, flushes' \in Seq(Flush), DOMAIN flushes' = DOMAIN flushes,
         \A j \in DOMAIN flushes : /\ Hashed(flushes[j]) = Hashed(flushes'[j])
                                   /\ flushes'[j].events = flushes[j].events
                                   /\ flushes'[j].dropped = flushes[j].dropped
                                   /\ flushes'[j].purpose = flushes[j].purpose,
         executing' \in BOOLEAN, executing' => executing,
         UNCHANGED <<collecting, timer, queue, contexts, tracked, submissions, evaluated, submitted,
                     requested>>
  PROVE  CollectorInv'
<1>1. CollectorTypeOK /\ StoppedIsEmpty
  BY DEF CollectorInv
<1>2. CollectorTypeOK'
  BY <1>1 DEF CollectorTypeOK
<1>3. StoppedIsEmpty'
  BY <1>1 DEF StoppedIsEmpty
<1>4. Conserved'
  <2>1. \A j \in DOMAIN flushes : Holds(flushes[j]) = Holds(flushes'[j])
    BY DEF Holds
  <2>2. flushes \in Seq(Flush)
    BY <1>1 DEF CollectorTypeOK
  <2>3. Weight(flushes') = Weight(flushes)
    BY <2>1, <2>2, WeightOfSame
  <2>4. Weight(flushes)' = Weight(flushes) /\ Holds(queue)' = Holds(queue)
        /\ Submitted(submissions)' = Submitted(submissions)
    BY <2>3
  <2> QED
    BY <2>4 DEF CollectorInv, Conserved
<1>5. ContextsHeld'
  <2>1. ReportedContexts' \subseteq ReportedContexts
    BY DEF ReportedContexts
  <2> QED
    BY <2>1, FewerMissing
<1> QED
  BY <1>2, <1>3, <1>4, <1>5 DEF CollectorInv

LEMMA HashingEndsKeeps ==
  ASSUME CollectorInv, NEW i \in DOMAIN flushes, HashingEnds(i)
  PROVE  CollectorInv'
<1>1. flushes \in Seq(Flush) /\ executing \in BOOLEAN
  BY DEF CollectorInv, CollectorTypeOK
<1>2. /\ flushes[i] \in Flush /\ flushes[i].stage = "hashing"
      /\ flushes' = [flushes EXCEPT ![i].stage = "report"]
      /\ UNCHANGED <<collecting, timer, executing, queue, contexts, tracked, submissions, evaluated,
                     submitted, requested>>
  BY <1>1 DEF HashingEnds, queues, history
<1> DEFINE f == [flushes[i] EXCEPT !.stage = "report"]
<1>3. /\ f \in Flush /\ f.events = flushes[i].events /\ f.dropped = flushes[i].dropped
      /\ f.purpose = flushes[i].purpose /\ ~Hashed(f) /\ ~Hashed(flushes[i])
  BY <1>2 DEF Flush, Hashed
<1>4. flushes' = [flushes EXCEPT ![i] = f]
  BY <1>2
<1> HIDE DEF f
<1>5. flushes' \in Seq(Flush) /\ DOMAIN flushes' = DOMAIN flushes
  BY <1>1, <1>3, <1>4
<1>6. \A j \in DOMAIN flushes : flushes'[j] = IF j = i THEN f ELSE flushes[j]
  BY <1>1, <1>4
<1>7. \A j \in DOMAIN flushes : /\ Hashed(flushes[j]) = Hashed(flushes'[j])
                                /\ flushes'[j].events = flushes[j].events
                                /\ flushes'[j].dropped = flushes[j].dropped
                                /\ flushes'[j].purpose = flushes[j].purpose
  <2> TAKE j \in DOMAIN flushes
  <2>1. Hashed(f) = Hashed(flushes[i])
    BY <1>3 DEF Hashed
  <2>2. flushes'[j] = IF j = i THEN f ELSE flushes[j]
    BY <1>6
  <2>3. CASE j = i
    <3>1. flushes'[j] = f
      BY <2>2, <2>3
    <3> QED
      BY <1>3, <2>1, <2>3, <3>1
  <2>4. CASE j # i
    <3>1. flushes'[j] = flushes[j]
      BY <2>2, <2>4
    <3> QED
      BY <3>1
  <2> QED
    BY <2>3, <2>4
<1>8. executing' \in BOOLEAN /\ (executing' => executing)
  BY <1>1, <1>2
<1> QED
  BY <1>2, <1>5, <1>7, <1>8, SteppingKeeps

LEMMA ReportAnsweredKeeps ==
  ASSUME CollectorInv, NEW i \in DOMAIN flushes, ReportAnswered(i)
  PROVE  CollectorInv'
<1>1. flushes \in Seq(Flush) /\ executing \in BOOLEAN
  BY DEF CollectorInv, CollectorTypeOK
<1>0. /\ flushes[i] \in Flush /\ flushes[i].stage = "sending"
      /\ UNCHANGED <<collecting, timer, queue, contexts, tracked, submissions, evaluated, submitted,
                     requested>>
  BY <1>1 DEF ReportAnswered, queues, history
<1>2. PICK fatal \in BOOLEAN :
      /\ flushes' = [flushes EXCEPT ![i].stage = "answered", ![i].fatal = fatal]
      /\ executing' = (executing /\ ~fatal)
  BY DEF ReportAnswered
<1> DEFINE f == [flushes[i] EXCEPT !.stage = "answered", !.fatal = fatal]
<1>3. /\ f \in Flush /\ f.events = flushes[i].events /\ f.dropped = flushes[i].dropped
      /\ f.purpose = flushes[i].purpose /\ Hashed(f) /\ Hashed(flushes[i])
  BY <1>0, <1>2 DEF Flush, Hashed
<1>4. flushes' = [flushes EXCEPT ![i] = f]
  BY <1>1, <1>2
<1> HIDE DEF f
<1>5. flushes' \in Seq(Flush) /\ DOMAIN flushes' = DOMAIN flushes
  BY <1>1, <1>3, <1>4
<1>6. \A j \in DOMAIN flushes : flushes'[j] = IF j = i THEN f ELSE flushes[j]
  BY <1>1, <1>4
<1>7. \A j \in DOMAIN flushes : /\ Hashed(flushes[j]) = Hashed(flushes'[j])
                                /\ flushes'[j].events = flushes[j].events
                                /\ flushes'[j].dropped = flushes[j].dropped
                                /\ flushes'[j].purpose = flushes[j].purpose
  <2> TAKE j \in DOMAIN flushes
  <2>1. Hashed(f) = Hashed(flushes[i])
    BY <1>3 DEF Hashed
  <2>2. flushes'[j] = IF j = i THEN f ELSE flushes[j]
    BY <1>6
  <2>3. CASE j = i
    <3>1. flushes'[j] = f
      BY <2>2, <2>3
    <3> QED
      BY <1>3, <2>1, <2>3, <3>1
  <2>4. CASE j # i
    <3>1. flushes'[j] = flushes[j]
      BY <2>2, <2>4
    <3> QED
      BY <3>1
  <2> QED
    BY <2>3, <2>4
<1>8. executing' \in BOOLEAN /\ (executing' => executing)
  BY <1>1, <1>2
<1> QED
  BY <1>0, <1>2, <1>5, <1>7, <1>8, SteppingKeeps

LEMMA FlushTimeoutKeeps ==
  ASSUME CollectorInv, FlushTimeout
  PROVE  CollectorInv'
<1>1. BeginFlush("scheduled") /\ timer' \in BOOLEAN
  BY DEF FlushTimeout
<1>2. UNCHANGED <<collecting, executing, contexts, tracked, submissions, evaluated, submitted, requested>>
  BY DEF FlushTimeout, history
<1>3. collecting' \in BOOLEAN /\ (collecting' => collecting)
  BY <1>2 DEF CollectorInv, CollectorTypeOK
<1> QED
  BY <1>1, <1>2, <1>3, BeginFlushKeeps

LEMMA CloseKeeps ==
  ASSUME CollectorInv, Close
  PROVE  CollectorInv'
<1>1. BeginFlush("close") /\ timer' \in BOOLEAN /\ collecting' \in BOOLEAN /\ ~collecting'
  BY DEF Close
<1>2. UNCHANGED <<executing, contexts, tracked, submissions, evaluated, submitted, requested>>
  BY DEF Close, history
<1> QED
  BY <1>1, <1>2, BeginFlushKeeps

\* What a flush takes has its type, and what it counts is what the collector held.
LEMMA GatheredCounts ==
  ASSUME CollectorTypeOK, NEW i \in DOMAIN flushes, NEW f, f = Gathered(flushes[i])
  PROVE  /\ f \in Flush
         /\ f.events = flushes[i].events /\ f.dropped = flushes[i].dropped
         /\ f.purpose = flushes[i].purpose
         /\ f.contexts = ToSet(contexts.keys) /\ f.contextsDropped = contexts.dropped
         /\ SumOf(f.invalid) = Submitted(submissions)
<1>1. flushes[i] \in Flush
  BY DEF CollectorTypeOK
<1>2. contexts.keys \in Seq(Identified) /\ contexts.dropped \in Nat
  BY DEF CollectorTypeOK, ContextMaps
<1>3. ToSet(contexts.keys) \in SUBSET Identified
  BY <1>2 DEF ToSet
<1>4. tracked \in Seq(SUBSET {"value", "details"})
  BY DEF CollectorTypeOK
<1>5. /\ SubmissionEntries(submissions) \in Numbers(Samples \cup {"none"})
      /\ SumOf(SubmissionEntries(submissions)) = Submitted(submissions)
  BY EntriesCount DEF CollectorTypeOK
<1>6. f = [flushes[i] EXCEPT !.contexts = ToSet(contexts.keys), !.contextsDropped = contexts.dropped,
                             !.batch = tracked, !.invalid = SubmissionEntries(submissions)]
  BY DEF Gathered
<1> DEFINE keys == ToSet(contexts.keys)
           entries == SubmissionEntries(submissions)
           total == Submitted(submissions)
<1> HIDE DEF keys, entries, total
<1>7. /\ keys \in SUBSET Identified /\ entries \in Numbers(Samples \cup {"none"}) /\ SumOf(entries) = total
      /\ f = [flushes[i] EXCEPT !.contexts = keys, !.contextsDropped = contexts.dropped,
                                !.batch = tracked, !.invalid = entries]
  BY <1>3, <1>5, <1>6 DEF keys, entries, total
<1>8. f \in Flush
  BY <1>1, <1>2, <1>4, <1>7 DEF Flush
<1>9. /\ f.events = flushes[i].events /\ f.dropped = flushes[i].dropped
      /\ f.purpose = flushes[i].purpose
      /\ f.contexts = keys /\ f.contextsDropped = contexts.dropped
      /\ f.invalid = entries
  BY <1>1, <1>7 DEF Flush
<1> QED
  BY <1>7, <1>8, <1>9 DEF keys, entries, total

LEMMA ReportKeeps ==
  ASSUME CollectorInv, NEW i \in DOMAIN flushes, Report(i)
  PROVE  CollectorInv'
<1>1. CollectorTypeOK /\ StoppedIsEmpty /\ Conserved /\ ContextsHeld
  BY DEF CollectorInv
<1> DEFINE f == Gathered(flushes[i])
           g == [f EXCEPT !.fatal = ~executing,
                          !.stage = IF executing /\ ~IsReportEmpty(f) THEN "sending" ELSE "answered"]
<1>2. /\ flushes[i].stage = "report"
      /\ contexts' = EmptyMap /\ tracked' = <<>> /\ submissions' = NoSubmissions
      /\ flushes' = [flushes EXCEPT ![i] = g]
      /\ requested' = IF executing THEN With(requested, f) ELSE requested
      /\ UNCHANGED <<collecting, timer, executing, queue, evaluated, submitted>>
  BY DEF Report
<1>3. /\ f \in Flush
      /\ f.events = flushes[i].events /\ f.dropped = flushes[i].dropped
      /\ f.purpose = flushes[i].purpose
      /\ f.contexts = ToSet(contexts.keys) /\ f.contextsDropped = contexts.dropped
      /\ SumOf(f.invalid) = Submitted(submissions)
  BY <1>1, GatheredCounts
<1> HIDE DEF f
<1>4. /\ g \in Flush /\ g.events = flushes[i].events /\ g.dropped = flushes[i].dropped
      /\ g.purpose = flushes[i].purpose /\ Hashed(g)
  <2> DEFINE after == IF executing /\ ~IsReportEmpty(f) THEN "sending" ELSE "answered"
             none == ~executing
  <2>1. after \in {"sending", "answered"} /\ none \in BOOLEAN /\ g = [f EXCEPT !.fatal = none, !.stage = after]
    BY <1>1 DEF CollectorTypeOK
  <2> HIDE DEF after, none, g
  <2>2. g \in Flush
    BY <1>3, <2>1 DEF Flush
  <2> QED
    BY <1>3, <2>1, <2>2 DEF Flush, Hashed
<1> HIDE DEF g
<1>5. flushes \in Seq(Flush) /\ flushes' \in Seq(Flush) /\ DOMAIN flushes' = DOMAIN flushes
  BY <1>1, <1>2, <1>4 DEF CollectorTypeOK
<1>6. /\ flushes'[i] = g /\ i \in DOMAIN flushes'
      /\ \A j \in DOMAIN flushes : j # i => flushes'[j] = flushes[j]
  BY <1>2, <1>5
<1>7. Weight(flushes) = Holds(flushes[i]) + Weight(flushes') /\ Weight(flushes') \in Nat
      /\ Holds(flushes[i]) \in Nat
  <2>1. ~Hashed(flushes[i])
    BY <1>2 DEF Hashed
  <2>2. \A j \in DOMAIN flushes' : j # i => j \in DOMAIN flushes /\ flushes[j] = flushes'[j]
    BY <1>5, <1>6
  <2>3. \A j \in DOMAIN flushes : j # i => j \in DOMAIN flushes'
    BY <1>5
  <2>4. i \in DOMAIN flushes' => Hashed(flushes'[i])
    BY <1>4, <1>6
  <2> QED
    BY <1>5, <2>1, <2>2, <2>3, <2>4, WeightOfMore
<1>8. /\ With(requested, f) \in Requests
      /\ With(requested, f).evaluations = requested.evaluations + Len(f.events)
      /\ With(requested, f).dropped = requested.dropped + f.dropped
      /\ With(requested, f).contexts = requested.contexts \cup f.contexts
      /\ With(requested, f).contextsDropped = requested.contextsDropped + f.contextsDropped
      /\ With(requested, f).submissions = requested.submissions + Submitted(submissions)
  <2>1. /\ requested.evaluations \in Nat /\ requested.dropped \in Nat /\ requested.submissions \in Nat
        /\ requested.contextsDropped \in Nat /\ requested.contexts \in SUBSET Identified
    BY <1>1 DEF CollectorTypeOK, Requests
  <2>2. f.events \in Seq(Contexts) /\ f.dropped \in Nat /\ f.contexts \in SUBSET Identified
        /\ f.contextsDropped \in Nat
    BY <1>3 DEF Flush
  <2>3. AggregateSum(Aggregate(f.events)) = Len(f.events) /\ Len(f.events) \in Nat
    BY <2>2, AggregationCounts
  <2>4. Submitted(submissions) \in Nat
    BY <1>1, EntriesCount DEF CollectorTypeOK
  <2>5. With(requested, f) =
          [evaluations |-> requested.evaluations + Len(f.events),
           contexts |-> requested.contexts \cup f.contexts,
           submissions |-> requested.submissions + Submitted(submissions),
           dropped |-> requested.dropped + f.dropped,
           contextsDropped |-> requested.contextsDropped + f.contextsDropped]
    BY <1>3, <2>3 DEF With
  <2> DEFINE total == Submitted(submissions)
             w == With(requested, f)
  <2>6. total \in Nat /\ w =
          [evaluations |-> requested.evaluations + Len(f.events),
           contexts |-> requested.contexts \cup f.contexts,
           submissions |-> requested.submissions + total,
           dropped |-> requested.dropped + f.dropped,
           contextsDropped |-> requested.contextsDropped + f.contextsDropped]
    BY <2>4, <2>5
  <2> HIDE DEF total, w
  <2>7. w \in Requests
    <3>1. requested.contexts \cup f.contexts \in SUBSET Identified
      BY <2>1, <2>2
    <3>2. /\ requested.evaluations + Len(f.events) \in Nat /\ requested.submissions + total \in Nat
          /\ requested.dropped + f.dropped \in Nat
          /\ requested.contextsDropped + f.contextsDropped \in Nat
      <4>1. total \in Nat
        BY <2>6
      <4>2. requested.evaluations + Len(f.events) \in Nat
        BY <2>1, <2>3
      <4>3. requested.submissions + total \in Nat
        BY <2>1, <4>1
      <4>4. requested.dropped + f.dropped \in Nat
        BY <2>1, <2>2
      <4>5. requested.contextsDropped + f.contextsDropped \in Nat
        BY <2>1, <2>2
      <4> QED
        BY <4>2, <4>3, <4>4, <4>5
    <3> QED
      BY <2>6, <3>1, <3>2 DEF Requests
  <2>8. /\ w.evaluations = requested.evaluations + Len(f.events)
        /\ w.dropped = requested.dropped + f.dropped
        /\ w.contexts = requested.contexts \cup f.contexts
        /\ w.contextsDropped = requested.contextsDropped + f.contextsDropped
        /\ w.submissions = requested.submissions + total
    BY <2>6
  <2> QED
    BY <2>7, <2>8 DEF total, w
<1>9. CollectorTypeOK'
  <2>1. requested' \in Requests
    BY <1>1, <1>2, <1>8 DEF CollectorTypeOK
  <2> QED
    BY <1>1, <1>2, <1>5, <2>1, EmptyIsTyped DEF CollectorTypeOK
<1>10. StoppedIsEmpty'
  <2>1. \A j \in DOMAIN flushes' : flushes'[j].purpose = flushes[j].purpose
    BY <1>4, <1>5, <1>6
  <2> QED
    BY <1>1, <1>2, <1>5, <2>1 DEF StoppedIsEmpty
<1>11. Conserved'
  <2>1. SUFFICES ASSUME executing
        PROVE  /\ evaluated' = Holds(queue)' + requested'.evaluations + requested'.dropped + Weight(flushes)'
               /\ submitted' = Submitted(submissions)' + requested'.submissions
    BY <1>2 DEF Conserved
  <2>2. /\ evaluated = Holds(queue) + requested.evaluations + requested.dropped + Weight(flushes)
        /\ submitted = Submitted(submissions) + requested.submissions
    BY <1>1, <2>1 DEF Conserved
  <2>3. requested' = With(requested, f)
    BY <1>2, <2>1
  <2>4. requested'.submissions = requested.submissions + Submitted(submissions) /\ Submitted(submissions)' = 0
    <3>1. Submitted(NoSubmissions) = 0
      BY EmptyIsTyped
    <3> QED
      BY <1>2, <1>8, <2>3, <3>1
  <2>5. submitted' = Submitted(submissions)' + requested'.submissions
    <3>1. requested.submissions \in Nat /\ Submitted(submissions) \in Nat
      BY <1>1, EntriesCount DEF CollectorTypeOK, Requests
    <3>2. submitted = 0 + (requested.submissions + Submitted(submissions))
      BY <2>2, <3>1
    <3> QED
      BY <1>2, <2>4, <3>2
  <2>6. /\ requested'.evaluations = requested.evaluations + Len(f.events)
        /\ requested'.dropped = requested.dropped + f.dropped
    BY <1>8, <2>3
  <2>7. Holds(flushes[i]) = Len(f.events) + f.dropped /\ Len(f.events) \in Nat /\ f.dropped \in Nat
    BY <1>3 DEF Holds, Flush
  <2>8. /\ requested.evaluations \in Nat /\ requested.dropped \in Nat /\ Holds(queue) \in Nat
    BY <1>1 DEF CollectorTypeOK, Requests, EventQueues, Holds
  <2>9. evaluated = Holds(queue) + (requested.evaluations + Len(f.events)) + (requested.dropped + f.dropped)
                      + Weight(flushes')
    <3> DEFINE a == Holds(queue)
               b == requested.evaluations
               c == requested.dropped
               d == Len(f.events)
               e == f.dropped
               w == Weight(flushes')
               v == evaluated
    <3>1. v = a + b + c + ((d + e) + w)
      BY <1>7, <2>2, <2>7
    <3>2. a \in Nat /\ b \in Nat /\ c \in Nat /\ d \in Nat /\ e \in Nat /\ w \in Nat
      BY <1>7, <2>7, <2>8
    <3> HIDE DEF a, b, c, d, e, w, v
    <3>3. v = a + (b + d) + (c + e) + w
      BY <3>1, <3>2
    <3> QED
      BY <3>3 DEF a, b, c, d, e, w, v
  <2>10. Holds(queue)' = Holds(queue) /\ Weight(flushes)' = Weight(flushes') /\ evaluated' = evaluated
    BY <1>2
  <2>11. evaluated' = Holds(queue)' + requested'.evaluations + requested'.dropped + Weight(flushes)'
    BY <2>6, <2>9, <2>10
  <2> QED
    BY <2>5, <2>11
<1>12. ContextsHeld'
  <2>1. SUFFICES ASSUME executing
        PROVE  /\ IsFiniteSet(Missing')
               /\ Cardinality(Missing') <= contexts'.dropped + requested'.contextsDropped
    BY <1>2 DEF ContextsHeld
  <2>2. IsFiniteSet(Missing) /\ Cardinality(Missing) <= contexts.dropped + requested.contextsDropped
    BY <1>1, <2>1 DEF ContextsHeld
  <2>3. /\ requested'.contexts = requested.contexts \cup ToSet(contexts.keys)
        /\ requested'.contextsDropped = requested.contextsDropped + contexts.dropped
    BY <1>2, <1>3, <1>8, <2>1
  <2>4. ReportedContexts' = ReportedContexts
    <3>1. \A j \in DOMAIN flushes : flushes'[j].events = flushes[j].events
      BY <1>4, <1>5, <1>6
    <3>2. {ToSet(flushes'[j].events) : j \in DOMAIN flushes'}
            = {ToSet(flushes[j].events) : j \in DOMAIN flushes}
      BY <1>5, <3>1
    <3> QED
      BY <1>2, <3>2 DEF ReportedContexts
  <2>5. Missing' \in SUBSET Missing
    BY <2>3, <2>4 DEF Missing
  <2>6. IsFiniteSet(Missing') /\ Cardinality(Missing') <= Cardinality(Missing)
    BY <2>2, <2>5, FS_Subset
  <2>7. /\ Cardinality(Missing') \in Nat /\ Cardinality(Missing) \in Nat
        /\ contexts.dropped \in Nat /\ requested.contextsDropped \in Nat
    BY <1>1, <2>2, <2>6, FS_CardinalityType DEF CollectorTypeOK, ContextMaps, Requests
  <2>8. contexts'.dropped = 0
    BY <1>2 DEF EmptyMap
  <2> HIDE DEF Missing
  <2>9. Cardinality(Missing') <= 0 + (requested.contextsDropped + contexts.dropped)
    BY <2>2, <2>6, <2>7
  <2> QED
    BY <2>3, <2>6, <2>8, <2>9
<1> QED
  BY <1>9, <1>10, <1>11, <1>12 DEF CollectorInv

\* A flush that ends leaves the others, in their order.
LEMMA RemovalKeepsFlushes ==
  ASSUME CollectorInv, NEW i \in DOMAIN flushes, Hashed(flushes[i]),
         flushes' = RemoveAt(flushes, i), queue' = queue, collecting' = collecting,
         timer' \in BOOLEAN, tracked' \in Seq(SUBSET {"value", "details"}),
         UNCHANGED <<executing, contexts, submissions, evaluated, submitted, requested>>
  PROVE  CollectorInv'
<1>1. CollectorTypeOK /\ StoppedIsEmpty /\ Conserved /\ ContextsHeld
  BY DEF CollectorInv
<1>2. flushes \in Seq(Flush)
  BY <1>1 DEF CollectorTypeOK
<1>3. flushes' \in Seq(Flush) /\ Weight(flushes') = Weight(flushes)
  BY <1>2, WeightOfRemoved
<1>4. \A j \in DOMAIN flushes' : \E k \in DOMAIN flushes : flushes'[j] = flushes[k]
  <2>1. /\ DOMAIN flushes' = 1 .. Len(flushes) - 1
        /\ \A j \in DOMAIN flushes' : flushes'[j] = IF j < i THEN flushes[j] ELSE flushes[j + 1]
    BY <1>2, RemovalShifts
  <2>2. DOMAIN flushes = 1 .. Len(flushes) /\ Len(flushes) \in Nat
    BY <1>2
  <2> TAKE j \in DOMAIN flushes'
  <2>3. j \in DOMAIN flushes /\ j + 1 \in DOMAIN flushes
    BY <2>1, <2>2
  <2> QED
    BY <2>1, <2>3
<1>5. CollectorTypeOK'
  BY <1>1, <1>3 DEF CollectorTypeOK
<1>6. StoppedIsEmpty'
  <2>1. \A j \in DOMAIN flushes' : flushes'[j].purpose = "close" => ~collecting'
    BY <1>1, <1>4 DEF StoppedIsEmpty
  <2> QED
    BY <1>1, <2>1 DEF StoppedIsEmpty
<1>7. Conserved'
  <2>1. Weight(flushes)' = Weight(flushes) /\ Holds(queue)' = Holds(queue)
        /\ Submitted(submissions)' = Submitted(submissions)
    BY <1>3
  <2> QED
    BY <1>1, <2>1 DEF Conserved
<1>8. ContextsHeld'
  <2>1. ReportedContexts' \subseteq ReportedContexts
    BY <1>4 DEF ReportedContexts
  <2> QED
    BY <2>1, FewerMissing
<1> QED
  BY <1>5, <1>6, <1>7, <1>8 DEF CollectorInv

LEMMA ScheduleNextKeeps ==
  ASSUME CollectorInv, NEW i \in DOMAIN flushes, Hashed(flushes[i]), ScheduleNext(i),
         UNCHANGED <<executing, contexts, submissions, evaluated, submitted, requested>>
  PROVE  CollectorInv'
<1>1. CollectorTypeOK /\ StoppedIsEmpty /\ Conserved /\ ContextsHeld
  BY DEF CollectorInv
<1>2. tracked' = tracked /\ tracked \in Seq(SUBSET {"value", "details"}) /\ flushes \in Seq(Flush)
  BY <1>1 DEF ScheduleNext, CollectorTypeOK
<1>3. CASE /\ ~collecting' /\ collecting' \in BOOLEAN /\ ~timer' /\ timer' \in BOOLEAN
           /\ \E f \in Flushes("close") : flushes' = [flushes EXCEPT ![i] = f]
           /\ queue' = AfterSnapshot(queue)
  <2>1. PICK f \in Flushes("close") : flushes' = [flushes EXCEPT ![i] = f]
    BY <1>3
  <2>2. f \in Flush /\ f.purpose = "close"
    BY <1>1, FlushesTake
  <2>3. queue' = EmptyQueue
    BY <1>3 DEF AfterSnapshot
  <2>4. /\ flushes' \in Seq(Flush) /\ DOMAIN flushes' = DOMAIN flushes /\ flushes'[i] = f
        /\ \A j \in DOMAIN flushes : j # i => flushes'[j] = flushes[j]
    BY <1>2, <2>1, <2>2
  <2>5. Conserved' /\ ContextsHeld'
    BY <2>3, <2>4, TakingKeeps
  <2>6. CollectorTypeOK'
    BY <1>1, <1>2, <1>3, <2>3, <2>4, EmptyIsTyped DEF CollectorTypeOK
  <2>7. StoppedIsEmpty'
    BY <1>3, <2>3 DEF StoppedIsEmpty
  <2> QED
    BY <2>5, <2>6, <2>7 DEF CollectorInv
<1>4. CASE timer' = collecting /\ flushes' = RemoveAt(flushes, i) /\ UNCHANGED <<collecting, queue>>
  <2>1. timer' \in BOOLEAN
    BY <1>1, <1>4 DEF CollectorTypeOK
  <2> QED
    BY <1>2, <1>4, <2>1, RemovalKeepsFlushes
<1> QED
  BY <1>3, <1>4 DEF ScheduleNext

LEMMA ClearQueuesKeeps ==
  ASSUME CollectorInv, NEW i \in DOMAIN flushes, Hashed(flushes[i]), ClearQueues(i),
         UNCHANGED <<executing, contexts, submissions, evaluated, submitted, requested>>
  PROVE  CollectorInv'
<1>1. CollectorTypeOK /\ StoppedIsEmpty
  BY DEF CollectorInv
<1>2. queue' = EmptyQueue /\ queue = EmptyQueue
  BY <1>1 DEF ClearQueues, StoppedIsEmpty
<1>3. tracked' \in Seq(SUBSET {"value", "details"})
  BY DEF ClearQueues
<1>4. flushes' = RemoveAt(flushes, i) /\ collecting' = collecting /\ timer' \in BOOLEAN
  BY <1>1 DEF ClearQueues, CollectorTypeOK
<1> QED
  BY <1>2, <1>3, <1>4, RemovalKeepsFlushes

LEMMA FlushReturnsKeeps ==
  ASSUME CollectorInv, NEW i \in DOMAIN flushes, FlushReturns(i)
  PROVE  CollectorInv'
<1>1. Hashed(flushes[i])
  BY DEF FlushReturns, Hashed
<1>2. UNCHANGED <<executing, contexts, submissions, evaluated, submitted, requested>>
  BY DEF FlushReturns, history
<1>3. ScheduleNext(i) \/ ClearQueues(i)
  BY DEF FlushReturns
<1> QED
  BY <1>1, <1>2, <1>3, ScheduleNextKeeps, ClearQueuesKeeps

LEMMA CollectorStarts == ASSUME TelemetryInit PROVE CollectorInv
<1>1. /\ collecting = TRUE /\ timer = TRUE /\ executing = TRUE
      /\ queue = EmptyQueue /\ contexts = EmptyMap /\ tracked = <<>> /\ submissions = NoSubmissions
      /\ flushes = <<>> /\ evaluated = 0 /\ submitted = 0 /\ requested = NothingRequested
  BY DEF TelemetryInit
<1>2. NothingRequested \in Requests
  BY DEF NothingRequested, Requests
<1>3. DOMAIN flushes = {} /\ flushes \in Seq(Flush)
  BY <1>1
<1>4. CollectorTypeOK
  BY <1>1, <1>2, <1>3, EmptyIsTyped DEF CollectorTypeOK
<1>5. StoppedIsEmpty
  BY <1>1, <1>3 DEF StoppedIsEmpty
<1>6. Conserved
  <2>1. DOMAIN InFlightOf(flushes) = {}
    BY <1>3 DEF InFlightOf
  <2>2. Weight(flushes) = 0
    BY <2>1, SumOfNothing DEF Weight
  <2>3. Holds(queue) = 0
    BY <1>1 DEF Holds, EmptyQueue
  <2>4. requested.evaluations = 0 /\ requested.dropped = 0 /\ requested.submissions = 0
    BY <1>1 DEF NothingRequested
  <2>5. Submitted(submissions) = 0
    BY <1>1, EmptyIsTyped
  <2> QED
    BY <1>1, <2>2, <2>3, <2>4, <2>5 DEF Conserved
<1>7. ContextsHeld
  <2>1. ToSet(queue.events) = {}
    BY <1>1 DEF EmptyQueue, ToSet
  <2>2. UNION {ToSet(flushes[i].events) : i \in DOMAIN flushes} = {}
    BY <1>3
  <2>3. Missing = {}
    BY <2>1, <2>2 DEF Missing, ReportedContexts
  <2>4. contexts.dropped = 0 /\ requested.contextsDropped = 0
    BY <1>1 DEF EmptyMap, NothingRequested
  <2> QED
    BY <2>3, <2>4, FS_EmptySet DEF ContextsHeld
<1> QED
  BY <1>4, <1>5, <1>6, <1>7 DEF CollectorInv

LEMMA CollectorSteps == ASSUME CollectorInv, [TelemetryNext]_telemetryVars PROVE CollectorInv'
<1>1. ASSUME NEW c \in Contexts, EvaluatedConfig(c) PROVE CollectorInv'
  BY <1>1, EvaluatedConfigKeeps
<1>2. ASSUME NEW call \in TrackCalls, TrackedEvent(call) PROVE CollectorInv'
  BY <1>2, TrackedEventKeeps
<1>3. ASSUME NEW sample \in Samples, RecordInvalidContext(sample) PROVE CollectorInv'
  BY <1>3, RecordInvalidContextKeeps
<1>4. CASE FlushTimeout
  BY <1>4, FlushTimeoutKeeps
<1>5. CASE Close
  BY <1>5, CloseKeeps
<1>6. ASSUME NEW i \in DOMAIN flushes, Reaction(i) PROVE CollectorInv'
  BY <1>6, ReportKeeps, FlushReturnsKeeps DEF Reaction
<1>7. ASSUME NEW i \in DOMAIN flushes, HashingEnds(i) PROVE CollectorInv'
  BY <1>7, HashingEndsKeeps
<1>8. ASSUME NEW i \in DOMAIN flushes, ReportAnswered(i) PROVE CollectorInv'
  BY <1>8, ReportAnsweredKeeps
<1>9. CASE UNCHANGED telemetryVars
  <2>1. UNCHANGED <<collecting, timer, executing, queue, contexts, tracked, submissions, flushes,
                    evaluated, submitted, requested>>
    BY <1>9 DEF telemetryVars, queues, history
  <2>2. Conserved'
    BY <2>1 DEF CollectorInv, Conserved, Weight, InFlightOf, Holds
  <2>3. ContextsHeld'
    BY <2>1 DEF CollectorInv, ContextsHeld, Missing, ReportedContexts
  <2>4. CollectorTypeOK' /\ StoppedIsEmpty'
    BY <2>1 DEF CollectorInv, CollectorTypeOK, StoppedIsEmpty
  <2> QED
    BY <2>2, <2>3, <2>4 DEF CollectorInv
<1> QED
  BY <1>1, <1>2, <1>3, <1>4, <1>5, <1>6, <1>7, <1>8, <1>9 DEF TelemetryNext

LEMMA CollectorInvariant == TelemetrySpec => []CollectorInv
<1>1. TelemetryInit => CollectorInv
  BY CollectorStarts
<1>2. CollectorInv /\ [TelemetryNext]_telemetryVars => CollectorInv'
  BY CollectorSteps
<1> QED
  BY <1>1, <1>2, PTL DEF TelemetrySpec

\* Every number the server records is queued, in a flush, counted in a request or counted
\* as dropped, for all limits and any number of records and flushes
\* (ServerTelemetryEventCollector.flush, EventQueue, InvalidContextSubmissions).
THEOREM NumbersAlwaysConserved == TelemetrySpec => []CountsAreConserved
<1>1. CollectorInv => CountsAreConserved
  <2> SUFFICES ASSUME CollectorInv PROVE CountsAreConserved
    OBVIOUS
  <2>1. SUFFICES ASSUME executing
        PROVE  /\ evaluated = Len(queue.events) + queue.dropped + requested.evaluations + requested.dropped
                    + SumOf([i \in Unsent |-> Len(flushes[i].events) + flushes[i].dropped])
               /\ submitted = Submitted(submissions) + requested.submissions
    BY DEF CountsAreConserved
  <2>2. /\ evaluated = (Len(queue.events) + queue.dropped) + requested.evaluations
                            + requested.dropped + Weight(flushes)
        /\ submitted = Submitted(submissions) + requested.submissions
    BY <2>1 DEF CollectorInv, Conserved, Holds
  <2> QED
    BY <2>2, InFlightIsWeight
<1> QED
  BY <1>1, CollectorInvariant, PTL

\* The context of whatever evaluation is or will be reported has been put in a request,
\* waits for one, or is one of those counted as dropped, for all limits
\* (ServerTelemetryEventCollector.flush takes the contexts after its await).
THEOREM ContextsAlwaysFollow == TelemetrySpec => []ContextsFollowEvaluations
<1>1. CollectorInv => ContextsFollowEvaluations
  BY DEF CollectorInv, ContextsHeld, ContextsFollowEvaluations, Missing
<1> QED
  BY <1>1, CollectorInvariant, PTL

(***************************************************************************)
(* The evaluator.                                                          *)
(***************************************************************************)

ServerWalks == input.side = "server" /\ at \in {"walking", "reading"}
ExplainedWith(known, i) ==
    ExplainRule(Config.rules[i], known, input.bucket, context, input.metadata)
AdmittedInput ==
    /\ input \in Inputs
    /\ at = "walking" => input.side = "server"
    /\ ServerWalks => input.config # {} /\ context = AdmittedContext(input.context)

LEMMA ConfigIsTyped ==
  ASSUME AdmittedInput, ServerWalks
  PROVE  /\ IsConfig(Config)
         /\ \A s \in DOMAIN input.segments : IsSegment(input.segments[s])
<1>1. input \in Inputs /\ input.side = "server" /\ input.config # {}
  BY DEF AdmittedInput, ServerWalks
<1>2. Config \in input.config
  BY <1>1 DEF Config
<1> QED
  BY <1>1, <1>2, InputsAssumption

LEMMA AdmittedInputHolds == EvaluationSpec => []AdmittedInput
<1>1. EvaluationInit => AdmittedInput
  BY DEF EvaluationInit, AdmittedInput, ServerWalks
<1>2. AdmittedInput /\ [EvaluationNext]_evaluationVars => AdmittedInput'
  <2> SUFFICES ASSUME AdmittedInput, [EvaluationNext]_evaluationVars
               PROVE  AdmittedInput'
    OBVIOUS
  <2> USE DEF AdmittedInput, ServerWalks
  <2>1. CASE RefuseDefault
    BY <2>1 DEF RefuseDefault
  <2>2. CASE AdmitContext
    BY <2>2 DEF AdmitContext, Asked
  <2>3. CASE WalkRule
    BY <2>3 DEF WalkRule
  <2>4. CASE ServeConfigState
    BY <2>4 DEF ServeConfigState
  <2>5. CASE LoadOfflineValue
    BY <2>5 DEF LoadOfflineValue, Asked
  <2>6. CASE TakeConfigState
    BY <2>6 DEF TakeConfigState, Asked
  <2>7. CASE ReportServerEvaluation
    BY <2>7 DEF ReportServerEvaluation
  <2>8. CASE ReportClientEvaluation
    BY <2>8 DEF ReportClientEvaluation
  <2>9. CASE ReportMissing
    BY <2>9 DEF ReportMissing
  <2>10. CASE UNCHANGED evaluationVars
    BY <2>10 DEF evaluationVars
  <2> QED
    BY <2>1, <2>2, <2>3, <2>4, <2>5, <2>6, <2>7, <2>8, <2>9, <2>10 DEF EvaluationNext
<1> QED
  BY <1>1, <1>2, PTL DEF EvaluationSpec

\* A segment condition is decided by its segment alone.
LEMMA OneSegmentMatters ==
  ASSUME NEW c, NEW known, NEW ids, NEW ctx, NEW metadata,
         c.kind = "segment" => c.segmentId \notin ids
  PROVE  CheckCondition(c, [s \in DOMAIN known \ ids |-> known[s]], ctx, metadata)
           = CheckCondition(c, known, ctx, metadata)
<1> DEFINE others == [s \in DOMAIN known \ ids |-> known[s]]
           U == UsableSegments(known)
           V == UsableSegments(others)
<1>1. CASE c.kind # "segment"
  BY <1>1 DEF CheckCondition
<1>2. CASE c.kind = "segment"
  <2>1. DOMAIN U = {s \in DOMAIN known : ~HoldsSegmentConditions(known[s])}
    BY DEF UsableSegments
  <2>2. DOMAIN V = {s \in DOMAIN others : ~HoldsSegmentConditions(others[s])}
    BY DEF UsableSegments
  <2>3. DOMAIN others = DOMAIN known \ ids /\ \A s \in DOMAIN others : others[s] = known[s]
    OBVIOUS
  <2>4. c.segmentId \in DOMAIN U <=> c.segmentId \in DOMAIN V
    BY <1>2, <2>1, <2>2, <2>3
  <2>5. c.segmentId \in DOMAIN U => U[c.segmentId] = known[c.segmentId]
    BY DEF UsableSegments
  <2>6. c.segmentId \in DOMAIN V => V[c.segmentId] = others[c.segmentId]
    BY DEF UsableSegments
  <2>7. c.segmentId \in DOMAIN V => V[c.segmentId] = U[c.segmentId]
    BY <1>2, <2>2, <2>3, <2>4, <2>5, <2>6
  <2> HIDE DEF U, V
  <2>8. SegmentOutcome(c, V, ctx, metadata) = SegmentOutcome(c, U, ctx, metadata)
    BY <2>4, <2>7 DEF SegmentOutcome
  <2> QED
    BY <1>2, <2>8 DEF CheckCondition, U, V, others
<1> QED
  BY <1>1, <1>2

\* A bundle without the segments a config uses changes no rule of it, for every config,
\* segment and context (usesAnySegment, SegmentEvaluator.explain).
THEOREM OnlyUsedSegmentsEverMatter == EvaluationSpec => []OnlyUsedSegmentsMatter
<1>1. AdmittedInput => OnlyUsedSegmentsMatter
  <2> SUFFICES ASSUME AdmittedInput, input.side = "server", at = "reading",
                      NEW ids \in SUBSET DOMAIN input.segments, ~UsesAnySegment(Config, ids),
                      NEW i \in DOMAIN Config.rules
               PROVE  ExplainRule(Config.rules[i], [s \in DOMAIN input.segments \ ids |-> input.segments[s]],
                                  input.bucket, context, input.metadata)
                      = ExplainRule(Config.rules[i], input.segments, input.bucket, context, input.metadata)
    BY DEF OnlyUsedSegmentsMatter
  <2> DEFINE others == [s \in DOMAIN input.segments \ ids |-> input.segments[s]]
             rule == Config.rules[i]
  <2>1. rule.type \in {"conditional", "percentage"}
    BY ConfigIsTyped DEF ServerWalks, IsConfig, IsRule
  <2>2. CASE rule.type = "percentage"
    BY <2>2 DEF ExplainRule
  <2>3. CASE rule.type = "conditional"
    <3>1. \A c \in DOMAIN rule.conditions :
             rule.conditions[c].kind = "segment" => rule.conditions[c].segmentId \notin ids
      BY <2>3 DEF UsesAnySegment
    <3>2. \A c \in DOMAIN rule.conditions :
             CheckCondition(rule.conditions[c], others, context, input.metadata)
             = CheckCondition(rule.conditions[c], input.segments, context, input.metadata)
      BY <3>1, OneSegmentMatters
    <3>3. [c \in DOMAIN rule.conditions |-> CheckCondition(rule.conditions[c], others, context, input.metadata)]
          = [c \in DOMAIN rule.conditions |-> CheckCondition(rule.conditions[c], input.segments, context, input.metadata)]
      BY <3>2
    <3> QED
      BY <2>3, <3>3 DEF ExplainRule, ExplainConditionalRule
  <2> QED
    BY <2>1, <2>2, <2>3
<1> QED
  BY <1>1, AdmittedInputHolds, PTL

Decisions == {"matched", "not-matched", "errored"}

LEMMA FirstOtherIsOne ==
  ASSUME NEW outcomes, IsList(outcomes), NEW neutral \in Decisions,
         \A i \in DOMAIN outcomes : outcomes[i] \in Decisions
  PROVE  FirstOther(outcomes, neutral) \in Decisions
<1> DEFINE others == {i \in DOMAIN outcomes : outcomes[i] # neutral}
<1>1. CASE others = {}
  BY <1>1 DEF FirstOther
<1>2. CASE others # {}
  <2>1. others \in SUBSET Nat
    BY DEF IsList
  <2>2. \E i \in others : \A j \in others : i <= j
    <3> HIDE DEF others
    <3> QED
      BY <1>2, <2>1, LeastNat
  <2>3. (CHOOSE i \in others : \A j \in others : i <= j) \in others
    <3> HIDE DEF others
    <3> QED
      BY <2>2
  <2>4. FirstOther(outcomes, neutral) = outcomes[CHOOSE i \in others : \A j \in others : i <= j]
    BY <1>2 DEF FirstOther
  <2>5. \A i \in others : outcomes[i] \in Decisions
    OBVIOUS
  <2> HIDE DEF others
  <2> QED
    BY <2>3, <2>4, <2>5
<1> QED
  BY <1>1, <1>2

LEMMA MappedIsList ==
  ASSUME NEW s, IsList(s), NEW t, DOMAIN t = DOMAIN s, NEW S, \A i \in DOMAIN t : t[i] \in S,
         t = [i \in DOMAIN t |-> t[i]]
  PROVE  IsList(t) /\ t \in Seq(S) /\ Len(t) = Len(s)
<1>1. t \in [1 .. Len(s) -> S] /\ Len(s) \in Nat
  BY DEF IsList
<1>2. t \in Seq(S)
  BY <1>1, SeqDef
<1>3. Len(t) \in Nat /\ DOMAIN t = 1 .. Len(t)
  BY <1>2
<1>4. Len(t) = Len(s)
  BY <1>1, <1>3
<1> QED
  BY <1>2, <1>3, <1>4 DEF IsList

LEMMA ConditionDecides ==
  ASSUME NEW c, NEW ctx, NEW metadata
  PROVE  ConditionOutcome(c, ctx, metadata) \in Decisions
BY DEF ConditionOutcome, OutcomeFor, Decisions

LEMMA MembershipDecides ==
  ASSUME NEW groups, IsSegment(groups), NEW ctx, NEW metadata
  PROVE  Membership(groups, ctx, metadata) \in Decisions
<1> DEFINE held(g) == [i \in DOMAIN groups[g] |-> ConditionOutcome(groups[g][i], ctx, metadata)]
           all == [g \in DOMAIN groups |-> FirstOther(held(g), "matched")]
<1>1. ASSUME NEW g \in DOMAIN groups PROVE FirstOther(held(g), "matched") \in Decisions
  <2>1. IsList(groups[g])
    BY DEF IsSegment
  <2>2. DOMAIN held(g) = DOMAIN groups[g] /\ \A i \in DOMAIN held(g) : held(g)[i] \in Decisions
    BY ConditionDecides
  <2>3. held(g) = [i \in DOMAIN held(g) |-> held(g)[i]]
    OBVIOUS
  <2> HIDE DEF held
  <2>4. IsList(held(g))
    BY <2>1, <2>2, <2>3, MappedIsList
  <2>5. "matched" \in Decisions
    BY DEF Decisions
  <2> QED
    BY <2>2, <2>4, <2>5, FirstOtherIsOne
<1>2. IsList(groups) /\ DOMAIN all = DOMAIN groups
  BY DEF IsSegment
<1>3. \A g \in DOMAIN all : all[g] \in Decisions
  BY <1>1
<1>4. all = [g \in DOMAIN all |-> all[g]]
  OBVIOUS
<1>5. Membership(groups, ctx, metadata) = FirstOther(all, "not-matched")
  BY DEF Membership
<1>6. "not-matched" \in Decisions
  BY DEF Decisions
<1> HIDE DEF all
<1>7. IsList(all)
  BY <1>2, <1>3, <1>4, MappedIsList
<1> QED
  BY <1>3, <1>5, <1>6, <1>7, FirstOtherIsOne

LEMMA CheckDecides ==
  ASSUME NEW c, NEW known, \A s \in DOMAIN known : IsSegment(known[s]),
         NEW ctx, NEW metadata
  PROVE  CheckCondition(c, known, ctx, metadata) \in Decisions
<1> DEFINE U == UsableSegments(known)
<1>1. \A s \in DOMAIN U : IsSegment(U[s])
  BY DEF UsableSegments
<1> HIDE DEF U
<1>2. SegmentOutcome(c, U, ctx, metadata) \in Decisions
  BY DEF SegmentOutcome, MembershipSatisfies, Decisions
<1> QED
  BY <1>2, ConditionDecides DEF CheckCondition, U

\* What a rule serves, if it matches, and nothing otherwise.
Explains(e) ==
    /\ e = [outcome |-> e.outcome, served |-> e.served, conditions |-> e.conditions]
    /\ e.outcome \in Decisions \cup {"rollout-skipped-no-identifier"}
    /\ e.outcome = "matched" => \E v : e.served = {v}
    /\ e.outcome # "matched" => e.served = {}

LEMMA RolloutExplains ==
  ASSUME NEW rule, NEW bucket, NEW ctx
  PROVE  Explains(ExplainRollout(rule, bucket, ctx))
<1> DEFINE percentages == CHOOSE p \in rule.percentages : TRUE
           i == SelectedShare(percentages, bucket)
           v == Serving(percentages[i].value, percentages[i].valueId,
                        percentages[i].variation, {<<rule.id, i>>})
           e == ExplainRollout(rule, bucket, ctx)
<1>1. \/ e = NotMatched
      \/ e = [NotMatched EXCEPT !.outcome = "rollout-skipped-no-identifier"]
      \/ e = [NotMatched EXCEPT !.outcome = "matched", !.served = {v}]
  BY DEF ExplainRollout
<1> HIDE DEF e, v
<1>2. \/ e = [outcome |-> "not-matched", served |-> {}, conditions |-> <<>>]
      \/ e = [outcome |-> "rollout-skipped-no-identifier", served |-> {}, conditions |-> <<>>]
      \/ e = [outcome |-> "matched", served |-> {v}, conditions |-> <<>>]
  BY <1>1 DEF NotMatched
<1>3. CASE e = [outcome |-> "not-matched", served |-> {}, conditions |-> <<>>]
  BY <1>3 DEF Explains, Decisions, e
<1>4. CASE e = [outcome |-> "rollout-skipped-no-identifier", served |-> {}, conditions |-> <<>>]
  BY <1>4 DEF Explains, Decisions, e
<1>5. CASE e = [outcome |-> "matched", served |-> {v}, conditions |-> <<>>]
  BY <1>5 DEF Explains, Decisions, e
<1> QED
  BY <1>2, <1>3, <1>4, <1>5

LEMMA RuleExplains ==
  ASSUME NEW rule, IsRule(rule), NEW known, \A s \in DOMAIN known : IsSegment(known[s]),
         NEW bucket, NEW ctx, NEW metadata
  PROVE  Explains(ExplainRule(rule, known, bucket, ctx, metadata))
<1>1. CASE rule.type = "percentage"
  BY <1>1, RolloutExplains DEF ExplainRule
<1>2. CASE rule.type # "percentage"
  <2> DEFINE outcomes == [i \in DOMAIN rule.conditions |->
                              CheckCondition(rule.conditions[i], known, ctx, metadata)]
             decided == FirstOther(outcomes, "matched")
             v == Serving(rule.value, rule.valueId, rule.variation, {})
             serving == IF decided # "matched" THEN [NotMatched EXCEPT !.outcome = decided]
                        ELSE IF rule.target = "percentage" THEN ExplainRollout(rule, bucket, ctx)
                        ELSE IF rule.value = {} THEN NotMatched
                        ELSE [NotMatched EXCEPT !.outcome = "matched", !.served = {v}]
             shown == IF decided = "errored" THEN <<>> ELSE Checked(outcomes)
             e == ExplainRule(rule, known, bucket, ctx, metadata)
  <2>1. \A i \in DOMAIN outcomes : outcomes[i] \in Decisions
    BY CheckDecides
  <2>2. DOMAIN outcomes = DOMAIN rule.conditions /\ IsList(rule.conditions)
    BY DEF IsRule
  <2>3. outcomes = [i \in DOMAIN outcomes |-> outcomes[i]]
    OBVIOUS
  <2>4. e = [serving EXCEPT !.conditions = shown]
    BY <1>2 DEF ExplainRule, ExplainConditionalRule, ExplainOutcomes
  <2> HIDE DEF outcomes, v, shown, e
  <2>5. IsList(outcomes) /\ "matched" \in Decisions
    BY <2>1, <2>2, <2>3, MappedIsList DEF Decisions
  <2>6. decided \in Decisions
    BY <2>1, <2>5, FirstOtherIsOne
  <2> HIDE DEF decided
  <2>7. Explains(serving)
    <3>1. CASE decided # "matched"
      <4>1. serving = [outcome |-> decided, served |-> {}, conditions |-> <<>>]
        BY <3>1 DEF NotMatched
      <4> HIDE DEF serving
      <4> QED
        BY <2>6, <3>1, <4>1 DEF Explains
    <3>2. CASE decided = "matched" /\ rule.target = "percentage"
      <4>1. serving = ExplainRollout(rule, bucket, ctx)
        BY <3>2
      <4> HIDE DEF serving
      <4> QED
        BY <4>1, RolloutExplains
    <3>3. CASE decided = "matched" /\ rule.target # "percentage" /\ rule.value = {}
      <4>1. serving = [outcome |-> "not-matched", served |-> {}, conditions |-> <<>>]
        BY <3>3 DEF NotMatched
      <4> HIDE DEF serving
      <4> QED
        BY <4>1 DEF Explains, Decisions
    <3>4. CASE decided = "matched" /\ rule.target # "percentage" /\ rule.value # {}
      <4>1. serving = [outcome |-> "matched", served |-> {v}, conditions |-> <<>>]
        BY <3>4 DEF NotMatched
      <4> HIDE DEF serving
      <4> QED
        BY <4>1 DEF Explains, Decisions
    <3> QED
      BY <3>1, <3>2, <3>3, <3>4
  <2> HIDE DEF serving
  <2>8. /\ e.outcome = serving.outcome /\ e.served = serving.served
        /\ e = [outcome |-> e.outcome, served |-> e.served, conditions |-> e.conditions]
    BY <2>4, <2>7 DEF Explains
  <2> QED
    BY <2>7, <2>8 DEF Explains, e
<1> QED
  BY <1>1, <1>2

LEMMA PrecedesIsStrict ==
  ASSUME NEW c, IsConfig(c), NEW i \in DOMAIN c.rules, NEW j \in DOMAIN c.rules,
         NEW k \in DOMAIN c.rules
  PROVE  /\ ~Precedes(c.rules, i, i)
         /\ i # j => Precedes(c.rules, i, j) \/ Precedes(c.rules, j, i)
         /\ ~(Precedes(c.rules, i, j) /\ Precedes(c.rules, j, i))
         /\ Precedes(c.rules, i, j) /\ Precedes(c.rules, j, k) => Precedes(c.rules, i, k)
<1>1. i \in Nat /\ j \in Nat /\ k \in Nat
  BY DEF IsConfig, IsList
<1>2. ASSUME NEW r \in DOMAIN c.rules PROVE RuleOrder(c.rules[r]) \in Int
  <2> DEFINE rule == c.rules[r]
  <2>1. \A n \in rule.order : n \in Int
    BY DEF IsConfig, IsRule
  <2> QED
    BY <2>1 DEF RuleOrder, LastOrder
<1> DEFINE a == RuleOrder(c.rules[i])
           b == RuleOrder(c.rules[j])
           d == RuleOrder(c.rules[k])
<1>3. a \in Int /\ b \in Int /\ d \in Int
  BY <1>2
<1>4. /\ Precedes(c.rules, i, i) <=> a < a \/ (a = a /\ i < i)
      /\ Precedes(c.rules, i, j) <=> a < b \/ (a = b /\ i < j)
      /\ Precedes(c.rules, j, i) <=> b < a \/ (b = a /\ j < i)
      /\ Precedes(c.rules, j, k) <=> b < d \/ (b = d /\ j < k)
      /\ Precedes(c.rules, i, k) <=> a < d \/ (a = d /\ i < k)
  BY DEF Precedes
<1> HIDE DEF a, b, d
<1> QED
  BY <1>1, <1>3, <1>4

\* The walk takes every rule once, in the order of the rules.
LEMMA WalkIsInOrder ==
  ASSUME NEW c, IsConfig(c), NEW order, order = WalkOrder(c.rules)
  PROVE  /\ order \in Seq(DOMAIN c.rules) /\ Len(order) = Len(c.rules)
         /\ \A i \in DOMAIN c.rules : \E k \in DOMAIN order : order[k] = i
         /\ \A j, k \in DOMAIN order : j < k => Precedes(c.rules, order[j], order[k])
<1> DEFINE n == Len(c.rules)
           D == DOMAIN c.rules
           before(i) == {j \in D : Precedes(c.rules, j, i)}
           place == [i \in D |-> Cardinality(before(i)) + 1]
<1>1. n \in Nat /\ D = 1 .. n
  BY DEF IsConfig, IsList
<1> HIDE DEF n, D
<1>2. IsFiniteSet(D) /\ Cardinality(D) = n
  <2>1. IsFiniteSet(1 .. n) /\ Cardinality(1 .. n) = IF 1 > n THEN 0 ELSE n - 1 + 1
    BY <1>1, FS_Interval
  <2> QED
    BY <1>1, <2>1
<1>3. \A i \in D : before(i) \in SUBSET D /\ i \notin before(i)
  BY PrecedesIsStrict DEF D
<1>4. \A i \in D : IsFiniteSet(before(i)) /\ Cardinality(before(i)) \in Nat
  BY <1>2, <1>3, FS_Subset, FS_CardinalityType
<1>5. ASSUME NEW i \in D PROVE Cardinality(before(i)) < n
  <2>1. before(i) \in SUBSET D /\ before(i) # D
    BY <1>3
  <2> DEFINE P == before(i)
  <2>2. P \in SUBSET D /\ P # D /\ Cardinality(P) \in Nat
    BY <1>4, <2>1
  <2> HIDE DEF P
  <2>3. Cardinality(P) <= Cardinality(D) /\ Cardinality(P) # Cardinality(D)
    BY <1>2, <2>2, FS_Subset
  <2>4. Cardinality(P) < n
    BY <1>1, <1>2, <2>2, <2>3
  <2> QED
    BY <2>4 DEF P
<1>6. ASSUME NEW i \in D, NEW j \in D, Precedes(c.rules, i, j)
      PROVE  Cardinality(before(i)) < Cardinality(before(j))
  <2>1. before(i) \subseteq before(j)
    BY <1>6, PrecedesIsStrict DEF D
  <2>2. i \in before(j) /\ i \notin before(i)
    BY <1>3, <1>6
  <2>3. IsFiniteSet(before(j)) /\ Cardinality(before(j)) \in Nat /\ Cardinality(before(i)) \in Nat
    BY <1>4
  <2> DEFINE P == before(i)
             Q == before(j)
  <2>4. P \in SUBSET Q /\ P # Q /\ IsFiniteSet(Q)
    BY <2>1, <2>2, <2>3
  <2> HIDE DEF P, Q
  <2>5. Cardinality(P) <= Cardinality(Q) /\ Cardinality(P) # Cardinality(Q)
    BY <2>4, FS_Subset
  <2> QED
    BY <2>3, <2>5 DEF P, Q
<1>7. \A i \in D : place[i] = Cardinality(before(i)) + 1
  OBVIOUS
<1>8. place \in [D -> D]
  <2>1. ASSUME NEW i \in D PROVE Cardinality(before(i)) + 1 \in D
    <3> DEFINE k == Cardinality(before(i))
    <3>1. k \in Nat /\ k < n
      BY <1>4, <1>5
    <3> HIDE DEF k
    <3>2. k + 1 \in D
      BY <1>1, <3>1
    <3> QED
      BY <3>2 DEF k
  <2> QED
    BY <2>1
<1>9. ASSUME NEW i \in D, NEW j \in D, place[i] = place[j] PROVE i = j
  <2>1. Cardinality(before(i)) = Cardinality(before(j))
    BY <1>4, <1>7, <1>9
  <2>2. ~Precedes(c.rules, i, j) /\ ~Precedes(c.rules, j, i)
    BY <1>4, <1>6, <2>1
  <2> QED
    BY <2>2, PrecedesIsStrict DEF D
<1>10. \A i \in D : \E j \in D : place[j] = i
  <2>1. place \in Injection(D, D)
    BY <1>8, <1>9 DEF Injection, IsInjective
  <2>2. place \in Surjection(D, D)
    <3> HIDE DEF place
    <3> QED
      BY <1>2, <2>1, FS_Injection
  <2> QED
    BY <2>2 DEF Surjection
<1>11. \A k \in D : order[k] = CHOOSE i \in D : Cardinality(before(i)) = k - 1
  BY DEF WalkOrder, D
<1>12. ASSUME NEW k \in D PROVE order[k] \in D /\ place[order[k]] = k
  <2>1. PICK i \in D : place[i] = k
    BY <1>10
  <2>2. Cardinality(before(i)) = k - 1
    BY <1>4, <1>7, <2>1
  <2>3. order[k] \in D /\ Cardinality(before(order[k])) = k - 1
    <3> HIDE DEF before
    <3> QED
      BY <1>11, <2>2
  <2>4. k \in Nat
    BY <1>1
  <2> QED
    BY <1>7, <2>3, <2>4
<1>13. DOMAIN order = D /\ order = [k \in DOMAIN order |-> order[k]]
  <2>1. order = [k \in D |-> CHOOSE i \in D : Cardinality(before(i)) = k - 1]
    BY DEF WalkOrder, D
  <2> HIDE DEF before
  <2> QED
    BY <2>1
<1>14. order \in Seq(D) /\ Len(order) = n
  <2>1. IsList(c.rules)
    BY DEF IsConfig
  <2>2. /\ DOMAIN order = DOMAIN c.rules /\ \A k \in DOMAIN order : order[k] \in D
        /\ order = [k \in DOMAIN order |-> order[k]]
    BY <1>12, <1>13 DEF D
  <2> QED
    BY <2>1, <2>2, MappedIsList DEF n
<1>15. ASSUME NEW i \in D PROVE \E k \in DOMAIN order : order[k] = i
  <2>1. place[i] \in D
    BY <1>8
  <2>2. order[place[i]] \in D /\ place[order[place[i]]] = place[i]
    BY <1>12, <2>1
  <2>3. order[place[i]] = i
    BY <1>9, <2>2
  <2> QED
    BY <1>13, <2>1, <2>3
<1>16. ASSUME NEW j \in D, NEW k \in D, j < k PROVE Precedes(c.rules, order[j], order[k])
  <2>1. /\ order[j] \in D /\ order[k] \in D
        /\ place[order[j]] = j /\ place[order[k]] = k
    BY <1>12
  <2>2. j \in Nat /\ k \in Nat
    BY <1>1
  <2>3. order[j] # order[k]
    BY <1>16, <2>1, <2>2
  <2>4. ~Precedes(c.rules, order[k], order[j])
    <3>1. CASE Precedes(c.rules, order[k], order[j])
      <4>1. Cardinality(before(order[k])) < Cardinality(before(order[j]))
        BY <1>6, <2>1, <3>1
      <4>2. k = Cardinality(before(order[k])) + 1 /\ j = Cardinality(before(order[j])) + 1
        BY <1>7, <2>1
      <4>3. Cardinality(before(order[k])) \in Nat /\ Cardinality(before(order[j])) \in Nat
        BY <1>4, <2>1
      <4> HIDE DEF before
      <4> QED
        BY <1>16, <2>2, <4>1, <4>2, <4>3
    <3> QED
      BY <3>1
  <2> QED
    BY <2>1, <2>3, <2>4, PrecedesIsStrict DEF D
<1> QED
  BY <1>13, <1>14, <1>15, <1>16 DEF D, n

\* A walk that goes on has explained the rules it has passed, none of which ended it.
GoesOn(e) == e.outcome \in {"not-matched", "errored"}
WalkFollows ==
    /\ at = "start" => walked = <<>>
    /\ at = "walking" =>
          /\ walked \in Seq({Explanations[i] : i \in DOMAIN Config.rules})
          /\ Len(walked) <= Len(Order)
          /\ \A k \in DOMAIN walked : walked[k] = Explanations[Order[k]]
          /\ \A k \in DOMAIN walked : k < Len(walked) => GoesOn(walked[k])

LEMMA ExplanationsExplain ==
  ASSUME AdmittedInput, ServerWalks
  PROVE  /\ DOMAIN Explanations = DOMAIN Config.rules
         /\ \A i \in DOMAIN Config.rules : /\ Explanations[i] = ExplainedWith(input.segments, i)
                                           /\ Explains(Explanations[i])
<1>1. context = IF input.context.kind \subseteq KindTexts THEN input.context ELSE NoContext
  BY DEF AdmittedInput, AdmittedContext, IsAcceptedKind
<1>2. \A i \in DOMAIN Config.rules : Explanations[i] = ExplainedWith(input.segments, i)
  BY <1>1 DEF Explanations, ExplainedWith
<1>3. ASSUME NEW i \in DOMAIN Config.rules PROVE Explains(ExplainedWith(input.segments, i))
  <2>1. IsRule(Config.rules[i]) /\ \A s \in DOMAIN input.segments : IsSegment(input.segments[s])
    BY ConfigIsTyped DEF IsConfig
  <2> QED
    BY <2>1, RuleExplains DEF ExplainedWith
<1> QED
  BY <1>2, <1>3 DEF Explanations

LEMMA OrderFollowsRules ==
  ASSUME AdmittedInput, ServerWalks
  PROVE  /\ Order \in Seq(DOMAIN Config.rules)
         /\ \A i \in DOMAIN Config.rules : \E k \in DOMAIN Order : Order[k] = i
         /\ \A j, k \in DOMAIN Order : j < k => Precedes(Config.rules, Order[j], Order[k])
<1>1. IsConfig(Config) /\ Order = WalkOrder(Config.rules)
  BY ConfigIsTyped DEF Order
<1> HIDE DEF Config
<1> QED
  BY <1>1, WalkIsInOrder

LEMMA WalkRuleFollows ==
  ASSUME AdmittedInput, WalkFollows, WalkRule
  PROVE  WalkFollows'
<1>1. at = "walking" /\ at' = "walking" /\ UNCHANGED <<input, context>> /\ ServerWalks /\ ~WalkEnded
  BY DEF WalkRule, AdmittedInput, ServerWalks
<1> DEFINE E == {Explanations[i] : i \in DOMAIN Config.rules}
           n == Len(walked)
           e == Explanations[Order[n + 1]]
<1>2. /\ Order \in Seq(DOMAIN Config.rules) /\ Len(Order) \in Nat /\ DOMAIN Order = 1 .. Len(Order)
  BY <1>1, OrderFollowsRules
<1>3. /\ walked \in Seq(E) /\ n \in Nat /\ n <= Len(Order) /\ DOMAIN walked = 1 .. n
      /\ \A k \in DOMAIN walked : walked[k] = Explanations[Order[k]]
      /\ \A k \in DOMAIN walked : k < n => GoesOn(walked[k])
  BY <1>1 DEF WalkFollows
<1>4. n + 1 <= Len(Order) /\ n + 1 \in DOMAIN Order /\ Order[n + 1] \in DOMAIN Config.rules
  <2>1. n # Len(Order)
    BY <1>1 DEF WalkEnded
  <2>2. n + 1 <= Len(Order)
    <3> DEFINE m == Len(Order)
    <3>1. m \in Nat /\ n \in Nat /\ n <= m /\ n # m
      BY <1>2, <1>3, <2>1
    <3> HIDE DEF m, n
    <3>2. n + 1 <= m
      BY <3>1
    <3> QED
      BY <3>2 DEF m
  <2>3. n + 1 \in DOMAIN Order
    BY <1>2, <1>3, <2>2
  <2> QED
    BY <1>2, <2>2, <2>3
<1>5. walked' = Append(walked, e) /\ e \in E
  BY <1>1, <1>4, ExplanationsExplain DEF WalkRule, ExplainedWith
<1>6. walked # <<>> => GoesOn(walked[n])
  BY <1>1, <1>3 DEF WalkEnded, Last, GoesOn
<1> HIDE DEF e, E
<1>7. /\ walked' \in Seq(E) /\ Len(walked') = n + 1 /\ DOMAIN walked' = 1 .. n + 1
      /\ \A k \in 1 .. n : walked'[k] = walked[k]
      /\ walked'[n + 1] = e
  BY <1>3, <1>5
<1>8. Explanations' = Explanations /\ Order' = Order /\ Config' = Config
  BY <1>1 DEF Explanations, Order, Config
<1>9. \A k \in DOMAIN walked' : walked'[k] = Explanations[Order[k]]
  <2> TAKE k \in DOMAIN walked'
  <2>1. CASE k \in 1 .. n
    BY <1>3, <1>7, <2>1
  <2>2. CASE k = n + 1
    BY <1>7, <2>2 DEF e
  <2> QED
    BY <1>3, <1>7, <2>1, <2>2
<1>10. \A k \in DOMAIN walked' : k < n + 1 => GoesOn(walked'[k])
  <2> TAKE k \in DOMAIN walked'
  <2>1. SUFFICES ASSUME k < n + 1 PROVE GoesOn(walked'[k])
    OBVIOUS
  <2>2. k \in 1 .. n /\ walked'[k] = walked[k] /\ walked # <<>>
    BY <1>3, <1>7, <2>1
  <2>3. CASE k = n
    BY <1>6, <2>2, <2>3
  <2>4. CASE k < n
    BY <1>3, <2>2, <2>4
  <2> QED
    BY <1>3, <2>2, <2>3, <2>4
<1>11. {Explanations'[i] : i \in DOMAIN Config'.rules} = E
  BY <1>8 DEF E
<1> QED
  BY <1>1, <1>4, <1>7, <1>8, <1>9, <1>10, <1>11 DEF WalkFollows

LEMMA WalkFollowsHolds == EvaluationSpec => [](AdmittedInput /\ WalkFollows)
<1>1. EvaluationInit => WalkFollows
  BY DEF EvaluationInit, WalkFollows
<1>2. AdmittedInput /\ WalkFollows /\ [EvaluationNext]_evaluationVars => WalkFollows'
  <2> SUFFICES ASSUME AdmittedInput, WalkFollows, [EvaluationNext]_evaluationVars
               PROVE  WalkFollows'
    OBVIOUS
  <2>1. CASE RefuseDefault
    BY <2>1 DEF RefuseDefault, WalkFollows
  <2>2. CASE AdmitContext
    <3>1. walked' = <<>> /\ at' # "start" /\ DOMAIN walked' = {} /\ Len(walked') = 0
      BY <2>2 DEF AdmitContext, Asked, WalkFollows
    <3>2. SUFFICES ASSUME at' = "walking" PROVE Len(Order') \in Nat
      <4>1. walked' \in Seq({Explanations'[i] : i \in DOMAIN Config'.rules})
        BY <3>1
      <4>2. Len(Order') \in Nat => 0 <= Len(Order')
        OBVIOUS
      <4> QED
        BY <3>1, <3>2, <4>1, <4>2 DEF WalkFollows
    <3>3. input' = input /\ input.side = "server" /\ input.config # {} /\ input \in Inputs
      BY <2>2, <3>2 DEF AdmitContext, Asked, AdmittedInput
    <3>4. IsConfig(Config)
      <4>1. Config \in input.config
        BY <3>3 DEF Config
      <4> QED
        BY <3>3, <4>1, InputsAssumption
    <3>5. Len(Order) \in Nat
      <4>1. Order = WalkOrder(Config.rules)
        BY DEF Order
      <4> HIDE DEF Config
      <4>2. Order \in Seq(DOMAIN Config.rules)
        BY <3>4, <4>1, WalkIsInOrder
      <4> QED
        BY <4>2
    <3>6. Order' = Order
      BY <3>3 DEF Order, Config
    <3> QED
      BY <3>5, <3>6
  <2>3. CASE WalkRule
    BY <2>3, WalkRuleFollows
  <2>4. CASE ServeConfigState
    BY <2>4 DEF ServeConfigState, WalkFollows
  <2>5. CASE LoadOfflineValue
    BY <2>5 DEF LoadOfflineValue, Asked, WalkFollows
  <2>6. CASE TakeConfigState
    BY <2>6 DEF TakeConfigState, Asked, WalkFollows
  <2>7. CASE ReportServerEvaluation
    BY <2>7 DEF ReportServerEvaluation, WalkFollows
  <2>8. CASE ReportClientEvaluation
    BY <2>8 DEF ReportClientEvaluation, WalkFollows
  <2>9. CASE ReportMissing
    BY <2>9 DEF ReportMissing, WalkFollows
  <2>10. CASE UNCHANGED evaluationVars
    <3>1. UNCHANGED <<at, walked, input, context>>
      BY <2>10 DEF evaluationVars
    <3>2. Explanations' = Explanations /\ Order' = Order /\ Config' = Config
      BY <3>1 DEF Explanations, Order, Config
    <3> QED
      BY <3>1, <3>2 DEF WalkFollows
  <2> QED
    BY <2>1, <2>2, <2>3, <2>4, <2>5, <2>6, <2>7, <2>8, <2>9, <2>10 DEF EvaluationNext
<1> QED
  BY <1>1, <1>2, AdmittedInputHolds, PTL DEF EvaluationSpec

Ends == {i \in DOMAIN Explanations :
            Explanations[i].outcome \in {"matched", "rollout-skipped-no-identifier"}}
FirstEnd == {i \in Ends : \A j \in Ends \ {i} : Precedes(Config.rules, i, j)}

\* Where the walk ends is the first rule that matches or skips its rollout.
LEMMA WalkEndsAtFirst ==
  ASSUME AdmittedInput, WalkFollows, at = "walking", WalkEnded
  PROVE  \/ walked # <<>> /\ \E i \in DOMAIN Config.rules :
                FirstEnd = {i} /\ Last(walked) = Explanations[i] /\ ~GoesOn(Explanations[i])
         \/ /\ FirstEnd = {}
            /\ walked # <<>> => GoesOn(Last(walked)) /\ Last(walked).served = {}
<1>1. ServerWalks
  BY DEF AdmittedInput, ServerWalks
<1> DEFINE n == Len(walked)
           D == DOMAIN Config.rules
<1>2. /\ Order \in Seq(D) /\ Len(Order) \in Nat /\ DOMAIN Order = 1 .. Len(Order)
      /\ \A k \in DOMAIN Order : Order[k] \in D
      /\ \A i \in D : \E k \in DOMAIN Order : Order[k] = i
      /\ \A j, k \in DOMAIN Order : j < k => Precedes(Config.rules, Order[j], Order[k])
  BY <1>1, OrderFollowsRules
<1>3. /\ n \in Nat /\ n <= Len(Order) /\ DOMAIN walked = 1 .. n
      /\ \A k \in DOMAIN walked : walked[k] = Explanations[Order[k]]
      /\ \A k \in DOMAIN walked : k < n => GoesOn(walked[k])
  BY DEF WalkFollows
<1>4. DOMAIN Explanations = D /\ \A i \in D : Explains(Explanations[i])
  BY <1>1, ExplanationsExplain
<1>5. \A i \in D : i \in Ends <=> ~GoesOn(Explanations[i])
  BY <1>4 DEF Explains, Decisions, GoesOn, Ends
<1>6. Ends \subseteq D /\ FirstEnd \subseteq Ends
  BY <1>4 DEF Ends, FirstEnd
<1>7. Last(walked) = walked[n]
  BY DEF Last
<1>8. CASE walked # <<>> /\ ~GoesOn(Last(walked))
  <2>1. n \in DOMAIN walked /\ n \in DOMAIN Order
    BY <1>2, <1>3, <1>8
  <2> DEFINE i == Order[n]
  <2>2. i \in D /\ Last(walked) = Explanations[i] /\ ~GoesOn(Explanations[i])
    BY <1>2, <1>3, <1>7, <1>8, <2>1
  <2>3. i \in Ends
    BY <1>5, <2>2
  <2>4. ASSUME NEW j \in Ends, j # i PROVE Precedes(Config.rules, i, j)
    <3>1. j \in D /\ ~GoesOn(Explanations[j])
      BY <1>5, <1>6
    <3>2. PICK k \in DOMAIN Order : Order[k] = j
      BY <1>2, <3>1
    <3>3. k \in Nat /\ k # n
      BY <1>2, <2>4, <3>2
    <3>4. ~(k < n)
      BY <1>2, <1>3, <3>1, <3>2
    <3>5. n < k
      BY <1>3, <3>3, <3>4
    <3> QED
      BY <1>2, <2>1, <3>2, <3>5
  <2> HIDE DEF i
  <2>5. i \in FirstEnd
    BY <2>3, <2>4 DEF FirstEnd
  <2>6. ASSUME NEW j \in FirstEnd, j # i PROVE FALSE
    <3>1. Precedes(Config.rules, i, j) /\ Precedes(Config.rules, j, i)
      BY <1>6, <2>3, <2>4, <2>6 DEF FirstEnd
    <3>2. j \in D /\ IsConfig(Config)
      BY <1>1, <1>6, ConfigIsTyped
    <3> HIDE DEF Config
    <3> QED
      BY <2>2, <3>1, <3>2, PrecedesIsStrict
  <2>7. FirstEnd = {i}
    BY <2>5, <2>6
  <2> QED
    BY <1>8, <2>2, <2>7
<1>9. CASE walked # <<>> => GoesOn(Last(walked))
  <2>1. n = Len(Order)
    BY <1>9 DEF WalkEnded, GoesOn
  <2>2. \A k \in DOMAIN Order : GoesOn(Explanations[Order[k]])
    <3> TAKE k \in DOMAIN Order
    <3>1. k \in DOMAIN walked /\ k \in Nat /\ k <= n /\ walked # <<>>
      BY <1>2, <1>3, <2>1
    <3>2. GoesOn(walked[k])
      BY <1>3, <1>7, <1>9, <3>1
    <3> QED
      BY <1>3, <3>1, <3>2
  <2>3. Ends = {}
    BY <1>2, <1>5, <1>6, <2>2
  <2>4. walked # <<>> => Last(walked).served = {}
    <3>1. SUFFICES ASSUME walked # <<>> PROVE Last(walked).served = {}
      OBVIOUS
    <3>2. n \in DOMAIN walked /\ n \in DOMAIN Order
      BY <1>2, <1>3, <3>1
    <3>3. Last(walked) = Explanations[Order[n]] /\ Order[n] \in D
      BY <1>2, <1>3, <1>7, <3>2
    <3>4. Explains(Last(walked)) /\ GoesOn(Last(walked))
      BY <1>4, <1>9, <3>1, <3>3
    <3> QED
      BY <3>4 DEF Explains, GoesOn
  <2> QED
    BY <1>6, <1>9, <2>3, <2>4
<1> QED
  BY <1>8, <1>9

LEMMA ServingServesFirst ==
  ASSUME AdmittedInput, WalkFollows, ServeConfigState
  PROVE  ServesFirstServing'
<1>1. at = "walking" /\ WalkEnded /\ UNCHANGED input
  BY DEF ServeConfigState
<1>2. ServerWalks
  BY <1>1 DEF AdmittedInput, ServerWalks
<1> DEFINE last == IF walked = <<>> THEN NotMatched ELSE Last(walked)
           value == IF last.served = {} THEN Config.default ELSE CHOOSE v \in last.served : TRUE
           values == UNION {Explanations[i].served : i \in FirstEnd}
<1>3. /\ served' = ConfigState(Config.type, value.value, value.valueId,
                                value.variation \cap Config.variations, value.share)
      /\ reason' = IF last.outcome = "rollout-skipped-no-identifier" THEN last.outcome ELSE "found-match"
  BY DEF ServeConfigState
<1>4. /\ served'.value = value.value /\ served'.valueId = value.valueId /\ served'.share = value.share
  <2> HIDE DEF value
  <2> QED
    BY <1>3 DEF ConfigState
<1>5. \/ walked # <<>> /\ \E i \in DOMAIN Config.rules :
             FirstEnd = {i} /\ Last(walked) = Explanations[i] /\ ~GoesOn(Explanations[i])
      \/ /\ FirstEnd = {}
         /\ walked # <<>> => GoesOn(Last(walked)) /\ Last(walked).served = {}
  BY <1>1, WalkEndsAtFirst
<1>6. /\ served'.value = (IF values = {} THEN Config.default ELSE CHOOSE v \in values : TRUE).value
      /\ \A v \in values : served'.share = v.share /\ served'.valueId = v.valueId
      /\ (reason' # "found-match") <=> \E i \in FirstEnd : Explanations[i].served = {}
  <2>1. CASE walked # <<>> /\ \E i \in DOMAIN Config.rules :
                FirstEnd = {i} /\ Last(walked) = Explanations[i] /\ ~GoesOn(Explanations[i])
    <3>1. PICK i \in DOMAIN Config.rules :
             FirstEnd = {i} /\ Last(walked) = Explanations[i] /\ ~GoesOn(Explanations[i])
      BY <2>1
    <3>2. Explains(Explanations[i])
      BY <1>2, ExplanationsExplain
    <3>3. last = Explanations[i] /\ values = Explanations[i].served
      BY <2>1, <3>1
    <3> DEFINE e == Explanations[i]
    <3>4. \/ e.outcome = "matched" /\ \E v : e.served = {v}
          \/ e.outcome = "rollout-skipped-no-identifier" /\ e.served = {}
      BY <3>1, <3>2 DEF Explains, GoesOn, Decisions
    <3> HIDE DEF e, last, values
    <3>5. last = e /\ values = e.served /\ FirstEnd = {i}
      BY <3>1, <3>3 DEF e
    <3>6. value = IF values = {} THEN Config.default ELSE CHOOSE v \in values : TRUE
      BY <3>5
    <3>7. \A v \in values : v = value
      BY <3>4, <3>5, <3>6
    <3>8. (reason' # "found-match") <=> e.served = {}
      BY <1>3, <3>4, <3>5
    <3> HIDE DEF value
    <3> QED
      BY <1>4, <3>5, <3>6, <3>7, <3>8 DEF e
  <2>2. CASE FirstEnd = {} /\ (walked # <<>> => GoesOn(Last(walked)) /\ Last(walked).served = {})
    <3>1. values = {}
      BY <2>2
    <3>2. last.served = {} /\ last.outcome # "rollout-skipped-no-identifier"
      BY <2>2 DEF NotMatched, GoesOn
    <3>3. value = Config.default
      BY <3>2
    <3>4. reason' = "found-match"
      BY <1>3, <3>2
    <3> HIDE DEF value, values
    <3> QED
      BY <1>4, <2>2, <3>1, <3>3, <3>4
  <2> QED
    BY <1>5, <2>1, <2>2
<1>7. Explanations' = Explanations /\ Config' = Config
  BY <1>1 DEF Explanations, Config
<1>8. ServedByFirst(Config.rules, Explanations)'
  BY <1>6, <1>7 DEF ServedByFirst, FirstEnd, Ends
<1> QED
  BY <1>7, <1>8 DEF ServesFirstServing

\* The first rule that matches or skips its rollout decides what a server evaluates a
\* config to, for every config, segments, context and bucket (ConfigEvaluator.explain).
THEOREM AlwaysServesFirstServing == EvaluationSpec => []ServesFirstServing
<1>1. EvaluationInit => ServesFirstServing
  BY DEF EvaluationInit, ServesFirstServing
<1>2. /\ AdmittedInput /\ WalkFollows /\ ServesFirstServing /\ [EvaluationNext]_evaluationVars
      => ServesFirstServing'
  <2> SUFFICES ASSUME AdmittedInput, WalkFollows, ServesFirstServing,
                      [EvaluationNext]_evaluationVars
               PROVE  ServesFirstServing'
    OBVIOUS
  <2>1. CASE RefuseDefault
    BY <2>1 DEF RefuseDefault, ServesFirstServing
  <2>2. CASE AdmitContext
    BY <2>2 DEF AdmitContext, ServesFirstServing
  <2>3. CASE WalkRule
    BY <2>3 DEF WalkRule, ServesFirstServing
  <2>4. CASE ServeConfigState
    BY <2>4, ServingServesFirst
  <2>5. CASE LoadOfflineValue
    BY <2>5 DEF LoadOfflineValue, Asked, ServesFirstServing
  <2>6. CASE TakeConfigState
    BY <2>6 DEF TakeConfigState, Asked, ServesFirstServing
  <2>7. CASE ReportServerEvaluation
    BY <2>7 DEF ReportServerEvaluation, ServesFirstServing
  <2>8. CASE ReportClientEvaluation
    BY <2>8 DEF ReportClientEvaluation, ServesFirstServing
  <2>9. CASE ReportMissing
    BY <2>9 DEF ReportMissing, ServesFirstServing
  <2>10. CASE UNCHANGED evaluationVars
    <3>1. UNCHANGED <<at, input, served, reason>>
      BY <2>10 DEF evaluationVars
    <3>2. Explanations' = Explanations /\ Config' = Config
      BY <3>1 DEF Explanations, Config
    <3> QED
      BY <3>1, <3>2 DEF ServesFirstServing, ServedByFirst
  <2> QED
    BY <2>1, <2>2, <2>3, <2>4, <2>5, <2>6, <2>7, <2>8, <2>9, <2>10 DEF EvaluationNext
<1> QED
  BY <1>1, <1>2, WalkFollowsHolds, PTL DEF EvaluationSpec

\* The ends of the shares of a rollout.
LEMMA EndsExist ==
  ASSUME NEW shares, IsShares(shares)
  PROVE  \E end \in [0 .. Len(shares) -> Nat] :
            end = [n \in 0 .. Len(shares) |->
                      IF n = 0 THEN 0 ELSE end[n - 1] + shares[n].percentage]
<1> DEFINE endOf(g, n) == IF n = 0 THEN 0 ELSE g[n - 1] + shares[n].percentage
           upTo(m) == {g \in [0 .. m -> Nat] : \A n \in 0 .. m : g[n] = endOf(g, n)}
           Missed == {m \in 0 .. Len(shares) : upTo(m) = {}}
<1>1. Len(shares) \in Nat /\ \A n \in 1 .. Len(shares) : shares[n].percentage \in Nat
  BY BucketsAssumption DEF IsShares, IsList
<1>2. Missed = {}
  <2> SUFFICES ASSUME Missed # {} PROVE FALSE
    OBVIOUS
  <2>1. Missed \in SUBSET Nat
    BY <1>1
  <2>2. PICK m \in Missed : \A k \in Missed : m <= k
    <3> HIDE DEF Missed
    <3> QED
      BY <2>1, LeastNat
  <2>3. m \in 0 .. Len(shares) /\ upTo(m) = {}
    OBVIOUS
  <2>4. CASE m = 0
    <3> DEFINE g == [n \in 0 .. 0 |-> 0]
    <3>1. g \in [0 .. m -> Nat] /\ \A n \in 0 .. m : g[n] = endOf(g, n)
      BY <2>4
    <3>2. g \in upTo(m)
      BY <3>1
    <3> QED
      BY <2>3, <3>2
  <2>5. CASE m # 0
    <3>1. m - 1 \in 0 .. Len(shares) /\ m - 1 \in Nat /\ m \in 1 .. Len(shares) /\ ~(m <= m - 1)
      BY <1>1, <2>3, <2>5
    <3>2. upTo(m - 1) # {}
      BY <2>2, <3>1
    <3>3. PICK g \in [0 .. m - 1 -> Nat] : \A n \in 0 .. m - 1 : g[n] = endOf(g, n)
      BY <3>2
    <3> DEFINE h == [n \in 0 .. m |-> IF n = m THEN g[m - 1] + shares[m].percentage ELSE g[n]]
    <3>4. g[m - 1] \in Nat /\ shares[m].percentage \in Nat
      BY <1>1, <3>1, <3>3
    <3>5. h \in [0 .. m -> Nat]
      BY <3>1, <3>3, <3>4
    <3>6. \A n \in 0 .. m - 1 : h[n] = g[n]
      BY <3>1
    <3>7. h[m] = g[m - 1] + shares[m].percentage
      BY <3>1
    <3> HIDE DEF h
    <3>8. ASSUME NEW n \in 0 .. m PROVE h[n] = endOf(h, n)
      <4>1. CASE n = m
        BY <2>5, <3>1, <3>6, <3>7, <4>1
      <4>2. CASE n # m /\ n = 0
        BY <3>1, <3>3, <3>6, <4>2
      <4>3. CASE n # m /\ n # 0
        <5>1. n \in 0 .. m - 1 /\ n - 1 \in 0 .. m - 1
          BY <3>1, <4>3
        <5>2. h[n] = g[n] /\ h[n - 1] = g[n - 1] /\ g[n] = endOf(g, n)
          BY <3>3, <3>6, <5>1
        <5> QED
          BY <4>3, <5>2
      <4> QED
        BY <4>1, <4>2, <4>3
    <3>9. h \in upTo(m)
      BY <3>5, <3>8
    <3> QED
      BY <2>3, <3>9
  <2> QED
    BY <2>4, <2>5
<1>3. Len(shares) \in 0 .. Len(shares)
  BY <1>1
<1>4. upTo(Len(shares)) # {}
  BY <1>2, <1>3
<1>5. PICK end \in [0 .. Len(shares) -> Nat] : \A n \in 0 .. Len(shares) : end[n] = endOf(end, n)
  BY <1>4
<1>6. end = [n \in 0 .. Len(shares) |-> endOf(end, n)]
  BY <1>5
<1> QED
  BY <1>5, <1>6

LEMMA ShareEnds ==
  ASSUME NEW shares, IsShares(shares)
  PROVE  /\ ShareEnd(shares, 0) = 0
         /\ \A n \in 0 .. Len(shares) : ShareEnd(shares, n) \in Nat
         /\ \A n \in 1 .. Len(shares) :
               ShareEnd(shares, n) = ShareEnd(shares, n - 1) + shares[n].percentage
<1> DEFINE Is(end) == end = [n \in 0 .. Len(shares) |->
                                IF n = 0 THEN 0 ELSE end[n - 1] + shares[n].percentage]
           end == CHOOSE end : Is(end)
<1>1. Len(shares) \in Nat
  BY DEF IsShares, IsList
<1>2. PICK g \in [0 .. Len(shares) -> Nat] : Is(g)
  BY EndsExist
<1>3. Is(end)
  <2> HIDE DEF Is
  <2> QED
    BY <1>2
<1>4. \A n \in 0 .. Len(shares) : ShareEnd(shares, n) = end[n]
  BY DEF ShareEnd
<1> HIDE DEF end
<1>5. \A n \in 0 .. Len(shares) : end[n] = IF n = 0 THEN 0 ELSE end[n - 1] + shares[n].percentage
  BY <1>3
<1>6. \A n \in 1 .. Len(shares) : end[n] = end[n - 1] + shares[n].percentage
  BY <1>1, <1>5
<1>7. end[0] = 0
  BY <1>1, <1>5
<1> DEFINE Wrong == {n \in 0 .. Len(shares) : end[n] \notin Nat}
<1>8. Wrong = {}
  <2> SUFFICES ASSUME Wrong # {} PROVE FALSE
    OBVIOUS
  <2>1. Wrong \in SUBSET Nat
    BY <1>1
  <2>2. PICK m \in Wrong : \A k \in Wrong : m <= k
    <3> HIDE DEF Wrong
    <3> QED
      BY <2>1, LeastNat
  <2>3. m \in 1 .. Len(shares) /\ m - 1 \in 0 .. Len(shares) /\ ~(m <= m - 1)
    BY <1>1, <1>7
  <2>4. end[m - 1] \in Nat
    BY <2>2, <2>3
  <2>5. shares[m].percentage \in Nat
    BY <2>3, BucketsAssumption DEF IsShares, IsList
  <2>6. end[m] \in Nat
    BY <1>6, <2>3, <2>4, <2>5
  <2> QED
    BY <2>6
<1>9. \A n \in 1 .. Len(shares) : n \in 0 .. Len(shares) /\ n - 1 \in 0 .. Len(shares)
  BY <1>1
<1>10. 0 \in 0 .. Len(shares)
  BY <1>1
<1> HIDE DEF Is
<1> QED
  BY <1>4, <1>6, <1>7, <1>8, <1>9, <1>10

\* The ends go up.
LEMMA EndsGoUp ==
  ASSUME NEW shares, IsShares(shares), NEW i \in 0 .. Len(shares), NEW j \in 0 .. Len(shares),
         i <= j
  PROVE  ShareEnd(shares, i) <= ShareEnd(shares, j)
<1>1. Len(shares) \in Nat
  BY DEF IsShares, IsList
<1> DEFINE Wrong == {n \in i .. Len(shares) : ~(ShareEnd(shares, i) <= ShareEnd(shares, n))}
<1>2. Wrong = {}
  <2> SUFFICES ASSUME Wrong # {} PROVE FALSE
    OBVIOUS
  <2>1. Wrong \in SUBSET Nat
    BY <1>1
  <2>2. PICK m \in Wrong : \A k \in Wrong : m <= k
    <3> HIDE DEF Wrong
    <3> QED
      BY <2>1, LeastNat
  <2>3. /\ m \in 0 .. Len(shares) /\ ~(ShareEnd(shares, i) <= ShareEnd(shares, m))
        /\ ShareEnd(shares, i) \in Nat /\ ShareEnd(shares, m) \in Nat
    BY <1>1, ShareEnds
  <2>4. m # i /\ m - 1 \in i .. Len(shares) /\ m \in 1 .. Len(shares) /\ ~(m <= m - 1)
        /\ m - 1 \in 0 .. Len(shares)
    BY <1>1, <2>3
  <2>5. ShareEnd(shares, i) <= ShareEnd(shares, m - 1)
    BY <2>2, <2>4
  <2>6. ShareEnd(shares, m) = ShareEnd(shares, m - 1) + shares[m].percentage
        /\ ShareEnd(shares, m - 1) \in Nat
    BY <2>4, ShareEnds
  <2>7. shares[m].percentage \in Nat
    BY <2>4, BucketsAssumption DEF IsShares, IsList
  <2> QED
    BY <2>3, <2>5, <2>6, <2>7
<1>3. j \in i .. Len(shares)
  BY <1>1
<1> QED
  BY <1>2, <1>3

\* The shares of a rollout cut the buckets at their ends.
LEMMA ShareIsAnInterval ==
  ASSUME NEW shares, IsShares(shares), NEW i \in DOMAIN shares, NEW b \in Nat
  PROVE  SelectedShare(shares, b) = i <=> ShareEnd(shares, i - 1) <= b /\ b < ShareEnd(shares, i)
<1> DEFINE ends == [j \in DOMAIN shares |-> ShareEnd(shares, j)]
           beyond == {j \in 1 .. Len(ends) : b < ends[j]}
           least == CHOOSE x \in beyond : \A y \in beyond : x =< y
<1>1. IsList(shares) /\ Len(shares) \in Nat /\ DOMAIN shares = 1 .. Len(shares)
  BY DEF IsShares, IsList
<1>2. \A j \in 0 .. Len(shares) : ShareEnd(shares, j) \in Nat
  BY ShareEnds
<1>3. Len(ends) = Len(shares)
  <2>1. DOMAIN ends = DOMAIN shares /\ \A j \in DOMAIN ends : ends[j] \in Nat
    BY <1>1, <1>2
  <2>2. ends = [j \in DOMAIN ends |-> ends[j]]
    OBVIOUS
  <2> HIDE DEF ends
  <2> QED
    BY <1>1, <2>1, <2>2, MappedIsList
<1>4. SelectedShare(shares, b) = IF beyond # {} THEN least ELSE 0
  BY DEF SelectedShare, SelectInSeq, Min
<1>5. \A j \in 1 .. Len(shares) : j \in beyond <=> b < ShareEnd(shares, j)
  BY <1>1, <1>3
<1>6. beyond \in SUBSET Nat /\ beyond \subseteq 1 .. Len(shares)
  BY <1>3
<1> HIDE DEF beyond
<1>7. beyond # {} => least \in beyond /\ \A y \in beyond : least <= y
  <2>1. beyond # {} => \E x \in beyond : \A y \in beyond : x <= y
    BY <1>6, LeastNat
  <2> QED
    BY <2>1
<1> HIDE DEF least
<1>8. i \in 1 .. Len(shares) /\ i - 1 \in 0 .. Len(shares) /\ i \in 0 .. Len(shares)
  BY <1>1
<1>9. ASSUME SelectedShare(shares, b) = i
      PROVE  ShareEnd(shares, i - 1) <= b /\ b < ShareEnd(shares, i)
  <2>1. i \in beyond /\ \A y \in beyond : i <= y
    BY <1>4, <1>7, <1>8, <1>9
  <2>2. b < ShareEnd(shares, i)
    BY <1>5, <1>8, <2>1
  <2>3. CASE i = 1
    BY <2>2, <2>3, ShareEnds
  <2>4. CASE i # 1
    <3>1. i - 1 \in 1 .. Len(shares) /\ ~(i <= i - 1)
      BY <1>8, <2>4
    <3>2. ~(b < ShareEnd(shares, i - 1))
      BY <1>5, <2>1, <3>1
    <3> QED
      BY <1>2, <1>8, <2>2, <3>2
  <2> QED
    BY <2>3, <2>4
<1>10. ASSUME ShareEnd(shares, i - 1) <= b, b < ShareEnd(shares, i)
       PROVE  SelectedShare(shares, b) = i
  <2>1. i \in beyond
    BY <1>5, <1>8, <1>10
  <2>2. least \in beyond /\ least <= i /\ least \in 1 .. Len(shares)
    BY <1>6, <1>7, <2>1
  <2>3. ~(least < i)
    <3> SUFFICES ASSUME least < i PROVE FALSE
      OBVIOUS
    <3>1. least \in 0 .. Len(shares) /\ least <= i - 1
      BY <1>8, <2>2
    <3>2. ShareEnd(shares, least) <= ShareEnd(shares, i - 1)
      BY <1>8, <3>1, EndsGoUp
    <3>3. b < ShareEnd(shares, least)
      BY <1>5, <2>2
    <3>4. ShareEnd(shares, least) \in Nat /\ ShareEnd(shares, i - 1) \in Nat
      BY <1>2, <1>8, <3>1
    <3> QED
      BY <1>10, <3>2, <3>3, <3>4
  <2>4. least = i
    BY <1>8, <2>2, <2>3
  <2> QED
    BY <1>4, <2>1, <2>4
<1> QED
  BY <1>9, <1>10

LEMMA SharesAreExactIn ==
  ASSUME NEW shares, IsShares(shares), ShareEnd(shares, Len(shares)) <= Buckets,
         NEW i \in DOMAIN shares
  PROVE  Cardinality({b \in 0 .. Buckets - 1 : SelectedShare(shares, b) = i}) = shares[i].percentage
<1> DEFINE from == ShareEnd(shares, i - 1)
           to == ShareEnd(shares, i)
           taken == {b \in 0 .. Buckets - 1 : SelectedShare(shares, b) = i}
<1>1. Len(shares) \in Nat /\ i \in 1 .. Len(shares)
  BY DEF IsShares, IsList
<1>2. i - 1 \in 0 .. Len(shares) /\ i \in 0 .. Len(shares) /\ Len(shares) \in 0 .. Len(shares)
      /\ i <= Len(shares)
  BY <1>1
<1>3. from \in Nat /\ to \in Nat /\ to = from + shares[i].percentage
  BY <1>1, <1>2, ShareEnds
<1>4. to <= Buckets
  <2>1. to <= ShareEnd(shares, Len(shares)) /\ ShareEnd(shares, Len(shares)) \in Nat
    BY <1>2, EndsGoUp, ShareEnds
  <2> QED
    BY <1>3, <2>1, BucketsAssumption
<1>5. shares[i].percentage \in Nat
  BY BucketsAssumption DEF IsShares
<1>6. \A b \in 0 .. Buckets - 1 : SelectedShare(shares, b) = i <=> from <= b /\ b < to
  <2> TAKE b \in 0 .. Buckets - 1
  <2>1. b \in Nat
    BY BucketsAssumption
  <2> QED
    BY <2>1, ShareIsAnInterval
<1> HIDE DEF from, to
<1>7. taken = from .. to - 1
  BY <1>3, <1>4, <1>6, BucketsAssumption
<1>8. Cardinality(from .. to - 1) = IF from > to - 1 THEN 0 ELSE (to - 1) - from + 1
  <2>1. from \in Int /\ to - 1 \in Int
    BY <1>3
  <2> QED
    BY <2>1, FS_Interval
<1>9. Cardinality(from .. to - 1) = shares[i].percentage
  BY <1>3, <1>5, <1>8
<1> QED
  BY <1>7, <1>9

\* An operator and its negation, for each type of target.
LEMMA TextNegation ==
  ASSUME NEW v, NEW targets, NEW op \in Operators["text"] \cap DOMAIN Negation,
         First(targets) # {} \/ op # "equals"
  PROVE  CompareText(v, op, targets) <=> ~CompareText(v, Negation[op], targets)
<1>1. op \in {"equals", "is one of", "starts with any of", "ends with any of"}
  BY DEF Operators, Negation
<1>2. CASE op = "equals"
  <2>1. Negation[op] = "does not equal"
    BY <1>2 DEF Negation
  <2> QED
    BY <1>2, <2>1 DEF CompareText
<1>3. CASE op = "is one of"
  <2>1. Negation[op] = "is not one of"
    BY <1>3 DEF Negation
  <2> QED
    BY <1>3, <2>1 DEF CompareText
<1>4. CASE op = "starts with any of"
  <2>1. Negation[op] = "does not start with any of"
    BY <1>4 DEF Negation
  <2> QED
    BY <1>4, <2>1 DEF CompareText
<1>5. CASE op = "ends with any of"
  <2>1. Negation[op] = "does not end with any of"
    BY <1>5 DEF Negation
  <2> QED
    BY <1>5, <2>1 DEF CompareText
<1> QED
  BY <1>1, <1>2, <1>3, <1>4, <1>5

LEMMA ArrayNegation ==
  ASSUME NEW v, NEW targets, NEW op \in Operators["array"] \cap DOMAIN Negation
  PROVE  CompareArray(v, op, targets) <=> ~CompareArray(v, Negation[op], targets)
<1>1. op = "contains any of" /\ Negation[op] = "does not contain any of"
  BY DEF Operators, Negation
<1> QED
  BY <1>1 DEF CompareArray

SomeInOrder(S, operator, T) == \E v \in S, t \in T : InOrder(v, operator, t)

\* Of two sets with one number each, one number is before the other or it is not.
LEMMA OneIsBefore ==
  ASSUME NEW S, NEW T, NEW a \in Int, NEW b \in Int, S = {a}, T = {b}
  PROVE  /\ SomeInOrder(S, "<", T) <=> ~SomeInOrder(S, ">=", T)
         /\ SomeInOrder(S, ">", T) <=> ~SomeInOrder(S, "<=", T)
<1>1. InOrder(a, "<", b) <=> ~InOrder(a, ">=", b)
  BY DEF InOrder
<1>2. InOrder(a, ">", b) <=> ~InOrder(a, "<=", b)
  BY DEF InOrder
<1> QED
  BY <1>1, <1>2 DEF SomeInOrder

LEMMA FirstIsAText == ASSUME NEW targets \in Seq(Texts) PROVE First(targets) \subseteq Texts
  BY DEF First

LEMMA NumberNegation ==
  ASSUME NEW v, ParseFinite(v) \subseteq Int, Render(v) \in Texts, NEW targets \in Seq(Texts),
         NEW op \in Operators["number"] \cap DOMAIN Negation,
         \E t \in First(targets) : NumberIn[t] # {}, op = "=" \/ ParseFinite(v) # {}
  PROVE  CompareNumeric(v, op, targets) <=> ~CompareNumeric(v, Negation[op], targets)
<1> DEFINE given == ParseFinite(v)
           target == UNION {NumberIn[t] : t \in First(targets)}
<1>1. op \in {"=", "<", ">"}
  BY DEF Operators, Negation
<1>2. PICK x \in First(targets) : NumberIn[x] # {}
  OBVIOUS
<1>3. x \in Texts /\ First(targets) = {x}
  BY <1>2, FirstIsAText DEF First
<1>4. PICK b \in NumberIn[x] : TRUE
  BY <1>2
<1>5. b \in Int /\ target = {b}
  BY <1>3, <1>4, TextsAssumption
<1>6. given = {} \/ \E a \in Int : given = {a}
  <2>1. CASE Has(v, "number")
    BY <2>1 DEF ParseFinite
  <2>2. CASE ~Has(v, "number") /\ Has(v, "text")
    <3>1. Render(v) = v.text
      BY <2>2 DEF Render, IsScalar, RenderScalar
    <3>2. given = NumberIn[v.text] /\ v.text \in Texts
      BY <2>2, <3>1 DEF ParseFinite
    <3> DEFINE txt == v.text
    <3>3. given = NumberIn[txt] /\ txt \in Texts
      BY <3>2
    <3> HIDE DEF txt, given
    <3>4. \A n, m \in given : n \in Int /\ n = m
      BY <3>3, TextsAssumption
    <3> QED
      BY <3>4
  <2>3. CASE ~Has(v, "number") /\ ~Has(v, "text")
    BY <2>3 DEF ParseFinite
  <2> QED
    BY <2>1, <2>2, <2>3
<1>7. /\ CompareNumeric(v, "=", targets) <=> given # {} /\ target # {} /\ given = target
      /\ CompareNumeric(v, "!=", targets) <=> given = {} \/ (target # {} /\ given # target)
  BY DEF CompareNumeric
<1>8. op # "=" => given # {}
  OBVIOUS
<1> HIDE DEF given, target
<1>9. CASE op = "="
  <2>1. Negation[op] = "!="
    BY <1>9 DEF Negation
  <2>2. target # {}
    BY <1>5
  <2> QED
    BY <1>7, <1>9, <2>1, <2>2
<1>10. CASE op # "="
  <2>1. PICK a \in Int : given = {a}
    BY <1>6, <1>8, <1>10
  <2>2. \A o \in {"<", ">", "<=", ">="} :
           CompareNumeric(v, o, targets) <=> SomeInOrder(given, o, target)
    BY <1>5, <2>1 DEF CompareNumeric, SomeInOrder, given, target
  <2>3. /\ SomeInOrder(given, "<", target) <=> ~SomeInOrder(given, ">=", target)
        /\ SomeInOrder(given, ">", target) <=> ~SomeInOrder(given, "<=", target)
    BY <1>5, <2>1, OneIsBefore
  <2>4. Negation["<"] = ">=" /\ Negation[">"] = "<="
    BY DEF Negation
  <2> QED
    BY <1>1, <1>10, <2>2, <2>3, <2>4
<1> QED
  BY <1>9, <1>10

LEMMA SemverNegation ==
  ASSUME NEW v \in Texts, NEW targets \in Seq(Texts),
         NEW op \in Operators["semver"] \cap DOMAIN Negation,
         op = "is one of" \/ (VersionIn[v] # {} /\ \E t \in First(targets) : VersionIn[t] # {})
  PROVE  CompareSemver(v, op, targets) <=> ~CompareSemver(v, Negation[op], targets)
<1> DEFINE version == VersionIn[v]
           target == UNION {VersionIn[f] : f \in First(targets)}
<1>1. op \in {"is one of", "<", ">"}
  BY DEF Operators, Negation
<1>2. CASE op = "is one of"
  <2>1. Negation[op] = "is not one of"
    BY <1>2 DEF Negation
  <2> QED
    BY <1>2, <2>1 DEF CompareSemver
<1>3. CASE op # "is one of"
  <2>1. version # {} /\ v \notin Blank
    BY <1>3, TextsAssumption
  <2>2. PICK x \in First(targets) : VersionIn[x] # {}
    BY <1>3
  <2>3. x \in Texts /\ First(targets) = {x}
    BY <2>2, FirstIsAText DEF First
  <2>4. PICK b \in VersionIn[x] : TRUE
    BY <2>2
  <2>5. b \in Int /\ target = {b}
    <3>0. \A n, m \in VersionIn[x] : n \in Int /\ n = m
      BY <2>3, TextsAssumption
    <3>1. \A n \in VersionIn[x] : n \in Int /\ n = b
      BY <2>4, <3>0
    <3>2. VersionIn[x] = {b}
      BY <2>4, <3>1
    <3> QED
      BY <2>3, <2>4, <3>1, <3>2
  <2>6. PICK a \in version : TRUE
    BY <2>1
  <2>7. a \in Int /\ version = {a}
    <3>1. \A n \in version : n \in Int /\ n = a
      BY <2>6, TextsAssumption
    <3> QED
      BY <2>6, <3>1
  <2>8. \A o \in {"<", ">", "<=", ">="} :
           CompareSemver(v, o, targets) <=> SomeInOrder(version, o, target)
    BY <2>1 DEF CompareSemver, SomeInOrder
  <2> HIDE DEF version, target
  <2>9. /\ SomeInOrder(version, "<", target) <=> ~SomeInOrder(version, ">=", target)
        /\ SomeInOrder(version, ">", target) <=> ~SomeInOrder(version, "<=", target)
    BY <2>5, <2>7, OneIsBefore
  <2>10. Negation["<"] = ">=" /\ Negation[">"] = "<="
    BY DEF Negation
  <2> QED
    BY <1>1, <1>3, <2>8, <2>9, <2>10
<1> QED
  BY <1>2, <1>3

LEMMA NegationsCut ==
  ASSUME AdmittedInput, ServerWalks, NEW r \in DOMAIN Config.rules,
         NEW i \in DOMAIN Config.rules[r].conditions, NEW c, c = Config.rules[r].conditions[i],
         c.kind = "attribute", Decidable(c),
         NEW v, v = ResolveAttribute(c, context, input.metadata)
  PROVE  Compare(c, v) <=> ~Compare([c EXCEPT !.operator = Negation[@]], v)
<1>1. IsCondition(c)
  BY ConfigIsTyped DEF IsConfig, IsRule
<1>2. /\ {"operator", "targetType", "targetValues"} \subseteq DOMAIN c
      /\ c.targetType \in DOMAIN Operators /\ c.targetValues \in Seq(Texts)
  BY <1>1 DEF IsCondition
<1>3. Render(v) \in Texts /\ ParseFinite(v) \subseteq Int
  <2>1. input \in Inputs /\ input.side = "server" /\ Config \in input.config
    BY DEF AdmittedInput, ServerWalks, Config
  <2>2. IsReadable(Config, input.context, input.metadata)
    BY <2>1, InputsAssumption
  <2>3. context \in {input.context, NoContext}
    BY DEF AdmittedInput, AdmittedContext
  <2> QED
    BY <2>2, <2>3 DEF IsReadable
<1> DEFINE d == [c EXCEPT !.operator = Negation[@]]
           op == c.operator
           targets == c.targetValues
<1>4. d.operator = Negation[op] /\ d.targetType = c.targetType /\ d.targetValues = targets
  BY <1>2
<1> HIDE DEF d
<1>5. op \in Operators[c.targetType] \cap DOMAIN Negation
  BY DEF Decidable
<1>6. CASE c.targetType = "text"
  <2>1. First(targets) # {} \/ op # "equals"
    BY <1>6 DEF Decidable
  <2>2. /\ Compare(c, v) <=> CompareText(Render(v), op, targets)
        /\ Compare(d, v) <=> CompareText(Render(v), Negation[op], targets)
    BY <1>4, <1>6 DEF Compare
  <2>3. op \in Operators["text"] \cap DOMAIN Negation
    BY <1>5, <1>6
  <2> HIDE DEF op, targets
  <2> QED
    BY <2>1, <2>2, <2>3, TextNegation DEF d, op
<1>7. CASE c.targetType = "array"
  <2>2. /\ Compare(c, v) <=> CompareArray(v, op, targets)
        /\ Compare(d, v) <=> CompareArray(v, Negation[op], targets)
    BY <1>4, <1>7 DEF Compare
  <2>3. op \in Operators["array"] \cap DOMAIN Negation
    BY <1>5, <1>7
  <2> HIDE DEF op, targets
  <2> QED
    BY <2>2, <2>3, ArrayNegation DEF d, op
<1>8. CASE c.targetType = "number"
  <2>1. (\E t \in First(targets) : NumberIn[t] # {}) /\ (op = "=" \/ ParseFinite(v) # {})
    BY <1>8 DEF Decidable
  <2>2. /\ Compare(c, v) <=> CompareNumeric(v, op, targets)
        /\ Compare(d, v) <=> CompareNumeric(v, Negation[op], targets)
    BY <1>4, <1>8 DEF Compare
  <2>3. op \in Operators["number"] \cap DOMAIN Negation /\ targets \in Seq(Texts)
    BY <1>2, <1>5, <1>8
  <2> HIDE DEF op, targets
  <2> QED
    BY <1>3, <2>1, <2>2, <2>3, NumberNegation DEF d, op
<1>9. CASE c.targetType = "semver"
  <2>1. \/ op = "is one of"
        \/ VersionIn[Render(v)] # {} /\ \E t \in First(targets) : VersionIn[t] # {}
    BY <1>9 DEF Decidable
  <2>2. /\ Compare(c, v) <=> CompareSemver(Render(v), op, targets)
        /\ Compare(d, v) <=> CompareSemver(Render(v), Negation[op], targets)
    BY <1>4, <1>9 DEF Compare
  <2>3. op \in Operators["semver"] \cap DOMAIN Negation /\ targets \in Seq(Texts)
    BY <1>2, <1>5, <1>9
  <2> HIDE DEF op, targets
  <2> QED
    BY <1>3, <2>1, <2>2, <2>3, SemverNegation DEF d, op
<1>10. CASE c.targetType \notin {"text", "array", "number", "semver"}
  BY <1>10 DEF Decidable
<1> QED
  BY <1>6, <1>7, <1>8, <1>9, <1>10 DEF d

\* The shares of a rollout cut the buckets, and an operator and its negation the values,
\* with no overlap and no gap, for every number of buckets, rollout, condition and context
\* (ConfigEvaluator.explainRollout, the comparisons).
THEOREM CutsAlwaysExact == EvaluationSpec => []CutsAreExact
<1>1. AdmittedInput => SharesAreExact
  <2> SUFFICES ASSUME AdmittedInput, input.side = "server",
                      NEW config \in input.config, NEW r \in DOMAIN config.rules,
                      NEW shares \in config.rules[r].percentages, NEW i \in DOMAIN shares,
                      ShareEnd(shares, Len(shares)) <= Buckets
               PROVE  Cardinality({b \in 0 .. Buckets - 1 : SelectedShare(shares, b) = i})
                        = shares[i].percentage
    BY DEF SharesAreExact
  <2>1. IsConfig(config)
    BY InputsAssumption DEF AdmittedInput
  <2>2. IsShares(shares)
    BY <2>1 DEF IsConfig, IsRule
  <2> QED
    BY <2>2, SharesAreExactIn
<1>2. AdmittedInput => NegationsPartition
  <2> SUFFICES ASSUME AdmittedInput, input.side = "server", at = "reading",
                      NEW r \in DOMAIN Config.rules, NEW i \in DOMAIN Config.rules[r].conditions,
                      Config.rules[r].conditions[i].kind = "attribute",
                      Decidable(Config.rules[r].conditions[i])
               PROVE  LET condition == Config.rules[r].conditions[i]
                          value == ResolveAttribute(condition, context, input.metadata)
                      IN  Compare(condition, value)
                          <=> ~Compare([condition EXCEPT !.operator = Negation[@]], value)
    BY DEF NegationsPartition
  <2>1. ServerWalks
    BY DEF ServerWalks
  <2> QED
    BY <2>1, NegationsCut
<1> QED
  BY <1>1, <1>2, AdmittedInputHolds, PTL DEF CutsAreExact
----------------------------------------------------------------------------
(* The values.  What is read has the one field its default has.            *)

IsInCode(default) ==
    DOMAIN default \in {{"text"}, {"number"}, {"flag"}, {"items"}, {"members"}, {"null"}}
ReadErrors == {"type-mismatch", "value-missing", "invalid-number", "invalid-json", "invalid-boolean"}

\* A read either took the default, for an error, or has a value with the default's shape.
IsRead(read, default) ==
    \/ \E error \in ReadErrors : read = InCodeDefault(default, error)
    \/ \E value : read = Parsed(value) /\ JsonShapeOf(value) = JsonShapeOf(default)

LEMMA OneShape ==
  ASSUME NEW value, NEW kind, DOMAIN value = {kind}
  PROVE  JsonShapeOf(value) = kind
  BY DEF JsonShapeOf

LEMMA ShapesAreFields ==
  ASSUME NEW default, IsInCode(default)
  PROVE  DOMAIN default = {JsonShapeOf(default)}
  BY OneShape DEF IsInCode

LEMMA OnlyField ==
  ASSUME NEW default, IsInCode(default), NEW kind, JsonShapeOf(default) = kind
  PROVE  \A other : Has(default, other) <=> other = kind
  BY ShapesAreFields DEF Has

LEMMA ScalarShapes ==
  ASSUME NEW x
  PROVE  /\ JsonShapeOf([text |-> x]) = "text" /\ JsonShapeOf([number |-> x]) = "number"
         /\ JsonShapeOf([flag |-> x]) = "flag"
<1>1. DOMAIN [text |-> x] = {"text"} /\ DOMAIN [number |-> x] = {"number"} /\ DOMAIN [flag |-> x] = {"flag"}
  OBVIOUS
<1>2. JsonShapeOf([text |-> x]) = "text"
  BY <1>1, OneShape
<1>3. JsonShapeOf([number |-> x]) = "number"
  BY <1>1, OneShape
<1>4. JsonShapeOf([flag |-> x]) = "flag"
  BY <1>1, OneShape
<1> QED
  BY <1>2, <1>3, <1>4

LEMMA OneOfThem ==
  ASSUME NEW values, NEW default, NEW error \in ReadErrors,
         \A value \in values : JsonShapeOf(value) = JsonShapeOf(default)
  PROVE  IsRead(ParsedOr(values, default, error), default)
<1>1. CASE values = {}
  BY <1>1 DEF IsRead, ParsedOr
<1>2. CASE values # {}
  <2>1. (CHOOSE v \in values : TRUE) \in values
    BY <1>2
  <2>2. ParsedOr(values, default, error) = Parsed(CHOOSE v \in values : TRUE)
    BY <1>2 DEF ParsedOr
  <2> QED
    BY <2>1, <2>2 DEF IsRead
<1> QED
  BY <1>1, <1>2

LEMMA DefaultIsRead ==
  ASSUME NEW default, NEW error \in ReadErrors
  PROVE  IsRead(InCodeDefault(default, error), default)
  BY DEF IsRead

LEMMA ReadsAsDefault ==
  ASSUME NEW text, NEW type, NEW default, IsInCode(default)
  PROVE  IsRead(ReadAs(text, type, default), default)
<1> DEFINE shape == JsonShapeOf(default)
<1>1. \A kind : Has(default, kind) <=> kind = shape
  BY ShapesAreFields DEF Has
<1>2. {"type-mismatch", "invalid-number", "invalid-json", "invalid-boolean"} \subseteq ReadErrors
  BY DEF ReadErrors
<1>3. Has(default, "text") => IsRead(Parsed([text |-> text]), default)
  BY <1>1, ScalarShapes DEF IsRead
<1>4. IsRead(ParseJson(text, default), default)
  <2> DEFINE values == {v \in JsonIn[text] : v # Null /\ JsonShapeOf(v) = JsonShapeOf(default)}
  <2>1. IsRead(ParsedOr(values, default, "type-mismatch"), default)
    BY <1>2, OneOfThem
  <2>2. IsRead(InCodeDefault(default, "invalid-json"), default)
    BY <1>2, DefaultIsRead
  <2> QED
    BY <1>3, <2>1, <2>2 DEF ParseJson
<1>5. Has(default, "flag") =>
          IsRead(ParsedOr({[flag |-> b] : b \in BooleanIn[text]}, default, "invalid-boolean"), default)
  <2> DEFINE values == {[flag |-> b] : b \in BooleanIn[text]}
  <2>1. \A v \in values : JsonShapeOf(v) = "flag"
    BY ScalarShapes
  <2> HIDE DEF values
  <2>2. Has(default, "flag") => IsRead(ParsedOr(values, default, "invalid-boolean"), default)
    BY <1>1, <1>2, <2>1, OneOfThem
  <2> QED
    BY <2>2 DEF values
<1>6. Has(default, "number") =>
          IsRead(ParsedOr({[number |-> Trunc(n)] : n \in NumberIn[text]}, default, "invalid-number"), default)
  <2> DEFINE values == {[number |-> Trunc(n)] : n \in NumberIn[text]}
  <2>1. \A v \in values : JsonShapeOf(v) = "number"
    BY ScalarShapes
  <2> HIDE DEF values
  <2>2. Has(default, "number") => IsRead(ParsedOr(values, default, "invalid-number"), default)
    BY <1>1, <1>2, <2>1, OneOfThem
  <2> QED
    BY <2>2 DEF values
<1>7. Has(default, "number") =>
          IsRead(ParsedOr({[number |-> n] : n \in NumberIn[text]}, default, "invalid-number"), default)
  <2> DEFINE values == {[number |-> n] : n \in NumberIn[text]}
  <2>1. \A v \in values : JsonShapeOf(v) = "number"
    BY ScalarShapes
  <2> HIDE DEF values
  <2>2. Has(default, "number") => IsRead(ParsedOr(values, default, "invalid-number"), default)
    BY <1>1, <1>2, <2>1, OneOfThem
  <2> QED
    BY <2>2 DEF values
<1>8. IsRead(InCodeDefault(default, "type-mismatch"), default)
  BY <1>2, DefaultIsRead
<1> HIDE DEF shape
<1> QED
  BY <1>3, <1>4, <1>5, <1>6, <1>7, <1>8 DEF ReadAs

\* What parseConfigValue returns: the ids of the value come along only with the value.
LEMMA ReadCarries ==
  ASSUME NEW state, NEW default, IsInCode(default)
  PROVE  LET read == ParseConfigValue(state, default) IN
         \/ \E error \in ReadErrors : read = WithIds(InCodeDefault(default, error), {}, {}, {})
         \/ \E value : /\ JsonShapeOf(value) = JsonShapeOf(default)
                       /\ read = WithIds(Parsed(value), state.valueId, state.variation, state.share)
<1> DEFINE read == ParseValueAndReason(state, default)
<1>1. IsRead(read, default)
  <2>1. "value-missing" \in ReadErrors
    BY DEF ReadErrors
  <2>2. IsRead(InCodeDefault(default, "value-missing"), default)
    BY <2>1, DefaultIsRead
  <2> QED
    BY <2>2, ReadsAsDefault DEF ParseValueAndReason
<1> HIDE DEF read
<1>2. \A error : InCodeDefault(default, error).usedDefault = TRUE
  BY DEF InCodeDefault
<1>3. \A value : Parsed(value).usedDefault = FALSE
  BY DEF Parsed
<1>4. ParseConfigValue(state, default) =
        IF read.usedDefault THEN WithIds(read, {}, {}, {})
        ELSE WithIds(read, state.valueId, state.variation, state.share)
  BY DEF ParseConfigValue, read
<1> QED
  BY <1>1, <1>2, <1>3, <1>4 DEF IsRead

\* What encodeNativeValue makes of a value is one config state, which reads back as the
\* value under a default of its kind and decodes to it.
KeptAs(value, state) ==
    /\ state.value # {}
    /\ OfflineValueOf(state) = value
    /\ NativeValueConfigStates(value) = {state}
    /\ \A default :
          IsInCode(default) /\ JsonShapeOf(default) = JsonShapeOf(value) /\ value # [text |-> Empty]
              => ParseValueAndReason(state, default) = Parsed(value)

EncodesAs(value, type, text) == EncodeNativeValue(value) = {[type |-> type, value |-> text]}

LEMMA EncodedAlone ==
  ASSUME NEW value, NEW type, NEW text, EncodesAs(value, type, text)
  PROVE  NativeValueConfigStates(value) = {ConfigState(type, {text}, {}, {}, {})}
<1>1. EncodeNativeValue(value) = {[type |-> type, value |-> text]}
  BY DEF EncodesAs
<1> QED
  BY <1>1 DEF NativeValueConfigStates

LEMMA ReadAlone ==
  ASSUME NEW type, NEW text, NEW default
  PROVE  LET state == ConfigState(type, {text}, {}, {}, {}) IN
         /\ state.value # {}
         /\ OfflineValueOf(state) = DecodeNativeValue(type, text)
         /\ text # Empty => ParseValueAndReason(state, default) = ReadAs(text, type, default)
<1> DEFINE state == ConfigState(type, {text}, {}, {}, {})
<1>1. state.value = {text} /\ state.type = type
  BY DEF ConfigState
<1>2. (CHOOSE t \in state.value : TRUE) = text
  BY <1>1
<1> HIDE DEF state
<1>3. OfflineValueOf(state) = DecodeNativeValue(type, text)
  BY <1>1, <1>2 DEF OfflineValueOf
<1>4. text # Empty => ParseValueAndReason(state, default) = ReadAs(text, type, default)
  BY <1>1, <1>2 DEF ParseValueAndReason
<1> QED
  BY <1>1, <1>3, <1>4 DEF state

LEMMA OnlyOne == ASSUME NEW value, NEW values, values = {value} PROVE (CHOOSE v \in values : TRUE) = value
  OBVIOUS

LEMMA TextIsKept ==
  ASSUME NEW text \in Texts
  PROVE  KeptAs([text |-> text], ConfigState("string", {text}, {}, {}, {}))
<1> DEFINE value == [text |-> text]
           state == ConfigState("string", {text}, {}, {}, {})
<1>1. EncodesAs(value, "string", text)
  BY DEF EncodesAs, EncodeNativeValue, Has
<1>2. NativeValueConfigStates(value) = {state}
  BY <1>1, EncodedAlone
<1>3. state.value # {} /\ OfflineValueOf(state) = value
  BY ReadAlone DEF DecodeNativeValue
<1>4. ASSUME NEW default, IsInCode(default), JsonShapeOf(default) = JsonShapeOf(value),
             value # [text |-> Empty]
      PROVE  ParseValueAndReason(state, default) = Parsed(value)
  <2>1. Has(default, "text") /\ ~Has(default, "flag") /\ ~Has(default, "number")
    <3>1. JsonShapeOf(default) = "text"
      BY <1>4, ScalarShapes
    <3> QED
      BY <1>4, <3>1, OnlyField
  <2>2. ReadAs(text, "string", default) = Parsed(value)
    BY <2>1 DEF ReadAs, NotReadableAsString
  <2>3. text # Empty
    BY <1>4
  <2> QED
    BY <2>2, <2>3, ReadAlone
<1> HIDE DEF value, state
<1>5. KeptAs(value, state)
  BY <1>2, <1>3, <1>4 DEF KeptAs
<1> QED
  BY <1>5 DEF value, state

LEMMA FlagIsKept ==
  ASSUME NEW flag \in BOOLEAN
  PROVE  LET text == IF flag THEN "true" ELSE "false" IN
         KeptAs([flag |-> flag], ConfigState("boolean", {text}, {}, {}, {}))
<1> DEFINE value == [flag |-> flag]
           text == IF flag THEN "true" ELSE "false"
           state == ConfigState("boolean", {text}, {}, {}, {})
<1>1. EncodesAs(value, "boolean", text)
  BY DEF EncodesAs, EncodeNativeValue, Has, RenderScalar
<1>2. NativeValueConfigStates(value) = {state}
  <2> HIDE DEF text
  <2> QED
    BY <1>1, EncodedAlone
<1>3. text # Empty /\ (text = "true" <=> flag = TRUE) /\ BooleanIn[text] = {flag}
  <2>1. CASE flag = TRUE
    BY <2>1, RoundTripAssumption
  <2>2. CASE flag = FALSE
    BY <2>2, RoundTripAssumption
  <2> QED
    BY <2>1, <2>2
<1> HIDE DEF text
<1>4. DecodeNativeValue("boolean", text) = value
  <2>1. DecodeNativeValue("boolean", text) = [flag |-> text = "true"]
    BY DEF DecodeNativeValue
  <2>2. (text = "true") = flag
    BY <1>3
  <2> QED
    BY <2>1, <2>2
<1>5. state.value # {} /\ OfflineValueOf(state) = value
  BY <1>4, ReadAlone
<1>6. ASSUME NEW default, IsInCode(default), JsonShapeOf(default) = JsonShapeOf(value)
      PROVE  ParseValueAndReason(state, default) = Parsed(value)
  <2>1. Has(default, "flag") /\ ~Has(default, "text") /\ ~Has(default, "number")
    <3>1. JsonShapeOf(default) = "flag"
      BY <1>6, ScalarShapes
    <3> QED
      BY <1>6, <3>1, OnlyField
  <2>2. {[flag |-> b] : b \in BooleanIn[text]} = {value}
    BY <1>3
  <2>3. ReadAs(text, "boolean", default)
            = ParsedOr({[flag |-> b] : b \in BooleanIn[text]}, default, "invalid-boolean")
    BY <2>1 DEF ReadAs, NotReadableAsString
  <2>4. ParsedOr({value}, default, "invalid-boolean") = Parsed(value)
    BY OnlyOne DEF ParsedOr
  <2>5. ReadAs(text, "boolean", default) = Parsed(value)
    BY <2>2, <2>3, <2>4
  <2> QED
    BY <1>3, <2>5, ReadAlone
<1> HIDE DEF value, state
<1>7. KeptAs(value, state)
  BY <1>2, <1>5, <1>6 DEF KeptAs
<1> QED
  BY <1>7 DEF value, state, text

LEMMA EvenIsWhole == ASSUME NEW n \in Int, n % 2 # 1 PROVE Trunc(n) = n
<1>1. n % 2 = 0 /\ n = 2 * (n \div 2)
  OBVIOUS
<1>2. (-n) \div 2 = -(n \div 2)
  BY <1>1
<1> QED
  BY <1>1, <1>2 DEF Trunc

LEMMA NumberIsKept ==
  ASSUME NEW n \in DOMAIN Spelling, NEW type \in {"integer", "float"}, type = "integer" => n % 2 # 1,
         EncodeNumber(n) = {[type |-> type, value |-> Spelling[n]]}
  PROVE  KeptAs([number |-> n], ConfigState(type, {Spelling[n]}, {}, {}, {}))
<1> DEFINE value == [number |-> n]
           text == Spelling[n]
           state == ConfigState(type, {text}, {}, {}, {})
<1>1. n \in Int /\ text # Empty /\ NumberIn[text] = {n}
  BY RoundTripAssumption
<1>2. EncodesAs(value, type, text)
  BY DEF EncodesAs, EncodeNativeValue, Has
<1> HIDE DEF text
<1>3. NativeValueConfigStates(value) = {state}
  BY <1>2, EncodedAlone
<1>4. DecodeNativeValue(type, text) = value
  <2>1. (CHOOSE k \in NumberIn[text] : TRUE) = n
    BY <1>1, OnlyOne
  <2> QED
    BY <2>1 DEF DecodeNativeValue
<1>5. state.value # {} /\ OfflineValueOf(state) = value
  BY <1>4, ReadAlone
<1>6. ASSUME NEW default, IsInCode(default), JsonShapeOf(default) = JsonShapeOf(value)
      PROVE  ParseValueAndReason(state, default) = Parsed(value)
  <2>1. Has(default, "number") /\ ~Has(default, "text") /\ ~Has(default, "flag")
    <3>1. JsonShapeOf(default) = "number"
      BY <1>6, ScalarShapes
    <3> QED
      BY <1>6, <3>1, OnlyField
  <2>2. type = "integer" => {[number |-> Trunc(k)] : k \in NumberIn[text]} = {value}
    <3>1. type = "integer" => Trunc(n) = n
      BY <1>1, EvenIsWhole
    <3> QED
      BY <1>1, <3>1
  <2>3. {[number |-> k] : k \in NumberIn[text]} = {value}
    BY <1>1
  <2>4. ParsedOr({value}, default, "invalid-number") = Parsed(value)
    BY OnlyOne DEF ParsedOr
  <2>5. CASE type = "integer"
    <3>1. ReadAs(text, type, default)
              = ParsedOr({[number |-> Trunc(k)] : k \in NumberIn[text]}, default, "invalid-number")
      BY <2>1, <2>5 DEF ReadAs, NotReadableAsString
    <3>2. ReadAs(text, type, default) = Parsed(value)
      BY <2>2, <2>4, <2>5, <3>1
    <3> QED
      BY <1>1, <3>2, ReadAlone
  <2>6. CASE type = "float"
    <3>1. ReadAs(text, type, default)
              = ParsedOr({[number |-> k] : k \in NumberIn[text]}, default, "invalid-number")
      BY <2>1, <2>6 DEF ReadAs, NotReadableAsString
    <3>2. ReadAs(text, type, default) = Parsed(value)
      BY <2>3, <2>4, <3>1
    <3> QED
      BY <1>1, <3>2, ReadAlone
  <2> QED
    BY <2>5, <2>6
<1> HIDE DEF value, state
<1>7. KeptAs(value, state)
  BY <1>3, <1>5, <1>6 DEF KeptAs
<1> QED
  BY <1>7 DEF value, state, text

LEMMA JsonIsKept ==
  ASSUME NEW value \in DOMAIN JsonTextOf, DOMAIN value \in {{"items"}, {"members"}},
         NEW text \in JsonTextOf[value]
  PROVE  KeptAs(value, ConfigState("json", {text}, {}, {}, {}))
<1> DEFINE state == ConfigState("json", {text}, {}, {}, {})
<1>1. text # Empty /\ JsonIn[text] = {value} /\ JsonTextOf[value] = {text}
  BY RoundTripAssumption
<1>2. EncodesAs(value, "json", text)
  BY <1>1 DEF EncodesAs, EncodeNativeValue, Has
<1>3. NativeValueConfigStates(value) = {state}
  BY <1>2, EncodedAlone
<1>4. DecodeNativeValue("json", text) = value
  BY <1>1 DEF DecodeNativeValue
<1>5. state.value # {} /\ OfflineValueOf(state) = value
  BY <1>4, ReadAlone
<1>6. ASSUME NEW default, IsInCode(default), JsonShapeOf(default) = JsonShapeOf(value)
      PROVE  ParseValueAndReason(state, default) = Parsed(value)
  <2>1. ~Has(default, "text")
    <3>1. JsonShapeOf(value) \in {"items", "members"}
      BY OneShape
    <3> QED
      BY <1>6, <3>1, ShapesAreFields DEF Has
  <2>2. value # Null
    <3>1. DOMAIN Null = {"null"}
      BY DEF Null
    <3> QED
      BY <3>1
  <2>3. {v \in JsonIn[text] : v # Null /\ JsonShapeOf(v) = JsonShapeOf(default)} = {value}
    BY <1>1, <1>6, <2>2
  <2>4. ParseJson(text, default) = ParsedOr({value}, default, "type-mismatch")
    BY <1>1, <2>1, <2>3 DEF ParseJson
  <2>5. ReadAs(text, "json", default) = Parsed(value)
    BY <2>4, OnlyOne DEF ParsedOr, ReadAs
  <2>6. text # Empty
    BY <1>1
  <2>7. ParseValueAndReason(state, default) = ReadAs(text, "json", default)
    BY <2>6, ReadAlone
  <2> QED
    BY <2>5, <2>7
<1> HIDE DEF state
<1>7. KeptAs(value, state)
  BY <1>3, <1>5, <1>6 DEF KeptAs
<1> QED
  BY <1>7 DEF state

\* Every value an application may give is kept by every state that is made of it.
LEMMA NativeIsKept ==
  ASSUME NEW value, IsNative(value), NEW state \in NativeValueConfigStates(value)
  PROVE  KeptAs(value, state)
<1>1. CASE value \in [text : Texts]
  <2>1. PICK text \in Texts : value = [text |-> text]
    BY <1>1
  <2>2. KeptAs(value, ConfigState("string", {text}, {}, {}, {}))
    BY <2>1, TextIsKept
  <2> QED
    BY <2>2 DEF KeptAs
<1>2. CASE value \in [flag : BOOLEAN]
  <2>1. PICK flag \in BOOLEAN : value = [flag |-> flag]
    BY <1>2
  <2>2. \E kept : KeptAs(value, kept)
    BY <2>1, FlagIsKept
  <2> QED
    BY <2>2 DEF KeptAs
<1>3. CASE value \in [number : DOMAIN Spelling]
  <2>1. PICK n \in DOMAIN Spelling : value = [number |-> n]
    BY <1>3
  <2>2. EncodeNativeValue(value) = EncodeNumber(n)
    BY <2>1 DEF EncodeNativeValue, Has
  <2>3. EncodeNumber(n) # {}
    BY <2>2 DEF NativeValueConfigStates
  <2>4. \E type \in {"integer", "float"} :
            (type = "integer" => n % 2 # 1) /\ EncodeNumber(n) = {[type |-> type, value |-> Spelling[n]]}
    BY <2>3 DEF EncodeNumber
  <2>5. \E kept : KeptAs(value, kept)
    BY <2>1, <2>4, NumberIsKept
  <2> QED
    BY <2>5 DEF KeptAs
<1>4. CASE value = Null
  <2>1. EncodeNativeValue(value) = {}
    BY <1>4 DEF EncodeNativeValue, Has, Null
  <2> QED
    BY <2>1 DEF NativeValueConfigStates
<1>5. CASE value \in DOMAIN JsonTextOf /\ DOMAIN value \in {{"items"}, {"members"}}
  <2>1. EncodeNativeValue(value) = {[type |-> "json", value |-> t] : t \in JsonTextOf[value]}
    BY <1>5 DEF EncodeNativeValue, Has
  <2>2. PICK text \in JsonTextOf[value] : TRUE
    BY <2>1 DEF NativeValueConfigStates
  <2>3. KeptAs(value, ConfigState("json", {text}, {}, {}, {}))
    BY <1>5, JsonIsKept
  <2> QED
    BY <2>3 DEF KeptAs
<1> QED
  BY <1>1, <1>2, <1>3, <1>4, <1>5 DEF IsNative

\* Behind ValuesAreKept: a state is served only once one was taken, an offline client
\* serves only what it made of its value, and the two reasons of the server are no error.
ServedInTurn ==
    /\ at \in {"start", "walking", "missing"} => served = Nothing
    /\ at \in {"walking", "reading"} => input.inCode # InvalidDefault
    /\ input.side = "offline" /\ served # Nothing => served \in NativeValueConfigStates(input.value)
    /\ reason \in {"found-match", "rollout-skipped-no-identifier"}

LEMMA InputIsTyped ==
  ASSUME input \in Inputs
  PROVE  IsInCode(input.inCode) /\ (input.side = "offline" => IsNative(input.value))
  BY InputsAssumption DEF IsInCode

\* An evaluation that is the in-code default carries nothing of what was served; one that
\* is a value carries its ids, and the reason it is given.
ReasonsOfValues == {"found-match", "rollout-skipped-no-identifier", "cached"}
Carries(evaluation, default, ids, why) ==
    LET resolution == ResolutionOf(evaluation) IN
    IF evaluation.usedDefault
    THEN /\ evaluation.value = default /\ evaluation.reason \notin ReasonsOfValues
         /\ evaluation.valueId \cup evaluation.variation \cup evaluation.share = {}
         /\ resolution.variant = {}
         /\ resolution.errorCode = {} <=> evaluation.reason = "value-missing"
    ELSE /\ JsonShapeOf(evaluation.value) = JsonShapeOf(default)
         /\ evaluation.reason = why /\ resolution.errorCode = {}
         /\ resolution.variant = {} <=> ids = {}
         /\ resolution.reason = "CACHED" <=> why = "cached"

LEMMA DefaultCarries ==
  ASSUME NEW default, NEW ids, NEW why,
         NEW error \in ReadErrors \cup {"config-state-missing", "client-not-ready"}
  PROVE  Carries(WithIds(InCodeDefault(default, error), {}, {}, {}), default, ids, why)
<1> DEFINE evaluation == WithIds(InCodeDefault(default, error), {}, {}, {})
<1>1. /\ evaluation.usedDefault = TRUE /\ evaluation.value = default /\ evaluation.reason = error
      /\ evaluation.valueId = {} /\ evaluation.variation = {} /\ evaluation.share = {}
  BY DEF WithIds, InCodeDefault
<1> HIDE DEF evaluation
<1>2. error \notin ReasonsOfValues
  BY DEF ReadErrors, ReasonsOfValues
<1>3. /\ ResolutionOf(evaluation).variant = {}
      /\ ResolutionOf(evaluation).errorCode = {} <=> error = "value-missing"
  BY <1>1 DEF ResolutionOf, Resolved, FailedResolution, ReadErrors
<1> QED
  BY <1>1, <1>2, <1>3 DEF Carries, evaluation

LEMMA ValueCarries ==
  ASSUME NEW default, NEW value, JsonShapeOf(value) = JsonShapeOf(default),
         NEW valueId, NEW variation, NEW share, NEW why \in ReasonsOfValues
  PROVE  Carries([WithIds(Parsed(value), valueId, variation, share) EXCEPT !.reason = why],
                 default, valueId \cup variation, why)
<1> DEFINE evaluation == [WithIds(Parsed(value), valueId, variation, share) EXCEPT !.reason = why]
<1>1. /\ evaluation.usedDefault = FALSE /\ evaluation.value = value /\ evaluation.reason = why
      /\ evaluation.valueId = valueId /\ evaluation.variation = variation
  BY DEF WithIds, Parsed
<1> HIDE DEF evaluation
<1>2. VariantOf(evaluation) = {} <=> valueId \cup variation = {}
  BY <1>1 DEF VariantOf
<1>3. /\ ResolutionOf(evaluation).variant = VariantOf(evaluation)
      /\ ResolutionOf(evaluation).errorCode = {}
      /\ ResolutionOf(evaluation).reason = "CACHED" <=> why = "cached"
  BY <1>1 DEF ResolutionOf, Resolved, ReasonsOfValues
<1> QED
  BY <1>1, <1>2, <1>3 DEF Carries, evaluation

\* What both sides report: the error of the read if there was one, else the reason given.
LEMMA ReportCarries ==
  ASSUME NEW state, NEW default, IsInCode(default), NEW why \in ReasonsOfValues, NEW given,
         LET read == ParseConfigValue(state, default) IN
         given = IF read.usedDefault THEN read.reason ELSE why
  PROVE  LET evaluation == [ParseConfigValue(state, default) EXCEPT !.reason = given] IN
         /\ Carries(evaluation, default, state.valueId \cup state.variation, why)
         /\ evaluation.value = ParseConfigValue(state, default).value
         /\ evaluation.usedDefault = ParseConfigValue(state, default).usedDefault
<1> DEFINE read == ParseConfigValue(state, default)
           evaluation == [read EXCEPT !.reason = given]
           ids == state.valueId \cup state.variation
<1>1. \/ \E error \in ReadErrors : read = WithIds(InCodeDefault(default, error), {}, {}, {})
      \/ \E value : /\ JsonShapeOf(value) = JsonShapeOf(default)
                    /\ read = WithIds(Parsed(value), state.valueId, state.variation, state.share)
  BY ReadCarries
<1>2. given = IF read.usedDefault THEN read.reason ELSE why
  OBVIOUS
<1> HIDE DEF read
<1>3. CASE \E error \in ReadErrors : read = WithIds(InCodeDefault(default, error), {}, {}, {})
  <2>1. PICK error \in ReadErrors : read = WithIds(InCodeDefault(default, error), {}, {}, {})
    BY <1>3
  <2>2. read.usedDefault = TRUE /\ read.reason = error
    BY <2>1 DEF WithIds, InCodeDefault
  <2>3. evaluation = read
    BY <1>2, <2>1, <2>2 DEF WithIds
  <2>4. Carries(read, default, ids, why)
    BY <2>1, DefaultCarries
  <2> QED
    BY <2>3, <2>4 DEF read
<1>4. CASE \E value : /\ JsonShapeOf(value) = JsonShapeOf(default)
                      /\ read = WithIds(Parsed(value), state.valueId, state.variation, state.share)
  <2>1. PICK value : /\ JsonShapeOf(value) = JsonShapeOf(default)
                     /\ read = WithIds(Parsed(value), state.valueId, state.variation, state.share)
    BY <1>4
  <2>2. read.usedDefault = FALSE
    BY <2>1 DEF WithIds, Parsed
  <2>3. given = why
    BY <1>2, <2>2
  <2>4. Carries(evaluation, default, ids, why)
    BY <2>1, <2>3, ValueCarries
  <2>5. evaluation.value = read.value /\ evaluation.usedDefault = read.usedDefault
    BY <2>1 DEF WithIds
  <2> QED
    BY <2>4, <2>5 DEF read
<1> QED
  BY <1>1, <1>3, <1>4

\* The browser half is given the values of the server, and encodes them as the server did.
LEMMA BrowserIsGiven ==
  ASSUME NEW value, NEW state, KeptAs(value, state),
         NEW given \in BrowserHalf({}, {}, {"offline"}, [key \in {"key"} |-> state]).values
  PROVE  NativeValueConfigStates(given["key"]) = {state}
<1> DEFINE states == [key \in {"key"} |-> state]
<1>1. DecideBrowserHalfSource({}, {}, {"offline"}) = "inherit-offline"
  BY DEF DecideBrowserHalfSource
<1>2. given = [k \in {k \in DOMAIN states : HoldsAValue(states[k])} |-> OfflineValueOf(states[k])]
  BY <1>1 DEF BrowserHalf
<1>3. HoldsAValue(state)
  BY DEF KeptAs, HoldsAValue
<1>4. given["key"] = OfflineValueOf(state)
  BY <1>2, <1>3
<1> QED
  BY <1>4 DEF KeptAs

LEMMA ServedInTurnHolds == EvaluationSpec => [](AdmittedInput /\ ServedInTurn)
<1>1. EvaluationInit => ServedInTurn
  BY DEF EvaluationInit, ServedInTurn
<1>2. AdmittedInput /\ ServedInTurn /\ [EvaluationNext]_evaluationVars => ServedInTurn'
  <2> SUFFICES ASSUME AdmittedInput, ServedInTurn, [EvaluationNext]_evaluationVars
               PROVE  ServedInTurn'
    OBVIOUS
  <2>1. CASE RefuseDefault
    BY <2>1 DEF RefuseDefault, ServedInTurn
  <2>2. CASE AdmitContext
    BY <2>2 DEF AdmitContext, Asked, ServedInTurn
  <2>3. CASE WalkRule
    BY <2>3 DEF WalkRule, ServedInTurn
  <2>4. CASE ServeConfigState
    <3>1. at = "walking" /\ at' = "reading" /\ input' = input /\ input.side = "server"
      BY <2>4 DEF ServeConfigState, AdmittedInput
    <3>2. reason' \in {"found-match", "rollout-skipped-no-identifier"}
      BY <2>4 DEF ServeConfigState
    <3>3. input.inCode # InvalidDefault
      BY <3>1 DEF ServedInTurn
    <3> QED
      BY <3>1, <3>2, <3>3 DEF ServedInTurn
  <2>5. CASE LoadOfflineValue
    <3> DEFINE states == NativeValueConfigStates(input.value)
    <3>1. /\ at = "start" /\ input.inCode # InvalidDefault /\ served = Nothing
          /\ input' = input /\ reason' = reason
      BY <2>5 DEF LoadOfflineValue, Asked, ServedInTurn
    <3>2. \/ at' \in {"missing", "refused"} /\ served' = served
          \/ at' = "reading" /\ states # {} /\ served' = CHOOSE s \in states : TRUE
      BY <2>5 DEF LoadOfflineValue
    <3>3. served' = Nothing \/ served' \in states
      BY <3>1, <3>2
    <3> QED
      BY <3>1, <3>2, <3>3 DEF ServedInTurn
  <2>6. CASE TakeConfigState
    BY <2>6 DEF TakeConfigState, Asked, ServedInTurn
  <2>7. CASE ReportServerEvaluation
    BY <2>7 DEF ReportServerEvaluation, ServedInTurn
  <2>8. CASE ReportClientEvaluation
    BY <2>8 DEF ReportClientEvaluation, ServedInTurn
  <2>9. CASE ReportMissing
    BY <2>9 DEF ReportMissing, ServedInTurn
  <2>10. CASE UNCHANGED evaluationVars
    BY <2>10 DEF evaluationVars, ServedInTurn
  <2> QED
    BY <2>1, <2>2, <2>3, <2>4, <2>5, <2>6, <2>7, <2>8, <2>9, <2>10 DEF EvaluationNext
<1> QED
  BY <1>1, <1>2, AdmittedInputHolds, PTL DEF EvaluationSpec

\* An evaluation that is reported and carries what it says keeps its values.
LEMMA CarriedIsKept ==
  ASSUME NEW why \in ReasonsOfValues,
         Carries(reported', input'.inCode, served'.valueId \cup served'.variation, why),
         why = "cached" <=> input'.side = "client" /\ input'.cached
  PROVE  DefaultsCarryNothing'
  BY DEF DefaultsCarryNothing, Carries, ReasonsOfValues

LEMMA OfflineIsKept ==
  ASSUME input \in Inputs, input' = input, ServedInTurn',
         LET read == ParseConfigValue(served', input.inCode) IN
         reported'.value = read.value /\ reported'.usedDefault = read.usedDefault
  PROVE  OfflineValuesAreKept'
<1> SUFFICES ASSUME input.side = "offline", served' # Nothing
             PROVE  /\ JsonShapeOf(input.inCode) = JsonShapeOf(input.value)
                       /\ input.value # [text |-> Empty]
                       => reported'.value = input.value /\ ~reported'.usedDefault
                    /\ \A given \in
                            BrowserHalf({}, {}, {"offline"}, [key \in {"key"} |-> served']).values :
                          NativeValueConfigStates(given["key"]) = {served'}
  BY DEF OfflineValuesAreKept
<1>1. KeptAs(input.value, served')
  BY InputIsTyped, NativeIsKept DEF ServedInTurn
<1>2. ASSUME JsonShapeOf(input.inCode) = JsonShapeOf(input.value), input.value # [text |-> Empty]
      PROVE  reported'.value = input.value /\ ~reported'.usedDefault
  <2>1. ParseValueAndReason(served', input.inCode) = Parsed(input.value)
    BY <1>1, <1>2, InputIsTyped DEF KeptAs
  <2>2. Parsed(input.value).value = input.value /\ Parsed(input.value).usedDefault = FALSE
    BY DEF Parsed
  <2>3. /\ ParseConfigValue(served', input.inCode).value = input.value
        /\ ParseConfigValue(served', input.inCode).usedDefault = FALSE
    BY <2>1, <2>2 DEF ParseConfigValue, WithIds
  <2> QED
    BY <2>3
<1>3. ASSUME NEW given \in BrowserHalf({}, {}, {"offline"}, [key \in {"key"} |-> served']).values
      PROVE  NativeValueConfigStates(given["key"]) = {served'}
  BY <1>1, <1>3, BrowserIsGiven
<1> QED
  BY <1>2, <1>3

\* A value given offline comes back as it was given, and so it does in the browser half of
\* an offline server; an in-code default is reported with an error and without the ids of
\* what was not used, anything else has the type of the default and the reason it was served
\* for, and the resolution of an OpenFeature provider says the same (native-values.ts,
\* parseConfigValue, evaluationOf, resolution.ts).
THEOREM ValuesAlwaysKept == EvaluationSpec => []ValuesAreKept
<1>1. EvaluationInit => ValuesAreKept
  BY DEF EvaluationInit, ValuesAreKept, OfflineValuesAreKept, DefaultsCarryNothing
<1>2. /\ AdmittedInput /\ ServedInTurn /\ ServedInTurn' /\ ValuesAreKept
      /\ [EvaluationNext]_evaluationVars
      => ValuesAreKept'
  <2> SUFFICES ASSUME AdmittedInput, ServedInTurn, ServedInTurn', ValuesAreKept,
                      [EvaluationNext]_evaluationVars
               PROVE  ValuesAreKept'
    OBVIOUS
  <2>1. input \in Inputs /\ IsInCode(input.inCode)
    BY InputIsTyped DEF AdmittedInput
  <2>2. at' # "done" => ValuesAreKept'
    BY DEF ValuesAreKept, OfflineValuesAreKept, DefaultsCarryNothing
  <2>3. ASSUME NEW why \in ReasonsOfValues, NEW given,
               input' = input, served' = served,
               why = "cached" <=> input.side = "client" /\ input.cached,
               LET read == ParseConfigValue(served, input.inCode) IN
               /\ given = IF read.usedDefault THEN read.reason ELSE why
               /\ reported' = [read EXCEPT !.reason = given]
        PROVE  ValuesAreKept'
    <3> DEFINE read == ParseConfigValue(served, input.inCode)
    <3>1. given = IF read.usedDefault THEN read.reason ELSE why
      BY <2>3
    <3>2. reported' = [read EXCEPT !.reason = given]
      BY <2>3
    <3>3. /\ Carries(reported', input.inCode, served.valueId \cup served.variation, why)
          /\ reported'.value = read.value /\ reported'.usedDefault = read.usedDefault
      BY <2>1, <3>1, <3>2, ReportCarries
    <3>4. DefaultsCarryNothing'
      <4>1. /\ Carries(reported', input'.inCode, served'.valueId \cup served'.variation, why)
            /\ why = "cached" <=> input'.side = "client" /\ input'.cached
        BY <2>3, <3>3
      <4> QED
        BY <4>1, CarriedIsKept
    <3>5. OfflineValuesAreKept'
      BY <2>1, <2>3, <3>3, OfflineIsKept
    <3> QED
      BY <3>4, <3>5 DEF ValuesAreKept
  <2>4. CASE ReportServerEvaluation
    <3>1. reason \in ReasonsOfValues /\ reason # "cached"
      BY DEF ServedInTurn, ReasonsOfValues
    <3>2. input.side = "server" /\ input' = input /\ served' = served
      BY <2>4 DEF ReportServerEvaluation
    <3>3. LET read == ParseConfigValue(served, input.inCode) IN
          reported' = [read EXCEPT !.reason = IF read.usedDefault THEN read.reason ELSE reason]
      BY <2>4 DEF ReportServerEvaluation, ServerReason
    <3> QED
      BY <2>3, <3>1, <3>2, <3>3
  <2>5. CASE ReportClientEvaluation
    <3> DEFINE read == ParseConfigValue(served, input.inCode)
               why == IF input.side = "client" /\ input.cached THEN "cached" ELSE "found-match"
    <3>1. why \in ReasonsOfValues /\ (why = "cached" <=> input.side = "client" /\ input.cached)
      BY DEF ReasonsOfValues
    <3>2. input' = input /\ served' = served /\ reported' = [read EXCEPT !.reason = ServedReason(read)]
      BY <2>5 DEF ReportClientEvaluation
    <3>3. \/ read.usedDefault = TRUE /\ read.reason \in ReadErrors
          \/ read.usedDefault = FALSE /\ read.reason = "found-match"
      BY <2>1, ReadCarries DEF WithIds, InCodeDefault, Parsed
    <3> HIDE DEF read
    <3>4. ServedReason(read) = IF read.usedDefault THEN read.reason ELSE why
      BY <3>3 DEF ServedReason, ReadErrors
    <3> HIDE DEF why
    <3> QED
      BY <2>3, <3>1, <3>2, <3>4 DEF read
  <2>6. CASE ReportMissing
    <3>1. /\ reported' = MissingEvaluation /\ input' = input /\ served' = Nothing
      BY <2>6 DEF ReportMissing, ServedInTurn
    <3>2. PICK why \in ReasonsOfValues : why = "cached" <=> input.side = "client" /\ input.cached
      BY DEF ReasonsOfValues
    <3>3. Carries(MissingEvaluation, input.inCode, served.valueId \cup served.variation, why)
      BY DefaultCarries DEF MissingEvaluation
    <3>4. DefaultsCarryNothing'
      <4>1. served' = served
        BY <2>6 DEF ReportMissing
      <4>2. /\ Carries(reported', input'.inCode, served'.valueId \cup served'.variation, why)
            /\ why = "cached" <=> input'.side = "client" /\ input'.cached
        BY <3>1, <3>2, <3>3, <4>1
      <4> QED
        BY <4>2, CarriedIsKept
    <3> QED
      BY <3>1, <3>4 DEF ValuesAreKept, OfflineValuesAreKept
  <2>7. CASE at' = "done" /\ UNCHANGED evaluationVars
    BY <2>7 DEF evaluationVars, ValuesAreKept, OfflineValuesAreKept, DefaultsCarryNothing
  <2>8. at' # "done" \/ ReportServerEvaluation \/ ReportClientEvaluation \/ ReportMissing
          \/ UNCHANGED evaluationVars
    BY DEF EvaluationNext, RefuseDefault, AdmitContext, WalkRule, ServeConfigState,
           LoadOfflineValue, TakeConfigState
  <2> QED
    BY <2>2, <2>4, <2>5, <2>6, <2>7, <2>8
<1> QED
  BY <1>1, <1>2, ServedInTurnHolds, PTL DEF EvaluationSpec
=============================================================================
