----------------------- MODULE StreamingClientProofs ------------------------
(***************************************************************************)
(* What TLAPS proves of StreamingClient, for any number of calls, pauses,  *)
(* messages, contexts and keys.                                            *)
(***************************************************************************)
EXTENDS StreamingClient, TLAPS

LEMMA CallNumbers ==
    /\ MaxCalls \in Nat /\ Calls \subseteq CallsOrNone /\ 0 \in CallsOrNone
    /\ \A c \in CallsOrNone : c \in Nat
    /\ \A c \in Calls : c \in Nat
    /\ \A c \in CallsOrNone : c < MaxCalls => c + 1 \in Calls
    /\ \A c \in CallsOrNone : c # 0 => c \in Calls
  BY MaxCallsAssumption DEF Calls, CallsOrNone

----------------------------------------------------------------------------
(* Type correctness.                                                       *)

\* The initial state of the client has the types every operation relies on.
LEMMA InitTypeOK == Init => TypeOK
<1> SUFFICES ASSUME Init PROVE TypeOK
  OBVIOUS
<1> USE CallNumbers DEF Init, CoreInit
<1>1. CoreTypeOK
  BY DEF CoreTypeOK, Phases, Settled, PromiseStates, EmptyStack, Turns
<1>2. cuts \in 0 .. MaxCuts /\ messages \in 0 .. MaxMessages
  BY BoundsAssumption
<1> QED
  BY <1>1, <1>2 DEF TypeOK, StreamStates

\* What the application's calls leave well-typed, whichever call it makes.
LEMMA SubmitTypeOK ==
  ASSUME NEW c \in Contexts \cup {NoContext}, TypeOK, ConnectToTransport(c), TakeGeneration,
         initializing' \in BOOLEAN
  PROVE  TypeOK'
<1> USE CallNumbers DEF TypeOK, CoreTypeOK
<1>1. lastCall' \in Calls /\ lastCall' = lastCall + 1
  BY DEF ConnectToTransport
<1>2. pc' \in [Calls -> Phases] /\ promise' \in [Calls -> PromiseStates]
  BY <1>1 DEF ConnectToTransport, Phases, PromiseStates
<1>3. ctxOf' \in [Calls -> Contexts \cup {NoContext}]
  BY <1>1 DEF ConnectToTransport
<1>4. genOf' \in [Calls -> Nat] /\ generation' \in Nat
  BY <1>1 DEF TakeGeneration
<1> QED
  BY <1>1, <1>2, <1>3, <1>4 DEF ConnectToTransport, TakeGeneration, valueVars, boundVars

LEMMA ClosedType == TypeOK => Closed \in [Calls -> StreamStates]
  BY DEF TypeOK, Closed, StreamStates

LEMMA ResolveType ==
  ASSUME TypeOK, NEW c \in CallsOrNone, NEW o \in PromiseStates
  PROVE  Resolve(c, o) \in [Calls -> PromiseStates]
  BY DEF TypeOK, CoreTypeOK, Resolve

LEMMA ApplicationTypeOK == TypeOK /\ Application => TypeOK'
<1> SUFFICES ASSUME TypeOK, Application PROVE TypeOK'
  OBVIOUS
<1>1. CASE Initialize
  BY <1>1, SubmitTypeOK DEF Initialize, SubmitInitialization, TypeOK, CoreTypeOK
<1>2. CASE UpdateContext
  BY <1>2, SubmitTypeOK DEF UpdateContext, SubmitContextUpdate, TypeOK, CoreTypeOK
<1>3. CASE Resume
  <2>1. CurrentContext \in Contexts \cup {NoContext}
    BY CallNumbers DEF CurrentContext, TypeOK, CoreTypeOK
  <2> QED
    BY <1>3, <2>1, SubmitTypeOK DEF Resume, ResumeNetwork, TypeOK, CoreTypeOK
<1>4. ASSUME CloseTransport, Cut
      PROVE  /\ generation' \in Nat /\ stream' \in [Calls -> StreamStates]
             /\ streamTimer' \in CallsOrNone /\ cutAt' \in CallsOrNone
             /\ cuts' \in 0 .. MaxCuts /\ messages' \in 0 .. MaxMessages
             /\ UNCHANGED <<session, genOf, source>>
  BY <1>4, ClosedType, CallNumbers, BoundsAssumption DEF CloseTransport, Cut, TypeOK, CoreTypeOK
<1>5. CASE Pause
  BY <1>4, <1>5, CallNumbers
  DEF Pause, PauseNetwork, callVars, valueVars, TypeOK, CoreTypeOK
<1>6. CASE Dispose
  <2>1. promise' \in [Calls -> PromiseStates]
    BY <1>6, ResolveType DEF Dispose, DisposeClient, TypeOK, CoreTypeOK, PromiseStates
  <2> QED
    BY <1>4, <1>6, <2>1, CallNumbers DEF Dispose, DisposeClient, TypeOK, CoreTypeOK
<1> QED
  BY <1>1, <1>2, <1>3, <1>5, <1>6 DEF Application

LEMMA ReactionTypeOK ==
  ASSUME TypeOK, NEW i \in Calls, Reaction(i)
  PROVE  TypeOK'
<1> USE CallNumbers DEF TypeOK, CoreTypeOK, Phases, Settled
<1> USE DEF callVars, flagVars, valueVars, transportVars, boundVars
<1>1. EmptyStack \in Turns /\ [at |-> "announce", call |-> i] \in Turns
  BY DEF EmptyStack, Turns
<1>2. CASE SettleReadyPromise(i) /\ UNCHANGED <<transportVars, boundVars>>
  BY <1>2 DEF SettleReadyPromise, PromiseStates
<1>3. CASE AwaitReadiness(i) /\ UNCHANGED <<transportVars, boundVars>>
  <2> USE <1>1, <1>3 DEF AwaitReadiness
  <2>1. CASE pc' = [pc EXCEPT ![i] = "waiting"] /\ waitsOn' = [waitsOn EXCEPT ![i] = lastCall]
             /\ clientTimer' = i
    BY <2>1
  <2>2. CASE pc' = [pc EXCEPT ![i] = "returned"] /\ clientTimer' = 0 /\ waitsOn' = waitsOn
    BY <2>2
  <2> QED
    BY <2>1, <2>2
<1>4. CASE ReadinessReached(i) /\ UNCHANGED <<transportVars, boundVars>>
  BY <1>4 DEF ReadinessReached
<1>5. CASE AbandonConnect(i)
  BY <1>5 DEF AbandonConnect
<1>6. CASE OpenStream(i)
  <2>1. stream' \in [Calls -> StreamStates]
    BY <1>6, ClosedType DEF OpenStream, StreamStates
  <2> QED
    BY <1>6, <2>1 DEF OpenStream
<1>7. CASE TransportSettled(i)
  BY <1>1, <1>7 DEF TransportSettled, AdoptContext
<1>8. CASE TransportRejected(i)
  BY <1>8 DEF TransportRejected, ReturnAfterError
<1> QED
  BY <1>2, <1>3, <1>4, <1>5, <1>6, <1>7, <1>8 DEF Reaction

LEMMA RuntimeTypeOK == TypeOK /\ Runtime => TypeOK'
<1> SUFFICES ASSUME TypeOK, Runtime PROVE TypeOK'
  OBVIOUS
<1> USE CallNumbers DEF TypeOK, CoreTypeOK, Phases, Settled
<1> USE DEF callVars, flagVars, valueVars, coreVars, transportVars, boundVars
<1>1. CASE SessionResolves
  BY <1>1 DEF SessionResolves
<1>2. CASE ReadinessTimeout
  BY <1>2 DEF ReadinessTimeout, ClientTimerFires
<1>3. CASE StreamTimeout
  BY <1>3 DEF StreamTimeout
<1>4. CASE EndOfChunk
  BY <1>4 DEF EndOfChunk, EmptyStack, Turns
<1>5. CASE TellWatchers
  BY <1>5 DEF TellWatchers, UpdateWatchers, Turns
<1> QED
  BY <1>1, <1>2, <1>3, <1>4, <1>5 DEF Runtime

LEMMA ConfigSetTypeOK ==
  ASSUME TypeOK, NEW kind, NEW received \in SUBSET Keys, NEW i \in Calls,
         ConfigSetReceived(kind, received, i)
  PROVE  /\ hasReceived' \in BOOLEAN /\ promise' \in [Calls -> PromiseStates]
         /\ configs' \in [Keys -> CallsOrNone] /\ seen' \in [Keys -> CallsOrNone]
         /\ notified' \subseteq Keys /\ turn' \in Turns
<1> USE CallNumbers
<1>1. promise' \in [Calls -> PromiseStates]
  BY ResolveType DEF ConfigSetReceived, TypeOK, CoreTypeOK, PromiseStates
<1>2. MergedConfigs(kind, received, i) \in [Keys -> CallsOrNone]
  BY DEF MergedConfigs, TypeOK, CoreTypeOK
<1>3. notified' \subseteq Keys /\ turn' \in Turns
  BY DEF ConfigSetReceived, KeysRemovedBy, Turns
<1> QED
  BY <1>1, <1>2, <1>3 DEF ConfigSetReceived, TypeOK, CoreTypeOK

LEMMA NetworkTypeOK ==
  ASSUME TypeOK, NEW i \in Calls, RejectConnect(i) \/ Network(i)
  PROVE  TypeOK'
<1> USE CallNumbers DEF TypeOK, CoreTypeOK, callVars, flagVars, valueVars, boundVars
<1>1. CASE RejectConnect(i)
  BY <1>1 DEF RejectConnect, EmptyStack, Turns, StreamStates, Phases
<1>2. CASE StreamOpens(i)
  BY <1>2 DEF StreamOpens, StreamStates, Phases, Settled
<1>3. CASE StreamStops(i)
  BY <1>3 DEF StreamStops, StreamStates, coreVars
<1>4. CASE StreamRefused(i)
  BY <1>4 DEF StreamRefused, ConnectionErrorReceived, Turns, transportVars
<1>5. CASE DispatchMessage(i)
  <2>1. PICK kind \in {"full", "delta"}, received \in SUBSET Keys :
              ConfigSetReceived(kind, received, i)
    BY <1>5 DEF DispatchMessage
  <2>2. /\ hasReceived' \in BOOLEAN /\ promise' \in [Calls -> PromiseStates]
        /\ configs' \in [Keys -> CallsOrNone] /\ seen' \in [Keys -> CallsOrNone]
        /\ notified' \subseteq Keys /\ turn' \in Turns
    BY <2>1, ConfigSetTypeOK
  <2>3. messages' \in 0 .. MaxMessages
    BY <1>5, BoundsAssumption DEF DispatchMessage
  <2>4. UNCHANGED <<pc, ctxOf, waitsOn, lastCall, flagVars, observed>>
    BY <2>1 DEF ConfigSetReceived
  <2> QED
    BY <1>5, <2>2, <2>3, <2>4 DEF DispatchMessage, transportVars
<1> QED
  BY <1>1, <1>2, <1>3, <1>4, <1>5 DEF Network

\* Every reachable state of the client over the streaming transport is well-typed:
\* no interleaving of calls, reactions, timers and events leaves a dangling owner.
THEOREM TypeCorrect == Spec => []TypeOK
<1>1. TypeOK /\ [Next]_vars => TypeOK'
  <2> SUFFICES ASSUME TypeOK, [Next]_vars PROVE TypeOK'
    OBVIOUS
  <2>1. CASE UNCHANGED vars
    BY <2>1 DEF vars, coreVars, callVars, flagVars, valueVars, transportVars, boundVars,
                TypeOK, CoreTypeOK
  <2> QED
    BY <2>1, ApplicationTypeOK, RuntimeTypeOK, ReactionTypeOK, NetworkTypeOK DEF Next
<1> QED
  BY <1>1, InitTypeOK, PTL DEF Spec

----------------------------------------------------------------------------
(* One connection, and values that never go back to an earlier call's.     *)

Connections == CallsInOrder /\ OneConnection /\ ValuesFromStreams

LEMMA InitConnections == Init => Connections
  BY CallNumbers
  DEF Init, CoreInit, EmptyStack, Connections, CallsInOrder, OneConnection, ValuesFromStreams,
      NoConnectionOutlivesItsCall, Live

\* A new call takes a generation no other connect has, and no stream changes.
LEMMA SubmitConnections ==
  ASSUME NEW c, TypeOK, Connections, ConnectToTransport(c), TakeGeneration
  PROVE  Connections'
<1> USE CallNumbers DEF TypeOK, CoreTypeOK, Connections
<1>1. lastCall' = lastCall + 1 /\ lastCall' \in Calls /\ pc' = [pc EXCEPT ![lastCall + 1] = "session"]
      /\ generation' = generation + 1 /\ genOf' = [genOf EXCEPT ![lastCall + 1] = generation + 1]
      /\ UNCHANGED <<source, stream, cutAt, configs, turn, clientTimer>>
  BY DEF ConnectToTransport, TakeGeneration, valueVars, boundVars
<1>2. CallsInOrder'
  <2>1. ASSUME NEW i \in Calls, i > lastCall' PROVE pc'[i] = "unused"
    <3>1. i > lastCall /\ i # lastCall + 1
      BY <1>1, <2>1
    <3> QED
      BY <1>1, <3>1 DEF CallsInOrder
  <2>2. turn.call \in CallsOrNone
    BY DEF Turns
  <2>3. \A n \in {source, cutAt, turn.call, clientTimer} : n <= lastCall /\ n \in Nat
    BY <2>2 DEF CallsInOrder
  <2>4. lastCall' > lastCall /\ lastCall \in Nat
    BY <1>1
  <2>5. \A n \in {source, cutAt, turn.call, clientTimer} : n <= lastCall'
    BY <1>1, <2>3, <2>4
  <2> QED
    BY <1>1, <2>1, <2>5 DEF CallsInOrder
<1>3. OneConnection'
  BY <1>1 DEF OneConnection, CallsInOrder, NoConnectionOutlivesItsCall, Live
<1>4. ValuesFromStreams'
  BY <1>1 DEF ValuesFromStreams
<1> QED
  BY <1>2, <1>3, <1>4

\* A pause or a dispose closes the one open stream and outdates every pending connect.
LEMMA CutConnections ==
  ASSUME TypeOK, Connections, CloseTransport, Cut, clientTimer' = 0, UNCHANGED <<pc, lastCall, configs, turn>>
  PROVE  Connections'
<1> USE CallNumbers DEF TypeOK, CoreTypeOK, Connections
<1>1. generation' = generation + 1 /\ stream' = Closed /\ cutAt' = lastCall
      /\ UNCHANGED <<genOf, source>>
  BY DEF CloseTransport, Cut
<1>2. \A i \in Calls : ~Live(i)'
  BY <1>1 DEF Closed, Live, OneConnection, NoConnectionOutlivesItsCall
<1>3. CallsInOrder'
  BY <1>1 DEF CallsInOrder
<1>4. OneConnection'
  BY <1>1, <1>2 DEF OneConnection, NoConnectionOutlivesItsCall
<1>5. ValuesFromStreams'
  BY <1>1 DEF ValuesFromStreams
<1> QED
  BY <1>3, <1>4, <1>5

\* Steps that open no stream, start no connect and receive no values.
LeavesConnections ==
  /\ UNCHANGED <<lastCall, generation, genOf, source, cutAt, configs>>
  /\ \A i \in Calls : pc'[i] = pc[i] \/ (i <= lastCall /\ pc'[i] # "session")
  /\ \A i \in Calls : stream'[i] \in {"connecting", "open"} => Live(i)
  /\ turn'.at \in {"updated", "chunk"} => turn.at \in {"updated", "chunk"} /\ turn'.call = turn.call
  /\ turn'.call <= lastCall /\ clientTimer' <= lastCall

LEMMA QuietConnections == TypeOK /\ Connections /\ LeavesConnections => Connections'
<1> SUFFICES ASSUME TypeOK, Connections, LeavesConnections PROVE Connections'
  OBVIOUS
<1> USE CallNumbers DEF TypeOK, CoreTypeOK, Connections, LeavesConnections
<1>1. CallsInOrder'
  BY DEF CallsInOrder
<1>2. OneConnection'
  BY DEF OneConnection, NoConnectionOutlivesItsCall, Live
<1>3. ValuesFromStreams'
  BY DEF ValuesFromStreams
<1> QED
  BY <1>1, <1>2, <1>3

LEMMA CallMade == 
  ASSUME TypeOK, Connections, NEW i \in Calls, pc[i] # "unused"
  PROVE  i <= lastCall
  BY CallNumbers DEF TypeOK, CoreTypeOK, Connections, CallsInOrder

\* The latest connect replaces the stream; every other connect is outdated by then.
LEMMA OpenStreamConnections ==
  ASSUME TypeOK, Connections, NEW i \in Calls, OpenStream(i)
  PROVE  Connections'
<1> USE CallNumbers DEF TypeOK, CoreTypeOK, Connections
<1>1. pc[i] = "session" /\ genOf[i] = generation /\ source' = i /\ turn.at = "none"
      /\ generation' = (IF source = 0 THEN generation ELSE generation + 1)
      /\ stream' = [Closed EXCEPT ![i] = "connecting"]
      /\ pc' = [pc EXCEPT ![i] = "connecting"]
      /\ UNCHANGED <<lastCall, configs, turn, genOf, cutAt, clientTimer>>
  BY DEF OpenStream, FirstOnSession, StackEmpty, EmptyStack, flagVars, valueVars, boundVars
<1>2. i = lastCall /\ i > cutAt /\ i > source
  BY <1>1 DEF OneConnection
<1>3. \A j \in Calls : Live(j)' => j = i
  BY <1>1 DEF Closed, Live, OneConnection, NoConnectionOutlivesItsCall
<1>4. \A j \in Calls : ~(pc'[j] = "session" /\ genOf[j] = generation')
  BY <1>1, <1>2 DEF OneConnection
<1>5. CallsInOrder'
  BY <1>1, <1>2 DEF CallsInOrder
<1>6. OneConnection'
  BY <1>1, <1>2, <1>3, <1>4 DEF OneConnection, NoConnectionOutlivesItsCall
<1>7. ValuesFromStreams'
  BY <1>1, <1>2 DEF ValuesFromStreams
<1> QED
  BY <1>5, <1>6, <1>7

\* A message is dispatched by the current stream only: listeners cannot open another
\* one in the middle of a chunk.
LEMMA DispatchSource ==
  ASSUME TypeOK, Connections, NEW i \in Calls, DispatchMessage(i)
  PROVE  i = source
  BY DEF DispatchMessage, Connections, ValuesFromStreams, OneConnection,
         NoConnectionOutlivesItsCall, Live

LEMMA DispatchConnections ==
  ASSUME TypeOK, Connections, NEW i \in Calls, DispatchMessage(i)
  PROVE  Connections'
<1> USE CallNumbers DEF TypeOK, CoreTypeOK, Connections
<1>1. i = source
  BY DispatchSource
<1>2. PICK kind \in {"full", "delta"}, received \in SUBSET Keys :
            ConfigSetReceived(kind, received, i)
  BY DEF DispatchMessage
<1>3. configs' = MergedConfigs(kind, received, i)
      /\ UNCHANGED <<pc, lastCall, generation, genOf, source, stream, cutAt, clientTimer>>
      /\ turn' = [at |-> "updated", call |-> i]
  BY <1>2 DEF ConfigSetReceived, DispatchMessage, transportVars, flagVars
<1>4. \A k \in Keys : configs'[k] <= source
  BY <1>1, <1>3 DEF MergedConfigs, ValuesFromStreams
<1>5. CallsInOrder' /\ OneConnection'
  BY <1>1, <1>3 DEF CallsInOrder, OneConnection, NoConnectionOutlivesItsCall, Live
<1>6. ValuesFromStreams'
  BY <1>1, <1>3, <1>4 DEF ValuesFromStreams
<1> QED
  BY <1>5, <1>6

\* Every other step leaves connections, generations and values alone.
LEMMA ReactionLeaves ==
  ASSUME TypeOK, Connections, NEW i \in Calls, Reaction(i), ~OpenStream(i)
  PROVE  LeavesConnections
<1> DEFINE Moves(p) == /\ UNCHANGED <<lastCall, generation, genOf, source, cutAt, configs, stream>>
                       /\ i <= lastCall /\ p # "session"
                       /\ pc' = [pc EXCEPT ![i] = p]
                       /\ \/ turn' = turn
                          \/ turn'.at \notin {"updated", "chunk"} /\ turn'.call <= lastCall
                       /\ clientTimer' \in {clientTimer, i, 0}
<1>1. ASSUME NEW p, Moves(p) PROVE LeavesConnections
  <2> USE <1>1 DEF TypeOK, CoreTypeOK
  <2>1. \A j \in Calls : pc'[j] = pc[j] \/ (j <= lastCall /\ pc'[j] # "session")
    OBVIOUS
  <2>2. /\ turn'.call <= lastCall /\ clientTimer' <= lastCall
        /\ turn'.at \in {"updated", "chunk"} => turn' = turn
    BY CallNumbers DEF Connections, CallsInOrder
  <2> QED
    BY <2>1, <2>2 DEF LeavesConnections, Live
<1> USE DEF callVars, flagVars, valueVars, transportVars, boundVars, StackEmpty, EmptyStack
<1>2. pc[i] # "unused" => i <= lastCall
  BY CallMade
<1>3. lastCall \in Nat
  BY CallNumbers DEF TypeOK, CoreTypeOK
<1>4. CASE SettleReadyPromise(i) /\ UNCHANGED <<transportVars, boundVars>>
  BY <1>3, <1>4 DEF SettleReadyPromise, LeavesConnections, Live, Connections, CallsInOrder
<1>5. CASE AwaitReadiness(i) /\ UNCHANGED <<transportVars, boundVars>>
  <2>1. i <= lastCall
    BY <1>5 DEF AwaitReadiness, Connections, CallsInOrder
  <2>2. turn'.at \notin {"updated", "chunk"} /\ turn'.call <= lastCall
    BY <1>3, <1>5 DEF AwaitReadiness
  <2>3. pc' = [pc EXCEPT ![i] = "waiting"] \/ pc' = [pc EXCEPT ![i] = "returned"]
    BY <1>5 DEF AwaitReadiness
  <2>4. Moves("waiting") \/ Moves("returned")
    BY <1>5, <2>1, <2>2, <2>3 DEF AwaitReadiness
  <2> QED
    BY <1>1, <2>4
<1>6. CASE ReadinessReached(i) /\ UNCHANGED <<transportVars, boundVars>>
  <2>1. Moves("returned")
    BY <1>2, <1>6 DEF ReadinessReached
  <2> QED
    BY <1>1, <2>1
<1>7. CASE AbandonConnect(i)
  <2>1. Moves("superseded")
    BY <1>2, <1>7 DEF AbandonConnect, FirstOnSession
  <2> QED
    BY <1>1, <2>1
<1>8. CASE TransportSettled(i)
  <2>1. i <= lastCall
    BY <1>2, <1>8 DEF TransportSettled, AdoptContext, Settled
  <2>2. pc' = pc /\ turn'.at = "announce" /\ turn'.call = i
    BY <1>8 DEF TransportSettled, AdoptContext
  <2> QED
    BY <1>8, <2>1, <2>2 DEF TransportSettled, AdoptContext, LeavesConnections, Live,
                            Connections, CallsInOrder
<1>9. CASE TransportRejected(i)
  <2>1. Moves("returned")
    BY <1>2, <1>9 DEF TransportRejected, ReturnAfterError
  <2> QED
    BY <1>1, <2>1
<1> QED
  BY <1>4, <1>5, <1>6, <1>7, <1>8, <1>9 DEF Reaction

LEMMA ConnectionsStep == TypeOK /\ Connections /\ [Next]_vars => Connections'
<1> SUFFICES ASSUME TypeOK, Connections, [Next]_vars PROVE Connections'
  OBVIOUS
<1> USE DEF coreVars, callVars, flagVars, valueVars, transportVars, boundVars
<1>1. CASE UNCHANGED vars
  BY <1>1 DEF vars, Connections, CallsInOrder, OneConnection, ValuesFromStreams,
              NoConnectionOutlivesItsCall, Live
<1>2. CASE Application
  <2>1. CASE Initialize
    BY <2>1, SubmitConnections DEF Initialize, SubmitInitialization
  <2>2. CASE UpdateContext
    BY <2>2, SubmitConnections DEF UpdateContext, SubmitContextUpdate
  <2>3. CASE Resume
    BY <2>3, SubmitConnections DEF Resume, ResumeNetwork
  <2>4. CASE Pause
    BY <2>4, CutConnections DEF Pause, PauseNetwork
  <2>5. CASE Dispose
    BY <2>5, CutConnections DEF Dispose, DisposeClient
  <2> QED
    BY <1>2, <2>1, <2>2, <2>3, <2>4, <2>5 DEF Application
<1>3. CASE Runtime
  <2> USE CallNumbers DEF TypeOK, CoreTypeOK, LeavesConnections, Live
  <2>1. CASE SessionResolves
    BY <2>1, QuietConnections DEF SessionResolves, Connections, CallsInOrder
  <2>2. CASE ReadinessTimeout
    <3>1. LeavesConnections
      BY <2>2, CallMade DEF ReadinessTimeout, ClientTimerFires, Connections, CallsInOrder
    <3> QED
      BY <3>1, QuietConnections
  <2>3. CASE StreamTimeout
    <3>1. LeavesConnections
      BY <2>3, CallMade DEF StreamTimeout, Connections, CallsInOrder
    <3> QED
      BY <3>1, QuietConnections
  <2>4. CASE EndOfChunk
    <3>1. LeavesConnections
      BY <2>4 DEF EndOfChunk, EmptyStack, Connections, CallsInOrder
    <3> QED
      BY <3>1, QuietConnections
  <2>5. CASE TellWatchers
    <3>1. turn'.at = "chunk" /\ turn'.call = turn.call /\ turn.at = "updated"
      BY <2>5 DEF TellWatchers, UpdateWatchers, Turns
    <3>2. LeavesConnections
      BY <2>5, <3>1 DEF TellWatchers, UpdateWatchers, Connections, CallsInOrder
    <3> QED
      BY <3>2, QuietConnections
  <2> QED
    BY <1>3, <2>1, <2>2, <2>3, <2>4, <2>5 DEF Runtime
<1>4. ASSUME NEW i \in Calls, Reaction(i) PROVE Connections'
  BY <1>4, ReactionLeaves, QuietConnections, OpenStreamConnections
<1>5. ASSUME NEW i \in Calls, RejectConnect(i) \/ Network(i) PROVE Connections'
  <2> USE CallNumbers DEF TypeOK, CoreTypeOK, LeavesConnections, Live
  <2>1. CASE RejectConnect(i)
    <3>1. LeavesConnections
      BY <2>1, CallMade DEF RejectConnect, EmptyStack, Connections, CallsInOrder
    <3> QED
      BY <3>1, QuietConnections
  <2>2. CASE StreamOpens(i)
    <3>1. LeavesConnections
      BY <2>2, CallMade DEF StreamOpens, Connections, CallsInOrder
    <3> QED
      BY <3>1, QuietConnections
  <2>3. CASE StreamStops(i)
    <3>1. LeavesConnections
      BY <2>3 DEF StreamStops, Connections, CallsInOrder
    <3> QED
      BY <3>1, QuietConnections
  <2>4. CASE StreamRefused(i)
    <3>1. i = source
      BY <2>4 DEF StreamRefused, Connections, OneConnection, NoConnectionOutlivesItsCall
    <3>2. LeavesConnections
      BY <2>4, <3>1 DEF StreamRefused, ConnectionErrorReceived, Connections, CallsInOrder
    <3> QED
      BY <3>2, QuietConnections
  <2>5. CASE DispatchMessage(i)
    BY <2>5, DispatchConnections
  <2> QED
    BY <1>5, <2>1, <2>2, <2>3, <2>4, <2>5 DEF Network
<1> QED
  BY <1>1, <1>2, <1>3, <1>4, <1>5 DEF Next

\* The invariant the connections obey in every reachable state.
LEMMA ConnectionsHold == Spec => []Connections
<1> QED
  BY TypeCorrect, InitConnections, ConnectionsStep, PTL DEF Spec

\* However calls, pauses, disposes and the client session interleave, at most one
\* EventSource is live, it is the one close() would close, and none predates the last
\* pauseNetwork or dispose.
THEOREM OneConnectionOnly == Spec => []NoConnectionOutlivesItsCall
<1>1. Connections => NoConnectionOutlivesItsCall
  BY DEF Connections, OneConnection
<1> QED
  BY <1>1, ConnectionsHold, PTL

----------------------------------------------------------------------------
(* Values reach the configs, and then the watchers.                        *)

\* Only a message changes the config set, only the handler that merged it calls watchers,
\* only dispose unregisters them, and no other step ends the emission of configsUpdated.
LEMMA ValuesChange ==
  ASSUME [Next]_vars, \A i \in Calls : ~DispatchMessage(i)
  PROVE  /\ UNCHANGED <<hasReceived, configs>> /\ (observed' = observed \/ ~observed')
         /\ \/ TellWatchers
            \/ UNCHANGED <<seen, notified>> /\ (turn.at = "updated" => turn'.at = "updated")
  BY DEF Next, vars, coreVars, callVars, flagVars, valueVars, boundVars, Application, Runtime,
     Reaction, Network, Initialize, UpdateContext, Resume, Pause, Dispose, SubmitInitialization,
     SubmitContextUpdate, ResumeNetwork, ConnectToTransport, PauseNetwork, DisposeClient,
     SessionResolves, ReadinessTimeout, ClientTimerFires, StreamTimeout, EndOfChunk, TellWatchers,
     UpdateWatchers, SettleReadyPromise, AwaitReadiness, ReadinessReached, AbandonConnect,
     FirstOnSession, OpenStream, TransportSettled, AdoptContext, TransportRejected, ReturnAfterError,
     RejectConnect, StreamOpens, StreamStops, StreamRefused, ConnectionErrorReceived, Quiet,
     StackEmpty, EmptyStack

\* A value received for an earlier call never replaces a later call's.
THEOREM NewerValuesAlwaysStay == Spec => NewerValuesStay
<1> DEFINE Keeps == \A k \in Keys : configs'[k] # 0 => configs'[k] >= configs[k]
<1>1. TypeOK /\ Connections /\ [Next]_vars => [Keeps]_configs
  <2> SUFFICES ASSUME TypeOK, Connections, [Next]_vars, configs' # configs PROVE Keeps
    OBVIOUS
  <2>1. PICK i \in Calls : DispatchMessage(i)
    BY ValuesChange
  <2>2. i = source
    BY <2>1, DispatchSource
  <2>3. PICK kind \in {"full", "delta"}, received \in SUBSET Keys :
              configs' = MergedConfigs(kind, received, i)
    BY <2>1 DEF DispatchMessage, ConfigSetReceived
  <2> QED
    BY <2>2, <2>3, CallNumbers
    DEF MergedConfigs, Connections, ValuesFromStreams, TypeOK, CoreTypeOK
<1> QED
  BY <1>1, TypeCorrect, ConnectionsHold, PTL DEF Spec, NewerValuesStay

\* A registered watcher has always been told the current state of its config, but while the
\* listeners of configsUpdated run: a delta that omits a key leaves it alone, a full set
\* that omits it notifies of the removal.
THEOREM WatchersAlwaysCurrent == Spec => []WatchersAreCurrent
<1>1. Init => WatchersFollow
  BY DEF Init, CoreInit, WatchersFollow
<1>2. TypeOK /\ WatchersFollow /\ [Next]_vars => WatchersFollow'
  <2> SUFFICES ASSUME TypeOK, WatchersFollow, [Next]_vars PROVE WatchersFollow'
    OBVIOUS
  <2> USE DEF WatchersFollow, TypeOK, CoreTypeOK
  <2>1. CASE \A i \in Calls : ~DispatchMessage(i)
    <3>1. CASE TellWatchers
      BY <2>1, <3>1, ValuesChange DEF TellWatchers, UpdateWatchers
    <3> QED
      BY <2>1, <3>1, ValuesChange
  <2>2. ASSUME NEW i \in Calls, DispatchMessage(i) PROVE WatchersFollow'
    <3>1. PICK kind \in {"full", "delta"}, received \in SUBSET Keys :
                ConfigSetReceived(kind, received, i)
      BY <2>2 DEF DispatchMessage
    <3>2. hasReceived' /\ observed' = observed /\ configs' = MergedConfigs(kind, received, i)
      BY <3>1 DEF ConfigSetReceived
    <3>3. turn.at # "updated"
      BY <2>2 DEF DispatchMessage, Quiet, StackEmpty, EmptyStack
    <3>4. turn'.at = "updated" /\ seen' = seen
      BY <3>1 DEF ConfigSetReceived
    <3>5. ASSUME observed, NEW k \in Keys PROVE seen[k] = configs'[k] \/ k \in notified'
      BY <3>1, <3>2, <3>3, <3>5 DEF ConfigSetReceived, MergedConfigs, KeysRemovedBy
    <3> QED
      BY <3>2, <3>4, <3>5
  <2> QED
    BY <2>1, <2>2
<1>3. TypeOK /\ WatchersFollow => WatchersAreCurrent
  BY DEF TypeOK, CoreTypeOK, WatchersFollow, WatchersAreCurrent
<1> QED
  BY <1>1, <1>2, <1>3, TypeCorrect, PTL DEF Spec

----------------------------------------------------------------------------
(* The initializing flag.                                                  *)

LEMMA InitializingStep == TypeOK /\ InitializingIsOwed /\ [Next]_vars => InitializingIsOwed'
<1> SUFFICES ASSUME TypeOK, InitializingIsOwed, [Next]_vars, initializing'
             PROVE  InitializingIsOwed'
  BY DEF InitializingIsOwed
<1> USE CallNumbers DEF TypeOK, CoreTypeOK, callVars, flagVars, valueVars
<1>1. CASE UNCHANGED <<initializing, hasReceived, lastCall, promise>>
  BY <1>1 DEF InitializingIsOwed
<1>2. ASSUME NEW c, ConnectToTransport(c), initializing' = (initializing \/ ~hasReceived)
                                            \/ initializing' = initializing
      PROVE  InitializingIsOwed'
  <2>1. lastCall + 1 \in Calls /\ lastCall' = lastCall + 1 /\ hasReceived' = hasReceived
        /\ promise' = [promise EXCEPT ![lastCall + 1] = "pending"]
    BY <1>2 DEF ConnectToTransport
  <2>2. promise'[lastCall'] = "pending" /\ lastCall' # 0
    BY <2>1
  <2>3. CASE hasReceived
    <3>1. initializing
      BY <1>2, <2>3
    <3>2. PICK i \in Calls : i <= lastCall /\ promise[i] = "resolved"
      BY <2>3, <3>1 DEF InitializingIsOwed
    <3>3. promise'[i] = "resolved" /\ i <= lastCall'
      BY <2>1, <3>2
    <3> QED
      BY <3>3, <2>1, <2>3 DEF InitializingIsOwed
  <2>4. CASE ~hasReceived
    BY <2>1, <2>2, <2>4 DEF InitializingIsOwed
  <2> QED
    BY <2>3, <2>4
<1>3. ASSUME NEW i \in Calls, SettleReadyPromise(i) PROVE InitializingIsOwed'
  BY <1>3 DEF SettleReadyPromise, InitializingIsOwed
<1>4. ASSUME NEW i \in Calls, DispatchMessage(i) PROVE InitializingIsOwed'
  <2>1. PICK kind \in {"full", "delta"}, received \in SUBSET Keys :
              ConfigSetReceived(kind, received, i)
    BY <1>4 DEF DispatchMessage
  <2>2. hasReceived' /\ promise' = Resolve(lastCall, "resolved") /\ initializing
        /\ lastCall' = lastCall
    BY <2>1 DEF ConfigSetReceived
  <2>3. ASSUME NEW j \in Calls, promise[j] = "resolved" PROVE promise'[j] = "resolved"
    BY <2>2, <2>3 DEF Resolve
  <2>4. ASSUME ~hasReceived PROVE promise'[lastCall] = "resolved" /\ lastCall \in Calls
    BY <2>2, <2>4 DEF InitializingIsOwed, Resolve
  <2> QED
    BY <2>2, <2>3, <2>4 DEF InitializingIsOwed
<1>5. CASE UNCHANGED vars
  BY <1>1, <1>5 DEF vars, coreVars
<1>6. CASE Application
  <2>1. CASE Initialize
    BY <1>2, <2>1 DEF Initialize, SubmitInitialization
  <2>2. CASE UpdateContext \/ Resume
    BY <1>2, <2>2 DEF UpdateContext, SubmitContextUpdate, Resume, ResumeNetwork
  <2>3. CASE Pause \/ Dispose
    BY <1>1, <2>3 DEF Pause, PauseNetwork, Dispose, DisposeClient
  <2> QED
    BY <1>6, <2>1, <2>2, <2>3 DEF Application
<1>7. CASE Runtime
  BY <1>1, <1>7 DEF Runtime, SessionResolves, ReadinessTimeout, ClientTimerFires, StreamTimeout,
                    TellWatchers, UpdateWatchers, EndOfChunk, coreVars
<1>8. ASSUME NEW i \in Calls, Reaction(i) \/ RejectConnect(i) \/ Network(i)
      PROVE  InitializingIsOwed'
  <2>1. CASE Reaction(i)
    BY <1>1, <1>3, <2>1
    DEF Reaction, AwaitReadiness, ReadinessReached, AbandonConnect, OpenStream,
        TransportSettled, AdoptContext, TransportRejected, ReturnAfterError
  <2>2. CASE RejectConnect(i) \/ StreamOpens(i) \/ StreamStops(i) \/ StreamRefused(i)
    BY <1>1, <2>2
    DEF RejectConnect, StreamOpens, StreamStops, StreamRefused, ConnectionErrorReceived, coreVars
  <2> QED
    BY <1>4, <1>8, <2>1, <2>2 DEF Network
<1> QED
  BY <1>5, <1>6, <1>7, <1>8 DEF Next

\* isInitializing: no schedule of calls, listeners, errors and payloads leaves the client
\* initializing once a payload has been received and the reactions it set off have run.
THEOREM InitializingAlwaysEnds == Spec => []InitializingEndsWithPayload
<1>1. Init => InitializingIsOwed
  BY DEF Init, CoreInit, InitializingIsOwed
<1>2. InitializingIsOwed => InitializingEndsWithPayload
  BY DEF InitializingIsOwed, InitializingEndsWithPayload, Quiet, ReactionDue
<1> QED
  BY <1>1, <1>2, TypeCorrect, InitializingStep, PTL DEF Spec

----------------------------------------------------------------------------
(* The order in which contexts are adopted.                                *)

PastSession(i) == pc[i] \notin {"unused", "session"}

\* A connect whose race can still be settled from outside.
Awaited(i) == Live(i) \/ streamTimer = i

\* Connects go on from the client session in order, so the call adopted last is older
\* than every one suspended there.
SessionInOrder ==
    /\ \A i, j \in Calls : pc[i] = "session" /\ PastSession(j) => j < i
    /\ \A i \in Calls : PastSession(i) => session
    /\ \A i \in {adopted, clientTimer} : i # 0 => PastSession(i)
    /\ turn.at = "announce" => turn.call \in Calls /\ PastSession(turn.call)

\* A connect that may still be settled is the latest, or the latest is about to replace it
\* in reactions that run before any task could settle it.
SettledInOrder ==
    /\ \A i \in Calls : pc[i] \in Settled => i >= adopted
    /\ \A i \in Calls : Awaited(i) =>
           /\ session
           /\ \/ i = lastCall
              \/ lastCall \in Calls /\ pc[lastCall] = "session" /\ genOf[lastCall] = generation

AdoptionOrder == SessionInOrder /\ SettledInOrder /\ adopted <= lastCall

LEMMA NoCallIsZero == \A i \in Calls : i # 0
  BY DEF Calls

LEMMA InitAdoption == Init => AdoptionOrder
  BY CallNumbers, NoCallIsZero
  DEF Init, CoreInit, EmptyStack, AdoptionOrder, SessionInOrder, SettledInOrder, PastSession,
      Awaited, Live, Settled

LEMMA SubmitAdoption ==
  ASSUME NEW c, TypeOK, Connections, AdoptionOrder, ConnectToTransport(c), TakeGeneration
  PROVE  AdoptionOrder'
<1> USE CallNumbers DEF TypeOK, CoreTypeOK
<1>1. /\ lastCall' = lastCall + 1 /\ lastCall' \in Calls /\ pc' = [pc EXCEPT ![lastCall + 1] = "session"]
      /\ generation' = generation + 1 /\ genOf' = [genOf EXCEPT ![lastCall + 1] = generation + 1]
      /\ UNCHANGED <<session, stream, streamTimer, adopted, clientTimer, turn>>
  BY DEF ConnectToTransport, TakeGeneration, valueVars, boundVars
<1>2. pc[lastCall'] = "unused" /\ lastCall \in Nat
      /\ \A j \in Calls : PastSession(j) => j < lastCall' /\ j # lastCall'
  <2>1. \A j \in Calls : j > lastCall => pc[j] = "unused"
    BY DEF Connections, CallsInOrder
  <2> QED
    BY <1>1, <2>1 DEF PastSession
<1>3. \A j \in Calls : PastSession(j)' <=> PastSession(j)
  BY <1>1, <1>2 DEF PastSession
<1>4. SessionInOrder'
  BY <1>1, <1>2, <1>3 DEF AdoptionOrder, SessionInOrder
<1>5. SettledInOrder'
  BY <1>1 DEF AdoptionOrder, SettledInOrder, Settled, Awaited, Live
<1> QED
  BY <1>1, <1>4, <1>5 DEF AdoptionOrder

LEMMA CutAdoption ==
  ASSUME TypeOK, Connections, AdoptionOrder, CloseTransport, clientTimer' = 0,
         UNCHANGED <<pc, lastCall, adopted, turn>>
  PROVE  AdoptionOrder'
<1> USE CallNumbers DEF TypeOK, CoreTypeOK
<1>1. \A i \in Calls : ~Awaited(i)'
  BY NoCallIsZero DEF CloseTransport, Closed, Awaited, Live, Connections, OneConnection,
         NoConnectionOutlivesItsCall
<1> QED
  BY <1>1 DEF CloseTransport, AdoptionOrder, SessionInOrder, SettledInOrder, PastSession

\* Steps that take no connect from the session, adopt nothing, and settle at most the
\* call made last.
LeavesAdoption ==
    /\ UNCHANGED <<adopted, lastCall, generation, genOf>>
    /\ session => session'
    /\ \A i \in Calls : \/ pc'[i] = pc[i]
                        \/ /\ PastSession(i) /\ PastSession(i)'
                           /\ pc'[i] \in Settled => i = lastCall
    /\ \A i \in Calls : Awaited(i)' => Awaited(i)
    /\ clientTimer' \in {0} \cup {i \in Calls : PastSession(i)}
    /\ turn'.at = "announce" => turn'.call \in {i \in Calls : PastSession(i)}

LEMMA LeavingAdoptionKeeps ==
  ASSUME TypeOK, AdoptionOrder, LeavesAdoption
  PROVE  AdoptionOrder'
<1> USE CallNumbers DEF TypeOK, CoreTypeOK, LeavesAdoption, AdoptionOrder
<1>1. \A i \in Calls : (PastSession(i)' <=> PastSession(i)) /\ (pc'[i] = "session" <=> pc[i] = "session")
  BY DEF PastSession
<1>2. /\ adopted' # 0 => PastSession(adopted)'
      /\ clientTimer' # 0 => PastSession(clientTimer)'
      /\ turn'.at = "announce" => turn'.call \in Calls /\ PastSession(turn.call)'
  BY <1>1 DEF PastSession, SessionInOrder
<1>3. SessionInOrder'
  BY <1>1, <1>2 DEF SessionInOrder
<1>4. SettledInOrder'
  BY <1>1 DEF SettledInOrder
<1> QED
  BY <1>3, <1>4

\* The connect that goes on from the session first is younger than all that went before.
LEMMA LeavesSession ==
  ASSUME TypeOK, Connections, AdoptionOrder, NEW i \in Calls, FirstOnSession(i),
         NEW p \in {"superseded", "connecting"}, pc' = [pc EXCEPT ![i] = p],
         UNCHANGED <<session, adopted, clientTimer, turn>>
  PROVE  SessionInOrder' /\ \A j \in Calls : pc'[j] \in Settled => j >= adopted'
<1> USE CallNumbers DEF TypeOK, CoreTypeOK, AdoptionOrder
<1>1. session /\ pc[i] = "session" /\ \A j \in Calls : j < i => pc[j] # "session"
  BY DEF FirstOnSession
<1>2. \A j \in Calls : PastSession(j)' <=> (PastSession(j) \/ j = i)
  BY DEF PastSession
<1>3. SessionInOrder'
  <2>1. ASSUME NEW k \in Calls, NEW j \in Calls, pc'[k] = "session", PastSession(j)' PROVE j < k
    BY <1>1, <1>2, <2>1 DEF SessionInOrder
  <2> QED
    BY <1>1, <1>2, <2>1 DEF SessionInOrder
<1>4. adopted # 0 => adopted < i
  BY <1>1 DEF SessionInOrder
<1> QED
  BY <1>3, <1>4 DEF SettledInOrder

LEMMA ReactionAdoption ==
  ASSUME TypeOK, Connections, AdoptionOrder, NEW i \in Calls, Reaction(i)
  PROVE  AdoptionOrder' /\ adopted' >= adopted
<1> USE CallNumbers DEF TypeOK, CoreTypeOK
<1> USE DEF callVars, flagVars, valueVars, transportVars, boundVars
<1>0. StackEmpty => turn.at # "announce" /\ turn.at = "none"
  BY DEF StackEmpty, EmptyStack
<1>1. CASE SettleReadyPromise(i) /\ UNCHANGED <<transportVars, boundVars>>
  <2>1. LeavesAdoption /\ adopted' = adopted
    BY <1>1 DEF SettleReadyPromise, LeavesAdoption, Awaited, Live, AdoptionOrder, SessionInOrder
  <2> QED
    BY <2>1, LeavingAdoptionKeeps
<1>2. CASE AwaitReadiness(i) /\ UNCHANGED <<transportVars, boundVars>>
  <2>1. PastSession(i) /\ turn'.at = "none"
    BY <1>2 DEF AwaitReadiness, AdoptionOrder, SessionInOrder, EmptyStack
  <2>2. /\ pc' = [pc EXCEPT ![i] = "waiting"] \/ pc' = [pc EXCEPT ![i] = "returned"]
        /\ clientTimer' \in {0, i}
    BY <1>2 DEF AwaitReadiness
  <2>3. LeavesAdoption /\ adopted' = adopted
    BY <1>2, <2>1, <2>2 DEF AwaitReadiness, LeavesAdoption, Awaited, Live, PastSession, Settled
  <2> QED
    BY <2>3, LeavingAdoptionKeeps
<1>3. CASE ReadinessReached(i) /\ UNCHANGED <<transportVars, boundVars>>
  <2>1. LeavesAdoption /\ adopted' = adopted
    BY <1>0, <1>3 DEF ReadinessReached, LeavesAdoption, Awaited, Live, PastSession, Settled
  <2> QED
    BY <2>1, LeavingAdoptionKeeps
<1>4. CASE AbandonConnect(i)
  <2>1. FirstOnSession(i) /\ genOf[i] # generation /\ pc' = [pc EXCEPT ![i] = "superseded"]
        /\ UNCHANGED <<session, adopted, clientTimer, turn, lastCall, generation, genOf>>
        /\ UNCHANGED <<stream, streamTimer>>
    BY <1>4 DEF AbandonConnect
  <2>2. SessionInOrder' /\ \A j \in Calls : pc'[j] \in Settled => j >= adopted'
    BY <2>1, LeavesSession
  <2>3. SettledInOrder'
    BY <2>1, <2>2 DEF AdoptionOrder, SettledInOrder, Awaited, Live
  <2> QED
    BY <2>1, <2>2, <2>3 DEF AdoptionOrder
<1>5. CASE OpenStream(i)
  <2>1. /\ FirstOnSession(i) /\ genOf[i] = generation /\ pc' = [pc EXCEPT ![i] = "connecting"]
        /\ stream' = [Closed EXCEPT ![i] = "connecting"] /\ streamTimer' = i
        /\ UNCHANGED <<session, adopted, clientTimer, turn, lastCall>>
    BY <1>5 DEF OpenStream
  <2>2. SessionInOrder' /\ \A j \in Calls : pc'[j] \in Settled => j >= adopted'
    BY <2>1, LeavesSession
  <2>3. i = lastCall /\ session
    BY <2>1 DEF FirstOnSession, Connections, OneConnection
  <2>4. \A j \in Calls : Awaited(j)' => j = i
    BY <2>1 DEF Closed, Awaited, Live, Connections, OneConnection, NoConnectionOutlivesItsCall
  <2>5. SettledInOrder'
    <3>1. \A j \in Calls : Awaited(j)' => session' /\ j = lastCall'
      BY <2>1, <2>3, <2>4
    <3> QED
      BY <2>2, <3>1 DEF SettledInOrder
  <2> QED
    BY <2>1, <2>2, <2>5 DEF AdoptionOrder
<1>6. CASE TransportSettled(i)
  <2>1. /\ pc[i] \in Settled /\ \A j \in Calls : j < i => pc[j] \notin Settled
        /\ adopted' = i /\ turn' = [at |-> "announce", call |-> i] /\ streamTimer' \in {0, streamTimer}
        /\ UNCHANGED <<pc, lastCall, clientTimer, session, generation, genOf, stream>>
    BY <1>6 DEF TransportSettled, AdoptContext
  <2>2. PastSession(i) /\ i <= lastCall
    BY <2>1, CallMade DEF PastSession, Settled
  <2>3. i >= adopted
    BY <2>1 DEF AdoptionOrder, SettledInOrder
  <2>4. SessionInOrder'
    BY <2>1, <2>2 DEF AdoptionOrder, SessionInOrder, PastSession
  <2>5. SettledInOrder'
    BY <2>1, NoCallIsZero DEF AdoptionOrder, SettledInOrder, Awaited, Live
  <2> QED
    BY <2>1, <2>2, <2>3, <2>4, <2>5 DEF AdoptionOrder
<1>7. CASE TransportRejected(i)
  <2>1. LeavesAdoption /\ adopted' = adopted
    BY <1>0, <1>7, NoCallIsZero
    DEF TransportRejected, ReturnAfterError, LeavesAdoption, Awaited, Live, PastSession, Settled,
        AdoptionOrder, SessionInOrder
  <2> QED
    BY <2>1, LeavingAdoptionKeeps
<1> QED
  BY <1>1, <1>2, <1>3, <1>4, <1>5, <1>6, <1>7 DEF Reaction

\* No task settles the connect of an older call: as long as the latest one is suspended on
\* a session that is resolved, reactions are due.
LEMMA TaskSettlesTheLatest ==
  ASSUME TypeOK, Connections, AdoptionOrder, Quiet(session), NEW i \in Calls, Awaited(i)
  PROVE  i = lastCall
  BY DEF AdoptionOrder, SettledInOrder, Quiet, ReactionDue

LEMMA TaskAdoption ==
  ASSUME TypeOK, Connections, AdoptionOrder,
         Runtime \/ \E i \in Calls : RejectConnect(i) \/ Network(i)
  PROVE  AdoptionOrder' /\ adopted' = adopted
<1> SUFFICES LeavesAdoption
  BY LeavingAdoptionKeeps, CallNumbers DEF LeavesAdoption
<1> USE CallNumbers DEF TypeOK, CoreTypeOK
<1> USE DEF coreVars, callVars, flagVars, valueVars, transportVars, boundVars
<1>0. /\ Quiet(session) => turn.at = "none"
      /\ clientTimer # 0 => PastSession(clientTimer)
      /\ turn.at = "announce" => turn.call \in Calls /\ PastSession(turn.call)
  BY DEF Quiet, StackEmpty, EmptyStack, AdoptionOrder, SessionInOrder
<1>1. CASE SessionResolves
  BY <1>0, <1>1 DEF SessionResolves, LeavesAdoption, Awaited, Live
<1>2. CASE ReadinessTimeout
  BY <1>0, <1>2
  DEF ReadinessTimeout, ClientTimerFires, LeavesAdoption, Awaited, Live, PastSession, Settled
<1>3. CASE StreamTimeout
  <2>1. streamTimer \in Calls /\ streamTimer = lastCall
    BY <1>3, TaskSettlesTheLatest DEF StreamTimeout, Awaited
  <2> QED
    BY <1>0, <1>3, <2>1, NoCallIsZero DEF StreamTimeout, LeavesAdoption, Awaited, Live, PastSession
<1>4. CASE EndOfChunk
  BY <1>0, <1>4 DEF EndOfChunk, EmptyStack, LeavesAdoption, Awaited, Live
<1>5. ASSUME NEW i \in Calls, RejectConnect(i) PROVE LeavesAdoption
  BY <1>0, <1>5
  DEF RejectConnect, EmptyStack, LeavesAdoption, Awaited, Live, PastSession, Settled
<1>6. ASSUME NEW i \in Calls, StreamOpens(i) PROVE LeavesAdoption
  <2>1. i = lastCall
    BY <1>6, TaskSettlesTheLatest DEF StreamOpens, Awaited, Live
  <2> QED
    BY <1>0, <1>6, <2>1 DEF StreamOpens, LeavesAdoption, Awaited, Live, PastSession
<1>7. ASSUME NEW i \in Calls, StreamStops(i) PROVE LeavesAdoption
  BY <1>0, <1>7 DEF StreamStops, LeavesAdoption, Awaited, Live
<1>8. ASSUME NEW i \in Calls, StreamRefused(i) PROVE LeavesAdoption
  BY <1>0, <1>8 DEF StreamRefused, ConnectionErrorReceived, LeavesAdoption, Awaited, Live
<1>9. CASE TellWatchers
  BY <1>0, <1>9 DEF TellWatchers, UpdateWatchers, LeavesAdoption, Awaited, Live
<1>10. ASSUME NEW i \in Calls, DispatchMessage(i) PROVE LeavesAdoption
  BY <1>0, <1>10 DEF DispatchMessage, ConfigSetReceived, LeavesAdoption, Awaited, Live
<1> QED
  BY <1>1, <1>2, <1>3, <1>4, <1>5, <1>6, <1>7, <1>8, <1>9, <1>10 DEF Runtime, Network

LEMMA ApplicationAdoption ==
  ASSUME TypeOK, Connections, AdoptionOrder, Application
  PROVE  AdoptionOrder' /\ adopted' = adopted
<1>1. CASE Initialize \/ UpdateContext \/ Resume
  BY <1>1, SubmitAdoption
  DEF Initialize, UpdateContext, Resume, SubmitInitialization, SubmitContextUpdate, ResumeNetwork,
      ConnectToTransport
<1>2. CASE Pause \/ Dispose
  BY <1>2, CutAdoption DEF Pause, Dispose, PauseNetwork, DisposeClient, callVars
<1> QED
  BY <1>1, <1>2 DEF Application

LEMMA AdoptionStep ==
  TypeOK /\ Connections /\ AdoptionOrder /\ [Next]_vars
      => AdoptionOrder' /\ (adopted' = adopted \/ adopted' >= adopted)
<1>1. TypeOK /\ Connections /\ AdoptionOrder /\ UNCHANGED vars
          => AdoptionOrder' /\ adopted' = adopted
  BY DEF vars, coreVars, callVars, flagVars, transportVars, AdoptionOrder, SessionInOrder,
         SettledInOrder, PastSession, Awaited, Live
<1> QED
  BY <1>1, ApplicationAdoption, TaskAdoption, ReactionAdoption DEF Next

\* Connects are superseded, timed out, refused and attached in any order, yet the client's
\* context only moves on to those of later calls.
THEOREM ContextsAlwaysAdoptedInOrder == Spec => ContextsAdoptedInOrder
<1>1. TypeOK /\ Connections /\ AdoptionOrder /\ [Next]_vars
          => AdoptionOrder' /\ [adopted' >= adopted]_adopted
  BY AdoptionStep
<1> QED
  BY <1>1, TypeCorrect, ConnectionsHold, InitAdoption, PTL DEF Spec, ContextsAdoptedInOrder
=============================================================================
