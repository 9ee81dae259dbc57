------------------------- MODULE PollingClientProofs -------------------------
(***************************************************************************)
(* What TLAPS proves of PollingClient, for any number of calls, polls,     *)
(* pauses, keys and contexts: polling goes on unless it failed for good.   *)
(***************************************************************************)
EXTENDS PollingClient, TLAPS

LEMMA CallNumbers ==
    /\ MaxCalls \in Nat /\ Calls \subseteq CallsOrNone /\ 0 \in CallsOrNone /\ 0 \notin Calls
    /\ \A c \in CallsOrNone : c \in Nat /\ (c # 0 => c \in Calls)
    /\ \A c \in CallsOrNone : c < MaxCalls => c + 1 \in Calls
  BY MaxCallsAssumption DEF Calls, CallsOrNone

\* The types of what decides whether a connect schedules its interval.
PollTypes ==
    /\ pc \in [Calls -> Phases]
    /\ lastCall \in CallsOrNone /\ clientTimer \in CallsOrNone
    /\ interval \in CallsOrNone /\ cutAt \in CallsOrNone
    /\ turn \in Turns
    /\ generation \in Nat /\ genOf \in [Calls -> Nat]
    /\ fetchOf \in [Fetches -> CallsOrNone]
    /\ fatalError \in BOOLEAN

\* Calls not made yet have left no trace, a call is announced once its transport has
\* settled, and the armed timer is that of a call that waits.
CallsFollow ==
    /\ \A j \in Calls : j > lastCall => pc[j] = "unused"
    /\ turn.at = "announce" => turn.call \in Calls /\ pc[turn.call] \in Settled
    /\ clientTimer # 0 => pc[clientTimer] = "waiting"

\* The call made last, unless it was cut off, is of the present generation, so that its
\* first fetch is not abandoned; once that fetch has ended the interval runs.
LastCallPolls ==
    lastCall > cutAt /\ ~fatalError =>
        /\ genOf[lastCall] = generation
        /\ pc[lastCall] \notin {"unused", "superseded"}
        /\ pc[lastCall] \notin {"session", "connecting"} => interval # 0

PollInv == PollTypes /\ CallsFollow /\ LastCallPolls /\ FatalErrorStopsPolling

LEMMA InitPollInv == Init => PollInv
<1> SUFFICES ASSUME Init PROVE PollInv
  OBVIOUS
<1> USE CallNumbers DEF Init, CoreInit
<1>1. PollTypes
  BY DEF PollTypes, Phases, Turns, EmptyStack
<1>2. CallsFollow /\ LastCallPolls
  BY DEF CallsFollow, LastCallPolls, EmptyStack
<1> QED
  BY <1>1, <1>2 DEF PollInv, FatalErrorStopsPolling

----------------------------------------------------------------------------
(* Calls of the application.                                               *)

\* A call takes the next number and the next generation, and stops the interval.
LEMMA CallStep ==
  ASSUME PollInv, NEW c, ConnectToTransport(c), TakeGeneration
  PROVE  PollInv'
<1> USE CallNumbers
<1>1. lastCall + 1 \in Calls /\ lastCall \in Nat /\ generation \in Nat /\ cutAt \in Nat
  BY DEF ConnectToTransport, PollInv, PollTypes
<1>2. PollTypes'
  BY <1>1
  DEF ConnectToTransport, TakeGeneration, EndCurrentConnection, boundVars, PollInv, PollTypes, Phases
<1>3. CallsFollow'
  BY <1>1
  DEF ConnectToTransport, TakeGeneration, PollInv, PollTypes, CallsFollow, Settled, Turns
<1>4. LastCallPolls'
  BY <1>1
  DEF ConnectToTransport, TakeGeneration, EndCurrentConnection, PollInv, PollTypes, LastCallPolls
<1>5. FatalErrorStopsPolling'
  BY DEF TakeGeneration, EndCurrentConnection, FatalErrorStopsPolling
<1> QED
  BY <1>2, <1>3, <1>4, <1>5 DEF PollInv

\* A pause or a dispose cuts off every call made so far.
LEMMA CutStep ==
  ASSUME PollInv, CloseTransport, PauseNetwork \/ DisposeClient
  PROVE  PollInv'
<1> USE CallNumbers
<1>1. /\ interval' = 0 /\ cutAt' = lastCall /\ generation' = generation + 1 /\ clientTimer' = 0
      /\ UNCHANGED <<pc, lastCall, turn, genOf, fetchOf, fatalError>>
  BY DEF CloseTransport, EndCurrentConnection, PauseNetwork, DisposeClient, callVars
<1>2. PollTypes' /\ CallsFollow' /\ LastCallPolls'
  BY <1>1 DEF PollInv, PollTypes, CallsFollow, LastCallPolls
<1> QED
  BY <1>1, <1>2 DEF PollInv, FatalErrorStopsPolling

LEMMA ApplicationStep == PollInv /\ Application => PollInv'
  BY CallStep, CutStep
  DEF Application, Initialize, UpdateContext, Resume, Pause, Dispose, SubmitInitialization,
      SubmitContextUpdate, ResumeNetwork

----------------------------------------------------------------------------
(* Reactions.                                                              *)

\* What a reaction of the client does to its call: it goes on from a settled transport,
\* and never back to one that is not.
LEMMA CoreReactionStep ==
  ASSUME PollInv, NEW i \in Calls,
         \/ SettleReadyPromise(i) \/ AwaitReadiness(i) \/ ReadinessReached(i)
         \/ AdoptContext(i) \/ ReturnAfterError(i),
         UNCHANGED <<transportVars, boundVars>>
  PROVE  PollInv'
<1> USE CallNumbers DEF transportVars, boundVars, PollInv, PollTypes
<1>1. CASE SettleReadyPromise(i)
  BY <1>1 DEF SettleReadyPromise, CallsFollow, LastCallPolls, FatalErrorStopsPolling
<1>2. CASE AwaitReadiness(i)
  <2>1. pc[i] \in Settled /\ lastCall' = lastCall /\ turn' = EmptyStack
    BY <1>2 DEF AwaitReadiness, CallsFollow
  <2>2. \/ pc' = [pc EXCEPT ![i] = "waiting"] /\ clientTimer' = i
        \/ pc' = [pc EXCEPT ![i] = "returned"] /\ clientTimer' = 0
    BY <1>2 DEF AwaitReadiness
  <2>3. PollTypes'
    BY <1>2, <2>1, <2>2 DEF Phases, Turns, EmptyStack
  <2>4. CallsFollow' /\ LastCallPolls' /\ FatalErrorStopsPolling'
    BY <2>1, <2>2 DEF CallsFollow, LastCallPolls, FatalErrorStopsPolling, Settled, EmptyStack
  <2> QED
    BY <2>3, <2>4
<1>3. CASE ReadinessReached(i)
  <2>1. pc[i] = "waiting" /\ pc' = [pc EXCEPT ![i] = "returned"] /\ clientTimer' = 0
        /\ UNCHANGED <<lastCall, turn>>
    BY <1>3 DEF ReadinessReached
  <2> QED
    BY <2>1 DEF CallsFollow, LastCallPolls, FatalErrorStopsPolling, Phases, Settled
<1>4. CASE AdoptContext(i)
  <2>1. pc[i] \in Settled /\ turn' = [at |-> "announce", call |-> i]
        /\ UNCHANGED <<pc, lastCall, clientTimer>>
    BY <1>4 DEF AdoptContext, callVars
  <2> QED
    BY <2>1 DEF CallsFollow, LastCallPolls, FatalErrorStopsPolling, Turns
<1>5. CASE ReturnAfterError(i)
  <2>1. pc[i] = "rejected" /\ pc' = [pc EXCEPT ![i] = "returned"]
        /\ UNCHANGED <<lastCall, clientTimer, turn>>
    BY <1>5 DEF ReturnAfterError, flagVars
  <2> QED
    BY <2>1 DEF CallsFollow, LastCallPolls, FatalErrorStopsPolling, Phases, Settled
<1> QED
  BY <1>1, <1>2, <1>3, <1>4, <1>5

\* The connect goes on: it is abandoned only when outdated, and its finally schedules the
\* interval unless an error was fatal.
LEMMA ConnectStep ==
  ASSUME PollInv, NEW i \in Calls,
         AbandonConnect(i) \/ FirstFetch(i) \/ \E f \in Fetches : fetchOf[f] = i /\ FinishConnect(f)
  PROVE  PollInv'
<1> USE CallNumbers DEF PollInv, PollTypes
<1>1. CASE AbandonConnect(i)
  <2>1. pc[i] = "session" /\ genOf[i] # generation /\ pc' = [pc EXCEPT ![i] = "superseded"]
        /\ UNCHANGED <<lastCall, clientTimer, turn, transportVars, boundVars>>
    BY <1>1 DEF AbandonConnect, FirstOnSession, flagVars
  <2> QED
    BY <2>1
    DEF CallsFollow, LastCallPolls, FatalErrorStopsPolling, Phases, Settled, transportVars, boundVars
<1>2. CASE FirstFetch(i)
  <2>1. pc[i] = "session" /\ UNCHANGED <<lastCall, clientTimer, turn, interval, cutAt>>
        /\ UNCHANGED <<generation, genOf, fatalError>>
        /\ \/ pc' = [pc EXCEPT ![i] = "connecting"]
           \/ fatalError /\ pc' = [pc EXCEPT ![i] = "attached"]
    BY <1>2 DEF FirstFetch, FirstOnSession, Send, flagVars, transportVars, boundVars
  <2>2. fetchOf' \in [Fetches -> CallsOrNone]
    BY <1>2 DEF FirstFetch, Send, transportVars
  <2> QED
    BY <2>1, <2>2 DEF CallsFollow, LastCallPolls, FatalErrorStopsPolling, Phases, Settled
<1>3. ASSUME NEW f \in Fetches, fetchOf[f] = i, FinishConnect(f) PROVE PollInv'
  <2>1. pc[i] = "connecting" /\ UNCHANGED <<lastCall, clientTimer, turn, generation, genOf>>
        /\ UNCHANGED <<fatalError, fetchOf, cutAt>>
    BY <1>3 DEF FinishConnect, FinishDue, IsFirst, flagVars, boundVars
  <2>2. pc' = [pc EXCEPT ![i] = "attached"] \/ pc' = [pc EXCEPT ![i] = "rejected"]
    BY <1>3 DEF FinishConnect
  <2>3. interval' = IF fatalError THEN interval ELSE i
    BY <1>3 DEF FinishConnect
  <2> QED
    BY <2>1, <2>2, <2>3 DEF CallsFollow, LastCallPolls, FatalErrorStopsPolling, Phases, Settled
<1> QED
  BY <1>1, <1>2, <1>3

----------------------------------------------------------------------------
(* Tasks.                                                                  *)

\* Timers and the end of a handler; a task finds no call announced.
LEMMA RuntimeStep == PollInv /\ Runtime => PollInv'
<1> SUFFICES ASSUME PollInv, Runtime PROVE PollInv'
  OBVIOUS
<1> USE CallNumbers DEF PollInv, PollTypes
<1>1. CASE SessionResolves
  BY <1>1
  DEF SessionResolves, coreVars, callVars, flagVars, boundVars, CallsFollow, LastCallPolls,
      FatalErrorStopsPolling
<1>2. CASE ReadinessTimeout
  <2>1. clientTimer \in Calls /\ pc' = [pc EXCEPT ![clientTimer] = "returned"] /\ clientTimer' = 0
        /\ UNCHANGED <<lastCall, turn, transportVars, boundVars>>
    BY <1>2 DEF ReadinessTimeout, ClientTimerFires
  <2>2. turn.at = "none"
    BY <1>2 DEF ReadinessTimeout, TaskMayRun, Quiet, StackEmpty, EmptyStack
  <2> QED
    BY <2>1, <2>2
    DEF CallsFollow, LastCallPolls, FatalErrorStopsPolling, transportVars, boundVars, Phases
<1>3. CASE Poll
  <2>1. fetchOf' \in [Fetches -> CallsOrNone]
    BY <1>3 DEF Poll, Send
  <2> QED
    BY <1>3, <2>1
    DEF Poll, Send, coreVars, callVars, flagVars, CallsFollow, LastCallPolls, FatalErrorStopsPolling
<1>4. CASE EndOfEmit
  BY <1>4
  DEF EndOfEmit, callVars, flagVars, transportVars, boundVars, CallsFollow, LastCallPolls,
      FatalErrorStopsPolling, EmptyStack, Turns
<1>5. CASE TellWatchers
  <2>1. UNCHANGED <<callVars, flagVars, transportVars, boundVars>> /\ turn' = [turn EXCEPT !.at = "chunk"]
    BY <1>5 DEF TellWatchers, UpdateWatchers
  <2> QED
    BY <2>1
    DEF callVars, flagVars, transportVars, boundVars, CallsFollow, LastCallPolls,
        FatalErrorStopsPolling, Turns
<1> QED
  BY <1>1, <1>2, <1>3, <1>4, <1>5 DEF Runtime

\* Answers: only a fatal one touches the interval, and stops it.
LEMMA NetworkStep ==
  ASSUME PollInv, NEW f \in Fetches, Network(f)
  PROVE  PollInv'
<1> USE CallNumbers DEF PollInv, PollTypes, CallsFollow, LastCallPolls, FatalErrorStopsPolling
<1>1. CASE ResponseOk(f)
  BY <1>1 DEF ResponseOk, Reach, coreVars, callVars, flagVars, boundVars
<1>2. CASE ResponseFatal(f)
  BY <1>2 DEF ResponseFatal, Reach, coreVars, callVars, flagVars, boundVars
<1>3. CASE BodyRead(f)
  <2>1. UNCHANGED <<pc, lastCall, clientTimer, generation, genOf, fatalError, interval, fetchOf, cutAt>>
    BY <1>3 DEF BodyRead, Reach, ConfigSetReceived, flagVars, boundVars
  <2>2. turn' = [at |-> "updated", call |-> fetchOf[f]]
    BY <1>3 DEF BodyRead, ConfigSetReceived
  <2> QED
    BY <2>1, <2>2 DEF Turns
<1>4. CASE FetchFails(f)
  <2>1. UNCHANGED <<pc, lastCall, clientTimer, generation, genOf, fatalError, interval, fetchOf, cutAt>>
    BY <1>4 DEF FetchFails, Reach, ConnectionErrorReceived, coreVars, callVars, flagVars, boundVars
  <2>2. turn' = [at |-> "fatal", call |-> fetchOf[f]] \/ turn' = turn
    BY <1>4 DEF FetchFails, coreVars
  <2> QED
    BY <2>1, <2>2 DEF Turns
<1> QED
  BY <1>1, <1>2, <1>3, <1>4 DEF Network

LEMMA PollInvStep == PollInv /\ [Next]_vars => PollInv'
<1> SUFFICES ASSUME PollInv, [Next]_vars PROVE PollInv'
  OBVIOUS
<1>1. ASSUME NEW i \in Calls, Reaction(i) PROVE PollInv'
  BY <1>1, CoreReactionStep, ConnectStep DEF Reaction
<1>2. CASE UNCHANGED vars
  BY <1>2
  DEF vars, coreVars, callVars, flagVars, transportVars, boundVars, PollInv, PollTypes, CallsFollow,
      LastCallPolls, FatalErrorStopsPolling
<1> QED
  BY <1>1, <1>2, ApplicationStep, RuntimeStep, NetworkStep DEF Next

\* Whatever fetches overlap and in whatever order they are answered: after a fatal failure
\* nothing is polled, and otherwise the call made last, once returned, is polled for.
THEOREM AlwaysPollsUnlessFatal == Spec => []PollsUnlessFatal
<1>1. PollInv => PollsUnlessFatal
  BY CallNumbers
  DEF PollInv, PollTypes, LastCallPolls, PollsUnlessFatal, KeepsPolling
<1> QED
  BY <1>1, InitPollInv, PollInvStep, PTL DEF Spec
=============================================================================
