-------------------------- MODULE EventSourceProofs --------------------------
(***************************************************************************)
(* What TLAPS proves of EventSource, for any number of attempts and any    *)
(* bodies: it implements EventSourceContract, its ready state and its      *)
(* attempts belong together, and the events of a body do not depend on     *)
(* how it was cut into chunks.                                             *)
(***************************************************************************)
EXTENDS EventSource, FiniteSetTheorems, SequenceTheorems, NaturalsInduction,
        WellFoundedInduction, TLAPS

----------------------------------------------------------------------------
(* The attempts and the ready state.                                       *)

\* The types of the variables an attempt and its end depend on.
ConnectionTypeOK ==
    /\ readyState \in {"closed", "connecting", "open"}
    /\ controller \in 0 .. MaxAttempts
    /\ fetch \in [Attempts -> FetchStates]
    /\ timer \in BOOLEAN /\ closedByOwner \in BOOLEAN
    /\ turn \in {"none", "chunk", "deciding"}

\* Only the attempt of the current controller is in flight, and only the owner aborts.
AttemptsOwned ==
    /\ \A a \in Attempts : InFlight(a) => a = controller
    /\ aborted \subseteq 1 .. controller
    /\ closedByOwner => controller \in aborted
    /\ aborted # {} => closedByOwner

Alive == controller # 0 /\ InFlight(controller) /\ controller \notin aborted

\* What each ready state, the timer and the callbacks say of the current attempt.
StatesExplained ==
    /\ controller = 0 => readyState = "closed" /\ turn = "none" /\ ~timer
    /\ closedByOwner => readyState = "closed" /\ ~timer
    /\ timer => readyState = "connecting" /\ turn = "none" /\ ~Alive
    /\ turn = "deciding" => ~InFlight(controller) /\ (readyState = "connecting" \/ closedByOwner)
    /\ Alive => readyState = IF fetch[controller] = "sent" THEN "connecting" ELSE "open"
    /\ readyState = "open" => Alive
    /\ readyState = "connecting" /\ turn # "deciding" => timer \/ Alive
    /\ turn = "chunk" => controller # 0 /\ fetch[controller] = "reading"

AttemptInv == ConnectionTypeOK /\ AttemptsOwned /\ StatesExplained

LEMMA Numbers == /\ MaxAttempts \in Nat \ {0}
                 /\ \A c \in 0 .. MaxAttempts : c \in Nat /\ (c # 0 => c \in Attempts)
                 /\ \A a \in Attempts : a \in 0 .. MaxAttempts /\ a # 0
  BY BoundsAssumption DEF Attempts

LEMMA InitAttemptInv == Init => AttemptInv
<1> SUFFICES ASSUME Init PROVE AttemptInv
  OBVIOUS
<1>1. \A a \in Attempts : ~InFlight(a)
  BY DEF Init, InFlight
<1>2. ConnectionTypeOK
  <2>1. 0 \in 0 .. MaxAttempts
    BY Numbers
  <2> QED
    BY <2>1 DEF Init, ConnectionTypeOK, FetchStates
<1>3. AttemptsOwned /\ StatesExplained
  BY <1>1, Numbers DEF Init, AttemptsOwned, StatesExplained, Alive
<1> QED
  BY <1>2, <1>3 DEF AttemptInv

\* A new attempt, from Connect or from the timer: nothing else is in flight.
LEMMA InitiateInv ==
  ASSUME AttemptInv, InitiateConnection, timer' = FALSE, turn = "none",
         controller = 0 \/ timer
  PROVE  AttemptInv'
<1> USE Numbers DEF AttemptInv
<1>1. controller' = controller + 1 /\ controller' \in Attempts /\ controller \in Nat
  BY DEF InitiateConnection, ConnectionTypeOK, Attempts
<1>2. \A a \in Attempts : ~InFlight(a)
  BY DEF AttemptsOwned, StatesExplained, Alive, ConnectionTypeOK
<1>3. ConnectionTypeOK'
  BY <1>1 DEF ConnectionTypeOK, InitiateConnection, FetchStates
<1>4. aborted = {} /\ ~closedByOwner
  BY DEF AttemptsOwned, StatesExplained
<1>5. AttemptsOwned'
  BY <1>1, <1>2, <1>4 DEF AttemptsOwned, InitiateConnection, InFlight, ConnectionTypeOK
<1>6. fetch'[controller'] = "sent"
  BY <1>1 DEF InitiateConnection, ConnectionTypeOK
<1>7. StatesExplained'
  BY <1>1, <1>4, <1>6 DEF StatesExplained, InitiateConnection, Alive, InFlight
<1> QED
  BY <1>3, <1>5, <1>7

\* The end of an attempt: which one it was, and that nothing is in flight any more.
LEMMA OverEnds ==
  ASSUME AttemptInv, NEW a \in Attempts, InFlight(a), Over(a), UNCHANGED controller
  PROVE  /\ a = controller /\ controller # 0
         /\ fetch' \in [Attempts -> FetchStates]
         /\ \A b \in Attempts : ~(InFlight(b))'
  BY Numbers DEF AttemptInv, AttemptsOwned, Over, InFlight, ConnectionTypeOK, FetchStates

\* Each step of the running attempt keeps the invariant.
LEMMA AttemptStep ==
  ASSUME AttemptInv, NEW a \in Attempts, Attempt(a)
  PROVE  AttemptInv'
<1> USE Numbers DEF AttemptInv
<1>1. CASE AttemptFails(a)
  BY <1>1, OverEnds
  DEF AttemptFails, ScheduleReconnect, ConnectionTypeOK, AttemptsOwned, StatesExplained, Alive, InFlight
<1>2. CASE StreamEnds(a)
  <2>1. InFlight(a)
    BY <1>2 DEF StreamEnds, InFlight
  <2> QED
    BY <1>2, <2>1, OverEnds
    DEF StreamEnds, ScheduleReconnect, ConnectionTypeOK, AttemptsOwned, StatesExplained, Alive, InFlight
<1>3. CASE AbortNoticed(a)
  BY <1>3, OverEnds
  DEF AbortNoticed, ShutDown, ConnectionTypeOK, AttemptsOwned, StatesExplained, Alive, InFlight
<1>4. CASE NoContent(a)
  <2>1. InFlight(a)
    BY <1>4 DEF NoContent, InFlight
  <2> QED
    BY <1>4, <2>1, OverEnds
    DEF NoContent, Disconnected, ConnectionTypeOK, AttemptsOwned, StatesExplained, Alive, InFlight
<1>5. CASE Refused(a)
  <2>1. InFlight(a)
    BY <1>5 DEF Refused, InFlight
  <2> QED
    BY <1>5, <2>1, OverEnds
    DEF Refused, ConnectionTypeOK, AttemptsOwned, StatesExplained, Alive, InFlight
<1>6. CASE Accepted(a)
  <2>1. a = controller /\ InFlight(a) /\ fetch[controller] = "sent"
    BY <1>6 DEF Accepted, InFlight, AttemptsOwned
  <2>2. fetch' = [fetch EXCEPT ![controller] = "reading"] /\ readyState' = "open"
        /\ UNCHANGED <<controller, aborted, timer, turn, closedByOwner>>
    BY <1>6, <2>1 DEF Accepted
  <2> QED
    BY <2>1, <2>2, <1>6
    DEF Accepted, ConnectionTypeOK, AttemptsOwned, StatesExplained, Alive, InFlight, FetchStates
<1>7. CASE \E chunk \in Chunks : ReceiveChunk(a, chunk)
  BY <1>7
  DEF ReceiveChunk, connectionVars, ConnectionTypeOK, AttemptsOwned, StatesExplained, Alive, InFlight
<1> QED
  BY <1>1, <1>2, <1>3, <1>4, <1>5, <1>6, <1>7 DEF Attempt

LEMMA AttemptInvStep == AttemptInv /\ [Next]_vars => AttemptInv'
<1> SUFFICES ASSUME AttemptInv, [Next]_vars PROVE AttemptInv'
  OBVIOUS
<1> USE Numbers
<1>1. CASE Connect
  <2>1. turn = "none" /\ ~timer
    BY <1>1 DEF Connect, AttemptInv, StatesExplained
  <2> QED
    BY <1>1, <2>1, InitiateInv DEF Connect, AttemptInv, ConnectionTypeOK
<1>2. CASE Close
  <2>1. controller \in 1 .. controller /\ controller' = controller /\ fetch' = fetch /\ turn' = turn
    BY <1>2 DEF Close, AttemptInv, ConnectionTypeOK
  <2>2. aborted' = aborted \cup {controller} /\ closedByOwner' /\ readyState' = "closed" /\ timer' = FALSE
    BY <1>2 DEF Close, ShutDown
  <2>3. ConnectionTypeOK'
    BY <1>2, <2>1, <2>2 DEF Close, AttemptInv, ConnectionTypeOK
  <2>4. AttemptsOwned' /\ StatesExplained'
    BY <2>1, <2>2 DEF AttemptInv, AttemptsOwned, StatesExplained, Alive, InFlight
  <2> QED
    BY <2>3, <2>4 DEF AttemptInv
<1>3. CASE GiveUp
  BY <1>3
  DEF GiveUp, Disconnected, AttemptInv, ConnectionTypeOK, AttemptsOwned, StatesExplained, Alive, InFlight
<1>4. CASE DispatchEvent \/ EndOfChunk
  <2>1. UNCHANGED <<connectionVars, closedByOwner>> /\ turn = "chunk" /\ turn' \in {"chunk", "none"}
    BY <1>4 DEF DispatchEvent, EndOfChunk
  <2>2. ~timer
    BY <2>1 DEF AttemptInv, StatesExplained
  <2> QED
    BY <2>1, <2>2
    DEF connectionVars, AttemptInv, ConnectionTypeOK, AttemptsOwned, StatesExplained, Alive, InFlight
<1>5. CASE Reconnect
  BY <1>5, InitiateInv DEF Reconnect
<1>6. CASE \E a \in Attempts : Attempt(a)
  BY <1>6, AttemptStep
<1>7. CASE UNCHANGED vars
  BY <1>7
  DEF vars, connectionVars, AttemptInv, ConnectionTypeOK, AttemptsOwned, StatesExplained, Alive, InFlight
<1> QED
  BY <1>1, <1>2, <1>3, <1>4, <1>5, <1>6, <1>7 DEF Next

LEMMA AttemptInvHolds == Spec => []AttemptInv
  BY InitAttemptInv, AttemptInvStep, PTL DEF Spec

\* However close, the retry timer, the callbacks and the answers of the server meet: at
\* most one fetch is in flight and none besides an armed timer, and the client shows
\* closed exactly when it has neither.
THEOREM AttemptsAlwaysMatchReadyState == Spec => []AttemptsMatchReadyState
<1>1. AttemptInv => OneAttemptAtATime
  <2> SUFFICES ASSUME AttemptInv PROVE OneAttemptAtATime
    OBVIOUS
  <2> DEFINE Running == {a \in Attempts : InFlight(a)}
  <2>1. Running \subseteq {controller}
    BY DEF AttemptInv, AttemptsOwned
  <2>2. Cardinality(Running) <= 1
    <3>1. IsFiniteSet({controller}) /\ Cardinality({controller}) = 1
      BY FS_Singleton
    <3> QED
      BY <2>1, <3>1, FS_Subset
  <2>3. timer => \A a \in Attempts : ~InFlight(a)
    BY Numbers DEF AttemptInv, AttemptsOwned, StatesExplained, Alive
  <2> QED
    BY <2>2, <2>3 DEF OneAttemptAtATime
<1>2. AttemptInv => ReadyStateIsHonest
  BY Numbers
  DEF AttemptInv, ConnectionTypeOK, AttemptsOwned, StatesExplained, Alive, ReadyStateIsHonest
<1> QED
  BY <1>1, <1>2, AttemptInvHolds, PTL DEF AttemptsMatchReadyState

----------------------------------------------------------------------------
(* The contract.                                                           *)

\* Seen by its owner, every step of an event source is one of the contract or none.
LEMMA ContractStep == AttemptInv /\ [Next]_vars => [Contract!Next]_Phase
<1> SUFFICES ASSUME AttemptInv, [Next]_vars PROVE [Contract!Next]_Phase
  OBVIOUS
<1> USE Numbers DEF AttemptInv, ConnectionTypeOK, AttemptsOwned, StatesExplained, Phase
<1>1. CASE Connect
  BY <1>1 DEF Connect, InitiateConnection, Contract!Next, Contract!Connect
<1>2. CASE Close
  BY <1>2 DEF Close, ShutDown, Contract!Next, Contract!Close
<1>3. CASE GiveUp
  BY <1>3 DEF GiveUp, Disconnected, Contract!Next, Contract!End
<1>4. CASE DispatchEvent \/ EndOfChunk
  BY <1>4 DEF DispatchEvent, EndOfChunk, connectionVars
<1>5. CASE Reconnect
  BY <1>5 DEF Reconnect, InitiateConnection
<1>6. ASSUME NEW a \in Attempts, Attempt(a) PROVE [Contract!Next]_Phase
  <2> USE DEF Alive, InFlight
  <2>1. CASE AttemptFails(a)
    BY <2>1 DEF AttemptFails, ScheduleReconnect, Contract!Next, Contract!Break
  <2>2. CASE StreamEnds(a)
    BY <2>2 DEF StreamEnds, ScheduleReconnect, Contract!Next, Contract!Break
  <2>3. CASE AbortNoticed(a)
    BY <2>3 DEF AbortNoticed, ShutDown
  <2>4. CASE NoContent(a)
    BY <2>4 DEF NoContent, Disconnected, Contract!Next, Contract!End
  <2>5. CASE Refused(a)
    BY <2>5 DEF Refused
  <2>6. CASE Accepted(a)
    BY <2>6 DEF Accepted, Contract!Next, Contract!Open
  <2>7. CASE \E chunk \in Chunks : ReceiveChunk(a, chunk)
    BY <2>7 DEF ReceiveChunk, connectionVars
  <2> QED
    BY <1>6, <2>1, <2>2, <2>3, <2>4, <2>5, <2>6, <2>7 DEF Attempt
<1>7. CASE UNCHANGED vars
  BY <1>7 DEF vars, connectionVars
<1> QED
  BY <1>1, <1>2, <1>3, <1>4, <1>5, <1>6, <1>7 DEF Next

\* The event source keeps what StreamingTransport relies on: connected once it alternates
\* between connecting and open, ends for good, and once closed stays closed.
THEOREM EventSourceImplementsContract == Spec => ImplementsContract
<1>1. Init => Contract!Init
  BY DEF Init, Contract!Init, Phase
<1> QED
  BY <1>1, ContractStep, AttemptInvHolds, PTL DEF Spec, ImplementsContract, Contract!Spec

----------------------------------------------------------------------------
(* Induction, by the least counterexample. *)
LEMMA LeastNat ==
  ASSUME NEW T \in SUBSET Nat, T # {}
  PROVE  \E n \in T : \A m \in T : n <= m
<1> DEFINE R == OpToRel(<, Nat)
<1>1. \A a, b \in Nat : a < b => <<a, b>> \in R
  BY DEF OpToRel
<1>2. IsWellFoundedOn(R, Nat)
  BY NatLessThanWellFounded
<1> HIDE DEF R
<1>3. PICK x \in T : \A y \in T : ~ (<<y, x>> \in R)
  BY <1>2, WFMin
<1>4. x \in Nat /\ T \subseteq Nat
  OBVIOUS
<1>5. ASSUME NEW y \in T PROVE x <= y
  <2>1. y \in Nat /\ x \in Nat /\ ~ (<<y, x>> \in R)
    BY <1>3, <1>4
  <2> QED
    BY <1>1, <2>1
<1> QED
  BY <1>5

\* A set of numbers up to n that has 0 and with every number the next one has them all.
LEMMA EveryNumberTo ==
  ASSUME NEW n \in Nat, NEW T, 0 \in T, \A i \in 0 .. n - 1 : i \in T => i + 1 \in T
  PROVE  \A i \in 0 .. n : i \in T
<1> SUFFICES ASSUME {i \in 0 .. n : i \notin T} # {} PROVE FALSE
  OBVIOUS
<1>1. {i \in 0 .. n : i \notin T} \in SUBSET Nat
  OBVIOUS
<1>2. PICK i \in {i \in 0 .. n : i \notin T} : \A j \in {j \in 0 .. n : j \notin T} : i <= j
  BY <1>1, LeastNat
<1>3. i # 0 /\ i - 1 \in 0 .. n - 1 /\ i - 1 \notin T
  BY <1>2
<1>4. i - 1 \in {j \in 0 .. n : j \notin T}
  BY <1>3
<1> QED
  BY <1>2, <1>4

LEMMA ScanIsLoop ==
  ASSUME NEW input \in Seq(Chars)
  PROVE  Scan(input) = [i \in 0 .. Len(input) |->
             IF i = 0 THEN NewScan ELSE ScanChar(Scan(input)[i - 1], input[i])]
<1> DEFINE n == Len(input)
           Loop(m, f) == f = [i \in 0 .. m |-> IF i = 0 THEN NewScan ELSE ScanChar(f[i - 1], input[i])]
           Some == {m \in 0 .. n : \E f : Loop(m, f)}
<1>1. n \in Nat
  OBVIOUS
<1>2. 0 \in Some
  <2>1. Loop(0, [i \in 0 .. 0 |-> NewScan])
    OBVIOUS
  <2>2. 0 \in 0 .. n
    BY <1>1
  <2> HIDE DEF Loop
  <2> QED
    BY <2>1, <2>2
<1>3. ASSUME NEW m \in 0 .. n - 1, m \in Some PROVE m + 1 \in Some
  <2>1. PICK f : Loop(m, f)
    BY <1>3
  <2> DEFINE g == [i \in 0 .. m + 1 |-> IF i = m + 1 THEN ScanChar(f[m], input[m + 1]) ELSE f[i]]
  <2>2. m \in Nat /\ m + 1 \in 0 .. n
    BY <1>1
  <2>3. \A i \in 0 .. m + 1 : g[i] = IF i = 0 THEN NewScan ELSE ScanChar(g[i - 1], input[i])
    BY <2>1, <2>2
  <2>4. Loop(m + 1, g)
    BY <2>3
  <2> QED
    BY <2>2, <2>4
<1>4. n \in Some
  <2> HIDE DEF n, Some
  <2>1. \A m \in 0 .. n - 1 : m \in Some => m + 1 \in Some
    BY <1>3
  <2>2. \A m \in 0 .. n : m \in Some
    BY <1>1, <1>2, <2>1, EveryNumberTo
  <2> QED
    BY <1>1, <2>2
<1>5. PICK f : Loop(n, f)
  BY <1>4 DEF Some
<1> QED
  BY <1>5 DEF Scan

----------------------------------------------------------------------------
(* Counting: the k-th smallest of a set of positions.                        *)

Below(S, x) == {y \in S : y <= x}

LEMMA BelowCounts ==
  ASSUME NEW N \in Nat, NEW S, \A p \in S : p \in 1 .. N, NEW x \in Nat
  PROVE  /\ IsFiniteSet(S) /\ Cardinality(S) \in Nat
         /\ IsFiniteSet(Below(S, x)) /\ Cardinality(Below(S, x)) \in Nat
         /\ Cardinality(Below(S, 0)) = 0
         /\ Below(S, N) = S
         /\ x # 0 => Cardinality(Below(S, x)) =
                IF x \in S THEN Cardinality(Below(S, x - 1)) + 1 ELSE Cardinality(Below(S, x - 1))
<1>1. IsFiniteSet(1 .. N)
  BY FS_Interval
<1>2. IsFiniteSet(S)
  <2>1. S \in SUBSET (1 .. N)
    OBVIOUS
  <2> QED
    BY <1>1, <2>1, FS_Subset
<1>4. Below(S, 0) = {} /\ Below(S, N) = S
  BY DEF Below
<1>5. IsFiniteSet(Below(S, x)) /\ IsFiniteSet(Below(S, x - 1))
  BY <1>2, FS_Subset DEF Below
<1>6. x # 0 => /\ Below(S, x) = IF x \in S THEN Below(S, x - 1) \cup {x} ELSE Below(S, x - 1)
               /\ x \notin Below(S, x - 1)
  BY DEF Below
<1>7. x \notin Below(S, x - 1) =>
          Cardinality(Below(S, x - 1) \cup {x}) = Cardinality(Below(S, x - 1)) + 1
  BY <1>5, FS_AddElement
<1>8. Cardinality(S) \in Nat /\ Cardinality(Below(S, x)) \in Nat /\ Cardinality(Below(S, 0)) = 0
  BY <1>2, <1>4, <1>5, FS_EmptySet, FS_CardinalityType
<1> QED
  BY <1>2, <1>4, <1>5, <1>6, <1>7, <1>8

\* Of two elements the greater one has more elements up to it.
LEMMA BelowGrows ==
  ASSUME NEW N \in Nat, NEW S, \A p \in S : p \in 1 .. N, NEW x \in S, NEW y \in S, x < y
  PROVE  Cardinality(Below(S, x)) < Cardinality(Below(S, y))
<1>1. x \in Nat /\ y \in Nat /\ y - 1 \in Nat /\ y # 0 /\ x <= y - 1
  OBVIOUS
<1>2. Cardinality(Below(S, y)) = Cardinality(Below(S, y - 1)) + 1
  BY <1>1, BelowCounts
<1>3. Below(S, x) \subseteq Below(S, y - 1)
  <2>1. \A z \in S : z <= x => z <= y - 1
    BY <1>1
  <2> QED
    BY <2>1 DEF Below
<1>4. IsFiniteSet(Below(S, y - 1)) /\ Cardinality(Below(S, y - 1)) \in Nat
  <2>1. y - 1 \in Nat
    BY <1>1
  <2> QED
    BY <2>1, BelowCounts
<1>5. Cardinality(Below(S, x)) <= Cardinality(Below(S, y - 1))
  BY <1>3, <1>4, FS_Subset
<1>6. Cardinality(Below(S, x)) \in Nat
  BY <1>1, BelowCounts
<1> QED
  BY <1>2, <1>4, <1>5, <1>6

LEMMA NthIs ==
  ASSUME NEW N \in Nat, NEW S, \A p \in S : p \in 1 .. N, NEW k \in 1 .. Cardinality(S)
  PROVE  /\ Nth(S, k) \in S /\ Cardinality(Below(S, Nth(S, k))) = k
         /\ \A x \in S : Cardinality(Below(S, x)) = k => x = Nth(S, k)
<1> DEFINE Enough == {x \in Nat : Cardinality(Below(S, x)) >= k}
<1>1. N \in Enough /\ k \in Nat \ {0}
  BY BelowCounts
<1>2. PICK x \in Enough : \A y \in Enough : x <= y
  BY <1>1, LeastNat
<1>3. x \in Nat /\ Cardinality(Below(S, x)) >= k /\ x # 0
  BY <1>1, <1>2, BelowCounts
<1>4. x - 1 \in Nat /\ ~ (Cardinality(Below(S, x - 1)) >= k)
  BY <1>2, <1>3
<1>5. x \in S /\ Cardinality(Below(S, x)) = k
  <2>1. /\ Cardinality(Below(S, x - 1)) \in Nat
        /\ Cardinality(Below(S, x)) = IF x \in S THEN Cardinality(Below(S, x - 1)) + 1
                                                  ELSE Cardinality(Below(S, x - 1))
    BY <1>3, <1>4, BelowCounts
  <2> QED
    BY <1>1, <1>3, <1>4, <2>1
<1>6. Nth(S, k) \in S /\ Cardinality(Below(S, Nth(S, k))) = k
  BY <1>5 DEF Nth, Below
<1>7. ASSUME NEW y \in S, Cardinality(Below(S, y)) = k PROVE y = Nth(S, k)
  <2>1. y \in Nat /\ Nth(S, k) \in Nat
    BY <1>6
  <2>2. ~ (y < Nth(S, k))
    BY <1>1, <1>6, <1>7, BelowGrows
  <2>3. ~ (Nth(S, k) < y)
    BY <1>1, <1>6, <1>7, BelowGrows
  <2> QED
    BY <2>1, <2>2, <2>3
<1> QED
  BY <1>6, <1>7

\* A greater element comes last and leaves the order of the others.
LEMMA NthOfMore ==
  ASSUME NEW N \in Nat, NEW S, \A p \in S : p \in 1 .. N
  PROVE  /\ Cardinality(S \cup {N + 1}) = Cardinality(S) + 1
         /\ \A k \in 1 .. Cardinality(S) : Nth(S \cup {N + 1}, k) = Nth(S, k)
         /\ Nth(S \cup {N + 1}, Cardinality(S) + 1) = N + 1
<1> DEFINE T == S \cup {N + 1}
<1>1. N + 1 \in Nat /\ (\A p \in T : p \in 1 .. N + 1) /\ N + 1 \notin S
  OBVIOUS
<1>2. Cardinality(T) = Cardinality(S) + 1 /\ Cardinality(S) \in Nat
  BY <1>1, BelowCounts, FS_AddElement
<1>3. ASSUME NEW k \in 1 .. Cardinality(S) PROVE Nth(T, k) = Nth(S, k)
  <2>1. Nth(S, k) \in S /\ Cardinality(Below(S, Nth(S, k))) = k
    BY NthIs
  <2>2. Nth(S, k) \in Nat /\ Nth(S, k) <= N
    BY <2>1
  <2>3. Below(T, Nth(S, k)) = Below(S, Nth(S, k))
    BY <2>2 DEF Below
  <2>4. k \in 1 .. Cardinality(T) /\ Nth(S, k) \in T
    BY <1>2, <2>1
  <2> HIDE DEF T
  <2> QED
    BY <1>1, <2>1, <2>3, <2>4, NthIs
<1>4. Nth(T, Cardinality(S) + 1) = N + 1
  <2>1. Cardinality(Below(T, N + 1)) = Cardinality(S) + 1
    BY <1>1, <1>2, BelowCounts, SMTT(30)
  <2>2. Cardinality(S) + 1 \in 1 .. Cardinality(T) /\ N + 1 \in T
    BY <1>2
  <2> HIDE DEF T
  <2> QED
    BY <1>1, <2>1, <2>2, NthIs
<1> QED
  BY <1>2, <1>3, <1>4

----------------------------------------------------------------------------
(* The lines of a text, and how one character more changes them.             *)

\* The length of the data after the last line end.
Unterminated(t) == DataBetween(t, LineEnd(t, Cardinality(LineEnds(t))), Len(t))

\* The next character is the LF of a CRLF.
SecondOfCRLF(t, ch) == ch = "LF" /\ t # <<>> /\ t[Len(t)] = "CR"

LEMMA LineEndsOK ==
  ASSUME NEW t \in Seq(Chars)
  PROVE  /\ Len(t) \in Nat
         /\ \A p \in LineEnds(t) : p \in 1 .. Len(t)
         /\ Cardinality(LineEnds(t)) \in Nat
         /\ \A k \in 0 .. Cardinality(LineEnds(t)) : LineEnd(t, k) \in 0 .. Len(t)
<1>1. Len(t) \in Nat /\ \A p \in LineEnds(t) : p \in 1 .. Len(t)
  BY DEF LineEnds
<1>2. Cardinality(LineEnds(t)) \in Nat
  BY <1>1, BelowCounts
<1>3. ASSUME NEW k \in 0 .. Cardinality(LineEnds(t)) PROVE LineEnd(t, k) \in 0 .. Len(t)
  <2>1. CASE k = 0
    BY <1>1, <2>1 DEF LineEnd
  <2>2. CASE k # 0
    <3>1. k \in 1 .. Cardinality(LineEnds(t))
      BY <1>2, <2>2
    <3>2. Nth(LineEnds(t), k) \in LineEnds(t)
      BY <1>1, <3>1, NthIs
    <3> QED
      BY <1>1, <2>2, <3>2 DEF LineEnd
  <2> QED
    BY <2>1, <2>2
<1> QED
  BY <1>1, <1>2, <1>3

LEMMA DataCounts ==
  ASSUME NEW t \in Seq(Chars), NEW ch \in Chars, NEW i \in 0 .. Len(t)
  PROVE  /\ \A j \in 0 .. Len(t) : DataBetween(t, i, j) \in Nat
         /\ \A j \in 0 .. Len(t) : DataBetween(Append(t, ch), i, j) = DataBetween(t, i, j)
         /\ DataBetween(Append(t, ch), i, Len(t) + 1) =
                IF ch = "d" THEN DataBetween(t, i, Len(t)) + 1 ELSE DataBetween(t, i, Len(t))
         /\ DataBetween(Append(t, ch), Len(t) + 1, Len(t) + 1) = 0
<1> DEFINE n == Len(t)
           u == Append(t, ch)
           D(v, j) == {p \in i + 1 .. j : v[p] = "d"}
<1>1. n \in Nat /\ u[n + 1] = ch /\ \A p \in 1 .. n : u[p] = t[p]
  OBVIOUS
<1> HIDE DEF u
<1>2. \A j \in 0 .. n : IsFiniteSet(D(t, j)) /\ Cardinality(D(t, j)) \in Nat
  <2>1. IsFiniteSet(1 .. n) /\ \A j \in 0 .. n : D(t, j) \in SUBSET (1 .. n)
    <3>1. IsFiniteSet(1 .. n)
      BY <1>1, FS_Interval
    <3>2. \A j \in 0 .. n : \A p \in D(t, j) : p \in 1 .. n
      BY <1>1
    <3> QED
      BY <3>1, <3>2
  <2> HIDE DEF D
  <2> QED
    BY <2>1, FS_Subset, FS_CardinalityType
<1>3. \A j \in 0 .. n : D(u, j) = D(t, j)
  BY <1>1
<1>4. D(u, n + 1) = IF ch = "d" THEN D(t, n) \cup {n + 1} ELSE D(t, n)
  BY <1>1
<1>5. n + 1 \notin D(t, n)
  BY <1>1
<1>6. {p \in n + 1 + 1 .. n + 1 : u[p] = "d"} = {}
  BY <1>1
<1>7. Cardinality(D(u, n + 1)) =
          IF ch = "d" THEN Cardinality(D(t, n)) + 1 ELSE Cardinality(D(t, n))
  <2>1. n \in 0 .. n
    BY <1>1
  <2> HIDE DEF D
  <2> QED
    BY <1>2, <1>4, <1>5, <2>1, FS_AddElement
<1>8. DataBetween(u, n + 1, n + 1) = 0
  BY <1>6, FS_EmptySet DEF DataBetween
<1>9. \A v, j : DataBetween(v, i, j) = Cardinality(D(v, j))
  BY DEF DataBetween
<1> HIDE DEF D
<1> QED
  BY <1>1, <1>2, <1>3, <1>7, <1>8, <1>9 DEF u

LEMMA LinesType ==
  ASSUME NEW t \in Seq(Chars)
  PROVE  /\ LinesOf(t) \in Seq(Nat) /\ Len(LinesOf(t)) = Cardinality(LineEnds(t))
         /\ Unterminated(t) \in Nat
<1>1. /\ Cardinality(LineEnds(t)) \in Nat
      /\ \A k \in 0 .. Cardinality(LineEnds(t)) : LineEnd(t, k) \in 0 .. Len(t)
  BY LineEndsOK
<1>2. \A i, j \in 0 .. Len(t) : DataBetween(t, i, j) \in Nat
  BY DataCounts DEF Chars
<1>3. Unterminated(t) \in Nat
  <2>1. Cardinality(LineEnds(t)) \in 0 .. Cardinality(LineEnds(t)) /\ Len(t) \in 0 .. Len(t)
    BY <1>1
  <2> QED
    BY <1>1, <1>2, <2>1 DEF Unterminated
<1>4. \A k \in 1 .. Cardinality(LineEnds(t)) :
          DataBetween(t, LineEnd(t, k - 1), LineEnd(t, k)) \in Nat
  <2>1. \A k \in 1 .. Cardinality(LineEnds(t)) :
            k \in 0 .. Cardinality(LineEnds(t)) /\ k - 1 \in 0 .. Cardinality(LineEnds(t))
    BY <1>1
  <2> QED
    BY <1>1, <1>2, <2>1
<1> QED
  BY <1>1, <1>3, <1>4 DEF LinesOf

LEMMA LinesOfMore ==
  ASSUME NEW t \in Seq(Chars), NEW ch \in Chars
  PROVE  /\ ch = "d" => /\ LinesOf(Append(t, ch)) = LinesOf(t)
                        /\ Unterminated(Append(t, ch)) = Unterminated(t) + 1
         /\ SecondOfCRLF(t, ch) => /\ LinesOf(Append(t, ch)) = LinesOf(t)
                                   /\ Unterminated(Append(t, ch)) = Unterminated(t)
         /\ ch # "d" /\ ~SecondOfCRLF(t, ch) =>
                /\ LinesOf(Append(t, ch)) = Append(LinesOf(t), Unterminated(t))
                /\ Unterminated(Append(t, ch)) = 0
<1> DEFINE n == Len(t)
           u == Append(t, ch)
           S == LineEnds(t)
           c == Cardinality(S)
           Ends == ch # "d" /\ ~SecondOfCRLF(t, ch)
<1>1. /\ n \in Nat /\ c \in Nat /\ Len(u) = n + 1 /\ u \in Seq(Chars)
      /\ \A p \in S : p \in 1 .. n
      /\ \A k \in 0 .. c : LineEnd(t, k) \in 0 .. n
  BY LineEndsOK
<1>2. LineEnds(u) = IF Ends THEN S \cup {n + 1} ELSE S
  <2>1. u[n + 1] = ch /\ \A p \in 1 .. n : u[p] = t[p]
    BY <1>1
  <2>2. \A p \in 1 .. n : p \in LineEnds(u) <=> p \in S
    BY <1>1, <2>1 DEF LineEnds
  <2>3. n + 1 \in LineEnds(u) <=> Ends
    BY <1>1, <2>1 DEF LineEnds, SecondOfCRLF, Chars
  <2>4. \A p \in LineEnds(u) : p \in 1 .. n \/ p = n + 1
    BY <1>1 DEF LineEnds
  <2> HIDE DEF u, S, Ends
  <2>5. \A p : p \in LineEnds(u) <=> p \in S \/ (p = n + 1 /\ Ends)
    BY <1>1, <2>2, <2>3, <2>4
  <2> QED
    BY <2>5
<1>3. \A k \in 0 .. c : LineEnd(u, k) = LineEnd(t, k)
  <2>1. \A k \in 1 .. c : Nth(S \cup {n + 1}, k) = Nth(S, k)
    BY <1>1, NthOfMore
  <2>2. ASSUME NEW k \in 1 .. c PROVE Nth(LineEnds(u), k) = Nth(LineEnds(t), k)
    BY <1>2, <2>1
  <2>3. \A k \in 0 .. c : k = 0 \/ k \in 1 .. c
    BY <1>1
  <2> HIDE DEF S, c, n, u
  <2> QED
    BY <2>2, <2>3 DEF LineEnd
<1>4. ASSUME NEW k \in 1 .. c
      PROVE  DataBetween(u, LineEnd(u, k - 1), LineEnd(u, k)) = DataBetween(t, LineEnd(t, k - 1), LineEnd(t, k))
  <2>1. k - 1 \in 0 .. c /\ k \in 0 .. c
    BY <1>1
  <2> QED
    BY <1>1, <1>3, <2>1, DataCounts
<1>5. LineEnd(t, c) \in 0 .. n /\ LineEnd(u, c) = LineEnd(t, c)
  BY <1>1, <1>3
<1>6. CASE ~Ends
  <2>1. LineEnds(u) = S
    BY <1>2, <1>6
  <2>2. LinesOf(u) = LinesOf(t)
    BY <1>4, <2>1 DEF LinesOf
  <2>3. Unterminated(u) = IF ch = "d" THEN Unterminated(t) + 1 ELSE Unterminated(t)
    BY <1>1, <1>5, <2>1, DataCounts, SMTT(30) DEF Unterminated
  <2> QED
    BY <1>6, <2>2, <2>3 DEF SecondOfCRLF
<1>7. CASE Ends
  <2>1. LineEnds(u) = S \cup {n + 1} /\ Cardinality(LineEnds(u)) = c + 1 /\ LineEnd(u, c + 1) = n + 1
    <3>1. Cardinality(S \cup {n + 1}) = c + 1 /\ Nth(S \cup {n + 1}, c + 1) = n + 1
      BY <1>1, NthOfMore
    <3>2. LineEnds(u) = S \cup {n + 1} /\ c + 1 # 0
      BY <1>1, <1>2, <1>7
    <3> QED
      BY <3>1, <3>2 DEF LineEnd
  <2>2. DataBetween(u, LineEnd(u, c), LineEnd(u, c + 1)) = Unterminated(t)
    BY <1>1, <1>5, <1>7, <2>1, DataCounts DEF Unterminated
  <2>3. Unterminated(u) = 0
    BY <1>1, <2>1, DataCounts DEF Unterminated
  <2>4. LinesOf(u) = Append(LinesOf(t), Unterminated(t))
    <3>1. /\ LinesOf(t) = [k \in 1 .. c |-> DataBetween(t, LineEnd(t, k - 1), LineEnd(t, k))]
          /\ LinesOf(u) = [k \in 1 .. c + 1 |-> DataBetween(u, LineEnd(u, k - 1), LineEnd(u, k))]
      BY <2>1 DEF LinesOf
    <3>2. c + 1 - 1 = c /\ \A k \in 1 .. c + 1 : k \in 1 .. c \/ k = c + 1
      BY <1>1
    <3> HIDE DEF c
    <3>3. LinesOf(t) \in Seq(Nat) /\ Len(LinesOf(t)) = c /\ Unterminated(t) \in Nat
      BY LinesType DEF c
    <3> HIDE DEF u
    <3>4. \A k \in 1 .. c + 1 : LinesOf(u)[k] = IF k = c + 1 THEN Unterminated(t) ELSE LinesOf(t)[k]
      BY <1>1, <1>4, <2>2, <3>1, <3>2
    <3>5. LinesOf(u) \in Seq(Nat) /\ Len(LinesOf(u)) = c + 1
      BY <1>1, <2>1, LinesType
    <3> HIDE DEF c
    <3> QED
      BY <1>1, <3>3, <3>4, <3>5
  <2> QED
    BY <1>7, <2>3, <2>4
<1> QED
  BY <1>6, <1>7
----------------------------------------------------------------------------
(* The scan of a chunk.                                                      *)

Scans == [lines : Seq(Seq({"d"})), rest : Seq({"d"}), afterCR : BOOLEAN]

Lengths(lines) == [k \in 1 .. Len(lines) |-> Len(lines[k])]

\* The text and the first j characters of the chunk.
Upto(t, chunk, j) == t \o SubSeq(chunk, 1, j)

\* What one character does to a scan, field by field.
LEMMA ScanData ==
  ASSUME NEW scan \in Scans
  PROVE  /\ ScanChar(scan, "d") \in Scans
         /\ ScanChar(scan, "d").lines = scan.lines
         /\ ScanChar(scan, "d").rest = Append(scan.rest, "d")
         /\ ScanChar(scan, "d").afterCR = FALSE
<1>1. scan.lines \in Seq(Seq({"d"})) /\ Append(scan.rest, "d") \in Seq({"d"})
  BY DEF Scans
<1>2. ScanChar(scan, "d") = [lines |-> scan.lines, rest |-> Append(scan.rest, "d"), afterCR |-> FALSE]
  BY DEF ScanChar, Scans
<1>3. [lines |-> scan.lines, rest |-> Append(scan.rest, "d"), afterCR |-> FALSE] \in Scans
  BY <1>1 DEF Scans
<1>4. ScanChar(scan, "d") \in Scans
  BY <1>2, <1>3
<1>5. ScanChar(scan, "d").lines = scan.lines
  BY <1>2
<1>6. ScanChar(scan, "d").rest = Append(scan.rest, "d")
  BY <1>2
<1>7. ScanChar(scan, "d").afterCR = FALSE
  BY <1>2
<1> QED
  BY <1>4, <1>5, <1>6, <1>7

LEMMA ScanSecondOfCRLF ==
  ASSUME NEW scan \in Scans, scan.afterCR
  PROVE  /\ ScanChar(scan, "LF") \in Scans
         /\ ScanChar(scan, "LF").lines = scan.lines
         /\ ScanChar(scan, "LF").rest = scan.rest
         /\ ScanChar(scan, "LF").afterCR = FALSE
<1>1. scan.lines \in Seq(Seq({"d"})) /\ scan.rest \in Seq({"d"})
  BY DEF Scans
<1>2. ScanChar(scan, "LF") = [lines |-> scan.lines, rest |-> scan.rest, afterCR |-> FALSE]
  BY DEF ScanChar, Scans
<1>3. [lines |-> scan.lines, rest |-> scan.rest, afterCR |-> FALSE] \in Scans
  BY <1>1 DEF Scans
<1>4. ScanChar(scan, "LF") \in Scans
  BY <1>2, <1>3
<1>5. ScanChar(scan, "LF").lines = scan.lines
  BY <1>2
<1>6. ScanChar(scan, "LF").rest = scan.rest
  BY <1>2
<1>7. ScanChar(scan, "LF").afterCR = FALSE
  BY <1>2
<1> QED
  BY <1>4, <1>5, <1>6, <1>7

LEMMA ScanLineEnd ==
  ASSUME NEW scan \in Scans, NEW ch \in Chars, ch # "d", ch # "LF" \/ ~scan.afterCR
  PROVE  /\ ScanChar(scan, ch) \in Scans
         /\ ScanChar(scan, ch).lines = Append(scan.lines, scan.rest)
         /\ ScanChar(scan, ch).rest = <<>>
         /\ ScanChar(scan, ch).afterCR = (ch = "CR")
<1>1. Append(scan.lines, scan.rest) \in Seq(Seq({"d"})) /\ <<>> \in Seq({"d"})
  BY DEF Scans
<1>2. ScanChar(scan, ch) = [lines |-> Append(scan.lines, scan.rest), rest |-> <<>>, afterCR |-> ch = "CR"]
  BY DEF ScanChar
<1> QED
  BY <1>1, <1>2 DEF Scans

LEMMA ScanNext ==
  ASSUME NEW input \in Seq(Chars)
  PROVE  /\ Scan(input)[0] = NewScan
         /\ \A i \in 1 .. Len(input) : Scan(input)[i] = ScanChar(Scan(input)[i - 1], input[i])
  BY ScanIsLoop

LEMMA ScanTypes ==
  ASSUME NEW input \in Seq(Chars)
  PROVE  \A i \in 0 .. Len(input) : Scan(input)[i] \in Scans
<1> DEFINE Typed == {i \in 0 .. Len(input) : Scan(input)[i] \in Scans}
<1>1. Len(input) \in Nat
  OBVIOUS
<1>2. 0 \in Typed
  <2>1. Scan(input)[0] = NewScan
    BY <1>1, ScanIsLoop
  <2>2. <<>> \in Seq(Seq({"d"})) /\ <<>> \in Seq({"d"})
    OBVIOUS
  <2>3. NewScan \in Scans
    BY <2>2 DEF NewScan, Scans
  <2> QED
    BY <1>1, <2>1, <2>3
<1>3. ASSUME NEW i \in 0 .. Len(input) - 1, i \in Typed PROVE i + 1 \in Typed
  <2>1. /\ i + 1 \in 0 .. Len(input) /\ i + 1 # 0 /\ i + 1 - 1 = i
        /\ input[i + 1] \in Chars
    BY <1>1
  <2>2. Scan(input)[i + 1] = ScanChar(Scan(input)[i], input[i + 1])
    BY <2>1, ScanIsLoop
  <2>3. Scan(input)[i] \in Scans
    BY <1>3
  <2>4. ScanChar(Scan(input)[i], input[i + 1]) \in Scans
    BY <2>1, <2>3, ScanData, ScanSecondOfCRLF, ScanLineEnd DEF Chars
  <2> QED
    BY <2>1, <2>2, <2>4
<1> HIDE DEF Typed
<1>4. \A i \in 0 .. Len(input) : i \in Typed
  BY <1>1, <1>2, <1>3, EveryNumberTo
<1> QED
  BY <1>4 DEF Typed

LEMMA UptoNext ==
  ASSUME NEW S, NEW t \in Seq(S), NEW chunk \in Seq(S)
  PROVE  /\ Upto(t, chunk, 0) = t /\ Upto(t, chunk, Len(chunk)) = t \o chunk
         /\ \A j \in 0 .. Len(chunk) : /\ Upto(t, chunk, j) \in Seq(S)
                                       /\ Len(Upto(t, chunk, j)) = Len(t) + j
         /\ \A j \in 0 .. Len(chunk) - 1 :
                Upto(t, chunk, j + 1) = Append(Upto(t, chunk, j), chunk[j + 1])
<1>1. Upto(t, chunk, 0) = t /\ Upto(t, chunk, Len(chunk)) = t \o chunk
  BY DEF Upto
<1>2. ASSUME NEW j \in 0 .. Len(chunk)
      PROVE  Upto(t, chunk, j) \in Seq(S) /\ Len(Upto(t, chunk, j)) = Len(t) + j
  BY DEF Upto
<1>3. ASSUME NEW j \in 0 .. Len(chunk) - 1
      PROVE  Upto(t, chunk, j + 1) = Append(Upto(t, chunk, j), chunk[j + 1])
  BY DEF Upto
<1> QED
  BY <1>1, <1>2, <1>3

LEMMA ConcatAppend ==
  ASSUME NEW a \in Seq(Nat), NEW b \in Seq(Nat), NEW n \in Nat
  PROVE  /\ Append(a \o b, n) = a \o Append(b, n)
         /\ Append(a, n) \in Seq(Nat) /\ Len(Append(a, n)) = Len(a) + 1
<1>1. Append(a, n) \in Seq(Nat) /\ Len(Append(a, n)) = Len(a) + 1
  OBVIOUS
<1>2. /\ Append(a \o b, n) \in Seq(Nat) /\ Len(Append(a \o b, n)) = Len(a) + Len(b) + 1
      /\ \A k \in 1 .. Len(a) + Len(b) + 1 : Append(a \o b, n)[k] =
            IF k <= Len(a) THEN a[k] ELSE IF k <= Len(a) + Len(b) THEN b[k - Len(a)] ELSE n
  BY SMTT(30)
<1>3. /\ a \o Append(b, n) \in Seq(Nat) /\ Len(a \o Append(b, n)) = Len(a) + Len(b) + 1
      /\ \A k \in 1 .. Len(a) + Len(b) + 1 : (a \o Append(b, n))[k] =
            IF k <= Len(a) THEN a[k] ELSE IF k <= Len(a) + Len(b) THEN b[k - Len(a)] ELSE n
  OBVIOUS
<1>4. Append(a \o b, n) = a \o Append(b, n)
  <2> DEFINE c == Append(a \o b, n)
             d == a \o Append(b, n)
  <2>1. /\ c \in Seq(Nat) /\ d \in Seq(Nat) /\ Len(c) = Len(d)
        /\ \A k \in 1 .. Len(c) : c[k] = d[k]
    BY <1>2, <1>3
  <2> HIDE DEF c, d
  <2>2. c = d
    BY <2>1, SeqEqual
  <2> QED
    BY <2>2 DEF c, d
<1> QED
  BY <1>1, <1>4

LEMMA LengthsMore ==
  ASSUME NEW lines \in Seq(Seq({"d"})), NEW line \in Seq({"d"})
  PROVE  /\ Lengths(lines) \in Seq(Nat) /\ Len(Lengths(lines)) = Len(lines)
         /\ Lengths(Append(lines, line)) = Append(Lengths(lines), Len(line))
<1>1. ASSUME NEW some \in Seq(Seq({"d"}))
      PROVE  Lengths(some) \in Seq(Nat) /\ Len(Lengths(some)) = Len(some)
  <2>1. \A k \in 1 .. Len(some) : Len(some[k]) \in Nat
    OBVIOUS
  <2> QED
    BY <2>1 DEF Lengths
<1>2. Append(lines, line) \in Seq(Seq({"d"})) /\ Len(line) \in Nat
  OBVIOUS
<1>3. /\ Len(Append(lines, line)) = Len(lines) + 1 /\ Append(lines, line)[Len(lines) + 1] = line
      /\ \A k \in 1 .. Len(lines) : Append(lines, line)[k] = lines[k]
  OBVIOUS
<1>4. \A k \in 1 .. Len(lines) + 1 :
          Lengths(Append(lines, line))[k] = Append(Lengths(lines), Len(line))[k]
  <2>1. \A k \in 1 .. Len(lines) : Lengths(lines)[k] = Len(lines[k])
    BY DEF Lengths
  <2>2. \A k \in 1 .. Len(lines) + 1 : Lengths(Append(lines, line))[k] = Len(Append(lines, line)[k])
    BY <1>3 DEF Lengths
  <2> QED
    BY <1>1, <1>2, <1>3, <2>1, <2>2
<1>5. Lengths(lines) \in Seq(Nat) /\ Len(Lengths(lines)) = Len(lines)
  BY <1>1
<1>6. Lengths(Append(lines, line)) \in Seq(Nat) /\ Len(Lengths(Append(lines, line))) = Len(lines) + 1
  BY <1>1, <1>2, <1>3
<1>7. /\ Append(Lengths(lines), Len(line)) \in Seq(Nat)
      /\ Len(Append(Lengths(lines), Len(line))) = Len(lines) + 1
  BY <1>2, <1>5, ConcatAppend
<1>8. \A a, b \in Seq(Nat) : /\ Len(a) = Len(lines) + 1 /\ Len(b) = Len(lines) + 1
                             /\ \A k \in 1 .. Len(lines) + 1 : a[k] = b[k]
                             => a = b
  OBVIOUS
<1> QED
  BY <1>4, <1>5, <1>6, <1>7, <1>8

\* The buffered rest of the last chunk is scanned again before the chunk.
LEMMA ScanOfRest ==
  ASSUME NEW rest \in Seq({"d"}), NEW chunk \in Seq(Chars)
  PROVE  LET scan == Scan(rest \o chunk)[Len(rest)] IN
         scan.lines = <<>> /\ Len(scan.rest) = Len(rest) /\ ~scan.afterCR
<1> DEFINE input == rest \o chunk
           Kept == {i \in 0 .. Len(rest) : LET scan == Scan(input)[i] IN
                       scan.lines = <<>> /\ Len(scan.rest) = i /\ ~scan.afterCR}
<1>1. /\ input \in Seq(Chars) /\ Len(rest) \in Nat /\ Len(input) \in Nat /\ Len(rest) <= Len(input)
      /\ \A i \in 1 .. Len(rest) : input[i] = "d"
  BY DEF Chars
<1> HIDE DEF input
<1>2. 0 \in Kept
  <2>1. Scan(input)[0] = NewScan
    BY <1>1, ScanIsLoop
  <2> QED
    BY <1>1, <2>1 DEF NewScan
<1>3. ASSUME NEW i \in 0 .. Len(rest) - 1, i \in Kept PROVE i + 1 \in Kept
  <2>1. /\ i + 1 \in 0 .. Len(rest) /\ i + 1 \in 0 .. Len(input) /\ i + 1 # 0 /\ i + 1 - 1 = i
        /\ i \in 0 .. Len(input) /\ input[i + 1] = "d"
    BY <1>1
  <2>2. Scan(input)[i + 1] = ScanChar(Scan(input)[i], "d")
    BY <1>1, <2>1, ScanIsLoop
  <2>3. Scan(input)[i] \in Scans
    BY <1>1, <2>1, ScanTypes
  <2>4. /\ Scan(input)[i + 1].lines = Scan(input)[i].lines
        /\ Scan(input)[i + 1].rest = Append(Scan(input)[i].rest, "d")
        /\ ~Scan(input)[i + 1].afterCR
    BY <2>2, <2>3, ScanData
  <2>5. Len(Append(Scan(input)[i].rest, "d")) = Len(Scan(input)[i].rest) + 1
    <3>1. Scan(input)[i].rest \in Seq({"d"})
      BY <2>3 DEF Scans
    <3> QED
      BY <3>1
  <2> QED
    BY <1>3, <2>1, <2>4, <2>5
<1> HIDE DEF Kept
<1>4. Len(rest) \in Kept
  <2>1. \A i \in 0 .. Len(rest) : i \in Kept
    BY <1>1, <1>2, <1>3, EveryNumberTo
  <2> QED
    BY <1>1, <2>1
<1> QED
  BY <1>4 DEF Kept, input

\* However a text is cut, unless within a CRLF: the lines of a chunk continue those of
\* the text before it.
LEMMA ScanOfChunk ==
  ASSUME NEW t \in Seq(Chars), NEW rest \in Seq({"d"}), Len(rest) = Unterminated(t),
         NEW chunk \in Seq(Chars), chunk # <<>> => ~SecondOfCRLF(t, chunk[1])
  PROVE  LET scan == ScanLines(rest \o chunk) IN
         /\ scan \in Scans
         /\ LinesOf(t \o chunk) = LinesOf(t) \o Lengths(scan.lines)
         /\ Len(scan.rest) = Unterminated(t \o chunk)
<1> DEFINE input == rest \o chunk
           Cont(j, scan) ==
               /\ LinesOf(Upto(t, chunk, j)) = LinesOf(t) \o Lengths(scan.lines)
               /\ Len(scan.rest) = Unterminated(Upto(t, chunk, j))
               /\ scan.afterCR <=> j # 0 /\ chunk[j] = "CR"
           Right == {j \in 0 .. Len(chunk) : Cont(j, Scan(input)[Len(rest) + j])}
<1>1. /\ input \in Seq(Chars) /\ Len(rest) \in Nat /\ Len(chunk) \in Nat
      /\ Len(input) = Len(rest) + Len(chunk)
      /\ \A j \in 1 .. Len(chunk) : input[Len(rest) + j] = chunk[j]
  BY DEF Chars
<1> HIDE DEF input
<1>2. 0 \in Right
  <2> DEFINE scan == Scan(input)[Len(rest)]
  <2>1. scan.lines = <<>> /\ Len(scan.rest) = Len(rest) /\ ~scan.afterCR
    BY ScanOfRest DEF input
  <2>2. Upto(t, chunk, 0) = t
    BY UptoNext
  <2>3. LinesOf(t) \o Lengths(<<>>) = LinesOf(t)
    BY LinesType DEF Lengths
  <2>4. Len(rest) + 0 = Len(rest) /\ 0 \in 0 .. Len(chunk)
    BY <1>1
  <2> HIDE DEF scan
  <2>5. Cont(0, scan)
    BY <2>1, <2>2, <2>3
  <2> HIDE DEF Cont
  <2> QED
    BY <2>4, <2>5 DEF scan
<1>3. ASSUME NEW j \in 0 .. Len(chunk) - 1, j \in Right PROVE j + 1 \in Right
  <2> DEFINE scan == Scan(input)[Len(rest) + j]
             next == Scan(input)[Len(rest) + (j + 1)]
             u == Upto(t, chunk, j)
             ch == chunk[j + 1]
  <2>1. /\ j + 1 \in 0 .. Len(chunk) /\ j + 1 \in 1 .. Len(chunk) /\ j \in 0 .. Len(chunk)
        /\ ch \in Chars
    BY <1>1
  <2>2. /\ Len(rest) + j \in 0 .. Len(input) /\ Len(rest) + (j + 1) \in 1 .. Len(input)
        /\ Len(rest) + (j + 1) # 0 /\ Len(rest) + (j + 1) - 1 = Len(rest) + j
        /\ input[Len(rest) + (j + 1)] = ch
    BY <1>1, <2>1
  <2>3. next = ScanChar(scan, ch) /\ scan \in Scans
    <3> DEFINE m == Len(rest) + (j + 1)
    <3>1. Scan(input)[m] = ScanChar(Scan(input)[m - 1], input[m])
      <4>1. m \in 1 .. Len(input)
        BY <2>2
      <4> HIDE DEF m
      <4> QED
        BY <1>1, <4>1, ScanNext
    <3>2. Scan(input)[Len(rest) + j] \in Scans
      BY <1>1, <2>2, ScanTypes
    <3> QED
      BY <2>2, <3>1, <3>2
  <2>4. u \in Seq(Chars) /\ Upto(t, chunk, j + 1) = Append(u, ch)
    BY <2>1, UptoNext
  <2>5. Cont(j, scan)
    BY <1>3
  <2>6. SecondOfCRLF(u, ch) <=> ch = "LF" /\ scan.afterCR
    <3>1. CASE j = 0
      <4>1. u = t /\ chunk # <<>> /\ ch = chunk[1]
        BY <2>1, <3>1, UptoNext
      <4> QED
        BY <2>5, <3>1, <4>1
    <3>2. CASE j # 0
      <4>1. PICK i \in 0 .. Len(chunk) - 1 : j = i + 1
        <5>1. j - 1 \in 0 .. Len(chunk) - 1 /\ j = (j - 1) + 1
          BY <1>1, <2>1, <3>2
        <5> QED
          BY <5>1
      <4>2. u = Append(Upto(t, chunk, i), chunk[j])
        <5>1. \A k \in 0 .. Len(chunk) - 1 :
                  Upto(t, chunk, k + 1) = Append(Upto(t, chunk, k), chunk[k + 1])
          BY SMTT(30) DEF Upto
        <5> QED
          BY <4>1, <5>1
      <4>3. i \in 0 .. Len(chunk) /\ chunk[j] \in Chars
        BY <1>1, <4>1
      <4>4. Upto(t, chunk, i) \in Seq(Chars)
        BY <4>3, UptoNext
      <4>5. u # <<>> /\ u[Len(u)] = chunk[j]
        BY <4>2, <4>3, <4>4
      <4> QED
        BY <2>5, <3>2, <4>5 DEF SecondOfCRLF
    <3> QED
      BY <3>1, <3>2
  <2>7. scan.lines \in Seq(Seq({"d"})) /\ scan.rest \in Seq({"d"})
    BY <2>3 DEF Scans
  <2>8. LinesOf(u) = LinesOf(t) \o Lengths(scan.lines) /\ Len(scan.rest) = Unterminated(u)
    BY <2>5
  <2> HIDE DEF scan, next, u, ch, Cont
  <2>9. /\ LinesOf(Append(u, ch)) = LinesOf(t) \o Lengths(next.lines)
        /\ Len(next.rest) = Unterminated(Append(u, ch))
        /\ ch = "CR" => next.afterCR
        /\ ch # "CR" => ~next.afterCR
    <3>1. CASE ch = "d"
      <4>1. next.lines = scan.lines /\ next.rest = Append(scan.rest, "d") /\ ~next.afterCR
        BY <2>1, <2>3, <3>1, ScanData
      <4>2. /\ LinesOf(Append(u, ch)) = LinesOf(u)
            /\ Unterminated(Append(u, ch)) = Unterminated(u) + 1
        BY <2>1, <2>4, <3>1, LinesOfMore
      <4>3. Len(Append(scan.rest, "d")) = Len(scan.rest) + 1
        BY <2>7
      <4> QED
        BY <2>8, <3>1, <4>1, <4>2, <4>3
    <3>2. CASE ch = "LF" /\ scan.afterCR
      <4>1. next.lines = scan.lines /\ next.rest = scan.rest /\ ~next.afterCR
        BY <2>1, <2>3, <3>2, ScanSecondOfCRLF
      <4>2. /\ LinesOf(Append(u, ch)) = LinesOf(u)
            /\ Unterminated(Append(u, ch)) = Unterminated(u)
        BY <2>1, <2>4, <2>6, <3>2, LinesOfMore
      <4> QED
        BY <2>8, <3>2, <4>1, <4>2
    <3>3. CASE ch # "d" /\ ~(ch = "LF" /\ scan.afterCR)
      <4>1. /\ next.lines = Append(scan.lines, scan.rest) /\ next.rest = <<>>
            /\ next.afterCR = (ch = "CR")
        BY <2>1, <2>3, <3>3, ScanLineEnd
      <4>2. /\ LinesOf(Append(u, ch)) = Append(LinesOf(u), Unterminated(u))
            /\ Unterminated(Append(u, ch)) = 0
        BY <2>1, <2>4, <2>6, <3>3, LinesOfMore
      <4>3. /\ Lengths(next.lines) = Append(Lengths(scan.lines), Len(scan.rest))
            /\ Lengths(scan.lines) \in Seq(Nat) /\ Len(scan.rest) \in Nat
        BY <2>7, <4>1, LengthsMore, SMTT(30)
      <4>4. Append(LinesOf(t) \o Lengths(scan.lines), Len(scan.rest)) = LinesOf(t) \o Lengths(next.lines)
        <5>1. LinesOf(t) \in Seq(Nat)
          BY LinesType
        <5>2. Append(LinesOf(t) \o Lengths(scan.lines), Len(scan.rest)) =
                  LinesOf(t) \o Append(Lengths(scan.lines), Len(scan.rest))
          BY <4>3, <5>1, ConcatAppend
        <5> QED
          BY <4>3, <5>2
      <4>5. Len(next.rest) = 0
        BY <4>1
      <4> QED
        BY <2>8, <4>1, <4>2, <4>4, <4>5
    <3> QED
      BY <3>1, <3>2, <3>3
  <2>10. Cont(j + 1, next)
    <3>1. /\ LinesOf(Upto(t, chunk, j + 1)) = LinesOf(t) \o Lengths(next.lines)
          /\ Len(next.rest) = Unterminated(Upto(t, chunk, j + 1))
      BY <2>4, <2>9
    <3>2. next.afterCR <=> j + 1 # 0 /\ chunk[j + 1] = "CR"
      BY <2>1, <2>9 DEF ch
    <3> QED
      BY <3>1, <3>2 DEF Cont
  <2> QED
    BY <2>1, <2>10 DEF next
<1>4. Len(chunk) \in Right
  <2> HIDE DEF Right
  <2>1. \A j \in 0 .. Len(chunk) : j \in Right
    BY <1>1, <1>2, <1>3, EveryNumberTo
  <2> QED
    BY <1>1, <2>1
<1>5. Len(rest) + Len(chunk) \in 0 .. Len(input)
  BY <1>1
<1>6. ScanLines(input) = Scan(input)[Len(rest) + Len(chunk)] /\ ScanLines(input) \in Scans
  BY <1>1, <1>5, ScanTypes DEF ScanLines
<1>7. Upto(t, chunk, Len(chunk)) = t \o chunk
  BY UptoNext
<1> QED
  BY <1>4, <1>6, <1>7 DEF input

----------------------------------------------------------------------------
(* The events of some lines, and how one line more changes them.             *)

\* The fields since the last empty line.
OpenRun(lines) == Run(lines, Len(lines) + 1)

IsRunStart(lines, b, a) == (\A k \in a .. b - 1 : lines[k] # 0) /\ (a = 1 \/ lines[a - 1] = 0)

LEMMA RunStartIs ==
  ASSUME NEW lines \in Seq(Nat), NEW b \in 1 .. Len(lines) + 1
  PROVE  /\ RunStart(lines, b) \in 1 .. b /\ IsRunStart(lines, b, RunStart(lines, b))
         /\ \A a \in 1 .. b : IsRunStart(lines, b, a) => a = RunStart(lines, b)
<1> DEFINE Starts == {a \in 1 .. b : \A k \in a .. b - 1 : lines[k] # 0}
<1>1. b \in Nat /\ b \in Starts
  OBVIOUS
<1>2. PICK a \in Starts : \A c \in Starts : a <= c
  <2>1. \A c \in Starts : c \in Nat
    OBVIOUS
  <2>2. Starts # {}
    BY <1>1
  <2> HIDE DEF Starts
  <2>3. Starts \in SUBSET Nat
    BY <2>1
  <2> QED
    BY <2>2, <2>3, LeastNat
<1>3. a \in 1 .. b /\ \A k \in a .. b - 1 : lines[k] # 0
  BY <1>2
<1>4. a = 1 \/ lines[a - 1] = 0
  <2> SUFFICES ASSUME a # 1, lines[a - 1] # 0 PROVE FALSE
    OBVIOUS
  <2>1. a - 1 \in 1 .. b /\ \A k \in a - 1 .. b - 1 : k = a - 1 \/ k \in a .. b - 1
    BY <1>3
  <2>2. a - 1 \in Starts
    BY <1>3, <2>1
  <2> QED
    BY <1>2, <1>3, <2>2
<1>5. RunStart(lines, b) \in 1 .. b /\ IsRunStart(lines, b, RunStart(lines, b))
  BY <1>3, <1>4 DEF RunStart, IsRunStart
<1>6. ASSUME NEW c \in 1 .. b, NEW d \in 1 .. b, c < d, IsRunStart(lines, b, c), IsRunStart(lines, b, d)
      PROVE  FALSE
  <2>1. d - 1 \in c .. b - 1 /\ d # 1
    BY <1>1, <1>6
  <2> QED
    BY <1>6, <2>1 DEF IsRunStart
<1>7. ASSUME NEW c \in 1 .. b, IsRunStart(lines, b, c) PROVE c = RunStart(lines, b)
  <2>1. ~ (c < RunStart(lines, b)) /\ ~ (RunStart(lines, b) < c)
    BY <1>5, <1>6, <1>7
  <2> QED
    BY <1>5, <2>1
<1> QED
  BY <1>5, <1>7

LEMMA RunType ==
  ASSUME NEW lines \in Seq(Nat), NEW b \in 1 .. Len(lines) + 1
  PROVE  /\ Run(lines, b) \in Seq(Nat \ {0})
         /\ Len(Run(lines, b)) = b - RunStart(lines, b)
         /\ \A k \in 1 .. b - RunStart(lines, b) : Run(lines, b)[k] = lines[RunStart(lines, b) + k - 1]
<1> DEFINE a == RunStart(lines, b)
<1>1. a \in 1 .. b /\ \A k \in a .. b - 1 : lines[k] # 0
  BY RunStartIs DEF IsRunStart
<1> HIDE DEF a
<1>2. \A k \in a .. b - 1 : lines[k] \in Nat \ {0}
  BY <1>1
<1>3. a \in Int /\ b - 1 \in Int /\ Run(lines, b) = SubSeq(lines, a, b - 1)
  BY <1>1 DEF Run, a
<1> QED
  BY <1>1, <1>2, <1>3, SubSeqProperties, SMTT(30) DEF a

\* A line more leaves the runs before it, and continues or ends the open one.
LEMMA RunsOfMore ==
  ASSUME NEW lines \in Seq(Nat), NEW n \in Nat
  PROVE  /\ \A b \in 1 .. Len(lines) + 1 : Run(Append(lines, n), b) = Run(lines, b)
         /\ n # 0 => OpenRun(Append(lines, n)) = Append(OpenRun(lines), n)
         /\ n = 0 => OpenRun(Append(lines, n)) = <<>>
<1> DEFINE m == Len(lines)
           p == m + 1
           q == m + 2
           more == Append(lines, n)
<1>1. /\ m \in Nat /\ more \in Seq(Nat) /\ Len(more) = p /\ more[p] = n
      /\ p = m + 1 /\ q = m + 2 /\ Len(lines) = m /\ Len(lines) + 1 = p
      /\ \A k \in 1 .. m : more[k] = lines[k]
  OBVIOUS
<1> HIDE DEF m, p, q, more
<1>2. ASSUME NEW b \in 1 .. p
      PROVE  RunStart(more, b) = RunStart(lines, b) /\ Run(more, b) = Run(lines, b)
  <2> DEFINE a == RunStart(lines, b)
  <2>1. a \in 1 .. b /\ IsRunStart(lines, b, a)
    BY <1>1, RunStartIs
  <2> HIDE DEF a
  <2>2. \A k \in a .. b - 1 : k \in 1 .. m
    BY <1>1, <2>1
  <2>3. a # 1 => a - 1 \in 1 .. m
    BY <1>1, <2>1
  <2>4. IsRunStart(more, b, a) /\ b \in 1 .. Len(more) + 1 /\ b \in 1 .. Len(lines) + 1
    <3>1. \A k \in a .. b - 1 : more[k] # 0
      BY <1>1, <2>1, <2>2 DEF IsRunStart
    <3>2. a = 1 \/ more[a - 1] = 0
      BY <1>1, <2>1, <2>3 DEF IsRunStart
    <3> QED
      BY <1>1, <3>1, <3>2 DEF IsRunStart
  <2>5. RunStart(more, b) = a
    BY <1>1, <2>1, <2>4, RunStartIs
  <2>6. /\ Run(more, b) \in Seq(Nat \ {0}) /\ Run(lines, b) \in Seq(Nat \ {0})
        /\ Len(Run(more, b)) = b - a /\ Len(Run(lines, b)) = b - a
        /\ \A k \in 1 .. b - a : Run(more, b)[k] = more[a + k - 1]
        /\ \A k \in 1 .. b - a : Run(lines, b)[k] = lines[a + k - 1]
    <3>1. RunStart(lines, b) = a
      BY DEF a
    <3>2. /\ Run(lines, b) \in Seq(Nat \ {0}) /\ Len(Run(lines, b)) = b - a
          /\ \A k \in 1 .. b - a : Run(lines, b)[k] = lines[a + k - 1]
      BY <2>4, <3>1, RunType
    <3>3. /\ Run(more, b) \in Seq(Nat \ {0}) /\ Len(Run(more, b)) = b - a
          /\ \A k \in 1 .. b - a : Run(more, b)[k] = more[a + k - 1]
      BY <1>1, <2>4, <2>5, RunType
    <3> QED
      BY <3>2, <3>3
  <2>7. \A k \in 1 .. b - a : a + k - 1 \in 1 .. m
    BY <1>1, <2>1
  <2>8. Run(more, b) = Run(lines, b)
    <3>1. \A k \in 1 .. Len(Run(more, b)) : Run(more, b)[k] = Run(lines, b)[k]
      BY <1>1, <2>6, <2>7
    <3> QED
      BY <2>6, <3>1, SeqEqual
  <2> QED
    BY <2>5, <2>8 DEF a
<1>3. q \in 1 .. Len(more) + 1 /\ OpenRun(more) = Run(more, q) /\ OpenRun(lines) = Run(lines, p)
  <2>1. q \in 1 .. Len(more) + 1 /\ q = Len(more) + 1 /\ p = Len(lines) + 1
    BY <1>1
  <2> QED
    BY <2>1 DEF OpenRun
<1>4. CASE n = 0
  <2>1. IsRunStart(more, q, q)
    BY <1>1, <1>4 DEF IsRunStart
  <2>2. RunStart(more, q) = q
    BY <1>1, <1>3, <2>1, RunStartIs
  <2>3. Run(more, q) \in Seq(Nat \ {0}) /\ Len(Run(more, q)) = 0
    BY <1>1, <1>3, <2>2, RunType
  <2> QED
    BY <1>1, <1>2, <1>3, <1>4, <2>3 DEF more
<1>5. CASE n # 0
  <2> DEFINE a == RunStart(lines, p)
  <2>1. a \in 1 .. p /\ IsRunStart(lines, p, a) /\ p \in 1 .. p
    BY <1>1, RunStartIs
  <2> HIDE DEF a
  <2>2. IsRunStart(more, q, a)
    <3>1. \A k \in a .. q - 1 : k = p \/ (k \in a .. p - 1 /\ k \in 1 .. m)
      BY <1>1, <2>1
    <3>2. \A k \in a .. q - 1 : more[k] # 0
      BY <1>1, <1>5, <2>1, <3>1 DEF IsRunStart
    <3>3. a # 1 => a - 1 \in 1 .. m
      BY <1>1, <2>1
    <3>4. a = 1 \/ more[a - 1] = 0
      BY <1>1, <2>1, <3>3 DEF IsRunStart
    <3> QED
      BY <3>2, <3>4 DEF IsRunStart
  <2>3. RunStart(more, q) = a
    BY <1>1, <1>3, <2>1, <2>2, RunStartIs
  <2>4. /\ Run(more, q) \in Seq(Nat \ {0}) /\ Len(Run(more, q)) = q - a
        /\ \A k \in 1 .. q - a : Run(more, q)[k] = more[a + k - 1]
    <3>1. q \in 1 .. Len(more) + 1 /\ RunStart(more, q) = a
      BY <1>3, <2>3
    <3>2. ASSUME NEW b \in 1 .. Len(more) + 1, RunStart(more, b) = a
          PROVE  /\ Run(more, b) \in Seq(Nat \ {0}) /\ Len(Run(more, b)) = b - a
                 /\ \A k \in 1 .. b - a : Run(more, b)[k] = more[a + k - 1]
      BY <1>1, <3>2, RunType
    <3> QED
      BY <3>1, <3>2
  <2>5. /\ Run(lines, p) \in Seq(Nat \ {0}) /\ Len(Run(lines, p)) = p - a
        /\ \A k \in 1 .. p - a : Run(lines, p)[k] = lines[a + k - 1]
    <3>1. p \in 1 .. Len(lines) + 1 /\ RunStart(lines, p) = a
      BY <1>1, <2>1 DEF a
    <3>2. ASSUME NEW b \in 1 .. Len(lines) + 1, RunStart(lines, b) = a
          PROVE  /\ Run(lines, b) \in Seq(Nat \ {0}) /\ Len(Run(lines, b)) = b - a
                 /\ \A k \in 1 .. b - a : Run(lines, b)[k] = lines[a + k - 1]
      BY <3>2, RunType
    <3> QED
      BY <3>1, <3>2
  <2>6. /\ Append(Run(lines, p), n) \in Seq(Nat \ {0})
        /\ Len(Append(Run(lines, p), n)) = q - a
        /\ \A k \in 1 .. q - a : Append(Run(lines, p), n)[k] = more[a + k - 1]
    <3> DEFINE run == Run(lines, p)
    <3>1. n \in Nat \ {0} /\ run \in Seq(Nat \ {0}) /\ Len(run) = p - a /\ p - a \in Nat
      BY <1>1, <1>5, <2>1, <2>5
    <3>2. \A k \in 1 .. p - a : run[k] = more[a + k - 1]
      <4>1. \A k \in 1 .. p - a : a + k - 1 \in 1 .. m
        BY <1>1, <2>1
      <4> QED
        BY <1>1, <2>5, <4>1
    <3>3. more[a + (q - a) - 1] = n
      BY <1>1, <2>1
    <3> HIDE DEF run
    <3>4. /\ Append(run, n) \in Seq(Nat \ {0}) /\ Len(Append(run, n)) = p - a + 1
          /\ \A k \in 1 .. p - a : Append(run, n)[k] = run[k]
          /\ Append(run, n)[p - a + 1] = n
      BY <3>1
    <3>5. /\ p - a + 1 = q - a
          /\ \A k \in 1 .. q - a : k \in 1 .. p - a \/ k = q - a
      BY <1>1, <2>1
    <3>6. Len(Append(run, n)) = q - a /\ Append(run, n)[q - a] = n
      BY <3>4, <3>5
    <3>7. ASSUME NEW k \in 1 .. q - a PROVE Append(run, n)[k] = more[a + k - 1]
      BY <3>2, <3>3, <3>4, <3>5, <3>6
    <3> QED
      BY <3>4, <3>6, <3>7 DEF run
  <2>7. Run(more, q) = Append(Run(lines, p), n)
    <3>1. \A k \in 1 .. Len(Run(more, q)) : Run(more, q)[k] = Append(Run(lines, p), n)[k]
      BY <2>4, <2>6
    <3> QED
      BY <2>4, <2>6, <3>1, SeqEqual
  <2> QED
    BY <1>1, <1>2, <1>3, <1>5, <2>7 DEF more
<1> QED
  BY <1>4, <1>5

LEMMA EventsInMore ==
  ASSUME NEW lines \in Seq(Nat), NEW n \in Nat
  PROVE  /\ EventsIn(lines) \in Seq(Fields) /\ OpenRun(lines) \in Fields
         /\ n # 0 \/ OpenRun(lines) = <<>> => EventsIn(Append(lines, n)) = EventsIn(lines)
         /\ n = 0 /\ OpenRun(lines) # <<>> =>
                EventsIn(Append(lines, n)) = Append(EventsIn(lines), OpenRun(lines))
<1> DEFINE m == Len(lines)
           p == m + 1
           more == Append(lines, n)
           S == EventEnds(lines)
           c == Cardinality(S)
<1>1. /\ m \in Nat /\ more \in Seq(Nat) /\ Len(more) = p /\ more[p] = n
      /\ p = m + 1 /\ Len(lines) = m /\ Len(lines) + 1 = p /\ p \in 1 .. p
      /\ \A k \in 1 .. m : more[k] = lines[k]
  OBVIOUS
<1>2. \A b \in S : b \in 1 .. m
  BY DEF EventEnds
<1>3. c \in Nat
  BY <1>1, <1>2, BelowCounts
<1>4. ASSUME NEW k \in 1 .. c PROVE Nth(S, k) \in 1 .. p
  <2>1. Nth(S, k) \in S
    BY <1>1, <1>2, NthIs
  <2> HIDE DEF S
  <2> QED
    BY <1>1, <1>2, <2>1
<1> HIDE DEF m, p, more
<1>5. \A b \in 1 .. p : Run(lines, b) \in Fields /\ Run(more, b) = Run(lines, b)
  BY <1>1, RunType, RunsOfMore DEF Fields, more
<1>6. OpenRun(lines) = Run(lines, p) /\ OpenRun(lines) \in Fields
  BY <1>1, <1>5 DEF OpenRun
<1>7. EventsIn(lines) = [k \in 1 .. c |-> Run(lines, Nth(S, k))]
  BY DEF EventsIn
<1>8. EventsIn(lines) \in Seq(Fields) /\ Len(EventsIn(lines)) = c
  <2>1. \A k \in 1 .. c : Run(lines, Nth(S, k)) \in Fields
    BY <1>4, <1>5
  <2> HIDE DEF c
  <2> QED
    BY <1>3, <1>7, <2>1
<1>9. OpenRun(lines) = <<>> <=> m = 0 \/ lines[m] = 0
  <2>1. RunStart(lines, p) \in 1 .. p /\ IsRunStart(lines, p, RunStart(lines, p))
        /\ \A a \in 1 .. p : IsRunStart(lines, p, a) => a = RunStart(lines, p)
    BY <1>1, RunStartIs
  <2>2. Len(OpenRun(lines)) = p - RunStart(lines, p) /\ OpenRun(lines) \in Seq(Nat \ {0})
    BY <1>1, <1>6, RunType
  <2>3. OpenRun(lines) = <<>> <=> RunStart(lines, p) = p
    BY <1>1, <2>1, <2>2
  <2>4. IsRunStart(lines, p, p) <=> m = 0 \/ lines[m] = 0
    BY <1>1 DEF IsRunStart
  <2> QED
    BY <1>1, <2>1, <2>3, <2>4
<1>10. EventEnds(more) = IF n = 0 /\ OpenRun(lines) # <<>> THEN S \cup {p} ELSE S
  <2>1. ASSUME NEW b \in 1 .. m PROVE b \in EventEnds(more) <=> b \in S
    <3>1. more[b] = lines[b] /\ (b # 1 => more[b - 1] = lines[b - 1])
      BY <1>1
    <3> QED
      BY <1>1, <3>1 DEF EventEnds
  <2>2. p \in EventEnds(more) <=> n = 0 /\ OpenRun(lines) # <<>>
    <3>1. p - 1 = m /\ (m # 0 => more[p - 1] = lines[m] /\ p \in 2 .. Len(more))
      BY <1>1
    <3>2. m = 0 => p \notin 2 .. Len(more)
      BY <1>1
    <3> QED
      BY <1>1, <1>9, <3>1, <3>2 DEF EventEnds
  <2>3. \A b \in EventEnds(more) : b \in 1 .. m \/ b = p
    BY <1>1 DEF EventEnds
  <2>4. p \notin S
    BY <1>1, <1>2
  <2> HIDE DEF S
  <2> QED
    BY <1>2, <2>1, <2>2, <2>3, <2>4
<1>11. CASE ~(n = 0 /\ OpenRun(lines) # <<>>)
  <2>1. EventEnds(more) = S
    BY <1>10, <1>11
  <2>2. EventsIn(more) = [k \in 1 .. c |-> Run(more, Nth(S, k))]
    BY <2>1 DEF EventsIn
  <2>3. \A k \in 1 .. c : Run(more, Nth(S, k)) = Run(lines, Nth(S, k))
    BY <1>4, <1>5
  <2>4. EventsIn(more) = EventsIn(lines)
    BY <1>7, <2>2, <2>3
  <2> QED
    BY <1>6, <1>8, <1>11, <2>4 DEF more
<1>12. CASE n = 0 /\ OpenRun(lines) # <<>>
  <2>1. EventEnds(more) = S \cup {p}
    BY <1>10, <1>12
  <2>2. /\ Cardinality(S \cup {p}) = c + 1 /\ Nth(S \cup {p}, c + 1) = p
        /\ \A k \in 1 .. c : Nth(S \cup {p}, k) = Nth(S, k)
    <3>1. /\ Cardinality(S \cup {m + 1}) = c + 1 /\ Nth(S \cup {m + 1}, c + 1) = m + 1
          /\ \A k \in 1 .. c : Nth(S \cup {m + 1}, k) = Nth(S, k)
      BY <1>1, <1>2, NthOfMore, ZenonT(60)
    <3> QED
      BY <3>1 DEF p
  <2>3. EventsIn(more) = [k \in 1 .. c + 1 |-> Run(more, Nth(S \cup {p}, k))]
    BY <2>1, <2>2 DEF EventsIn
  <2>4. \A k \in 1 .. c : Run(more, Nth(S \cup {p}, k)) = Run(lines, Nth(S, k))
    BY <1>4, <1>5, <2>2
  <2>5. Run(more, Nth(S \cup {p}, c + 1)) = OpenRun(lines)
    BY <1>1, <1>5, <1>6, <2>2
  <2> DEFINE r(k) == Run(more, Nth(S \cup {p}, k))
             events == EventsIn(lines)
             last == OpenRun(lines)
  <2>6. /\ EventsIn(more) = [k \in 1 .. c + 1 |-> r(k)] /\ r(c + 1) = last
        /\ \A k \in 1 .. c : r(k) = events[k]
    BY <1>7, <2>3, <2>4, <2>5
  <2>7. events \in Seq(Fields) /\ Len(events) = c /\ last \in Fields
    BY <1>6, <1>8
  <2> HIDE DEF r, events, last, c
  <2>8. EventsIn(more) = Append(events, last)
    <3>1. /\ Append(events, last) \in Seq(Fields) /\ Len(Append(events, last)) = c + 1
          /\ \A k \in 1 .. c + 1 : Append(events, last)[k] = IF k = c + 1 THEN last ELSE events[k]
      BY <1>3, <2>7
    <3>2. \A k \in 1 .. c + 1 : r(k) = IF k = c + 1 THEN last ELSE events[k]
      BY <1>3, <2>6
    <3>3. \A k \in 1 .. c + 1 : r(k) \in Fields
      BY <1>3, <2>7, <3>2
    <3>4. EventsIn(more) \in Seq(Fields) /\ Len(EventsIn(more)) = c + 1
      BY <1>3, <2>6, <3>3
    <3>5. \A k \in 1 .. c + 1 : EventsIn(more)[k] = Append(events, last)[k]
      BY <2>6, <3>1, <3>2
    <3> QED
      BY <3>1, <3>4, <3>5, SeqEqual
  <2> QED
    BY <1>6, <1>8, <1>12, <2>8 DEF more, events, last
<1> QED
  BY <1>11, <1>12

----------------------------------------------------------------------------
(* The lines of a chunk, dispatched.                                         *)

LEMMA DispatchIsLoop ==
  ASSUME NEW start, NEW lines \in Seq(Seq({"d"}))
  PROVE  /\ DispatchLines(start, lines)[0] = start
         /\ \A i \in 1 .. Len(lines) : DispatchLines(start, lines)[i] =
                DispatchLine(DispatchLines(start, lines)[i - 1], lines[i])
<1> DEFINE n == Len(lines)
           Loop(m, f) == f = [i \in 0 .. m |-> IF i = 0 THEN start ELSE DispatchLine(f[i - 1], lines[i])]
           Some == {m \in 0 .. n : \E f : Loop(m, f)}
<1>1. n \in Nat
  OBVIOUS
<1>2. 0 \in Some
  <2>1. Loop(0, [i \in 0 .. 0 |-> start])
    OBVIOUS
  <2>2. 0 \in 0 .. n
    BY <1>1
  <2> HIDE DEF Loop
  <2> QED
    BY <2>1, <2>2
<1>3. ASSUME NEW m \in 0 .. n - 1, m \in Some PROVE m + 1 \in Some
  <2>1. PICK f : Loop(m, f)
    BY <1>3
  <2> DEFINE g == [i \in 0 .. m + 1 |-> IF i = m + 1 THEN DispatchLine(f[m], lines[m + 1]) ELSE f[i]]
  <2>2. m \in Nat /\ m + 1 \in 0 .. n
    BY <1>1
  <2>3. \A i \in 0 .. m + 1 : g[i] = IF i = 0 THEN start ELSE DispatchLine(g[i - 1], lines[i])
    BY <2>1, <2>2
  <2>4. Loop(m + 1, g)
    BY <2>3
  <2> QED
    BY <2>2, <2>4
<1>4. n \in Some
  <2> HIDE DEF n, Some
  <2>1. \A m \in 0 .. n - 1 : m \in Some => m + 1 \in Some
    BY <1>3
  <2>2. \A m \in 0 .. n : m \in Some
    BY <1>1, <1>2, <2>1, EveryNumberTo
  <2> QED
    BY <1>1, <2>2
<1>5. PICK f : Loop(n, f)
  BY <1>4 DEF Some
<1> DEFINE after == DispatchLines(start, lines)
<1>6. after = [i \in 0 .. n |-> IF i = 0 THEN start ELSE DispatchLine(after[i - 1], lines[i])]
  BY <1>5 DEF DispatchLines
<1> HIDE DEF after, n
<1>7. after[0] = start
  BY <1>1, <1>6
<1>8. \A i \in 1 .. n : after[i] = DispatchLine(after[i - 1], lines[i])
  <2>1. \A i \in 1 .. n : i \in 0 .. n /\ i # 0
    BY <1>1
  <2> QED
    BY <1>6, <2>1
<1> QED
  BY <1>7, <1>8 DEF after, n

LEMMA DispatchField ==
  ASSUME NEW p \in Parsers, NEW line \in Seq({"d"}), line # <<>>
  PROVE  /\ DispatchLine(p, line) \in Parsers
         /\ DispatchLine(p, line).bufferedInput = p.bufferedInput
         /\ DispatchLine(p, line).currentEvent = Append(p.currentEvent, Len(line))
         /\ DispatchLine(p, line).out = p.out
<1> DEFINE current == Append(p.currentEvent, Len(line))
           next == [bufferedInput |-> p.bufferedInput, currentEvent |-> current, out |-> p.out]
<1>1. p.bufferedInput \in Seq({"d"}) /\ p.currentEvent \in Fields /\ p.out \in Seq(Fields)
  BY DEF Parsers
<1>2. Len(line) \in Nat \ {0}
  OBVIOUS
<1>3. current \in Fields
  BY <1>1, <1>2 DEF Fields
<1>4. DispatchLine(p, line) = next
  BY DEF DispatchLine, Parsers
<1> HIDE DEF current
<1>5. next \in Parsers
  BY <1>1, <1>3 DEF Parsers
<1>6. /\ next.bufferedInput = p.bufferedInput /\ next.currentEvent = current
      /\ next.out = p.out
  OBVIOUS
<1> HIDE DEF next
<1> QED
  BY <1>4, <1>5, <1>6 DEF current

LEMMA DispatchEmptyLine ==
  ASSUME NEW p \in Parsers
  PROVE  /\ DispatchLine(p, <<>>) \in Parsers
         /\ DispatchLine(p, <<>>).bufferedInput = p.bufferedInput
         /\ DispatchLine(p, <<>>).currentEvent = <<>>
         /\ DispatchLine(p, <<>>).out =
                IF p.currentEvent = <<>> THEN p.out ELSE Append(p.out, p.currentEvent)
<1> DEFINE out == IF p.currentEvent = <<>> THEN p.out ELSE Append(p.out, p.currentEvent)
           next == [bufferedInput |-> p.bufferedInput, currentEvent |-> <<>>, out |-> out]
<1>1. p.bufferedInput \in Seq({"d"}) /\ p.currentEvent \in Fields /\ p.out \in Seq(Fields)
  BY DEF Parsers
<1>2. out \in Seq(Fields) /\ <<>> \in Fields
  BY <1>1 DEF Fields
<1>3. DispatchLine(p, <<>>) = next
  BY DEF DispatchLine, Parsers
<1> HIDE DEF out
<1>4. next \in Parsers
  BY <1>1, <1>2 DEF Parsers
<1>5. next.bufferedInput = p.bufferedInput /\ next.currentEvent = <<>> /\ next.out = out
  OBVIOUS
<1> HIDE DEF next
<1> QED
  BY <1>3, <1>4, <1>5 DEF out

\* Whatever the parser had: it stays one, keeps its input and takes no event back.
LEMMA DispatchTypes ==
  ASSUME NEW start \in Parsers, NEW lines \in Seq(Seq({"d"}))
  PROVE  \A i \in 0 .. Len(lines) :
             LET after == DispatchLines(start, lines)[i] IN
             /\ after \in Parsers /\ after.bufferedInput = start.bufferedInput
             /\ Len(start.out) <= Len(after.out)
<1> DEFINE after(i) == DispatchLines(start, lines)[i]
           Fine(p) == /\ p \in Parsers /\ p.bufferedInput = start.bufferedInput
                      /\ Len(start.out) <= Len(p.out)
           Good == {i \in 0 .. Len(lines) : Fine(after(i))}
<1>1. Len(lines) \in Nat
  OBVIOUS
<1>2. \A p \in Parsers : p.out \in Seq(Fields) /\ Len(p.out) \in Nat
  BY DEF Parsers
<1>3. 0 \in Good
  <2>1. after(0) = start
    BY DispatchIsLoop
  <2>2. Fine(start)
    BY <1>2
  <2> HIDE DEF Fine
  <2> QED
    BY <1>1, <2>1, <2>2
<1>4. ASSUME NEW i \in 0 .. Len(lines) - 1, i \in Good PROVE i + 1 \in Good
  <2> DEFINE line == lines[i + 1]
             p == after(i)
             q == after(i + 1)
  <2>1. /\ i + 1 \in 0 .. Len(lines) /\ i + 1 \in 1 .. Len(lines) /\ i + 1 - 1 = i
        /\ line \in Seq({"d"})
    BY <1>1
  <2>2. q = DispatchLine(p, line)
    BY <2>1, DispatchIsLoop
  <2>3. Fine(p)
    BY <1>4
  <2> HIDE DEF line, p, q
  <2>4. q \in Parsers /\ q.bufferedInput = p.bufferedInput /\ Len(p.out) <= Len(q.out)
    <3>1. CASE line # <<>>
      BY <1>2, <2>1, <2>2, <2>3, <3>1, DispatchField
    <3>2. CASE line = <<>>
      <4>1. /\ q \in Parsers /\ q.bufferedInput = p.bufferedInput
            /\ q.out = IF p.currentEvent = <<>> THEN p.out ELSE Append(p.out, p.currentEvent)
        BY <2>2, <2>3, <3>2, DispatchEmptyLine
      <4>2. p.out \in Seq(Fields) /\ p.currentEvent \in Fields
        BY <2>3 DEF Parsers
      <4>3. Len(Append(p.out, p.currentEvent)) = Len(p.out) + 1 /\ Len(p.out) \in Nat
        BY <4>2
      <4> QED
        BY <4>1, <4>3
    <3> QED
      BY <3>1, <3>2
  <2>5. Len(start.out) \in Nat /\ Len(p.out) \in Nat /\ Len(q.out) \in Nat
    BY <1>2, <2>3, <2>4
  <2>6. Fine(q)
    BY <2>3, <2>4, <2>5
  <2> HIDE DEF Fine
  <2> QED
    BY <2>1, <2>6 DEF q
<1>5. \A i \in 0 .. Len(lines) : i \in Good
  <2> HIDE DEF Good
  <2> QED
    BY <1>1, <1>3, <1>4, EveryNumberTo
<1> QED
  BY <1>5

\* The events of the lines so far are continued by those of the next lines.
LEMMA DispatchOfLines ==
  ASSUME NEW before \in Seq(Nat), NEW start \in Parsers, NEW lines \in Seq(Seq({"d"})),
         start.currentEvent = OpenRun(before), start.out = EventsIn(before)
  PROVE  LET after == DispatchLines(start, lines)[Len(lines)] IN
         /\ after.currentEvent = OpenRun(before \o Lengths(lines))
         /\ after.out = EventsIn(before \o Lengths(lines))
<1> DEFINE after(i) == DispatchLines(start, lines)[i]
           n == Len(lines)
           lengths == Lengths(lines)
           upto(i) == Upto(before, lengths, i)
           Right(p, some) == p.currentEvent = OpenRun(some) /\ p.out = EventsIn(some)
           Good == {i \in 0 .. n : Right(after(i), upto(i))}
<1>1. /\ n \in Nat /\ lengths \in Seq(Nat) /\ Len(lengths) = n
      /\ \A i \in 1 .. n : lengths[i] = Len(lines[i]) /\ lines[i] \in Seq({"d"})
  <2>1. n \in Nat /\ \A i \in 1 .. n : lines[i] \in Seq({"d"}) /\ Len(lines[i]) \in Nat
    OBVIOUS
  <2> QED
    BY <2>1 DEF Lengths
<1>2. /\ \A i \in 0 .. n : after(i) \in Parsers
      /\ after(0) = start /\ \A i \in 1 .. n : after(i) = DispatchLine(after(i - 1), lines[i])
  BY DispatchTypes, DispatchIsLoop, ZenonT(60)
<1> HIDE DEF lengths, after
<1>3. /\ upto(0) = before /\ upto(n) = before \o lengths
      /\ \A i \in 0 .. n : upto(i) \in Seq(Nat)
  BY <1>1, UptoNext, ZenonT(60)
<1>4. \A i \in 0 .. n - 1 : upto(i + 1) = Append(upto(i), lengths[i + 1])
  BY <1>1, SMTT(30) DEF Upto
<1> HIDE DEF n, upto
<1>5. 0 \in Good
  BY <1>1, <1>2, <1>3
<1>6. ASSUME NEW i \in 0 .. n - 1, i \in Good PROVE i + 1 \in Good
  <2> DEFINE line == lines[i + 1]
             p == after(i)
             q == after(i + 1)
             some == upto(i)
             more == upto(i + 1)
  <2>1. i + 1 \in 0 .. n /\ i + 1 \in 1 .. n /\ i + 1 - 1 = i /\ i \in 0 .. n
    BY <1>1
  <2>2. q = DispatchLine(p, line) /\ p \in Parsers /\ line \in Seq({"d"})
    BY <1>1, <1>2, <2>1
  <2> HIDE DEF some, more
  <2>3. some \in Seq(Nat) /\ more = Append(some, Len(line)) /\ Len(line) \in Nat
    <3>1. some \in Seq(Nat)
      BY <1>3, <2>1 DEF some
    <3>2. more = Append(some, lengths[i + 1])
      BY <1>4 DEF some, more
    <3>3. lengths[i + 1] = Len(line)
      BY <1>1, <2>1
    <3>4. Len(line) \in Nat
      BY <2>2
    <3> QED
      BY <3>1, <3>2, <3>3, <3>4
  <2> USE DEF some, more
  <2>4. p.currentEvent = OpenRun(some) /\ p.out = EventsIn(some)
    BY <1>6
  <2> HIDE DEF line, p, q, some, more
  <2>5. q.currentEvent = OpenRun(more) /\ q.out = EventsIn(more)
    <3>1. CASE line # <<>>
      <4>1. q.currentEvent = Append(p.currentEvent, Len(line)) /\ q.out = p.out
        BY <2>2, <3>1, DispatchField
      <4>2. Len(line) # 0
        BY <2>2, <3>1
      <4> QED
        BY <2>3, <2>4, <4>1, <4>2, EventsInMore, RunsOfMore
    <3>2. CASE line = <<>>
      <4>1. /\ q.currentEvent = <<>>
            /\ q.out = IF p.currentEvent = <<>> THEN p.out ELSE Append(p.out, p.currentEvent)
        BY <2>2, <3>2, DispatchEmptyLine
      <4>2. Len(line) = 0
        BY <3>2
      <4> QED
        BY <2>3, <2>4, <4>1, <4>2, EventsInMore, RunsOfMore
    <3> QED
      BY <3>1, <3>2
  <2> QED
    BY <2>1, <2>5 DEF q, more
<1>7. n \in Good
  <2>1. \A i \in 0 .. n : i \in Good
    <3> HIDE DEF Good
    <3> QED
      BY <1>1, <1>5, <1>6, EveryNumberTo
  <2> QED
    BY <1>1, <2>1
<1> QED
  BY <1>3, <1>7 DEF after, n, lengths
----------------------------------------------------------------------------
(* A chunk: its lines, and the events they make.                             *)

LEMMA EmptyText ==
  /\ <<>> \in Seq(Chars) /\ LinesOf(<<>>) = <<>> /\ Unterminated(<<>>) = 0
  /\ OpenRun(<<>>) = <<>> /\ EventsOf(<<>>) = <<>>
<1>1. <<>> \in Seq(Chars) /\ <<>> \in Seq(Nat) /\ Len(<<>>) = 0
  OBVIOUS
<1>2. LineEnds(<<>>) = {} /\ EventEnds(<<>>) = {}
  BY <1>1 DEF LineEnds, EventEnds
<1>3. LinesOf(<<>>) = <<>>
  <2>1. LinesOf(<<>>) \in Seq(Nat) /\ Len(LinesOf(<<>>)) = 0
    BY <1>1, <1>2, LinesType, FS_EmptySet
  <2> QED
    BY <2>1
<1>4. Unterminated(<<>>) = 0
  <2>1. Unterminated(<<>>) = DataBetween(<<>>, 0, 0)
    BY <1>1, <1>2, FS_EmptySet DEF Unterminated, LineEnd
  <2>2. {p \in 0 + 1 .. 0 : <<>>[p] = "d"} = {}
    OBVIOUS
  <2> QED
    BY <2>1, <2>2, FS_EmptySet DEF DataBetween
<1>5. OpenRun(<<>>) = <<>>
  <2> DEFINE none == <<>>
  <2>1. none \in Seq(Nat) /\ Len(none) + 1 = 1 /\ 1 \in 1 .. Len(none) + 1
    BY <1>1
  <2> HIDE DEF none
  <2>2. RunStart(none, 1) = 1
    BY <2>1, RunStartIs
  <2>3. Run(none, 1) \in Seq(Nat \ {0}) /\ Len(Run(none, 1)) = 1 - RunStart(none, 1)
    BY <2>1, RunType
  <2>4. Run(none, 1) = <<>>
    BY <2>2, <2>3
  <2> QED
    BY <2>1, <2>4 DEF OpenRun, none
<1>6. EventsIn(<<>>) = <<>>
  BY <1>2, FS_EmptySet DEF EventsIn
<1> QED
  BY <1>1, <1>3, <1>4, <1>5, <1>6 DEF EventsOf

LEMMA ParseTypes ==
  ASSUME NEW p \in Parsers, NEW chunk \in Seq(Chars)
  PROVE  Parse(p, chunk) \in Parsers /\ Len(p.out) <= Len(Parse(p, chunk).out)
<1> DEFINE input == p.bufferedInput \o chunk
           scan == ScanLines(input)
           start == [p EXCEPT !.bufferedInput = scan.rest]
<1>1. input \in Seq(Chars)
  <2>1. p.bufferedInput \in Seq({"d"})
    BY DEF Parsers
  <2>2. p.bufferedInput \in Seq(Chars)
    BY <2>1 DEF Chars
  <2> QED
    BY <2>2
<1> HIDE DEF input
<1>2. scan \in Scans
  <2>1. Len(input) \in 0 .. Len(input)
    BY <1>1
  <2> QED
    BY <1>1, <2>1, ScanTypes DEF ScanLines
<1>3. Parse(p, chunk) = DispatchLines(start, scan.lines)[Len(scan.lines)]
  BY DEF Parse, input
<1> HIDE DEF scan
<1>4. start \in Parsers /\ start.out = p.out
  BY <1>2 DEF Scans, Parsers
<1>5. scan.lines \in Seq(Seq({"d"}))
  BY <1>2 DEF Scans
<1>6. Len(scan.lines) \in 0 .. Len(scan.lines)
  BY <1>5
<1> HIDE DEF start
<1> QED
  BY <1>3, <1>4, <1>5, <1>6, DispatchTypes

\* What the parser of a connection has of the text received on it.
Follows(p, t) ==
    /\ Len(p.bufferedInput) = Unterminated(t)
    /\ p.currentEvent = OpenRun(LinesOf(t))
    /\ p.out = EventsOf(t)

\* A parser that follows a text follows it over the next chunk, however that is cut, if
\* the cut does not go through a CRLF.
LEMMA ParseOfChunk ==
  ASSUME NEW t \in Seq(Chars), NEW p \in Parsers, Follows(p, t),
         NEW chunk \in Seq(Chars), chunk # <<>> => ~SecondOfCRLF(t, chunk[1])
  PROVE  Follows(Parse(p, chunk), t \o chunk)
<1> DEFINE input == p.bufferedInput \o chunk
           scan == ScanLines(input)
           start == [p EXCEPT !.bufferedInput = scan.rest]
           after == DispatchLines(start, scan.lines)[Len(scan.lines)]
<1>1. p.bufferedInput \in Seq({"d"}) /\ Len(p.bufferedInput) = Unterminated(t)
  BY DEF Parsers, Follows
<1>2. /\ scan \in Scans
      /\ LinesOf(t \o chunk) = LinesOf(t) \o Lengths(scan.lines)
      /\ Len(scan.rest) = Unterminated(t \o chunk)
  BY <1>1, ScanOfChunk
<1>3. Parse(p, chunk) = after
  BY DEF Parse
<1> HIDE DEF scan
<1>4. /\ start \in Parsers /\ start.bufferedInput = scan.rest
      /\ start.currentEvent = p.currentEvent /\ start.out = p.out
  BY <1>2 DEF Scans, Parsers
<1>5. scan.lines \in Seq(Seq({"d"}))
  BY <1>2 DEF Scans
<1>6. Len(scan.lines) \in 0 .. Len(scan.lines)
  BY <1>5
<1> HIDE DEF start
<1>7. after.bufferedInput = scan.rest
  BY <1>4, <1>5, <1>6, DispatchTypes
<1>8. LinesOf(t) \in Seq(Nat)
  BY LinesType
<1>9. start.currentEvent = OpenRun(LinesOf(t)) /\ start.out = EventsIn(LinesOf(t))
  BY <1>4 DEF Follows, EventsOf
<1>10. /\ after.currentEvent = OpenRun(LinesOf(t) \o Lengths(scan.lines))
       /\ after.out = EventsIn(LinesOf(t) \o Lengths(scan.lines))
  BY <1>4, <1>5, <1>8, <1>9, DispatchOfLines
<1> HIDE DEF after
<1> QED
  BY <1>2, <1>3, <1>7, <1>10 DEF Follows, EventsOf

----------------------------------------------------------------------------
(* The body of a connection.                                               *)

\* While a connection is read, its parser follows the body received, and the events
\* stand when it has ended; unless a chunk boundary has cut a CRLF.
BodyInv ==
    /\ text \in Seq(Chars) /\ parser \in Parsers /\ splitCRLF \in BOOLEAN
    /\ ~splitCRLF => parser.out = EventsOf(text)
    /\ ~splitCRLF /\ controller # 0 /\ fetch[controller] = "reading" => Follows(parser, text)

LEMMA FreshParser == NewParser \in Parsers /\ Follows(NewParser, <<>>)
<1>1. <<>> \in Seq({"d"}) /\ <<>> \in Fields /\ <<>> \in Seq(Fields)
  BY DEF Fields
<1>2. NewParser \in Parsers
  BY <1>1 DEF NewParser, Parsers
<1>3. Len(<<>>) = 0
  OBVIOUS
<1> QED
  BY <1>2, <1>3, EmptyText DEF NewParser, Follows

LEMMA InitBodyInv == Init => BodyInv
  BY FreshParser, EmptyText DEF Init, FreshBody, BodyInv, Follows

\* The next chunk of the connection, and what it tells of the last boundary.
LEMMA ChunkStep ==
  ASSUME AttemptInv, BodyInv, NEW a \in Attempts, NEW chunk \in Chunks, ReceiveChunk(a, chunk)
  PROVE  BodyInv' /\ Len(parser.out) <= Len(parser'.out)
<1>1. chunk \in Seq(Chars) /\ chunk # <<>>
  <2>1. PICK n \in 1 .. MaxChunk : chunk \in [1 .. n -> Chars]
    BY DEF Chunks
  <2>2. n \in Nat /\ n # 0
    BY <2>1, BoundsAssumption
  <2>3. chunk \in Seq(Chars)
    BY <2>1, <2>2
  <2>4. Len(chunk) = n
    BY <2>1, <2>2, <2>3
  <2> QED
    BY <2>2, <2>3, <2>4
<1>2. /\ parser' = Parse(parser, chunk) /\ text' = text \o chunk
      /\ splitCRLF' = (splitCRLF \/ (text # <<>> /\ text[Len(text)] = "CR" /\ chunk[1] = "LF"))
      /\ controller' = controller /\ fetch' = fetch /\ fetch[a] = "reading"
  BY DEF ReceiveChunk, connectionVars
<1>3. a = controller /\ controller # 0
  BY <1>2, Numbers DEF AttemptInv, AttemptsOwned, InFlight
<1>4. text \in Seq(Chars) /\ parser \in Parsers /\ splitCRLF \in BOOLEAN
  BY DEF BodyInv
<1>5. text' \in Seq(Chars) /\ splitCRLF' \in BOOLEAN
  <2>1. text \o chunk \in Seq(Chars)
    BY <1>1, <1>4
  <2>2. (text # <<>> /\ text[Len(text)] = "CR" /\ chunk[1] = "LF") \in BOOLEAN
    OBVIOUS
  <2> QED
    BY <1>2, <1>4, <2>1, <2>2
<1>6. parser' \in Parsers /\ Len(parser.out) <= Len(parser'.out)
  BY <1>1, <1>2, <1>4, ParseTypes
<1>7. ASSUME ~splitCRLF' PROVE Follows(parser', text')
  <2>1. ~splitCRLF /\ ~SecondOfCRLF(text, chunk[1])
    BY <1>2, <1>7 DEF SecondOfCRLF
  <2>2. Follows(parser, text)
    BY <1>2, <1>3, <2>1 DEF BodyInv
  <2>3. Follows(Parse(parser, chunk), text \o chunk)
    BY <1>1, <1>4, <2>1, <2>2, ParseOfChunk
  <2> QED
    BY <1>2, <2>3 DEF Follows
<1> QED
  BY <1>5, <1>6, <1>7 DEF BodyInv, Follows

\* A step that leaves the body, and starts to read no connection.
LEMMA BodyUntouched ==
  ASSUME BodyInv, UNCHANGED <<parser, text, splitCRLF>>,
         controller' # 0 /\ fetch'[controller'] = "reading" =>
             controller # 0 /\ fetch[controller] = "reading"
  PROVE  BodyInv'
  BY DEF BodyInv, Follows

LEMMA BodyInvStep == AttemptInv /\ BodyInv /\ [Next]_vars => BodyInv'
<1> SUFFICES ASSUME AttemptInv, BodyInv, [Next]_vars PROVE BodyInv'
  OBVIOUS
<1> USE Numbers
<1>1. controller \in 0 .. MaxAttempts /\ fetch \in [Attempts -> FetchStates]
  BY DEF AttemptInv, ConnectionTypeOK
<1>2. CASE InitiateConnection
  <2>1. controller' \in Attempts /\ fetch'[controller'] = "sent"
    BY <1>1, <1>2 DEF InitiateConnection, Attempts
  <2> QED
    BY <1>2, <2>1, BodyUntouched DEF InitiateConnection, bodyVars
<1>3. CASE Close \/ GiveUp \/ DispatchEvent \/ EndOfChunk \/ UNCHANGED vars
  <2>1. UNCHANGED <<parser, text, splitCRLF, controller, fetch>>
    BY <1>3 DEF Close, GiveUp, DispatchEvent, EndOfChunk, bodyVars, connectionVars, vars
  <2> QED
    BY <2>1, BodyUntouched
<1>4. ASSUME NEW a \in Attempts, Attempt(a) PROVE BodyInv'
  <2>1. ASSUME Over(a), UNCHANGED <<parser, text, splitCRLF, controller>> PROVE BodyInv'
    <3>1. controller # 0 /\ fetch'[controller] = "reading" => fetch[controller] = "reading"
      BY <1>1, <2>1 DEF Over
    <3> QED
      BY <2>1, <3>1, BodyUntouched
  <2>2. CASE AttemptFails(a) \/ AbortNoticed(a) \/ NoContent(a) \/ Refused(a)
    <3>1. Over(a) /\ UNCHANGED <<parser, text, splitCRLF, controller>>
      BY <2>2 DEF AttemptFails, AbortNoticed, NoContent, Refused, bodyVars
    <3> QED
      BY <2>1, <3>1
  <2>3. CASE StreamEnds(a)
    <3>1. fetch[a] = "reading" /\ Over(a) /\ parser' = Finish(parser)
          /\ UNCHANGED <<controller, text, splitCRLF>>
      BY <2>3 DEF StreamEnds
    <3>2. a = controller /\ fetch'[controller'] = "over"
      BY <1>1, <3>1 DEF AttemptInv, AttemptsOwned, InFlight, Over
    <3>3. parser' \in Parsers /\ parser'.out = parser.out
      <4>1. <<>> \in Seq({"d"}) /\ parser \in Parsers
        BY DEF BodyInv
      <4> QED
        BY <3>1, <4>1 DEF Finish, Parsers
    <3> QED
      BY <3>1, <3>2, <3>3 DEF BodyInv
  <2>4. CASE Accepted(a)
    <3>1. parser' = NewParser /\ text' = <<>> /\ splitCRLF' = FALSE
      BY <2>4 DEF Accepted
    <3> QED
      BY <3>1, FreshParser, EmptyText DEF BodyInv, Follows
  <2>5. CASE \E chunk \in Chunks : ReceiveChunk(a, chunk)
    BY <2>5, ChunkStep
  <2> QED
    BY <1>4, <2>2, <2>3, <2>4, <2>5 DEF Attempt
<1> QED
  BY <1>2, <1>3, <1>4 DEF Next, Connect, Reconnect

LEMMA BodyInvHolds == Spec => []BodyInv
<1>1. AttemptInv /\ BodyInv /\ [Next]_vars => (AttemptInv /\ BodyInv)'
  BY AttemptInvStep, BodyInvStep
<1> QED
  BY InitAttemptInv, InitBodyInv, <1>1, PTL DEF Spec

\* Wherever the network cuts a body, whatever its size, and however often the connection
\* was made anew: unless a boundary fell into a CRLF, the events handed to the owner are
\* those of the body of this connection, in its order, none lost, split or merged.
THEOREM ChunksNeverMatter == Spec => []ChunksDoNotMatter
<1>1. BodyInv => ChunksDoNotMatter
  BY DEF BodyInv, ChunksDoNotMatter
<1> QED
  BY <1>1, BodyInvHolds, PTL
----------------------------------------------------------------------------
(* Types.                                                                  *)

\* Every failure is one of an attempt that is over, so they are never more than the
\* attempts; and no event is dispatched that the parser has not handed out.
CountersBounded ==
    /\ failures \in Nat /\ failures <= controller
    /\ controller # 0 /\ InFlight(controller) => failures + 1 <= controller
    /\ dispatched \in Nat /\ dispatched <= Len(parser.out)
    /\ Len(text) <= MaxText

LEMMA InitCountersBounded == Init => CountersBounded
<1> SUFFICES ASSUME Init PROVE CountersBounded
  OBVIOUS
<1>1. Len(<<>>) = 0 /\ 0 <= MaxText
  BY BoundsAssumption
<1> QED
  BY <1>1 DEF Init, FreshBody, NewParser, CountersBounded

LEMMA CountersBoundedStep ==
  AttemptInv /\ BodyInv /\ CountersBounded /\ [Next]_vars => CountersBounded'
<1> SUFFICES ASSUME AttemptInv, BodyInv, CountersBounded, [Next]_vars PROVE CountersBounded'
  OBVIOUS
<1> USE Numbers
<1>1. /\ controller \in 0 .. MaxAttempts /\ fetch \in [Attempts -> FetchStates]
      /\ failures \in Nat /\ dispatched \in Nat /\ Len(parser.out) \in Nat /\ Len(text) \in Nat
  <2>1. parser.out \in Seq(Fields) /\ text \in Seq(Chars)
    BY DEF BodyInv, Parsers
  <2> QED
    BY <2>1 DEF AttemptInv, ConnectionTypeOK, CountersBounded
<1>2. CASE InitiateConnection /\ failures' \in {0, failures}
  <2>1. controller' = controller + 1 /\ UNCHANGED bodyVars
    BY <1>2 DEF InitiateConnection
  <2>2. UNCHANGED <<dispatched, parser, text>>
    BY <2>1 DEF bodyVars
  <2>3. failures' \in Nat /\ failures' + 1 <= controller' /\ failures' <= controller'
    <3>1. controller \in Nat /\ failures \in Nat /\ failures <= controller
      BY <1>1 DEF CountersBounded
    <3>2. controller' = controller + 1 /\ (failures' = 0 \/ failures' = failures)
      BY <1>2, <2>1
    <3> QED
      BY <3>1, <3>2
  <2> QED
    BY <2>2, <2>3 DEF CountersBounded
<1>3. CASE Close \/ GiveUp \/ EndOfChunk \/ UNCHANGED vars
  <2>1. UNCHANGED <<controller, fetch, failures, bodyVars>>
    BY <1>3 DEF Close, GiveUp, EndOfChunk, connectionVars, vars
  <2> QED
    BY <2>1 DEF bodyVars, CountersBounded, InFlight
<1>4. CASE DispatchEvent
  <2>1. /\ dispatched < Len(parser.out) /\ dispatched' = dispatched + 1
        /\ UNCHANGED <<controller, fetch, failures, parser, text>>
    BY <1>4 DEF DispatchEvent, connectionVars
  <2> QED
    BY <1>1, <2>1 DEF CountersBounded, InFlight
<1>5. ASSUME NEW a \in Attempts, Attempt(a) PROVE CountersBounded'
  <2>1. ASSUME InFlight(a), Over(a), UNCHANGED <<controller, dispatched, text>>,
               parser'.out = parser.out, failures' \in {failures, failures + 1}
        PROVE  CountersBounded'
    <3>1. a = controller /\ controller # 0 /\ \A b \in Attempts : ~(InFlight(b))'
      BY <2>1, OverEnds
    <3>2. failures + 1 <= controller /\ ~(InFlight(controller))'
      BY <2>1, <3>1 DEF CountersBounded
    <3>3. failures' \in Nat /\ failures' <= controller'
      <4>1. controller \in Nat
        BY <1>1
      <4> QED
        BY <1>1, <2>1, <3>2, <4>1
    <3>4. ~(InFlight(controller))' /\ UNCHANGED <<controller, dispatched, text>>
      BY <2>1, <3>2
    <3> QED
      BY <2>1, <3>3, <3>4 DEF CountersBounded, InFlight
  <2>2. ASSUME AttemptFails(a) \/ StreamEnds(a) \/ AbortNoticed(a) \/ NoContent(a) \/ Refused(a)
        PROVE  CountersBounded'
    <3>1. InFlight(a) /\ Over(a) /\ UNCHANGED <<controller, dispatched, text>>
      BY <2>2 DEF AttemptFails, StreamEnds, AbortNoticed, NoContent, Refused, bodyVars, InFlight
    <3>2. parser'.out = parser.out
      <4>1. parser \in Parsers
        BY DEF BodyInv
      <4>2. Finish(parser).out = parser.out
        BY <4>1 DEF Finish, Parsers
      <4> QED
        BY <2>2, <4>2 DEF AttemptFails, StreamEnds, AbortNoticed, NoContent, Refused, bodyVars
    <3>3. failures' \in {failures, failures + 1}
      BY <2>2 DEF AttemptFails, StreamEnds, AbortNoticed, NoContent, Refused, ScheduleReconnect
    <3> QED
      BY <2>1, <3>1, <3>2, <3>3
  <2>3. CASE Accepted(a)
    <3>1. a = controller /\ controller \in Nat \ {0}
      BY <1>1, <2>3 DEF Accepted, AttemptInv, AttemptsOwned, InFlight
    <3>2. /\ controller' = controller /\ failures' = 0 /\ dispatched' = 0
          /\ parser' = NewParser /\ text' = <<>>
      BY <2>3 DEF Accepted
    <3>3. Len(<<>>) = 0 /\ 0 <= MaxText /\ NewParser.out = <<>>
      BY BoundsAssumption DEF NewParser
    <3> QED
      BY <3>1, <3>2, <3>3 DEF CountersBounded
  <2>4. ASSUME NEW chunk \in Chunks, ReceiveChunk(a, chunk) PROVE CountersBounded'
    <3>1. /\ UNCHANGED <<connectionVars, dispatched>>
          /\ text' = text \o chunk /\ Len(text) + Len(chunk) <= MaxText
      BY <2>4 DEF ReceiveChunk
    <3>2. Len(parser.out) <= Len(parser'.out) /\ BodyInv'
      BY <2>4, ChunkStep
    <3>3. Len(parser'.out) \in Nat
      <4>1. parser'.out \in Seq(Fields)
        BY <3>2 DEF BodyInv, Parsers
      <4> QED
        BY <4>1
    <3>4. Len(text') <= MaxText
      <4>1. chunk \in Seq(Chars) /\ text \in Seq(Chars)
        <5>1. PICK n \in 1 .. MaxChunk : chunk \in [1 .. n -> Chars]
          BY DEF Chunks
        <5>2. n \in Nat
          BY <5>1, BoundsAssumption
        <5> QED
          BY <5>1, <5>2 DEF BodyInv
      <4>2. Len(text \o chunk) = Len(text) + Len(chunk)
        BY <4>1
      <4> QED
        BY <3>1, <4>2
    <3>5. dispatched <= Len(parser'.out)
      BY <1>1, <3>2, <3>3 DEF CountersBounded
    <3> QED
      BY <3>1, <3>4, <3>5 DEF CountersBounded, InFlight, connectionVars
  <2> QED
    BY <1>5, <2>2, <2>3, <2>4 DEF Attempt
<1> QED
  BY <1>2, <1>3, <1>4, <1>5 DEF Next, Connect, Reconnect

\* The type invariant: an AbortController is aborted only if there was one, no event is
\* dispatched before the parser completed it, and the retry counter stays within the
\* attempts made, which is what its backoff is computed from.
THEOREM TypeCorrect == Spec => []TypeOK
<1>1. AttemptInv /\ BodyInv /\ CountersBounded => TypeOK
  <2> SUFFICES ASSUME AttemptInv, BodyInv, CountersBounded PROVE TypeOK
    OBVIOUS
  <2>1. controller \in 0 .. MaxAttempts /\ controller \in Nat
    BY Numbers DEF AttemptInv, ConnectionTypeOK
  <2>2. \A b \in aborted : b \in 0 .. MaxAttempts
    BY <2>1, Numbers DEF AttemptInv, AttemptsOwned
  <2>3. failures \in 0 .. MaxAttempts
    BY <2>1, Numbers DEF CountersBounded
  <2>4. dispatched \in 0 .. Len(parser.out)
    <3>1. parser.out \in Seq(Fields)
      BY DEF BodyInv, Parsers
    <3> QED
      BY <3>1 DEF CountersBounded
  <2> QED
    BY <2>1, <2>2, <2>3, <2>4 DEF AttemptInv, ConnectionTypeOK, BodyInv, CountersBounded, TypeOK
<1>2. AttemptInv /\ BodyInv /\ CountersBounded /\ [Next]_vars => CountersBounded'
  BY CountersBoundedStep
<1> QED
  BY <1>1, <1>2, InitCountersBounded, AttemptInvHolds, BodyInvHolds, PTL DEF Spec
=============================================================================
