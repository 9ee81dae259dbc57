------------------------- MODULE TestConnectionProofs ------------------------
(***************************************************************************)
(* What TLAPS proves of TestConnection, for any number of calls, keys and  *)
(* watchers: whatever becomes of attempts that are held, failed, timed out *)
(* or superseded, the connection that is up is the one asked for last;     *)
(* and every watcher is told what the connection stores.                   *)
(***************************************************************************)
EXTENDS TestConnection, SequenceTheorems, FiniteSetTheorems, TLAPS

----------------------------------------------------------------------------
(* Attempts.  Values, deliveries and watchers take no part in it.          *)

ConnectionTypes ==
    /\ generation \in Nat
    /\ held \in [attempt : {"none", "initialize", "updateContext"}, generation : Nat]
    /\ held.attempt = "none" => held = NoHold

\* Only the newest generation can be held, be up, or still come up by its first delivery,
\* one of them at most, and each of them only while it is the one asked for.
NewestGeneration ==
    /\ \A g \in first : g \in Nat /\ g <= generation
    /\ held # NoHold => held.generation = generation /\ ~connected /\ generation \notin first
    /\ held # NoHold \/ connected \/ generation \in first => wanted = generation

AttemptInv == ConnectionTypes /\ NewestGeneration

\* The part of the state the invariant is about.
connectionState == <<connected, generation, first, held, wanted>>

LEMMA InitAttempts == Init => AttemptInv
  BY DEF Init, AttemptInv, ConnectionTypes, NewestGeneration, NoHold

LEMMA UnchangedAttempts == AttemptInv /\ UNCHANGED connectionState => AttemptInv'
  BY DEF AttemptInv, ConnectionTypes, NewestGeneration, connectionState, NoHold

\* A held attempt that is let go connects as an attempt that was not held does.
LEMMA CompleteKeepsAttempts ==
  ASSUME AttemptInv, NEW attempt \in {"initialize", "updateContext"}, Complete(attempt)
  PROVE  AttemptInv'
<1>1. CASE held.attempt = attempt
  <2>1. held # NoHold /\ held' = NoHold /\ generation' = generation /\ wanted' = wanted
    BY <1>1 DEF Complete, Release, NoHold
  <2>2. \/ ~connected' /\ first' = first \cup {held.generation}
        \/ connected' /\ first' = first
    BY <1>1 DEF Complete, ConnectNow
  <2> QED
    BY <2>1, <2>2 DEF AttemptInv, ConnectionTypes, NewestGeneration, NoHold
<1>2. CASE held.attempt # attempt
  BY <1>2, UnchangedAttempts DEF Complete, connectionState
<1> QED
  BY <1>1, <1>2

LEMMA FailKeepsAttempts ==
  ASSUME AttemptInv, NEW attempt \in {"initialize", "updateContext"}, Fail(attempt)
  PROVE  AttemptInv'
<1>1. CASE held.attempt = attempt
  <2>1. held # NoHold /\ held' = NoHold /\ UNCHANGED <<connected, generation, first>>
    BY <1>1 DEF Fail, Release, NoHold
  <2> QED
    BY <2>1 DEF AttemptInv, ConnectionTypes, NewestGeneration, NoHold
<1>2. CASE held.attempt # attempt
  BY <1>2, UnchangedAttempts DEF Fail, connectionState
<1> QED
  BY <1>1, <1>2

\* A new attempt is of a generation no older one can reach.
LEMMA ConnectKeepsAttempts ==
  ASSUME AttemptInv, NEW attempt \in {"initialize", "updateContext", "resume"}, Connect(attempt)
  PROVE  AttemptInv'
<1> DEFINE met == IF attempt \in Attempts THEN armed[attempt] ELSE "nothing"
<1>1. generation' = generation + 1 /\ generation + 1 \notin first /\ generation \in Nat
  BY DEF Connect, EndAttempt, AttemptInv, ConnectionTypes, NewestGeneration
<1>2. CASE held' = NoHold /\ wanted' = generation' /\ ConnectNow(generation')
  <2>1. first' \subseteq first \cup {generation'}
    BY <1>2 DEF ConnectNow
  <2> QED
    BY <1>1, <1>2, <2>1 DEF AttemptInv, ConnectionTypes, NewestGeneration, NoHold
<1>3. CASE /\ met = "hold" /\ held' = [attempt |-> attempt, generation |-> generation']
           /\ wanted' = generation' /\ connected' = FALSE /\ UNCHANGED first
  <2>1. attempt \in {"initialize", "updateContext"}
    BY <1>3 DEF Attempts
  <2> QED
    BY <1>1, <1>3, <2>1 DEF AttemptInv, ConnectionTypes, NewestGeneration, NoHold
<1>4. CASE held' = NoHold /\ wanted' = 0 /\ connected' = FALSE /\ UNCHANGED first
  BY <1>1, <1>4 DEF AttemptInv, ConnectionTypes, NewestGeneration, NoHold
<1> QED
  BY <1>2, <1>3, <1>4 DEF Connect

LEMMA CloseKeepsAttempts ==
  ASSUME AttemptInv, Close
  PROVE  AttemptInv'
  BY DEF Close, EndAttempt, AttemptInv, ConnectionTypes, NewestGeneration, NoHold

LEMMA TimerKeepsAttempts ==
  ASSUME AttemptInv, HoldTimer
  PROVE  AttemptInv'
  BY DEF HoldTimer, Release, AttemptInv, ConnectionTypes, NewestGeneration, NoHold

\* A first delivery that comes late finds a newer generation and connects nothing.
LEMMA FirstDeliveryKeepsAttempts ==
  ASSUME AttemptInv, NEW g \in 1 .. MaxCalls, FirstDelivery(g)
  PROVE  AttemptInv'
<1>1. /\ g \in first /\ first' = first \ {g} /\ UNCHANGED <<held, generation, wanted>>
      /\ \/ g = generation /\ connected'
         \/ connected' = connected
  BY DEF FirstDelivery
<1> QED
  BY <1>1 DEF AttemptInv, ConnectionTypes, NewestGeneration, NoHold

LEMMA AttemptStep == AttemptInv /\ [Next]_vars => AttemptInv'
<1> SUFFICES ASSUME AttemptInv, [Next]_vars PROVE AttemptInv'
  OBVIOUS
<1>1. ASSUME NEW k \in Keys, SetValue(k) \/ RemoveValue(k) \/ UnwatchKey(k) PROVE AttemptInv'
  BY <1>1, UnchangedAttempts
  DEF SetValue, RemoveValue, UnwatchKey, connectionVars, connectionState
<1>2. ASSUME NEW kept \in SUBSET Keys, ReplaceValues(kept) PROVE AttemptInv'
  BY <1>2, UnchangedAttempts DEF ReplaceValues, connectionState
<1>3. ASSUME NEW attempt \in {"initialize", "updateContext"},
             Hold(attempt) \/ Complete(attempt) \/ Fail(attempt)
      PROVE  AttemptInv'
  <2>1. CASE Hold(attempt)
    BY <2>1, UnchangedAttempts DEF Hold, connectionState
  <2> QED
    BY <1>3, <2>1, CompleteKeepsAttempts, FailKeepsAttempts
<1>4. ASSUME NEW attempt \in {"initialize", "updateContext", "resume"}, Connect(attempt)
      PROVE  AttemptInv'
  BY <1>4, ConnectKeepsAttempts
<1>5. CASE Close \/ HoldTimer
  BY <1>5, CloseKeepsAttempts, TimerKeepsAttempts
<1>6. ASSUME NEW g \in 1 .. MaxCalls, FirstDelivery(g) PROVE AttemptInv'
  BY <1>6, FirstDeliveryKeepsAttempts
<1>7. CASE DeliverNext \/ NextKey \/ CallWatcher \/ CallbackReturns \/ CallbackThrows
  BY <1>7, UnchangedAttempts
  DEF DeliverNext, NextKey, CallWatcher, CallbackReturns, CallbackThrows, connectionVars,
      connectionState
<1>8. ASSUME NEW w \in Watchers, Watch(w) \/ Unwatch(w) PROVE AttemptInv'
  BY <1>8, UnchangedAttempts DEF Watch, Unwatch, connectionVars, connectionState
<1>9. CASE UnwatchAll
  BY <1>9, UnchangedAttempts DEF UnwatchAll, connectionVars, connectionState
<1>10. CASE UNCHANGED vars
  BY <1>10, UnchangedAttempts DEF vars, connectionVars, connectionState
<1> QED
  BY <1>1, <1>2, <1>3, <1>4, <1>5, <1>6, <1>7, <1>8, <1>9, <1>10 DEF Next

\* No schedule of held, failed, timed-out and superseded attempts and of their first
\* deliveries brings up a connection the application did not ask for last.
THEOREM ConnectedIsAlwaysWanted == Spec => []ConnectedMeansWanted
<1>1. AttemptInv => ConnectedMeansWanted
  BY DEF AttemptInv, ConnectionTypes, NewestGeneration, ConnectedMeansWanted
<1> QED
  BY <1>1, InitAttempts, AttemptStep, PTL DEF Spec

----------------------------------------------------------------------------
(* Values: the queue of updates.                                           *)

Updates ==
    [kind : {"full"}, values : [Keys -> Nat]]
    \cup {DeltaUpdate(k, value) : k \in Keys, value \in Nat \ {0}}

ValueTypes ==
    /\ revision \in Nat
    /\ stored \in [Keys -> Nat] /\ served \in [Keys -> Nat]
    /\ pending \in Seq(Updates)

ValueInv == ValueTypes /\ QueueEndsAtStored

valueState == <<connected, revision, stored, served, pending>>

LEMMA FullUpdateCarries ==
  ASSUME NEW values \in [Keys -> Nat]
  PROVE  /\ FullUpdate(values) \in Updates
         /\ \A k \in Keys : k \in DOMAIN FullUpdate(values).values
                               /\ FullUpdate(values).values[k] = values[k]
  BY DEF FullUpdate, Updates

LEMMA DeltaUpdateCarries ==
  ASSUME NEW k \in Keys, NEW value \in Nat \ {0}
  PROVE  /\ DeltaUpdate(k, value) \in Updates
         /\ DOMAIN DeltaUpdate(k, value).values = {k}
         /\ DeltaUpdate(k, value).values[k] = value
         /\ DeltaUpdate(k, value).kind = "delta"
<1>1. DeltaUpdate(k, value) \in Updates
  BY DEF Updates
<1>2. /\ DeltaUpdate(k, value).values = [j \in {k} |-> value]
      /\ DeltaUpdate(k, value).kind = "delta"
  BY DEF DeltaUpdate
<1> QED
  BY <1>1, <1>2

\* What every update carries for a key it carries at all.
LEMMA UpdateTypes ==
  ASSUME NEW update \in Updates
  PROVE  /\ update.kind \in {"full", "delta"}
         /\ DOMAIN update.values \subseteq Keys
         /\ \A k \in DOMAIN update.values : update.values[k] \in Nat
         /\ update.kind = "full" => DOMAIN update.values = Keys
         /\ update.kind = "delta" => \A k \in DOMAIN update.values : update.values[k] # 0
<1>1. CASE update \in [kind : {"full"}, values : [Keys -> Nat]]
  BY <1>1
<1>2. ASSUME NEW k \in Keys, NEW value \in Nat \ {0}, update = DeltaUpdate(k, value)
      PROVE  /\ update.kind = "delta" /\ DOMAIN update.values = {k}
             /\ update.values[k] \in Nat /\ update.values[k] # 0
  BY <1>2, DeltaUpdateCarries
<1> QED
  BY <1>1, <1>2 DEF Updates

LEMMA InitValues == Init => ValueInv
  BY EmptySeq DEF Init, ValueInv, ValueTypes, QueueEndsAtStored

\* An update of everything stored makes the queue end there, whatever was queued before.
LEMMA DeliveringAllStored ==
  ASSUME ValueInv, stored' \in [Keys -> Nat], revision' \in Nat, UNCHANGED served,
         Deliver(FullUpdate(stored'))
  PROVE  ValueInv'
<1> DEFINE update == FullUpdate(stored')
<1>1. pending \in Seq(Updates) /\ update \in Updates
  BY FullUpdateCarries DEF ValueInv, ValueTypes
<1>2. pending' = Append(pending, update)
  BY DEF Deliver
<1>3. /\ pending' \in Seq(Updates) /\ Len(pending') = Len(pending) + 1
      /\ pending'[Len(pending) + 1] = update
  BY <1>1, <1>2, AppendProperties
<1>4. Len(pending) \in Nat /\ DOMAIN pending' = 1 .. Len(pending) + 1
  BY <1>1, <1>3, LenProperties
<1>5. \A k \in Keys : k \in DOMAIN update.values /\ update.values[k] = stored'[k]
  BY FullUpdateCarries
<1> HIDE DEF update
<1>6. QueueEndsAtStored'
  <2> SUFFICES ASSUME NEW k \in Keys
               PROVE  \E i \in DOMAIN pending' :
                         /\ k \in DOMAIN pending'[i].values /\ pending'[i].values[k] = stored'[k]
                         /\ \A j \in DOMAIN pending' : j > i => k \notin DOMAIN pending'[j].values
    BY DEF QueueEndsAtStored
  <2>1. \A j \in DOMAIN pending' : ~(j > Len(pending) + 1)
    BY <1>4
  <2>2. Len(pending) + 1 \in DOMAIN pending'
    BY <1>4
  <2> QED
    BY <1>3, <1>5, <2>1, <2>2
<1> QED
  BY <1>3, <1>6 DEF ValueInv, ValueTypes

\* Without an update, nothing is stored while the client stays connected.
LEMMA NothingDelivered ==
  ASSUME ValueInv, stored' \in [Keys -> Nat], revision' \in Nat, UNCHANGED <<served, pending>>,
         connected' => connected /\ stored' = stored
  PROVE  ValueInv'
  BY DEF ValueInv, ValueTypes, QueueEndsAtStored

\* One key is stored and delivered: the updates of the others still end where they did.
LEMMA DeliveringOneStored ==
  ASSUME ValueInv, NEW k \in Keys, SetValue(k)
  PROVE  ValueInv'
<1> DEFINE update == DeltaUpdate(k, revision')
<1>1. /\ revision' = revision + 1 /\ stored' = [stored EXCEPT ![k] = revision']
      /\ UNCHANGED <<served, connected>>
  BY DEF SetValue, Encoded, connectionVars
<1>2. revision' \in Nat \ {0} /\ stored' \in [Keys -> Nat] /\ stored'[k] = revision'
  BY <1>1 DEF ValueInv, ValueTypes
<1>3. CASE ~connected
  BY <1>1, <1>2, <1>3, NothingDelivered DEF SetValue, DeliverIfConnected
<1>4. CASE connected
  <2>1. pending \in Seq(Updates) /\ update \in Updates
    BY <1>2, DeltaUpdateCarries DEF ValueInv, ValueTypes
  <2>2. pending' = Append(pending, update)
    BY <1>4 DEF SetValue, DeliverIfConnected, Deliver
  <2>3. DOMAIN update.values = {k} /\ update.values[k] = stored'[k]
    BY <1>2, DeltaUpdateCarries
  <2> HIDE DEF update
  <2>4. /\ pending' \in Seq(Updates) /\ Len(pending') = Len(pending) + 1
        /\ pending'[Len(pending) + 1] = update
        /\ \A i \in 1 .. Len(pending) : pending'[i] = pending[i]
    BY <2>1, <2>2, AppendProperties
  <2>5. /\ Len(pending) \in Nat /\ DOMAIN pending = 1 .. Len(pending)
        /\ DOMAIN pending' = 1 .. Len(pending) + 1
    BY <2>1, <2>4, LenProperties
  <2>6. QueueEndsAtStored'
    <3> SUFFICES
          ASSUME NEW j \in Keys
          PROVE  \/ /\ served'[j] = stored'[j]
                    /\ \A i \in DOMAIN pending' : j \notin DOMAIN pending'[i].values
                 \/ \E i \in DOMAIN pending' :
                       /\ j \in DOMAIN pending'[i].values /\ pending'[i].values[j] = stored'[j]
                       /\ \A l \in DOMAIN pending' : l > i => j \notin DOMAIN pending'[l].values
      BY DEF QueueEndsAtStored
    <3>1. CASE j = k
      <4>1. \A l \in DOMAIN pending' : ~(l > Len(pending) + 1)
        BY <2>5
      <4>2. Len(pending) + 1 \in DOMAIN pending'
        BY <2>5
      <4> QED
        BY <2>3, <2>4, <3>1, <4>1, <4>2
    <3>2. CASE j # k
      <4>1. stored'[j] = stored[j] /\ served'[j] = served[j]
        BY <1>1, <3>2 DEF ValueInv, ValueTypes
      <4>2. \A i \in DOMAIN pending' :
              \/ i \in DOMAIN pending /\ pending'[i] = pending[i]
              \/ i = Len(pending) + 1 /\ j \notin DOMAIN pending'[i].values
        BY <2>3, <2>4, <2>5, <3>2
      <4>3. CASE /\ served[j] = stored[j]
                 /\ \A i \in DOMAIN pending : j \notin DOMAIN pending[i].values
        <5>1. \A i \in DOMAIN pending' : j \notin DOMAIN pending'[i].values
          BY <4>2, <4>3
        <5> QED
          BY <4>1, <4>3, <5>1
      <4>4. ASSUME NEW i \in DOMAIN pending,
                   j \in DOMAIN pending[i].values /\ pending[i].values[j] = stored[j],
                   \A l \in DOMAIN pending : l > i => j \notin DOMAIN pending[l].values
            PROVE  \E h \in DOMAIN pending' :
                     /\ j \in DOMAIN pending'[h].values /\ pending'[h].values[j] = stored'[j]
                     /\ \A l \in DOMAIN pending' : l > h => j \notin DOMAIN pending'[l].values
        <5>1. i \in DOMAIN pending' /\ pending'[i] = pending[i]
          BY <2>4, <2>5
        <5>2. \A l \in DOMAIN pending' : l > i => j \notin DOMAIN pending'[l].values
          BY <4>2, <4>4
        <5> QED
          BY <4>1, <4>4, <5>1, <5>2
      <4> QED
        BY <1>4, <4>3, <4>4 DEF ValueInv, QueueEndsAtStored
    <3> QED
      BY <3>1, <3>2
  <2> QED
    BY <1>1, <1>2, <2>4, <2>6 DEF ValueInv, ValueTypes
<1> QED
  BY <1>3, <1>4

\* Serving the head of the queue leaves it ending where it did.
LEMMA ServingKeepsValues ==
  ASSUME ValueInv, DeliverNext
  PROVE  ValueInv'
<1> DEFINE update == Head(pending)
<1>1. /\ pending \in Seq(Updates) /\ pending # <<>> /\ pending' = Tail(pending)
      /\ UNCHANGED <<connected, stored, revision>>
  BY DEF DeliverNext, valueVars, connectionVars, ValueInv, ValueTypes
<1>2. served' = [k \in Keys |-> IF k \in DOMAIN update.values THEN update.values[k] ELSE served[k]]
  BY DEF DeliverNext, NextUpdate
<1>3. /\ update \in Updates /\ pending' \in Seq(Updates) /\ Len(pending') = Len(pending) - 1
      /\ \A i \in 1 .. Len(pending') : pending'[i] = pending[i + 1]
  BY <1>1, HeadTailProperties
<1>4. /\ Len(pending) \in Nat /\ DOMAIN pending = 1 .. Len(pending)
      /\ Len(pending') \in Nat /\ DOMAIN pending' = 1 .. Len(pending')
  BY <1>1, <1>3, LenProperties
<1>5. update = pending[1] /\ 1 \in DOMAIN pending
  <2>1. Len(pending) # 0
    BY <1>1, EmptySeq
  <2> QED
    BY <1>1, <1>4, <2>1
<1> HIDE DEF update
<1>6. served' \in [Keys -> Nat]
  BY <1>2, <1>3, UpdateTypes DEF ValueInv, ValueTypes
<1>7. \A i \in DOMAIN pending : i # 1 => i - 1 \in DOMAIN pending' /\ pending'[i - 1] = pending[i]
  BY <1>3, <1>4
<1>8. \A i \in DOMAIN pending' : i + 1 \in DOMAIN pending /\ pending'[i] = pending[i + 1]
  BY <1>3, <1>4
<1>9. QueueEndsAtStored'
  <2> SUFFICES
        ASSUME connected, NEW k \in Keys
        PROVE  \/ /\ served'[k] = stored[k]
                  /\ \A i \in DOMAIN pending' : k \notin DOMAIN pending'[i].values
               \/ \E i \in DOMAIN pending' :
                     /\ k \in DOMAIN pending'[i].values /\ pending'[i].values[k] = stored[k]
                     /\ \A j \in DOMAIN pending' : j > i => k \notin DOMAIN pending'[j].values
    BY <1>1 DEF QueueEndsAtStored
  <2>1. CASE /\ served[k] = stored[k]
             /\ \A i \in DOMAIN pending : k \notin DOMAIN pending[i].values
    BY <1>2, <1>5, <1>8, <2>1
  <2>2. ASSUME NEW i \in DOMAIN pending,
               k \in DOMAIN pending[i].values /\ pending[i].values[k] = stored[k],
               \A j \in DOMAIN pending : j > i => k \notin DOMAIN pending[j].values
        PROVE  \/ /\ served'[k] = stored[k]
                  /\ \A h \in DOMAIN pending' : k \notin DOMAIN pending'[h].values
               \/ \E h \in DOMAIN pending' :
                     /\ k \in DOMAIN pending'[h].values /\ pending'[h].values[k] = stored[k]
                     /\ \A j \in DOMAIN pending' : j > h => k \notin DOMAIN pending'[j].values
    <3>1. CASE i = 1
      <4>1. \A h \in DOMAIN pending' : h + 1 > 1
        BY <1>4
      <4>2. \A h \in DOMAIN pending' : k \notin DOMAIN pending'[h].values
        BY <1>8, <2>2, <3>1, <4>1
      <4> QED
        BY <1>2, <1>5, <2>2, <3>1, <4>2
    <3>2. CASE i # 1
      <4>1. i - 1 \in DOMAIN pending' /\ pending'[i - 1] = pending[i]
        BY <1>7, <3>2
      <4>2. \A j \in DOMAIN pending' : j > i - 1 => j + 1 > i
        BY <1>4
      <4>3. \A j \in DOMAIN pending' : j > i - 1 => k \notin DOMAIN pending'[j].values
        BY <1>8, <2>2, <4>2
      <4> QED
        BY <2>2, <4>1, <4>3
    <3> QED
      BY <3>1, <3>2
  <2> QED
    BY <2>1, <2>2 DEF ValueInv, QueueEndsAtStored
<1> QED
  BY <1>1, <1>3, <1>6, <1>9 DEF ValueInv, ValueTypes

\* What the actions of an attempt do to the values: an attempt that connects delivers all.
LEMMA AttemptsKeepValues ==
  ASSUME ValueInv, UNCHANGED <<valueVars, served>>,
         \/ connected' = FALSE /\ UNCHANGED pending
         \/ connected' = connected /\ UNCHANGED pending
         \/ Deliver(FullUpdate(stored))
  PROVE  ValueInv'
<1>1. stored' \in [Keys -> Nat] /\ revision' \in Nat /\ UNCHANGED <<stored, revision>>
  BY DEF valueVars, ValueInv, ValueTypes
<1>2. Deliver(FullUpdate(stored)) => Deliver(FullUpdate(stored'))
  BY <1>1
<1> QED
  BY <1>1, <1>2, NothingDelivered, DeliveringAllStored

LEMMA StoringKeepsValues ==
  ASSUME ValueInv,
         \/ \E k \in Keys : SetValue(k) \/ RemoveValue(k)
         \/ \E kept \in SUBSET Keys : ReplaceValues(kept)
  PROVE  ValueInv'
<1>1. ASSUME NEW k \in Keys, SetValue(k) PROVE ValueInv'
  BY <1>1, DeliveringOneStored
<1>2. ASSUME NEW k \in Keys, RemoveValue(k) PROVE ValueInv'
  <2>1. stored' \in [Keys -> Nat] /\ revision' \in Nat /\ UNCHANGED <<served, connected>>
    BY <1>2 DEF RemoveValue, ValueInv, ValueTypes, connectionVars
  <2>2. \/ Deliver(FullUpdate(stored'))
        \/ ~connected /\ UNCHANGED pending
    BY <1>2 DEF RemoveValue, DeliverIfConnected
  <2> QED
    BY <2>1, <2>2, NothingDelivered, DeliveringAllStored
<1>3. ASSUME NEW kept \in SUBSET Keys, ReplaceValues(kept) PROVE ValueInv'
  <2>1. stored' \in [Keys -> Nat] /\ revision' \in Nat /\ UNCHANGED <<served, connected>>
    BY <1>3 DEF ReplaceValues, Encoded, ValueInv, ValueTypes
  <2>2. \/ Deliver(FullUpdate(stored'))
        \/ ~connected /\ UNCHANGED pending
    BY <1>3 DEF ReplaceValues, DeliverIfConnected
  <2> QED
    BY <2>1, <2>2, NothingDelivered, DeliveringAllStored
<1> QED
  BY <1>1, <1>2, <1>3

LEMMA ValueStep == ValueInv /\ [Next]_vars => ValueInv'
<1> SUFFICES ASSUME ValueInv, [Next]_vars PROVE ValueInv'
  OBVIOUS
<1>1. CASE \/ \E k \in Keys : SetValue(k) \/ RemoveValue(k)
           \/ \E kept \in SUBSET Keys : ReplaceValues(kept)
  BY <1>1, StoringKeepsValues
<1>2. ASSUME NEW attempt \in {"initialize", "updateContext"},
             Hold(attempt) \/ Complete(attempt) \/ Fail(attempt)
      PROVE  ValueInv'
  BY <1>2, AttemptsKeepValues DEF Hold, Complete, Fail, ConnectNow
<1>3. ASSUME NEW attempt \in {"initialize", "updateContext", "resume"}, Connect(attempt)
      PROVE  ValueInv'
  BY <1>3, AttemptsKeepValues DEF Connect, ConnectNow
<1>4. CASE Close \/ HoldTimer
  BY <1>4, AttemptsKeepValues DEF Close, HoldTimer
<1>5. ASSUME NEW g \in 1 .. MaxCalls, FirstDelivery(g) PROVE ValueInv'
  BY <1>5, AttemptsKeepValues DEF FirstDelivery
<1>6. CASE DeliverNext
  BY <1>6, ServingKeepsValues
<1>7. CASE NextKey \/ CallWatcher \/ CallbackReturns \/ CallbackThrows \/ UnwatchAll
  BY <1>7, AttemptsKeepValues
  DEF NextKey, CallWatcher, CallbackReturns, CallbackThrows, UnwatchAll, connectionVars
<1>8. ASSUME NEW k \in Keys, UnwatchKey(k) PROVE ValueInv'
  BY <1>8, AttemptsKeepValues DEF UnwatchKey, connectionVars
<1>9. ASSUME NEW w \in Watchers, Watch(w) \/ Unwatch(w) PROVE ValueInv'
  BY <1>9, AttemptsKeepValues DEF Watch, Unwatch, connectionVars
<1>10. CASE UNCHANGED vars
  BY <1>10, AttemptsKeepValues DEF vars, connectionVars
<1> QED
  BY <1>1, <1>2, <1>3, <1>4, <1>5, <1>6, <1>7, <1>8, <1>9, <1>10 DEF Next

----------------------------------------------------------------------------
(* Watchers: the turn of an update.                                        *)

Turns ==
    [at : {"none", "listening", "watchers", "watching"},
     updated : SUBSET Keys, removed : SUBSET Keys, key : Keys \cup {"none"},
     index : Nat, length : Nat, array : Seq(Watchers), attached : BOOLEAN, value : Nat]

WatchTypes ==
    /\ watchers \in [Keys -> Seq(Watchers)]
    /\ seen \in [Watchers -> Nat]
    /\ turn \in Turns

WatchInv == WatchTypes /\ RoundsAreOfTheirKey /\ ToldOrDue

LEMMA UnchangedWatchers == WatchInv /\ UNCHANGED <<served, turn, watchVars>> => WatchInv'
  BY DEF WatchInv, WatchTypes, RoundsAreOfTheirKey, ToldOrDue, watchVars

LEMMA PlacesOfWatchers ==
  ASSUME WatchTypes, NEW k \in Keys
  PROVE  /\ Len(watchers[k]) \in Nat /\ DOMAIN watchers[k] = 1 .. Len(watchers[k])
         /\ \A p \in DOMAIN watchers[k] : p \in Nat /\ watchers[k][p] \in Watchers
<1>1. watchers[k] \in Seq(Watchers)
  BY DEF WatchTypes
<1> QED
  BY <1>1, LenProperties, ElementOfSeq

LEMMA RangeOfPlaces == ASSUME NEW f PROVE Range(f) = {f[p] : p \in DOMAIN f}
  BY DEF Range

LEMMA SetToSeqIsASeq ==
  ASSUME NEW S, IsFiniteSet(S)
  PROVE  SetToSeq(S) \in Seq(S)
<1>1. Cardinality(S) \in Nat /\ ExistsBijection(1 .. Cardinality(S), S)
  BY FS_CardinalityType
<1>2. PICK f : f \in Bijection(1 .. Cardinality(S), S)
  BY <1>1 DEF ExistsBijection
<1>3. f \in [1 .. Cardinality(S) -> S] /\ IsInjective(f)
  BY <1>2 DEF Bijection, Injection
<1>4. SetToSeq(S) \in [1 .. Cardinality(S) -> S]
  BY <1>3 DEF SetToSeq
<1> QED
  BY <1>1, <1>4

LEMMA RemoveAtProperties ==
  ASSUME NEW S, NEW s \in Seq(S), NEW i \in DOMAIN s
  PROVE  /\ RemoveAt(s, i) \in Seq(S) /\ Len(RemoveAt(s, i)) = Len(s) - 1
         /\ DOMAIN RemoveAt(s, i) = 1 .. Len(s) - 1
         /\ \A p \in 1 .. Len(s) - 1 : RemoveAt(s, i)[p] = IF p < i THEN s[p] ELSE s[p + 1]
<1> DEFINE before == SubSeq(s, 1, i - 1)  after == SubSeq(s, i + 1, Len(s))
<1>1. Len(s) \in Nat /\ DOMAIN s = 1 .. Len(s) /\ i \in 1 .. Len(s)
  BY LenProperties
<1>2. \A p \in 1 .. Len(s) : s[p] \in S
  BY ElementOfSeq
<1>3. /\ before \in Seq(S) /\ Len(before) = i - 1
      /\ \A p \in 1 .. i - 1 : before[p] = s[p]
  <2>1. 1 \in Int /\ i - 1 \in Int /\ \A p \in 1 .. i - 1 : s[p] \in S
    BY <1>1, <1>2
  <2>2. /\ before \in Seq(S) /\ Len(before) = IF 1 <= i - 1 THEN i - 1 - 1 + 1 ELSE 0
        /\ \A p \in 1 .. i - 1 - 1 + 1 : before[p] = s[1 + p - 1]
    BY <2>1, SubSeqProperties
  <2> QED
    BY <1>1, <2>2
<1>4. /\ after \in Seq(S) /\ Len(after) = Len(s) - i
      /\ \A p \in 1 .. Len(s) - i : after[p] = s[i + p]
  <2>1. i + 1 \in Int /\ Len(s) \in Int /\ \A p \in i + 1 .. Len(s) : s[p] \in S
    BY <1>1, <1>2
  <2>2. /\ after \in Seq(S) /\ Len(after) = IF i + 1 <= Len(s) THEN Len(s) - (i + 1) + 1 ELSE 0
        /\ \A p \in 1 .. Len(s) - (i + 1) + 1 : after[p] = s[i + 1 + p - 1]
    BY <2>1, SubSeqProperties
  <2> QED
    BY <1>1, <2>2
<1> HIDE DEF before, after
<1>5. /\ before \o after \in Seq(S) /\ Len(before \o after) = Len(before) + Len(after)
      /\ \A p \in 1 .. Len(before) + Len(after) :
            (before \o after)[p] = IF p <= Len(before) THEN before[p] ELSE after[p - Len(before)]
  BY <1>3, <1>4, ConcatProperties
<1>6. RemoveAt(s, i) = before \o after
  BY DEF RemoveAt, before, after
<1>7. \A p \in 1 .. Len(s) - 1 : RemoveAt(s, i)[p] = IF p < i THEN s[p] ELSE s[p + 1]
  <2> SUFFICES ASSUME NEW p \in 1 .. Len(s) - 1
               PROVE  RemoveAt(s, i)[p] = IF p < i THEN s[p] ELSE s[p + 1]
    OBVIOUS
  <2>1. p \in 1 .. Len(before) + Len(after)
    BY <1>1, <1>3, <1>4
  <2>2. CASE p < i
    BY <1>1, <1>3, <1>5, <1>6, <2>1, <2>2
  <2>3. CASE ~(p < i)
    <3>1. ~(p <= Len(before)) /\ p - Len(before) = p - (i - 1) /\ p - (i - 1) \in 1 .. Len(s) - i
      BY <1>1, <1>3, <2>3
    <3>2. after[p - (i - 1)] = s[i + (p - (i - 1))] /\ i + (p - (i - 1)) = p + 1
      BY <1>1, <1>4, <3>1
    <3> QED
      BY <1>5, <1>6, <2>1, <2>3, <3>1, <3>2
  <2> QED
    BY <2>2, <2>3
<1>8. DOMAIN RemoveAt(s, i) = 1 .. Len(RemoveAt(s, i)) /\ Len(RemoveAt(s, i)) = Len(s) - 1
  <2>1. DOMAIN RemoveAt(s, i) = 1 .. Len(RemoveAt(s, i))
    BY <1>5, <1>6, LenProperties
  <2>2. Len(before) + Len(after) = Len(s) - 1
    BY <1>1, <1>3, <1>4
  <2> QED
    BY <1>5, <1>6, <2>1, <2>2
<1> QED
  BY <1>5, <1>6, <1>7, <1>8

LEMMA InitWatchers == Init => WatchInv
<1> SUFFICES ASSUME Init PROVE WatchInv
  OBVIOUS
<1> DEFINE registered(k) == {w \in Watchers : Watched[w] = k}
<1>1. ASSUME NEW k \in Keys
      PROVE  /\ watchers[k] \in Seq(registered(k))
             /\ watchers[k] \in Seq(Watchers)
             /\ \A p \in DOMAIN watchers[k] : watchers[k][p] \in registered(k)
  <2>1. IsFiniteSet(registered(k)) /\ registered(k) \subseteq Watchers
    BY TestBoundsAssumption, FS_Subset
  <2>2. watchers[k] = SetToSeq(registered(k))
    BY DEF Init
  <2>3. SetToSeq(registered(k)) \in Seq(registered(k))
    BY <2>1, SetToSeqIsASeq
  <2> HIDE DEF registered
  <2>4. watchers[k] \in Seq(Watchers)
    BY <2>1, <2>2, <2>3, SeqMonotonic
  <2> QED
    BY <2>2, <2>3, <2>4, LenProperties, ElementOfSeq
<1>2. watchers \in [Keys -> Seq(Watchers)] /\ turn \in Turns /\ seen \in [Watchers -> Nat]
  <2>1. DOMAIN watchers = Keys /\ watchers = [k \in Keys |-> watchers[k]]
    BY DEF Init
  <2>2. watchers \in [Keys -> Seq(Watchers)]
    BY <1>1, <2>1
  <2>3. turn \in Turns
    BY EmptySeq DEF Init, Idle, Turns
  <2> QED
    BY <2>2, <2>3 DEF Init
<1>3. RoundsAreOfTheirKey
  BY <1>1 DEF Init, Idle, RoundsAreOfTheirKey
<1>4. ToldOrDue
  BY <1>1 DEF Init, ToldOrDue
<1> QED
  BY <1>2, <1>3, <1>4 DEF WatchInv, WatchTypes

LEMMA ServingKeepsWatchers ==
  ASSUME ValueInv, WatchInv, DeliverNext
  PROVE  WatchInv'
<1> DEFINE update == Head(pending)
<1>1. /\ turn = Idle /\ pending \in Seq(Updates) /\ pending # <<>>
      /\ UNCHANGED <<watchers, seen, cut>>
  BY DEF DeliverNext, watchVars, ValueInv, ValueTypes
<1>2. served' = [k \in Keys |-> IF k \in DOMAIN update.values THEN update.values[k] ELSE served[k]]
  BY DEF DeliverNext, NextUpdate
<1>3. update \in Updates
  BY <1>1, HeadTailProperties
<1>4. turn' = [Idle EXCEPT !.at = "listening", !.updated = FindKeysUpdatedBy(update),
                           !.removed = FindKeysRemovedBy(update)]
  BY DEF DeliverNext, NextUpdate
<1> HIDE DEF update
<1>5. FindKeysUpdatedBy(update) \subseteq Keys /\ FindKeysRemovedBy(update) \subseteq Keys
  BY <1>3, UpdateTypes DEF FindKeysUpdatedBy, FindKeysRemovedBy
<1>6. turn' \in Turns /\ turn'.array = <<>> /\ ~turn'.attached /\ turn'.length = 0
      /\ turn'.updated = FindKeysUpdatedBy(update) /\ turn'.removed = FindKeysRemovedBy(update)
  BY <1>1, <1>4, <1>5 DEF Idle, WatchInv, WatchTypes, Turns
\* A key whose value changes is updated or removed.
<1>7. \A k \in Keys : served'[k] = served[k] \/ k \in turn'.updated \cup turn'.removed
  BY <1>2, <1>3, <1>6, UpdateTypes DEF FindKeysUpdatedBy, FindKeysRemovedBy
<1>8. \A k \in Keys \ cut : \A p \in DOMAIN watchers[k] : seen[watchers[k][p]] = served[k]
  BY <1>1 DEF WatchInv, ToldOrDue, Idle
<1>9. ToldOrDue'
  BY <1>1, <1>7, <1>8 DEF ToldOrDue
<1>10. RoundsAreOfTheirKey'
  BY <1>1, <1>6 DEF RoundsAreOfTheirKey, WatchInv
<1> QED
  BY <1>1, <1>6, <1>9, <1>10 DEF WatchInv, WatchTypes

\* The round of a key ends with all of its watchers told: the place of one that was not
\* told yet is still ahead.
LEMMA NextKeyKeepsWatchers ==
  ASSUME ValueInv, WatchInv, NextKey
  PROVE  WatchInv'
<1>1. /\ ~HasNext /\ UNCHANGED <<served, watchers, seen>> /\ turn \in Turns
  BY DEF NextKey, WatchInv, WatchTypes
<1>2. ASSUME NEW k \in Keys \ cut, NEW p \in DOMAIN watchers[k]
      PROVE  seen[watchers[k][p]] = served[k] \/ k \in turn.updated \cup turn.removed
  <2>1. CASE turn.attached /\ turn.key = k /\ turn.index < p /\ p <= turn.length
    <3>1. Iterated = watchers[k] /\ p <= Len(watchers[k]) /\ Len(watchers[k]) \in Nat /\ p \in Nat
      BY <2>1, PlacesOfWatchers DEF Iterated, WatchInv
    <3>2. turn.index \in Nat /\ turn.length \in Nat
      BY <1>1 DEF Turns
    <3> QED
      BY <1>1, <2>1, <3>1, <3>2 DEF HasNext
  <2> QED
    BY <2>1 DEF WatchInv, ToldOrDue
<1>3. CASE turn' = Idle /\ UNCHANGED cut /\ turn.updated \cup turn.removed = {}
  <2>1. turn' \in Turns
    BY <1>1, <1>3, EmptySeq DEF Idle, Turns
  <2>2. ToldOrDue'
    BY <1>1, <1>2, <1>3 DEF ToldOrDue
  <2>3. RoundsAreOfTheirKey'
    BY <1>1, <1>3 DEF RoundsAreOfTheirKey, Idle, WatchInv
  <2> QED
    BY <1>1, <2>1, <2>2, <2>3 DEF WatchInv, WatchTypes
<1>4. ASSUME NEW k \in turn.updated \cup turn.removed,
             turn' = [turn EXCEPT !.updated = @ \ {k}, !.removed = @ \ {k}, !.key = k,
                                  !.index = 0, !.length = Len(watchers[k]), !.attached = TRUE,
                                  !.array = <<>>, !.value = served[k]],
             cut' = cut \ {k}, served \in [Keys -> Nat]
      PROVE  WatchInv'
  <2>1. k \in Keys
    BY <1>1 DEF Turns
  <2>2. Len(watchers[k]) \in Nat /\ <<>> \in Seq(Watchers) /\ served[k] \in Nat
    BY <1>4, <2>1, PlacesOfWatchers, EmptySeq DEF WatchInv
  <2>3. /\ turn' \in Turns
        /\ turn'.updated = turn.updated \ {k} /\ turn'.removed = turn.removed \ {k}
        /\ turn'.key = k /\ turn'.index = 0 /\ turn'.length = Len(watchers[k]) /\ turn'.attached
        /\ turn'.array = <<>> /\ turn'.value = served[k]
    BY <1>1, <1>4, <2>1, <2>2 DEF Turns
  <2>4. \A p \in DOMAIN watchers[k] : 0 < p /\ p <= Len(watchers[k])
    BY <2>1, PlacesOfWatchers DEF WatchInv
  <2>5. ToldOrDue'
    BY <1>1, <1>2, <1>4, <2>3, <2>4 DEF ToldOrDue
  <2>6. RoundsAreOfTheirKey'
    BY <1>1, <2>1, <2>3 DEF RoundsAreOfTheirKey, WatchInv
  <2> QED
    BY <1>1, <2>3, <2>5, <2>6 DEF WatchInv, WatchTypes
<1> DEFINE due == IF turn.updated # {} THEN turn.updated ELSE turn.removed
<1>5. CASE due = {}
  BY <1>3, <1>5 DEF NextKey
<1>6. CASE due # {}
  <2>1. due \subseteq turn.updated \cup turn.removed /\ served \in [Keys -> Nat]
    BY DEF ValueInv, ValueTypes
  <2>2. PICK k \in due :
          /\ turn' = [turn EXCEPT !.updated = @ \ {k}, !.removed = @ \ {k}, !.key = k,
                                  !.index = 0, !.length = Len(watchers[k]), !.attached = TRUE,
                                  !.array = <<>>, !.value = served[k]]
          /\ cut' = cut \ {k}
    BY <1>6 DEF NextKey
  <2> QED
    BY <1>4, <2>1, <2>2
<1> QED
  BY <1>5, <1>6

\* A call tells a watcher of the round's key the value of the round; the others keep theirs.
LEMMA CallsKeepWatchers ==
  ASSUME ValueInv, WatchInv, CallWatcher
  PROVE  WatchInv'
<1> DEFINE place == turn.index + 1
<1>1. /\ HasNext /\ UNCHANGED <<served, watchers, cut>> /\ turn \in Turns
      /\ seen' = [seen EXCEPT ![Iterated[place]] = turn.value]
      /\ turn' = [turn EXCEPT !.at = "watching", !.index = @ + 1]
  BY DEF CallWatcher, WatchInv, WatchTypes
<1>2. /\ turn.index \in Nat /\ turn.length \in Nat /\ turn.length # 0
      /\ turn.key \in Keys /\ turn.value = served[turn.key] /\ turn.value \in Nat
  BY <1>1 DEF Turns, HasNext, WatchInv, RoundsAreOfTheirKey
<1>3. Iterated \in Seq(Watchers)
  BY <1>1, <1>2 DEF Iterated, Turns, WatchInv, WatchTypes
<1>4. place \in 1 .. Len(Iterated) /\ place \in DOMAIN Iterated
  BY <1>1, <1>2, <1>3, LenProperties DEF HasNext
<1>5. Iterated[place] \in Watchers /\ Watched[Iterated[place]] = turn.key
  BY <1>2, <1>3, <1>4, ElementOfSeq DEF Iterated, WatchInv, RoundsAreOfTheirKey
<1>6. /\ seen' \in [Watchers -> Nat] /\ seen'[Iterated[place]] = turn.value
      /\ \A w \in Watchers \ {Iterated[place]} : seen'[w] = seen[w]
  BY <1>1, <1>2, <1>5 DEF WatchInv, WatchTypes
<1>7. /\ turn' \in Turns /\ turn'.index = turn.index + 1
      /\ turn'.updated = turn.updated /\ turn'.removed = turn.removed /\ turn'.key = turn.key
      /\ turn'.length = turn.length /\ turn'.attached = turn.attached
      /\ turn'.array = turn.array /\ turn'.value = turn.value
  <2>1. turn.index + 1 \in Nat
    BY <1>2
  <2>2. turn' = [turn EXCEPT !.at = "watching", !.index = turn.index + 1]
    BY <1>1
  <2> QED
    BY <1>1, <2>1, <2>2 DEF Turns
<1>8. RoundsAreOfTheirKey'
  BY <1>1, <1>7 DEF RoundsAreOfTheirKey, WatchInv
<1>9. ToldOrDue'
  <2> SUFFICES ASSUME NEW k \in Keys \ cut, NEW p \in DOMAIN watchers[k]
               PROVE  \/ seen'[watchers[k][p]] = served[k]
                      \/ k \in turn.updated \cup turn.removed
                      \/ turn.attached /\ turn.key = k /\ turn.index + 1 < p /\ p <= turn.length
    BY <1>1, <1>7 DEF ToldOrDue
  <2>1. p \in Nat /\ watchers[k][p] \in Watchers /\ Watched[watchers[k][p]] = k
    BY PlacesOfWatchers DEF WatchInv, RoundsAreOfTheirKey
  <2>2. CASE watchers[k][p] = Iterated[place]
    BY <1>2, <1>5, <1>6, <2>1, <2>2
  <2>3. CASE watchers[k][p] # Iterated[place]
    <3>1. seen'[watchers[k][p]] = seen[watchers[k][p]]
      BY <1>6, <2>1, <2>3
    <3>2. turn.attached /\ turn.key = k => Iterated = watchers[k] /\ p # place
      BY <2>3 DEF Iterated
    <3>3. turn.index < p /\ p # place => turn.index + 1 < p
      BY <1>2, <2>1
    <3> QED
      BY <3>1, <3>2, <3>3 DEF WatchInv, ToldOrDue
  <2> QED
    BY <2>2, <2>3
<1> QED
  BY <1>1, <1>6, <1>7, <1>8, <1>9 DEF WatchInv, WatchTypes

LEMMA ReturnsKeepWatchers ==
  ASSUME WatchInv, CallbackReturns \/ CallbackThrows
  PROVE  WatchInv'
<1>1. turn \in Turns /\ UNCHANGED <<served, watchers, seen>>
  BY DEF CallbackReturns, CallbackThrows, watchVars, WatchInv, WatchTypes
<1>2. CASE CallbackReturns
  <2>1. /\ turn' \in Turns /\ turn'.index = turn.index /\ UNCHANGED cut
        /\ turn'.updated = turn.updated /\ turn'.removed = turn.removed /\ turn'.key = turn.key
        /\ turn'.length = turn.length /\ turn'.attached = turn.attached
        /\ turn'.array = turn.array /\ turn'.value = turn.value
    BY <1>1, <1>2 DEF CallbackReturns, Turns, watchVars
  <2>2. RoundsAreOfTheirKey' /\ ToldOrDue'
    BY <1>1, <2>1 DEF RoundsAreOfTheirKey, ToldOrDue, WatchInv
  <2> QED
    BY <1>1, <2>1, <2>2 DEF WatchInv, WatchTypes
<1>3. CASE CallbackThrows
  <2>1. /\ turn' = Idle
        /\ cut' = cut \cup turn.updated \cup turn.removed \cup ({turn.key} \cap Keys)
    BY <1>3 DEF CallbackThrows
  <2>2. turn' \in Turns
    BY <2>1, EmptySeq DEF Idle, Turns
  <2>3. ToldOrDue'
    BY <1>1, <2>1 DEF ToldOrDue, WatchInv
  <2>4. RoundsAreOfTheirKey'
    BY <1>1, <2>1 DEF RoundsAreOfTheirKey, Idle, WatchInv
  <2> QED
    BY <1>1, <2>2, <2>3, <2>4 DEF WatchInv, WatchTypes
<1> QED
  BY <1>2, <1>3

LEMMA WatchKeepsWatchers ==
  ASSUME ValueInv, WatchInv, NEW w \in Watchers, Watch(w)
  PROVE  WatchInv'
<1> DEFINE k == Watched[w]
<1>1. k \in Keys
  BY TestBoundsAssumption
<1>2. /\ UNCHANGED <<served, turn, cut>> /\ w \notin Range(watchers[k])
      /\ watchers' = [watchers EXCEPT ![k] = Append(watchers[k], w)]
      /\ seen' = [seen EXCEPT ![w] = served[k]]
  BY DEF Watch
<1>3. watchers[k] \in Seq(Watchers) /\ served[k] \in Nat
  BY <1>1 DEF WatchInv, WatchTypes, ValueInv, ValueTypes
<1> HIDE DEF k
<1>4. /\ Append(watchers[k], w) \in Seq(Watchers)
      /\ Len(Append(watchers[k], w)) = Len(watchers[k]) + 1
      /\ \A i \in 1 .. Len(watchers[k]) : Append(watchers[k], w)[i] = watchers[k][i]
      /\ Append(watchers[k], w)[Len(watchers[k]) + 1] = w
  BY <1>3, AppendProperties
<1>5. /\ watchers' \in [Keys -> Seq(Watchers)] /\ seen' \in [Watchers -> Nat]
      /\ seen'[w] = served[k] /\ \A v \in Watchers \ {w} : seen'[v] = seen[v]
      /\ \A j \in Keys \ {k} : watchers'[j] = watchers[j]
      /\ watchers'[k] = Append(watchers[k], w)
  BY <1>1, <1>2, <1>3, <1>4 DEF WatchInv, WatchTypes
<1>6. Watched[w] = k
  BY DEF k
\* A watcher is a new one, whose key is the one it watches, or has its old place.
<1>7. ASSUME NEW j \in Keys, NEW p \in DOMAIN watchers'[j]
      PROVE  \/ watchers'[j][p] = w /\ j = k
             \/ /\ p \in DOMAIN watchers[j] /\ watchers'[j][p] = watchers[j][p]
                /\ watchers[j][p] \in Watchers
  <2>1. CASE j = k
    <3>1. Len(watchers[k]) \in Nat /\ DOMAIN watchers[k] = 1 .. Len(watchers[k])
      BY <1>3, LenProperties
    <3>2. p \in 1 .. Len(watchers[k]) + 1
      BY <1>4, <1>5, <1>7, <2>1, LenProperties
    <3>3. CASE p = Len(watchers[k]) + 1
      BY <1>4, <1>5, <2>1, <3>3
    <3>4. CASE p # Len(watchers[k]) + 1
      <4>1. p \in 1 .. Len(watchers[k])
        BY <3>1, <3>2, <3>4
      <4> QED
        BY <1>3, <1>4, <1>5, <2>1, <3>1, <4>1, ElementOfSeq
    <3> QED
      BY <3>3, <3>4
  <2>2. CASE j # k
    BY <1>5, <1>7, <2>2, PlacesOfWatchers DEF WatchInv
  <2> QED
    BY <2>1, <2>2
<1>8. RoundsAreOfTheirKey'
  BY <1>2, <1>6, <1>7 DEF RoundsAreOfTheirKey, WatchInv
<1>9. ToldOrDue'
  <2> SUFFICES ASSUME NEW j \in Keys \ cut, NEW p \in DOMAIN watchers'[j]
               PROVE  \/ seen'[watchers'[j][p]] = served[j]
                      \/ j \in turn.updated \cup turn.removed
                      \/ turn.attached /\ turn.key = j /\ turn.index < p /\ p <= turn.length
    BY <1>2 DEF ToldOrDue
  <2>1. CASE watchers'[j][p] = w /\ j = k
    BY <1>5, <2>1
  <2>2. CASE /\ p \in DOMAIN watchers[j] /\ watchers'[j][p] = watchers[j][p]
             /\ watchers[j][p] \in Watchers
    <3>1. CASE watchers[j][p] = w
      <4>1. j = k
        BY <1>6, <2>2, <3>1 DEF WatchInv, RoundsAreOfTheirKey
      <4> QED
        BY <1>5, <2>2, <3>1, <4>1
    <3>2. CASE watchers[j][p] # w
      <4>1. seen'[watchers'[j][p]] = seen[watchers[j][p]]
        BY <1>5, <2>2, <3>2
      <4>2. \/ seen[watchers[j][p]] = served[j]
            \/ j \in turn.updated \cup turn.removed
            \/ turn.attached /\ turn.key = j /\ turn.index < p /\ p <= turn.length
        BY <2>2 DEF WatchInv, ToldOrDue
      <4> QED
        BY <4>1, <4>2
    <3> QED
      BY <3>1, <3>2
  <2> QED
    BY <1>7, <2>1, <2>2
<1> QED
  BY <1>2, <1>5, <1>8, <1>9 DEF WatchInv, WatchTypes

\* Removing a callback moves those behind it one place down.  None of them is missed by the
\* round unless its new place has been passed, which cut records.
LEMMA UnwatchKeepsWatchers ==
  ASSUME WatchInv, NEW w \in Watchers, Unwatch(w)
  PROVE  WatchInv'
<1> DEFINE k == Watched[w]
<1>1. k \in Keys
  BY TestBoundsAssumption
<1>2. PICK position \in DOMAIN watchers[k] :
        /\ watchers' = [watchers EXCEPT ![k] = RemoveAt(watchers[k], position)]
        /\ cut' = IF turn.attached /\ turn.key = k /\ position <= turn.index /\ HasNext
                     THEN cut \cup {k} ELSE cut
        /\ UNCHANGED <<turn, served, seen>>
  BY DEF Unwatch
<1>3. watchers[k] \in Seq(Watchers) /\ turn \in Turns
  BY <1>1 DEF WatchInv, WatchTypes
<1> HIDE DEF k
<1>4. /\ RemoveAt(watchers[k], position) \in Seq(Watchers)
      /\ DOMAIN RemoveAt(watchers[k], position) = 1 .. Len(watchers[k]) - 1
      /\ \A p \in 1 .. Len(watchers[k]) - 1 : RemoveAt(watchers[k], position)[p]
             = IF p < position THEN watchers[k][p] ELSE watchers[k][p + 1]
  BY <1>3, RemoveAtProperties
<1>5. /\ watchers' \in [Keys -> Seq(Watchers)]
      /\ \A j \in Keys \ {k} : watchers'[j] = watchers[j]
      /\ watchers'[k] = RemoveAt(watchers[k], position)
  BY <1>1, <1>2, <1>4 DEF WatchInv, WatchTypes
<1>6. Len(watchers[k]) \in Nat /\ DOMAIN watchers[k] = 1 .. Len(watchers[k])
  BY <1>3, LenProperties
<1>7. ASSUME NEW p \in DOMAIN watchers'[k]
      PROVE  \/ p < position /\ p \in DOMAIN watchers[k] /\ watchers'[k][p] = watchers[k][p]
             \/ /\ position <= p /\ p + 1 \in DOMAIN watchers[k]
                /\ watchers'[k][p] = watchers[k][p + 1]
  <2>1. p \in 1 .. Len(watchers[k]) - 1
    BY <1>4, <1>5
  <2> QED
    BY <1>4, <1>5, <1>6, <2>1
<1>8. RoundsAreOfTheirKey'
  <2>1. ASSUME NEW j \in Keys, NEW p \in DOMAIN watchers'[j] PROVE Watched[watchers'[j][p]] = j
    BY <1>5, <1>7, <2>1 DEF WatchInv, RoundsAreOfTheirKey
  <2> QED
    BY <1>2, <2>1 DEF WatchInv, RoundsAreOfTheirKey
<1>9. ToldOrDue'
  <2> SUFFICES ASSUME NEW j \in Keys \ cut', NEW p \in DOMAIN watchers'[j]
               PROVE  \/ seen[watchers'[j][p]] = served[j]
                      \/ j \in turn.updated \cup turn.removed
                      \/ turn.attached /\ turn.key = j /\ turn.index < p /\ p <= turn.length
    BY <1>2 DEF ToldOrDue
  <2>1. j \in Keys \ cut
    BY <1>2
  <2>2. CASE j # k
    BY <1>5, <2>1, <2>2 DEF WatchInv, ToldOrDue
  <2>3. CASE j = k
    <3>1. CASE p < position /\ p \in DOMAIN watchers[k] /\ watchers'[k][p] = watchers[k][p]
      BY <2>1, <2>3, <3>1 DEF WatchInv, ToldOrDue
    <3>2. CASE /\ position <= p /\ p + 1 \in DOMAIN watchers[k]
               /\ watchers'[k][p] = watchers[k][p + 1]
      <4>1. \/ seen[watchers[k][p + 1]] = served[k]
            \/ k \in turn.updated \cup turn.removed
            \/ turn.attached /\ turn.key = k /\ turn.index < p + 1 /\ p + 1 <= turn.length
        BY <2>1, <2>3, <3>2 DEF WatchInv, ToldOrDue
      <4>2. CASE turn.attached /\ turn.key = k /\ turn.index < p + 1 /\ p + 1 <= turn.length
        <5>1. turn.index \in Nat /\ turn.length \in Nat /\ p \in Nat /\ position \in Nat
          <6>1. p \in 1 .. Len(watchers[k]) - 1
            BY <1>4, <1>5, <2>3
          <6> QED
            BY <1>3, <1>6, <6>1 DEF Turns
        <5>2. p <= turn.length
          BY <4>2, <5>1
        <5>3. CASE turn.index < p
          BY <2>3, <4>2, <5>2, <5>3
        <5>4. CASE ~(turn.index < p)
          <6>1. turn.index = p /\ position <= turn.index
            BY <3>2, <4>2, <5>1, <5>4
          <6>2. turn.index < turn.length /\ turn.index < Len(watchers[k])
            BY <1>6, <3>2, <4>2, <5>1, <6>1
          <6>3. HasNext
            BY <4>2, <6>2 DEF HasNext, Iterated
          <6> QED
            BY <1>2, <2>3, <4>2, <6>1, <6>3
        <5> QED
          BY <5>3, <5>4
      <4> QED
        BY <2>3, <3>2, <4>1, <4>2
    <3> QED
      BY <1>7, <2>3, <3>1, <3>2
  <2> QED
    BY <2>2, <2>3
<1> QED
  BY <1>2, <1>3, <1>5, <1>8, <1>9 DEF WatchInv, WatchTypes

\* unwatch without a callback, and unwatchAll, leave nobody to tell; the round that
\* unwatchAll interrupts goes on in the array the map held.
LEMMA ClearingKeepsWatchers ==
  ASSUME WatchInv, UnwatchAll \/ \E k \in Keys : UnwatchKey(k)
  PROVE  WatchInv'
<1>1. ASSUME NEW k \in Keys, UnwatchKey(k) PROVE WatchInv'
  <2>1. watchers' = [watchers EXCEPT ![k] = <<>>] /\ UNCHANGED <<turn, served, seen, cut>>
    BY <1>1 DEF UnwatchKey
  <2>2. /\ watchers' \in [Keys -> Seq(Watchers)] /\ watchers'[k] = <<>>
        /\ \A j \in Keys \ {k} : watchers'[j] = watchers[j]
    BY <2>1, EmptySeq DEF WatchInv, WatchTypes
  <2>3. RoundsAreOfTheirKey'
    BY <2>1, <2>2 DEF WatchInv, RoundsAreOfTheirKey
  <2>4. ToldOrDue'
    BY <2>1, <2>2 DEF WatchInv, ToldOrDue
  <2> QED
    BY <2>1, <2>2, <2>3, <2>4 DEF WatchInv, WatchTypes
<1>2. CASE UnwatchAll
  <2>1. /\ watchers' = [k \in Keys |-> <<>>] /\ UNCHANGED <<served, seen, cut>>
        /\ turn' = IF turn.attached THEN [turn EXCEPT !.array = Iterated, !.attached = FALSE] ELSE turn
    BY <1>2 DEF UnwatchAll
  <2>2. watchers' \in [Keys -> Seq(Watchers)] /\ \A k \in Keys : DOMAIN watchers'[k] = {}
    BY <2>1, EmptySeq
  <2>3. turn \in Turns
    BY DEF WatchInv, WatchTypes
  <2>4. CASE turn.attached
    <3>1. Iterated = watchers[turn.key] /\ turn.key \in Keys
      BY <2>4 DEF Iterated, WatchInv, RoundsAreOfTheirKey
    <3>2. Iterated \in Seq(Watchers) /\ \A p \in DOMAIN Iterated : Watched[Iterated[p]] = turn.key
      BY <3>1 DEF WatchInv, WatchTypes, RoundsAreOfTheirKey
    <3>3. /\ turn' \in Turns /\ turn'.array = Iterated /\ ~turn'.attached
          /\ turn'.key = turn.key /\ turn'.length = turn.length /\ turn'.value = turn.value
      BY <2>1, <2>3, <2>4, <3>2 DEF Turns
    <3>4. RoundsAreOfTheirKey'
      BY <2>1, <2>2, <3>2, <3>3 DEF WatchInv, RoundsAreOfTheirKey
    <3> QED
      BY <2>1, <2>2, <3>3, <3>4 DEF WatchInv, WatchTypes, ToldOrDue
  <2>5. CASE ~turn.attached
    <3>1. RoundsAreOfTheirKey'
      BY <2>1, <2>2, <2>5 DEF WatchInv, RoundsAreOfTheirKey
    <3> QED
      BY <2>1, <2>2, <2>3, <2>5, <3>1 DEF WatchInv, WatchTypes, ToldOrDue
  <2> QED
    BY <2>4, <2>5
<1> QED
  BY <1>1, <1>2

LEMMA WatchStep == ValueInv /\ WatchInv /\ [Next]_vars => WatchInv'
<1> SUFFICES ASSUME ValueInv, WatchInv, [Next]_vars PROVE WatchInv'
  OBVIOUS
<1>1. ASSUME NEW k \in Keys, SetValue(k) \/ RemoveValue(k) PROVE WatchInv'
  BY <1>1, UnchangedWatchers DEF SetValue, RemoveValue
<1>2. ASSUME NEW kept \in SUBSET Keys, ReplaceValues(kept) PROVE WatchInv'
  BY <1>2, UnchangedWatchers DEF ReplaceValues
<1>3. ASSUME NEW attempt \in {"initialize", "updateContext"},
             Hold(attempt) \/ Complete(attempt) \/ Fail(attempt)
      PROVE  WatchInv'
  BY <1>3, UnchangedWatchers DEF Hold, Complete, Fail
<1>4. ASSUME NEW attempt \in {"initialize", "updateContext", "resume"}, Connect(attempt)
      PROVE  WatchInv'
  BY <1>4, UnchangedWatchers DEF Connect
<1>5. CASE Close \/ HoldTimer
  BY <1>5, UnchangedWatchers DEF Close, HoldTimer
<1>6. ASSUME NEW g \in 1 .. MaxCalls, FirstDelivery(g) PROVE WatchInv'
  BY <1>6, UnchangedWatchers DEF FirstDelivery
<1>7. CASE DeliverNext \/ NextKey \/ CallWatcher
  BY <1>7, ServingKeepsWatchers, NextKeyKeepsWatchers, CallsKeepWatchers
<1>8. CASE CallbackReturns \/ CallbackThrows
  BY <1>8, ReturnsKeepWatchers
<1>9. ASSUME NEW w \in Watchers, Watch(w) \/ Unwatch(w) PROVE WatchInv'
  BY <1>9, WatchKeepsWatchers, UnwatchKeepsWatchers
<1>10. CASE UnwatchAll \/ \E k \in Keys : UnwatchKey(k)
  BY <1>10, ClearingKeepsWatchers
<1>11. CASE UNCHANGED vars
  BY <1>11, UnchangedWatchers DEF vars
<1> QED
  BY <1>1, <1>2, <1>3, <1>4, <1>5, <1>6, <1>7, <1>8, <1>9, <1>10, <1>11 DEF Next

\* Whatever the callbacks do to the connection and to the watchers while updates are
\* delivered, in the end every watcher of a key whose round was not cut short was last told
\* the value stored for it.  (InMemoryConnection.deliver, updateWatchersForConfig)
THEOREM WatchersAreAlwaysTold == Spec => []WatchersAreTold
<1>1. ValueInv /\ WatchInv => WatchersAreTold
  <2> SUFFICES ASSUME ValueInv, WatchInv, connected, turn = Idle, pending = <<>>,
                      NEW k \in Keys \ cut, NEW w \in Range(watchers[k])
               PROVE  seen[w] = stored[k]
    BY DEF WatchersAreTold, Delivered, Settled
  <2>1. served[k] = stored[k]
    BY DEF ValueInv, QueueEndsAtStored
  <2>2. PICK p \in DOMAIN watchers[k] : w = watchers[k][p]
    BY RangeOfPlaces
  <2>3. turn.updated = {} /\ turn.removed = {} /\ ~turn.attached
    BY DEF Idle
  <2> QED
    BY <2>1, <2>2, <2>3 DEF WatchInv, ToldOrDue
<1> QED
  BY <1>1, InitValues, InitWatchers, ValueStep, WatchStep, PTL DEF Spec
=============================================================================
