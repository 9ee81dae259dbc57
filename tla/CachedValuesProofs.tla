-------------------------- MODULE CachedValuesProofs -------------------------
(***************************************************************************)
(* What TLAPS proves of CachedValues, for any number of launches, config   *)
(* sets and contexts, and a provider of any speed: older values never      *)
(* replace newer ones, a device at rest holds the newest, and the instance *)
(* ids are kept.                                                           *)
(***************************************************************************)
EXTENDS CachedValues, TLAPS

\* Values that came with one of the config sets received.
Received(values) == values.n \in 1 .. received

OriginsHold ==
    /\ launch \in Nat /\ received \in Nat
    /\ device.kind = "stored" => Received(device.values)
    /\ found.kind = "stored" => Received(found.values)
    /\ \A w \in writes : Received(w)
    /\ queued # NoValues => Received(queued)

\* What is served for the first time is newer than nothing, and is adopted once.
ServedHold ==
    /\ served.from \in {"nothing", "device", "live"}
    /\ served.from = "nothing" => served.values.n = 0
    /\ served.from # "nothing" => Received(served.values)
    /\ adoption \in {"idle", "waiting"} => served.from # "device"

\* One write at a time, and each is newer than what it replaces: the entry on the device,
\* the write before it.
WritesInOrder ==
    /\ \A v, w \in writes : v = w
    /\ writes = {} => queued = NoValues
    /\ \A w \in writes :
          /\ device.kind = "stored" => device.values.n < w.n
          /\ queued # NoValues => w.n < queued.n

\* The live values are on their way to the device, or were the last to be written.
LiveValuesKept ==
    served.from = "live" =>
        IF writes = {}
        THEN failed \/ device = Stored(served.values) \/ (device = Nothing /\ removed)
        ELSE IF queued = NoValues THEN writes = {served.values} ELSE queued = served.values

StoreInv == OriginsHold /\ ServedHold /\ WritesInOrder /\ LiveValuesKept

LEMMA InitStore == Init => StoreInv
  BY DEF Init, SessionInit, StoreInv, OriginsHold, ServedHold, WritesInOrder, LiveValuesKept,
         Nothing, Unreadable, NothingServed, NoValues

LEMMA RelaunchKeepsStore == StoreInv /\ Relaunch => StoreInv'
  BY DEF Relaunch, NextLaunch, StoreInv, OriginsHold, ServedHold, WritesInOrder, LiveValuesKept, Received,
         deviceVars, Nothing, NothingServed, NoValues

\* Steps that leave the device, what is written to it and the config set alone.
LEMMA ClientKeepsStore ==
  ASSUME StoreInv,
         UNCHANGED <<launch, served, received, writes, queued, deviceVars>>,
         found' = found \/ found' = device \/ found' = Nothing,
         adoption' = adoption \/ (adoption = "idle" /\ adoption' = "waiting")
  PROVE  StoreInv'
  BY DEF StoreInv, OriginsHold, ServedHold, WritesInOrder, LiveValuesKept, Received, deviceVars,
         Nothing

LEMMA AdoptionKeepsStore == StoreInv /\ AdoptCachedValues => StoreInv'
<1> SUFFICES ASSUME StoreInv, AdoptCachedValues PROVE StoreInv'
  OBVIOUS
<1>1. \/ served' = served
      \/ /\ served' = [from |-> "device", values |-> found.values]
         /\ found.kind = "stored"
  BY DEF AdoptCachedValues, Adoptable
<1> QED
  BY <1>1
  DEF AdoptCachedValues, StoreInv, OriginsHold, ServedHold, WritesInOrder, LiveValuesKept,
      Received, deviceVars, storeVars, sessionVars

\* A set that arrives is newer than whatever the device, a write or the queue holds.
LEMMA ConfigSetKeepsStore ==
  ASSUME StoreInv, NEW context, ConfigSetReceived(context)
  PROVE  StoreInv'
<1> DEFINE values == [n |-> received + 1, for |-> context, tag |-> TagFor(submitted, instance)]
<1>1. /\ served' = [from |-> "live", values |-> values]
      /\ received' = received + 1
      /\ UNCHANGED <<launch, adoption, found, device, removed, failed>>
      /\ \/ writes = {} /\ writes' = {values} /\ queued' = queued
         \/ writes # {} /\ queued' = values /\ writes' = writes
  BY DEF ConfigSetReceived, Replace, deviceVars, sessionVars
<1>2. values.n = received + 1 /\ received \in Nat /\ values # NoValues
  BY DEF StoreInv, OriginsHold, NoValues
<1> HIDE DEF values
<1>3. OriginsHold'
  BY <1>1, <1>2 DEF StoreInv, OriginsHold, Received
<1>4. ServedHold'
  BY <1>1, <1>2 DEF StoreInv, ServedHold, Received
<1>5. WritesInOrder'
  BY <1>1, <1>2 DEF StoreInv, OriginsHold, WritesInOrder, Received
<1>6. LiveValuesKept'
  BY <1>1, <1>2 DEF StoreInv, WritesInOrder, LiveValuesKept
<1> QED
  BY <1>3, <1>4, <1>5, <1>6 DEF StoreInv

LEMMA RemovalKeepsStore == StoreInv /\ RemovalSettles => StoreInv'
<1> SUFFICES ASSUME StoreInv, RemovalSettles PROVE StoreInv'
  OBVIOUS
<1>1. Remove \/ UNCHANGED deviceVars
  BY DEF RemovalSettles
<1> QED
  BY <1>1
  DEF RemovalSettles, Remove, StoreInv, OriginsHold, ServedHold, WritesInOrder, LiveValuesKept,
      Received, deviceVars, sessionVars, Nothing

\* A write that ends has stored its values, removed the entry or failed; the queued values,
\* which are newer, are next.
LEMMA WriteKeepsStore ==
  ASSUME StoreInv, NEW w \in writes, WriteSettles(w)
  PROVE  StoreInv'
<1>1. /\ writes' = IF queued = NoValues THEN {} ELSE {queued}
      /\ queued' = NoValues
      /\ UNCHANGED <<launch, served, received, adoption, found>>
  BY DEF WriteSettles, WriteNext, StoreInv, WritesInOrder, sessionVars
<1>2. \/ device' = Stored(w) /\ ~failed'
      \/ device' = Nothing /\ removed' /\ ~failed'
      \/ device' = device /\ failed'
  BY DEF WriteSettles, Fail, TooLarge, Remove
<1>3. OriginsHold'
  BY <1>1, <1>2 DEF StoreInv, OriginsHold, Received, Stored, Nothing
<1>4. ServedHold'
  BY <1>1 DEF StoreInv, ServedHold, Received
<1>5. WritesInOrder'
  <2>1. CASE queued = NoValues
    BY <1>1, <2>1 DEF WritesInOrder
  <2>2. CASE queued # NoValues
    <3>1. writes' = {queued} /\ w.n < queued.n /\ (device.kind = "stored" => device.values.n < w.n)
      BY <1>1, <2>2 DEF StoreInv, WritesInOrder
    <3>2. w.n \in Nat /\ queued.n \in Nat /\ (device.kind = "stored" => device.values.n \in Nat)
      BY <2>2 DEF StoreInv, OriginsHold, Received
    <3>3. device'.kind = "stored" => device'.values.n < queued.n
      BY <1>2, <3>1, <3>2 DEF Stored, Nothing
    <3> QED
      BY <1>1, <3>1, <3>3 DEF WritesInOrder
  <2> QED
    BY <2>1, <2>2
<1>6. LiveValuesKept'
  BY <1>1, <1>2 DEF StoreInv, WritesInOrder, LiveValuesKept
<1> QED
  BY <1>3, <1>4, <1>5, <1>6 DEF StoreInv

LEMMA SessionKeepsLaunch == SessionStep => launch' = launch
  BY DEF SessionStep, GetItemFails, GetItemFindsId, GetItemFindsNothing, SetItemSettles,
         DeadlinePasses

LEMMA StoreStep == StoreInv /\ [Next]_vars => StoreInv'
<1> SUFFICES ASSUME StoreInv, [Next]_vars PROVE StoreInv'
  OBVIOUS
<1>1. CASE Relaunch
  BY <1>1, RelaunchKeepsStore
<1>2. CASE SessionGoesOn
  BY <1>2, SessionKeepsLaunch, ClientKeepsStore DEF SessionGoesOn, storeVars
<1>3. CASE AdoptCachedValues
  BY <1>3, AdoptionKeepsStore
<1>4. ASSUME NEW context \in Submittable, NEW initialization \in BOOLEAN,
             Submit(context, initialization)
      PROVE  StoreInv'
  BY <1>4, ClientKeepsStore DEF Submit, storeVars, sessionVars
<1>5. ASSUME NEW context \in known, ConfigSetReceived(context) PROVE StoreInv'
  BY <1>5, ConfigSetKeepsStore
<1>6. CASE ReadCaptures \/ ReadReturns
  BY <1>6, ClientKeepsStore DEF ReadCaptures, ReadReturns, sessionVars
<1>7. CASE RemovalSettles
  BY <1>7, RemovalKeepsStore
<1>8. ASSUME NEW w \in writes, WriteSettles(w) PROVE StoreInv'
  BY <1>8, WriteKeepsStore
<1>9. CASE UNCHANGED vars
  BY <1>9, ClientKeepsStore DEF vars, storeVars, sessionVars
<1> QED
  BY <1>1, <1>2, <1>3, <1>4, <1>5, <1>6, <1>7, <1>8, <1>9 DEF Next

LEMMA StoreHolds == Spec => []StoreInv
  BY InitStore, StoreStep, PTL DEF Spec

\* Whatever is in flight when values arrive or a launch ends, a device whose store is at
\* rest holds the newest values received, no values, or those its provider failed to replace.
THEOREM DeviceIsAlwaysUpToDate == Spec => []DeviceIsUpToDate
<1>1. StoreInv => DeviceIsUpToDate
  BY DEF StoreInv, LiveValuesKept, DeviceIsUpToDate
<1> QED
  BY <1>1, StoreHolds, PTL

\* Neither a slow read nor a slow write puts older values over newer ones, in the client
\* and on the device, over all launches.
THEOREM ValuesAlwaysGetNewer == Spec => ValuesOnlyGetNewer
<1>1. ASSUME StoreInv, Next, launch' = launch PROVE served'.values.n >= served.values.n
  <2>0. served.values.n \in Nat /\ received \in Nat
    BY <1>1 DEF StoreInv, OriginsHold, ServedHold, Received
  <2>1. CASE served' = served
    BY <2>0, <2>1
  <2>2. CASE AdoptCachedValues
    <3>1. Adoptable => served.from = "nothing" /\ found.values.n \in Nat
      BY <1>1, <2>2 DEF AdoptCachedValues, Adoptable, StoreInv, OriginsHold, ServedHold, Received
    <3> QED
      BY <1>1, <2>0, <2>2, <3>1 DEF AdoptCachedValues, StoreInv, ServedHold
  <2>3. ASSUME NEW context \in known, ConfigSetReceived(context)
        PROVE  served'.values.n >= served.values.n
    BY <1>1, <2>0, <2>3 DEF ConfigSetReceived, StoreInv, ServedHold, Received
  <2> QED
    BY <1>1, <2>1, <2>2, <2>3
    DEF StoreInv, OriginsHold, Next, Relaunch, NextLaunch, SessionGoesOn, Submit, ReadCaptures,
        ReadReturns, RemovalSettles, WriteSettles
<1>2. ASSUME StoreInv, Next, device.kind = "stored", device'.kind = "stored"
      PROVE  device'.values.n >= device.values.n
  <2>0. device.values.n \in Nat
    BY <1>2 DEF StoreInv, OriginsHold, Received
  <2>1. CASE device' = device
    BY <2>0, <2>1
  <2>2. ASSUME NEW w \in writes, WriteSettles(w) PROVE device'.values.n >= device.values.n
    <3>1. device.values.n < w.n /\ w.n \in Nat
      BY <1>2 DEF StoreInv, OriginsHold, WritesInOrder, Received
    <3>2. device' = Stored(w) \/ device' = Nothing \/ device' = device
      BY <2>2 DEF WriteSettles, Fail, TooLarge, Remove
    <3> QED
      BY <1>2, <2>0, <3>1, <3>2 DEF Stored, Nothing
  <2>3. CASE RemovalSettles
    BY <1>2, <2>1, <2>3 DEF RemovalSettles, Remove, Nothing, deviceVars
  <2> QED
    BY <1>2, <2>1, <2>2, <2>3
    DEF Next, Relaunch, SessionGoesOn, Submit, AdoptCachedValues, ConfigSetReceived,
        ReadCaptures, ReadReturns, deviceVars
<1>3. StoreInv /\ [Next]_vars => [launch' = launch => served'.values.n >= served.values.n]_<<served, launch>>
  BY <1>1 DEF vars, sessionVars
<1>4. StoreInv /\ [Next]_vars
        => [device.kind = "stored" /\ device'.kind = "stored"
              => device'.values.n >= device.values.n]_device
  BY <1>2 DEF vars, deviceVars
<1> QED
  BY <1>3, <1>4, StoreHolds, PTL DEF Spec, ValuesOnlyGetNewer, ServedValuesAdvance, KeptInOrder

-----------------------------------------------------------------------------
(* The instance id.                                                        *)

\* An id is written only where none is stored, and the storage of a launch with a
\* persistent id has nothing left to do.
SessionInv ==
    /\ launch \in Nat /\ (storedId = NoInstance \/ storedId \in Nat)
    /\ storageCall = "setItem" => storedId = NoInstance
    /\ Settled /\ ~ephemeral => storedId = instance /\ storageCall = "over"

\* What a step of the session does to the stored id.
LEMMA SessionStepKeeps ==
  ASSUME SessionInv, SessionStep
  PROVE  /\ SessionInv'
         /\ StoredIdStays
<1> USE DEF SessionInv, StoredIdStays, Settled, NoInstance
<1>1. CASE GetItemFails
  BY <1>1 DEF GetItemFails, Settle
<1>2. CASE GetItemFindsId
  BY <1>2 DEF GetItemFindsId, Settle
<1>3. CASE GetItemFindsNothing
  BY <1>3 DEF GetItemFindsNothing, DeadlinePassed
<1>4. ASSUME NEW written \in BOOLEAN, SetItemSettles(written)
      PROVE  /\ SessionInv'
             /\ storedId = NoInstance /\ storageCall = "setItem"
  BY <1>4 DEF SetItemSettles, Settle
<1>5. CASE DeadlinePasses
  BY <1>5 DEF DeadlinePasses, Settle
<1> QED
  BY <1>1, <1>2, <1>3, <1>4, <1>5 DEF SessionStep

LEMMA RelaunchKeepsSession == SessionInv /\ Relaunch => SessionInv' /\ storedId' = storedId
  BY DEF Relaunch, NextLaunch, SessionInv, Settled, NoInstance

\* Every other step leaves the session alone.
LEMMA OtherStepsLeaveSession == Next => Relaunch \/ SessionStep \/ UNCHANGED sessionVars
  BY DEF Next, SessionGoesOn, AdoptCachedValues, Submit, ConfigSetReceived, ReadCaptures,
         ReadReturns, RemovalSettles, WriteSettles

\* A session that is not ephemeral has the stored id, no stored id is ever replaced, and an
\* ephemeral one is stored only by a write that was under way when the deadline passed.
THEOREM InstanceIdsAlwaysKept == Spec => InstanceIdsAreKept
<1>1. Init => SessionInv
  BY LaunchesAssumption DEF Init, SessionInit, SessionInv, Settled, NoInstance
<1>2. ASSUME SessionInv, UNCHANGED sessionVars PROVE SessionInv'
  BY <1>2 DEF SessionInv, Settled, sessionVars, idVars
<1>3. SessionInv /\ [Next]_vars => SessionInv'
  BY <1>2, OtherStepsLeaveSession, RelaunchKeepsSession, SessionStepKeeps DEF vars
<1>4. SessionInv /\ [Next]_vars => [StoredIdStays /\ PersistentIsStored']_<<launch, idVars>>
  <2>1. ASSUME SessionInv, Relaunch PROVE StoredIdStays
    BY <2>1, RelaunchKeepsSession DEF Relaunch, NextLaunch, StoredIdStays
  <2>2. ASSUME SessionInv, SessionInv' PROVE PersistentIsStored'
    BY <2>2 DEF SessionInv, PersistentIsStored, Settled
  <2> QED
    BY <1>3, <2>1, <2>2, OtherStepsLeaveSession, SessionStepKeeps DEF vars, sessionVars
<1> QED
  BY <1>1, <1>3, <1>4, PTL DEF Spec, InstanceIdsAreKept
=============================================================================
