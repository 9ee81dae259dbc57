--------------------------- MODULE ClientSession ---------------------------
(***************************************************************************)
(* resolveClientSession: the instance id of a launch, read from a storage  *)
(* that may be slow or fail, or generated and written there.  The launch   *)
(* goes on with whichever comes first, the storage or a deadline; a write  *)
(* that is under way when the deadline passes is not called back.          *)
(*                                                                         *)
(* Each launch generates one id, which is its number; 0 is an id that an   *)
(* earlier installation of the application stored.  A record that is       *)
(* absent, damaged, of another version or with a wrong checksum is no id.  *)
(* Only one client uses the storage: two tabs that start at once are not   *)
(* modelled.  Without a storage the session settles as after a failed      *)
(* read.                                                                   *)
(***************************************************************************)
EXTENDS Integers

CONSTANT MaxLaunches  \* bound: launches in a behaviour

ASSUME LaunchesAssumption == MaxLaunches \in Nat \ {0}

NoInstance == -1
Instances == 0 .. MaxLaunches

VARIABLES
    storedId,    \* the id the storage holds, NoInstance if nothing usable
    launch,
    storageCall, \* of settleFromStorage: getItem, setItem, or none any more
    instance,    \* the session's instance id, once it is settled
    ephemeral    \* ClientSession.ephemeral

idVars == <<storedId, storageCall, instance, ephemeral>>

SessionTypeOK ==
    /\ storedId \in Instances \cup {NoInstance}
    /\ launch \in 1 .. MaxLaunches
    /\ storageCall \in {"getItem", "setItem", "over"}
    /\ instance \in Instances \cup {NoInstance}
    /\ ephemeral \in BOOLEAN

SessionInit ==
    /\ storedId \in {0, NoInstance}
    /\ launch = 1
    /\ storageCall = "getItem" /\ instance = NoInstance /\ ephemeral = FALSE

\* The next launch starts from what the storage holds; a call in flight is lost.
NextLaunch ==
    /\ launch < MaxLaunches
    /\ launch' = launch + 1
    /\ storageCall' = "getItem" /\ instance' = NoInstance /\ ephemeral' = FALSE
    /\ UNCHANGED storedId

Settled == instance # NoInstance

\* Promise.race: what comes second changes nothing.
Settle(id, asEphemeral) ==
    IF Settled THEN UNCHANGED <<instance, ephemeral>>
    ELSE instance' = id /\ ephemeral' = asEphemeral

\* As long as the storage has not answered, only the deadline can have settled the session.
DeadlinePassed == Settled

GetItemFails ==
    /\ storageCall = "getItem"
    /\ storageCall' = "over"
    /\ Settle(launch, TRUE)
    /\ UNCHANGED <<storedId, launch>>

GetItemFindsId ==
    /\ storageCall = "getItem" /\ storedId # NoInstance
    /\ storageCall' = "over"
    /\ Settle(storedId, FALSE)
    /\ UNCHANGED <<storedId, launch>>

PersistWithoutDeadline ==
    /\ storageCall = "getItem" /\ storedId = NoInstance
    /\ storageCall' = "setItem"
    /\ UNCHANGED <<storedId, launch, instance, ephemeral>>

\* Nothing usable is stored: the generated id is written unless the deadline has passed.
GetItemFindsNothing ==
    /\ storageCall = "getItem" /\ storedId = NoInstance
    /\ storageCall' = IF DeadlinePassed THEN "over" ELSE "setItem"
    /\ UNCHANGED <<storedId, launch, instance, ephemeral>>

SetItemAlwaysPersists(written) ==
    /\ storageCall = "setItem"
    /\ storageCall' = "over"
    /\ storedId' = IF written THEN launch ELSE storedId
    /\ Settle(launch, FALSE)
    /\ UNCHANGED launch

\* A write that fails leaves the storage as it was.
SetItemSettles(written) ==
    /\ storageCall = "setItem"
    /\ storageCall' = "over"
    /\ storedId' = IF written THEN launch ELSE storedId
    /\ Settle(launch, ~written)
    /\ UNCHANGED launch

\* finally clears the timer of a session that is settled.
DeadlinePasses ==
    /\ ~Settled
    /\ Settle(launch, TRUE)
    /\ UNCHANGED <<storedId, launch, storageCall>>

SessionStep ==
    \/ GetItemFails \/ GetItemFindsId \/ GetItemFindsNothing
    \/ \E written \in BOOLEAN : SetItemSettles(written)
    \/ DeadlinePasses

----------------------------------------------------------------------------
(* Properties.                                                             *)

\* A session that is not ephemeral has the id that the storage holds, so that the next
\* launch whose storage answers is the same instance.
PersistentIsStored == Settled /\ ~ephemeral => storedId = instance

\* An id once stored is never replaced, and a session that settled while nothing was being
\* written writes nothing afterwards, however late its read returns: an ephemeral id does
\* not turn up in a later launch.  A write under way when the deadline passes is the
\* exception the code makes (client-session.ts 132-137).
StoredIdStays ==
    /\ storedId # NoInstance => storedId' = storedId
    /\ Settled /\ storageCall # "setItem" => storedId' = storedId /\ storageCall' # "setItem"

\* Whatever the storage and the deadline do over several launches: no step stores another
\* id, or leaves a session that passes for stored without its id in the storage.
InstanceIdsAreKept == [][StoredIdStays /\ PersistentIsStored']_<<launch, idVars>>
============================================================================
