---------------------------- MODULE CachedValues ----------------------------
(***************************************************************************)
(* The values a client keeps on the device between launches: the           *)
(* CachedValuesStore over an asynchronous CachingProvider, and the part of *)
(* DefaultConfigDirectorClient that adopts a stored entry at startup and   *)
(* replaces it whenever a config set arrives, with the client session,     *)
(* whose instance id tells anonymous users apart.  Only the device, with   *)
(* the stored id, survives a relaunch.                                     *)
(*                                                                         *)
(* Config sets are numbered in the order they arrive, over all launches; a *)
(* delta stands for the merged set it results in.  The transport is        *)
(* abstract: it may still deliver a set fetched for a context submitted    *)
(* earlier in the launch (a first fetch of PollingClient that is still in  *)
(* flight, the rest of a chunk of StreamingClient).                        *)
(***************************************************************************)
EXTENDS ClientSession, FiniteSets

CONSTANTS
    Contexts,    \* contexts with an id
    NoContext,   \* a context without one: an anonymous user
    MaxSets      \* bound: config sets received in a behaviour

ASSUME BoundsAssumption == MaxSets \in Nat
ASSUME NoContextAssumption == NoContext \notin Contexts

Submittable == Contexts \cup {NoContext}

\* contextTagFor: the instance id identifies a user only when the context does not.
TagFor(context, id) ==
    [context |-> context, instance |-> IF context = NoContext THEN id ELSE 0]
Tags == [context : Submittable, instance : Instances]

\* n: the config set; for: the context it was evaluated for; tag: the one it is kept under.
Values == [n : 0 .. MaxSets, for : Submittable, tag : Tags]
NoValues == [n |-> 0, for |-> NoContext, tag |-> TagFor(NoContext, 0)]

\* What a read can find.  An entry of the first format, or written for another SDK key,
\* is unreadable like a damaged one: all of them are removed.
Nothing == [kind |-> "nothing", values |-> NoValues]
Unreadable == [kind |-> "unreadable", values |-> NoValues]
Stored(values) == [kind |-> "stored", values |-> values]
Entries == [kind : {"nothing", "unreadable", "stored"}, values : Values]

VARIABLES
    device,     \* the provider's entry
    submitted,  \* submittedContext
    read,       \* how far the one read of the launch has got
    found,      \* the entry it found
    adoption,   \* adoptCachedValues: not started, awaiting the read, done
    served,     \* the config set: where from, and which
    writes,     \* provider calls of writeQueued in flight
    queued,     \* queuedCachedValues
    received,   \* config sets received so far
    known,      \* history: contexts submitted in this launch
    removed, failed  \* history: the last effect on the device was a removal, or failed

storeVars == <<read, found, writes, queued>>
deviceVars == <<device, removed, failed>>
sessionVars == <<launch, idVars>>
vars == <<storeVars, deviceVars, sessionVars, submitted, adoption, served, received, known>>

NothingServed == [from |-> "nothing", values |-> NoValues]

TypeOK ==
    /\ device \in Entries /\ found \in Entries
    /\ SessionTypeOK
    /\ submitted \in Submittable /\ known \subseteq Submittable
    /\ read \in {"asked", "captured", "removing", "done"}
    /\ adoption \in {"idle", "waiting", "done"}
    /\ served \in [from : {"nothing", "device", "live"}, values : Values]
    /\ writes \subseteq Values /\ Cardinality(writes) <= 1
    /\ queued \in Values
    /\ received \in 0 .. MaxSets
    /\ removed \in BOOLEAN /\ failed \in BOOLEAN

\* The constructor of the client starts the read.
Init ==
    /\ device \in {Nothing, Unreadable} /\ removed = FALSE /\ failed = FALSE
    /\ SessionInit
    /\ submitted = NoContext /\ known = {}
    /\ read = "asked" /\ found = Nothing
    /\ adoption = "idle" /\ served = NothingServed
    /\ writes = {} /\ queued = NoValues
    /\ received = 0

\* The application ends, whatever is in flight, and starts again.
Relaunch ==
    /\ NextLaunch
    /\ submitted' = NoContext /\ known' = {}
    /\ read' = "asked" /\ found' = Nothing
    /\ adoption' = "idle" /\ served' = NothingServed
    /\ writes' = {} /\ queued' = NoValues
    /\ UNCHANGED <<deviceVars, received>>

----------------------------------------------------------------------------
(* The client.                                                             *)

\* The constructor starts resolving the session; adoption and transports wait for it.
SessionGoesOn ==
    /\ SessionStep
    /\ UNCHANGED <<submitted, known, adoption, served, received, storeVars, deviceVars>>

\* initialize starts the adoption, once; updateContext and resumeNetwork do not.
Submit(context, initialization) ==
    /\ submitted' = context
    /\ known' = known \cup {context}
    /\ adoption' = IF initialization /\ adoption = "idle" THEN "waiting" ELSE adoption
    /\ UNCHANGED <<served, received, storeVars, deviceVars, sessionVars>>

AdoptableBySlowRead ==
    /\ found.kind = "stored"
    /\ found.values.tag = TagFor(submitted, instance)

\* decideCachedValuesAdoption: an entry of this very user, and no live values yet.
Adoptable ==
    /\ found.kind = "stored"
    /\ served.from # "live"
    /\ found.values.tag = TagFor(submitted, instance)

\* adoptCachedValues past its awaits.  The context compared is the one submitted by now.
AdoptCachedValues ==
    /\ adoption = "waiting" /\ read = "done"
    /\ found.kind = "stored" => instance # NoInstance
    /\ adoption' = "done"
    /\ served' = IF Adoptable THEN [from |-> "device", values |-> found.values] ELSE served
    /\ UNCHANGED <<submitted, received, known, storeVars, deviceVars, sessionVars>>

ReplaceAtOnce(values) == writes' = writes \cup {values} /\ UNCHANGED queued

\* CachedValuesStore.replace: one write at a time, the newest values wait for it.
Replace(values) ==
    IF writes = {}
    THEN writes' = {values} /\ UNCHANGED queued
    ELSE queued' = values /\ UNCHANGED writes

\* The "configSetReceived" handler.  The values are kept under the context submitted last.
ConfigSetReceived(context) ==
    /\ received < MaxSets
    /\ instance # NoInstance
    /\ context \in known
    /\ received' = received + 1
    /\ LET values == [n |-> received + 1, for |-> context, tag |-> TagFor(submitted, instance)]
       IN served' = [from |-> "live", values |-> values] /\ Replace(values)
    /\ UNCHANGED <<submitted, adoption, known, read, found, deviceVars, sessionVars>>

----------------------------------------------------------------------------
(* The store.  What the provider returns may be older than what it holds.  *)

ReadCaptures ==
    /\ read = "asked"
    /\ read' = "captured"
    /\ found' = device
    /\ UNCHANGED <<submitted, adoption, served, received, known, writes, queued, deviceVars, sessionVars>>

\* The read fails, or returns; an unreadable entry is removed before anything else.
ReadReturns ==
    /\ read = "captured"
    /\ \/ read' = "done" /\ found' = Nothing
       \/ /\ read' = IF found.kind = "unreadable" THEN "removing" ELSE "done"
          /\ UNCHANGED found
    /\ UNCHANGED <<submitted, adoption, served, received, known, writes, queued, deviceVars, sessionVars>>

Remove == device' = Nothing /\ removed' = TRUE /\ failed' = FALSE
Fail == UNCHANGED <<device, removed>> /\ failed' = TRUE

RemovalSettles ==
    /\ read = "removing"
    /\ read' = "done"
    /\ Remove \/ UNCHANGED deviceVars
    /\ UNCHANGED <<submitted, adoption, served, received, known, found, writes, queued, sessionVars>>

\* Values over the size limit: no values are kept, the older ones are removed too.
TooLarge == Remove \/ Fail

LeaveQueue(values) == writes' = writes \ {values} /\ UNCHANGED queued

\* writeQueued after a write: the values that arrived meanwhile are next.
WriteNext(values) ==
    /\ writes' = (writes \ {values}) \cup (IF queued = NoValues THEN {} ELSE {queued})
    /\ queued' = NoValues

WriteSettles(values) ==
    /\ values \in writes
    /\ \/ device' = Stored(values) /\ removed' = FALSE /\ failed' = FALSE
       \/ Fail
       \/ TooLarge
    /\ WriteNext(values)
    /\ UNCHANGED <<submitted, adoption, served, received, known, read, found, sessionVars>>

Next ==
    \/ Relaunch \/ SessionGoesOn \/ AdoptCachedValues
    \/ \E context \in Submittable, initialization \in BOOLEAN : Submit(context, initialization)
    \/ \E context \in known : ConfigSetReceived(context)
    \/ ReadCaptures \/ ReadReturns \/ RemovalSettles
    \/ \E values \in writes : WriteSettles(values)

Spec == Init /\ [][Next]_vars

----------------------------------------------------------------------------
(* Properties.                                                             *)

\* Within a launch the values served only get newer: a slow read never puts the values
\* kept on the device over live ones.
ServedValuesAdvance == [][launch' = launch => served'.values.n >= served.values.n]_<<served, launch>>

\* The entry on the device is never replaced by older values, however long the provider
\* takes over each of its calls, and over all launches.
KeptInOrder ==
    [][device.kind = "stored" /\ device'.kind = "stored"
        => device'.values.n >= device.values.n]_device

\* Older values replace newer ones neither in the client nor on the device.
ValuesOnlyGetNewer == ServedValuesAdvance /\ KeptInOrder

\* Once the store is at rest, the device holds the values received last, or nothing
\* because they were too large (or an unreadable entry was removed); only a provider that
\* failed the last time leaves older values behind.
DeviceIsUpToDate ==
    (served.from = "live" /\ writes = {} /\ ~failed)
        => \/ device = Stored(served.values)
           \/ device = Nothing /\ removed

\* types.ts: the last values received are served on the next launch of the same context,
\* so the values served from the device are those of the context they are served to.
ServedToTheirContext ==
    [][served.from # "device" /\ served'.from = "device" => served'.values.for = submitted]_vars
=============================================================================
