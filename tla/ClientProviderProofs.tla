-------------------------- MODULE ClientProviderProofs -----------------------
(***************************************************************************)
(* What TLAPS proves of ClientProvider, for any numbers of clients, calls  *)
(* and mounts: a client that a host built is connected only while that     *)
(* host is mounted around it; every host but Vue asks last for the context *)
(* given last; no host starts a second initialization while the first is   *)
(* running; and what a host says of its client is true once it has caught  *)
(* up, but for the cases the property names.                               *)
(***************************************************************************)
EXTENDS ClientProvider, TLAPS, NaturalsInduction, WellFoundedInduction

HasLinks(clients) == DOMAIN clients = Clients /\ \A c \in Clients : "link" \in DOMAIN clients[c]

\* The clients whose transport may deliver payloads.
Linked(clients) == {c \in Clients : clients[c].link}

Owning == owned /\ kind # "withProvider"

\* Who may be connected, and whom the startup of Next.js and Nuxt is about to connect.
LinksOwned ==
    /\ Linked(client) \subseteq (IF Mounted THEN {current} ELSE {})
    /\ starting => Mounted /\ kind \in {"nextjs", "nuxt"}
    /\ kind = "nextjs" /\ phase.kind # "beforeFirstRenderEffects"
          => Mounted /\ phase.client = current

OwnedInv == HasLinks(client) /\ (Owning => LinksOwned)

-----------------------------------------------------------------------------
(* What the operations of a client do to its link. *)

LEMMA ConnectingLinks ==
  ASSUME NEW clients, HasLinks(clients), NEW c, NEW action
  PROVE  /\ HasLinks(Connecting(clients, c, action))
         /\ Linked(Connecting(clients, c, action)) \subseteq Linked(clients) \cup {c}
  BY DEF HasLinks, Linked, Connecting

LEMMA BuildingLinks ==
  ASSUME NEW clients, HasLinks(clients), NEW c
  PROVE  HasLinks(BuildClient(clients, c)) /\ Linked(BuildClient(clients, c)) = Linked(clients)
  BY DEF HasLinks, Linked, BuildClient

LEMMA DisposedUnlinks ==
  ASSUME HasLinks(client), NEW c
  PROVE  HasLinks(Disposed(c)) /\ Linked(Disposed(c)) = Linked(client) \ {c}
  BY DEF HasLinks, Linked, Disposed

LEMMA PausedUnlinks ==
  ASSUME HasLinks(client), NEW c
  PROVE  HasLinks(Paused(c)) /\ Linked(Paused(c)) \subseteq Linked(client)
  BY DEF HasLinks, Linked, Paused

\* A call connects its client and no other.
LEMMA CallLinks ==
  ASSUME HasLinks(client), NEW c, NEW action, NEW context, NEW then, Call(c, action, context, then)
  PROVE  HasLinks(client') /\ Linked(client') \subseteq Linked(client) \cup {c}
  BY ConnectingLinks DEF Call, CallOn

LEMMA InitOwned == Init => OwnedInv
  BY DEF Init, OwnedInv, HasLinks, LinksOwned, Linked, Unbuilt, BeforeFirstRenderEffects

\* Steps that connect at most the client of a mounted host.
LEMMA MountedKeepsOwned ==
  ASSUME OwnedInv, HasLinks(client'), Linked(client') \subseteq Linked(client) \cup {current},
         Owning /\ ~(Linked(client') \subseteq Linked(client)) => Mounted,
         UNCHANGED <<configuration, mount, current>>,
         starting' => starting,
         phase' = phase \/ (Owning => Mounted /\ phase'.client = current)
  PROVE  OwnedInv'
<1> SUFFICES ASSUME Owning PROVE LinksOwned'
  BY DEF OwnedInv, configuration, Owning
<1> QED
  BY DEF OwnedInv, LinksOwned, Owning, Mounted, configuration

\* A host that was not mounted, so that no client is connected, is mounted.
LEMMA MountingKeepsOwned ==
  ASSUME OwnedInv, HasLinks(client'), Linked(client') \subseteq Linked(client) \cup {current'},
         mount # "mounted", mount' = "mounted", UNCHANGED <<configuration, phase>>,
         starting' => starting \/ kind \in {"nextjs", "nuxt"}
  PROVE  OwnedInv'
<1> SUFFICES ASSUME Owning PROVE LinksOwned'
  BY DEF OwnedInv, configuration, Owning
<1> QED
  BY DEF OwnedInv, LinksOwned, Owning, Mounted, configuration

LEMMA UnmountingKeepsOwned ==
  ASSUME OwnedInv, Unmount \/ OnClose
  PROVE  OwnedInv'
<1>1. HasLinks(client') /\ (Owning => client' = Disposed(current))
  BY DisposedUnlinks DEF OwnedInv, Unmount, OnClose, DisposeOwn, Owning
<1>2. UNCHANGED configuration /\ mount' # "mounted" /\ starting' = starting
      /\ (kind = "nextjs" => ~starting /\ phase'.kind = "beforeFirstRenderEffects")
      /\ (kind = "nuxt" => FALSE)
  BY DEF Unmount, OnClose, PhaseAfterUnmount, BeforeFirstRenderEffects, PluginKinds, kindVars,
         startVars
<1> SUFFICES ASSUME Owning PROVE LinksOwned'
  BY <1>1, <1>2 DEF OwnedInv, configuration, Owning
<1>3. Linked(client') = {}
  BY <1>1, DisposedUnlinks DEF OwnedInv, LinksOwned
<1> QED
  BY <1>2, <1>3 DEF OwnedInv, LinksOwned, Mounted, configuration

-----------------------------------------------------------------------------
(* The steps *)

LEMMA MountStep ==
  ASSUME OwnedInv, Mount \/ MountNext \/ MountWithProvider
  PROVE  OwnedInv'
<1>1. mount # "mounted" /\ mount' = "mounted" /\ UNCHANGED <<configuration, phase>>
      /\ (starting' => starting \/ kind \in {"nextjs", "nuxt"})
  BY DEF Mount, MountNext, MountWithProvider, Mounting, CanMount, kindVars, startVars
<1>2. CASE Mount
  <2>1. ASSUME NEW clients, HasLinks(clients), NEW c, NEW opening, ConnectMounted(clients, c, opening)
        PROVE  HasLinks(client') /\ Linked(client') \subseteq Linked(clients) \cup {c}
    BY <2>1, ConnectingLinks DEF ConnectMounted, CallOn
  <2>2. CASE MustBuild
    <3> DEFINE clients == BuildClient(client, NextClient)
    <3>1. HasLinks(clients) /\ Linked(clients) = Linked(client)
      BY BuildingLinks DEF OwnedInv
    <3>2. current' = NextClient /\ ConnectMounted(clients, NextClient, "loading")
      BY <1>2, <2>2 DEF Mount, Mounting
    <3> HIDE DEF clients
    <3> QED
      BY <1>1, <2>1, <3>1, <3>2, MountingKeepsOwned
  <2>3. CASE ~MustBuild
    <3>1. current' = current /\ ConnectMounted(client, current, status)
      BY <1>2, <2>3 DEF Mount, Mounting
    <3> QED
      BY <1>1, <2>1, <3>1, MountingKeepsOwned DEF OwnedInv
  <2> QED
    BY <2>2, <2>3
<1>3. CASE MountNext \/ MountWithProvider
  <2>1. client' = client \/ client' = BuildClient(client, NextClient)
    BY <1>3 DEF MountNext, MountWithProvider, clientVars
  <2>2. HasLinks(client') /\ Linked(client') = Linked(client)
    BY <2>1, BuildingLinks DEF OwnedInv
  <2> QED
    BY <1>1, <2>2, MountingKeepsOwned
<1> QED
  BY <1>2, <1>3

LEMMA InstallStep ==
  ASSUME OwnedInv, InstallVue \/ InstallNuxt \/ InstallOpenFeature
  PROVE  OwnedInv'
<1>1. /\ mount # "mounted" /\ mount' = "mounted"
      /\ UNCHANGED <<configuration, current, phase>>
      /\ starting' => starting \/ kind \in {"nextjs", "nuxt"}
  BY DEF InstallVue, InstallNuxt, InstallOpenFeature, Installing, startVars
<1>2. HasLinks(client') /\ Linked(client') \subseteq Linked(client) \cup {current}
  BY CallLinks DEF OwnedInv, InstallVue, InstallNuxt, InstallOpenFeature, clientVars
<1> QED
  BY <1>1, <1>2, MountingKeepsOwned

\* The start of a Next.js provider, which is mounted around its client.
LEMMA StartKeepsOwned ==
  ASSUME OwnedInv, NEW c, NEW context, StartClient(c, context), Owning => Mounted /\ c = current,
         UNCHANGED <<configuration, mount, current>>, starting' => starting
  PROVE  OwnedInv'
<1>1. HasLinks(client') /\ Linked(client') \subseteq Linked(client) \cup {c} /\ phase'.client = c
  BY CallLinks DEF OwnedInv, StartClient, StartupPhaseAfter, clientVars
<1> SUFFICES ASSUME Owning PROVE LinksOwned'
  BY <1>1 DEF OwnedInv, configuration, Owning
<1> QED
  BY <1>1 DEF OwnedInv, LinksOwned, Mounted, configuration

LEMMA NextStep ==
  ASSUME OwnedInv, NEW context, NEW asProp,
         StartAfterFirstRenderEffects \/ GiveNextContext(context, asProp)
  PROVE  OwnedInv'
<1>1. CASE StartAfterFirstRenderEffects
  BY <1>1, StartKeepsOwned
  DEF StartAfterFirstRenderEffects, componentVars, OwnedInv, LinksOwned
<1>2. CASE GiveNextContext(context, asProp)
  <2>1. /\ kind = "nextjs" /\ Mounted /\ UNCHANGED <<configuration, mount, current, starting>>
        /\ ReceiveContext(context)
    BY <1>2 DEF GiveNextContext, componentVars
  <2>2. CASE UNCHANGED <<clientVars, phase>>
    BY <2>1, <2>2, MountedKeepsOwned DEF OwnedInv, clientVars, Linked
  <2>3. CASE phase.kind # "beforeFirstRenderEffects" /\ StartClient(phase.client, context)
    BY <2>1, <2>3, StartKeepsOwned DEF OwnedInv, LinksOwned
  <2>4. CASE /\ phase.kind # "beforeFirstRenderEffects" /\ UNCHANGED phase
             /\ Call(phase.client, "updateContext", context, "settleIfCurrent")
    <3>1. HasLinks(client') /\ Linked(client') \subseteq Linked(client) \cup {phase.client}
      BY <2>4, CallLinks DEF OwnedInv
    <3> SUFFICES ASSUME Owning PROVE LinksOwned'
      BY <2>1, <3>1 DEF OwnedInv, configuration, Owning
    <3> QED
      BY <2>1, <2>4, <3>1 DEF OwnedInv, LinksOwned, Mounted, configuration
  <2>5. phase.kind # "beforeFirstRenderEffects" \/ UNCHANGED <<clientVars, phase>>
    BY <2>1 DEF ReceiveContext, DecideGivenContextAction
  <2> QED
    BY <2>1, <2>2, <2>3, <2>4, <2>5 DEF ReceiveContext
<1> QED
  BY <1>1, <1>2

\* Calls by the application, the hooks and the other hosts' handlers.
LEMMA CallStep ==
  ASSUME OwnedInv, NEW context, NEW b \in BOOLEAN,
         \/ WithProvider \/ AppCreated \/ SetContext(context) \/ UpdateFromHook(context)
         \/ AppInitializes(context) \/ UpdateVueContext(context) \/ UpdateNuxtContext(context)
         \/ OnContextChange(context) \/ AppState(b) \/ HandleConnectivityChange(b)
  PROVE  OwnedInv'
<1>1. UNCHANGED <<configuration, mount, current, phase>> /\ (starting' => starting)
  BY DEF WithProvider, AppCreated, SetContext, UpdateFromHook, AppInitializes, UpdateVueContext,
         UpdateNuxtContext, OnContextChange, AppState, HandleConnectivityChange, hostVars,
         componentVars, kindVars, startVars
<1>2. CASE WithProvider \/ AppInitializes(context)
  <2>1. ~Owning
    BY <1>2 DEF WithProvider, AppInitializes, Owning
  <2>2. HasLinks(client')
    BY <1>2, CallLinks DEF OwnedInv, WithProvider, AppInitializes
  <2> QED
    BY <1>1, <2>1, <2>2 DEF OwnedInv, Owning, configuration
<1>3. CASE AppCreated
  <2>1. HasLinks(client') /\ Linked(client') \subseteq Linked(client) \cup {current}
    BY <1>3, CallLinks DEF OwnedInv, AppCreated, clientVars
  <2>2. Owning => Mounted
    BY <1>3 DEF AppCreated, OwnedInv, LinksOwned
  <2> QED
    BY <1>1, <2>1, <2>2, MountedKeepsOwned
<1>4. CASE \/ SetContext(context) \/ UpdateFromHook(context) \/ UpdateVueContext(context)
           \/ UpdateNuxtContext(context) \/ OnContextChange(context)
  <2>1. HasLinks(client') /\ Linked(client') \subseteq Linked(client) \cup {current}
    BY <1>4, CallLinks
    DEF OwnedInv, SetContext, UpdateFromHook, UpdateVueContext, UpdateNuxtContext,
        OnContextChange, HandContextToClient, clientVars
  <2>2. Mounted
    BY <1>4 DEF SetContext, UpdateFromHook, UpdateVueContext, UpdateNuxtContext, OnContextChange
  <2> QED
    BY <1>1, <2>1, <2>2, MountedKeepsOwned
<1>5. CASE AppState(b) \/ HandleConnectivityChange(b)
  <2>1. \/ client' = client
        \/ Mounted /\ client' = Paused(current)
        \/ Mounted /\ Resume(current)
    BY <1>5 DEF AppState, HandleConnectivityChange, clientVars
  <2>2. /\ HasLinks(client') /\ Linked(client') \subseteq Linked(client) \cup {current}
        /\ Mounted \/ Linked(client') = Linked(client)
    BY <2>1, CallLinks, PausedUnlinks DEF OwnedInv, Resume
  <2> QED
    BY <1>1, <2>2, MountedKeepsOwned
<1> QED
  BY <1>2, <1>3, <1>4, <1>5

\* A client connects nothing by itself.
LEMMA ClientKeepsOwned ==
  ASSUME OwnedInv, \/ ClientStep \/ OnCachedValuesLoaded \/ ReportStatus \/ Render
                   \/ \E c \in Clients : Payload(c)
                   \/ \E i \in DOMAIN calls : Continue(i)
  PROVE  OwnedInv'
<1>1. HasLinks(client') /\ Linked(client') \subseteq Linked(client)
  <2>1. CASE ClientStep
    BY <2>1 DEF ClientStep, TransportSettles, CallTimesOut, CallRefused, OwnedInv, HasLinks, Linked
  <2>2. CASE OnCachedValuesLoaded
    BY <2>2 DEF OnCachedValuesLoaded, CachedValuesLoad, OwnedInv, HasLinks, Linked
  <2>3. ASSUME NEW c \in Clients, Payload(c)
        PROVE  HasLinks(client') /\ Linked(client') \subseteq Linked(client)
    BY <2>3 DEF Payload, PayloadArrives, OwnedInv, HasLinks, Linked
  <2>4. CASE ReportStatus \/ Render \/ \E i \in DOMAIN calls : Continue(i)
    BY <2>4 DEF ReportStatus, Render, Continue, clientVars, OwnedInv, HasLinks, Linked
  <2> QED
    BY <2>1, <2>2, <2>3, <2>4
<1>2. CASE Render
  <2>1. UNCHANGED <<configuration, current, phase, starting>> /\ mount = "new" /\ mount' = "rendered"
    BY <1>2 DEF Render, kindVars, startVars
  <2> SUFFICES ASSUME Owning PROVE LinksOwned'
    BY <1>1, <2>1 DEF OwnedInv, Owning, configuration
  <2> QED
    BY <1>1, <2>1 DEF OwnedInv, LinksOwned, Mounted, configuration
<1>3. CASE ~Render
  <2>1. UNCHANGED <<configuration, mount, current, phase, starting>>
    BY <1>3
    DEF ClientStep, OnCachedValuesLoaded, ReportStatus, Payload, Continue, hostVars,
        componentVars, kindVars, startVars
  <2> QED
    BY <1>1, <2>1, MountedKeepsOwned
<1> QED
  BY <1>2, <1>3

LEMMA OwnedStep == OwnedInv /\ [Next]_vars => OwnedInv'
<1> SUFFICES ASSUME OwnedInv, [Next]_vars PROVE OwnedInv'
  OBVIOUS
<1>1. CASE UNCHANGED vars
  BY <1>1
  DEF vars, clientVars, hostVars, componentVars, configuration, kindVars, startVars, OwnedInv,
      HasLinks, Owning, LinksOwned, Linked, Mounted
<1>2. CASE Next
  <2>1. ASSUME NEW context \in Contexts \cup {None}, NEW asProp \in BOOLEAN,
               GiveNextContext(context, asProp)
        PROVE  OwnedInv'
    BY <2>1, NextStep
  <2>2. ASSUME NEW context \in Contexts \cup {None},
               \/ SetContext(context) \/ UpdateFromHook(context) \/ AppInitializes(context)
               \/ UpdateVueContext(context) \/ UpdateNuxtContext(context)
               \/ OnContextChange(context)
        PROVE  OwnedInv'
    BY <2>2, CallStep
  <2>3. ASSUME NEW b \in BOOLEAN, AppState(b) \/ HandleConnectivityChange(b) PROVE OwnedInv'
    BY <2>3, CallStep
  <2>4. CASE StartAfterFirstRenderEffects
    BY <2>4, NextStep
  <2>5. CASE WithProvider \/ AppCreated
    BY <2>5, CallStep
  <2> QED
    BY <1>2, <2>1, <2>2, <2>3, <2>4, <2>5, MountStep, InstallStep, UnmountingKeepsOwned,
       ClientKeepsOwned
    DEF Next
<1> QED
  BY <1>1, <1>2

\* Remounts, late startups, contexts, app states and continuations in any order: a client
\* that a host built is disconnected when the host is unmounted, and stays so.
THEOREM ConnectionsAlwaysOwned == Spec => []ConnectionsAreOwned
<1>1. OwnedInv => ConnectionsAreOwned
  BY DEF OwnedInv, Owning, LinksOwned, Linked, ConnectionsAreOwned
<1> QED
  BY <1>1, InitOwned, OwnedStep, PTL DEF Spec

-----------------------------------------------------------------------------
\* A set of naturals has a least element: induction by the least counterexample.
LEMMA LeastNat ==
  ASSUME NEW T \in SUBSET Nat, T # {}
  PROVE  \E n \in T : \A m \in T : n <= m
<1> DEFINE R == OpToRel(<, Nat)
<1>1. \A a, b \in Nat : a < b => <<a, b>> \in R
  BY DEF OpToRel
<1>2. IsWellFoundedOn(R, Nat)
  BY NatLessThanWellFounded
<1> HIDE DEF R
<1>3. PICK x \in T : \A y \in T : ~ (<<y, x>> \in R)
  BY <1>2, WFMin
<1>4. x \in Nat /\ T \subseteq Nat
  OBVIOUS
<1>5. ASSUME NEW y \in T PROVE x <= y
  <2>1. ~ (<<y, x>> \in R)
    BY <1>3
  <2>2. y \in Nat /\ x \in Nat
    BY <1>4
  <2>3. y < x => <<y, x>> \in R
    BY <1>1, <2>2
  <2> QED
    BY <2>1, <2>2, <2>3
<1> QED
  BY <1>5

-----------------------------------------------------------------------------
(***************************************************************************)
(* Types, and the calls of a host as every step changes them: none is      *)
(* made, or one on a client that is built; the clients' own steps change   *)
(* neither whose a call is nor its context.                                *)
(***************************************************************************)
GivenContexts == Contexts \cup {None}

View == [built : BOOLEAN, ready : BOOLEAN, initializing : BOOLEAN, received : BOOLEAN,
         cached : BOOLEAN, pending : BOOLEAN, link : BOOLEAN, context : GivenContexts]

Actions == {"initialize", "updateContext", "resume"}
Thens == {"settle", "settleCurrent", "settleIfCurrent", "settleDown", "requireReady", "nothing"}

CallRecord == [client : Clients, action : Actions, context : GivenContexts,
               pc : {"connecting", "waiting", "returned", "done"}, then : Thens]

ClientsOK == client \in [Clients -> View] /\ calls \in Seq(CallRecord)

Phases == [kind : {"beforeFirstRenderEffects", "waitingForContext", "started"},
           client : Clients \cup {0}]

HostOK ==
    /\ current \in Clients \cup {0} /\ handlers \in Clients \cup {0}
    /\ prop \in GivenContexts /\ latest \in GivenContexts /\ given \in GivenContexts
    /\ phase \in Phases
    /\ current = 0 => owned /\ kind = "nextjs" /\ ~Mounted
    /\ mount = "new" => current \in {0, 1}
    /\ phase.kind # "beforeFirstRenderEffects" => kind = "nextjs" /\ Mounted /\ phase.client = current
    /\ starting => Mounted /\ kind \in {"nextjs", "nuxt"}
    /\ starting /\ kind = "nextjs" => phase.kind = "beforeFirstRenderEffects"
    /\ kind = "openfeature" => owned
    /\ kind \in Kinds

\* Among the calls s, none is c's; there is a last of c's but resumes, with this context.
NoneFor(s, c) == \A i \in 1 .. Len(s) : s[i].client # c
Submits(call, c) == call.client = c /\ call.action # "resume"
Submitted(s, c, context) ==
    \E i \in 1 .. Len(s) :
       /\ Submits(s[i], c) /\ s[i].context = context
       /\ \A j \in 1 .. Len(s) : Submits(s[j], c) => j <= i

\* A client nobody has called.
Fresh(view) == ~view.initializing /\ ~view.ready /\ ~view.link

CallsOK ==
    /\ current # 0 => client[current].built
    /\ \A i \in 1 .. Len(calls) : client[calls[i].client].built
    /\ \A c \in Clients : NoneFor(calls, c) => Fresh(client[c])
    /\ kind = "openfeature" /\ mount = "new" => Len(calls) = 0

\* How each host keeps track of the context last given.
ReactFollows ==
    /\ mount \in {"new", "rendered"} => NoneFor(calls, current)
    /\ mount = "unmounted" => disposedOwn
    /\ ~Mounted => latest = prop
    /\ Mounted => Submitted(calls, current, latest)

NextFollows ==
    /\ given = latest
    /\ Mounted /\ phase.kind = "beforeFirstRenderEffects" => starting
    /\ Mounted /\ phase.kind = "waitingForContext" => defer /\ latest = None
    /\ Mounted /\ phase.kind = "started" => Submitted(calls, current, latest)
    /\ Mounted /\ phase.kind # "started" => NoneFor(calls, current)

NuxtFollows ==
    /\ given = latest
    /\ \/ Submitted(calls, current, latest)
       \/ NoneFor(calls, current) /\ (Mounted /\ ~starting => defer /\ latest = None)

\* A host that calls its client when it is installed, or before there is a component.
OthersFollow ==
    /\ NoneFor(calls, current) => Len(calls) = 0 /\ mount = "new" /\ latest = prop
    /\ ~NoneFor(calls, current) => Submitted(calls, current, latest)

ContextsFollow ==
    owned => /\ kind \in ClassKinds => ReactFollows
             /\ kind = "nextjs" => NextFollows
             /\ kind = "nuxt" => NuxtFollows
             /\ kind \in {"withProvider", "openfeature"} => OthersFollow

CallsInv == ClientsOK /\ HostOK /\ CallsOK /\ ContextsFollow

\* No client starts.
NoStart(new, old) ==
    /\ new.initializing => old.initializing
    /\ new.link => old.link
    /\ new.ready => old.ready \/ old.link

\* The calls are those of before, with their clients, actions and contexts.
SameCall(new, old) ==
    new.client = old.client /\ new.action = old.action /\ new.context = old.context

SameCalls ==
    /\ client' \in [Clients -> View] /\ calls' \in Seq(CallRecord)
    /\ \A c \in Clients : /\ client[c].built => client'[c].built
                          /\ NoStart(client'[c], client[c])
    /\ Len(calls') = Len(calls)
    /\ \A i \in 1 .. Len(calls) : SameCall(calls'[i], calls[i])

LEMMA ReturnedType ==
  ASSUME NEW call \in CallRecord
  PROVE  /\ Returned(call) \in CallRecord
         /\ SameCall(Returned(call), call)
  BY DEF Returned, CallRecord, SameCall

LEMMA SettlingKeepsCalls ==
  ASSUME ClientsOK, NEW i \in DOMAIN calls, TransportSettles(i) \/ CallTimesOut(i) \/ CallRefused(i)
  PROVE  SameCalls
<1>1. calls[i] \in CallRecord /\ i \in 1 .. Len(calls)
  BY DEF ClientsOK
<1> DEFINE c == calls[i].client
<1>4. c \in Clients /\ calls[i].context \in GivenContexts
  BY <1>1 DEF CallRecord
<1>2. /\ client' \in [Clients -> View]
      /\ \A d \in Clients : /\ client[d].built => client'[d].built
                            /\ NoStart(client'[d], client[d])
  <2>1. [client[c] EXCEPT !.context = calls[i].context] \in View
        /\ [client[c] EXCEPT !.link = FALSE, !.initializing = FALSE] \in View
    <3>1. client[c] \in View
      BY <1>4 DEF ClientsOK
    <3>2. [client[c] EXCEPT !.context = calls[i].context] \in View
      BY <1>4, <3>1 DEF View
    <3>3. [client[c] EXCEPT !.link = FALSE, !.initializing = FALSE] \in View
      BY <3>1 DEF View
    <3> QED
      BY <3>2, <3>3
  <2>2. \/ client' = client
        \/ client' = [client EXCEPT ![c] = [client[c] EXCEPT !.context = calls[i].context]]
        \/ client' = [client EXCEPT ![c] = [client[c] EXCEPT !.link = FALSE, !.initializing = FALSE]]
    <3>1. client \in [Clients -> View]
      BY DEF ClientsOK
    <3>2. CASE TransportSettles(i)
      BY <1>4, <3>1, <3>2 DEF TransportSettles
    <3>3. CASE CallTimesOut(i)
      BY <1>4, <3>1, <3>3 DEF CallTimesOut
    <3>4. CASE CallRefused(i)
      BY <1>4, <3>1, <3>4 DEF CallRefused
    <3> QED
      BY <3>2, <3>3, <3>4
  <2>3. /\ client \in [Clients -> View]
        /\ client[c] \in View
    BY <1>4 DEF ClientsOK, View
  <2>4. CASE client' = client
    BY <2>3, <2>4 DEF NoStart
  <2>5. CASE client' = [client EXCEPT ![c] = [client[c] EXCEPT !.context = calls[i].context]]
    BY <1>4, <2>1, <2>3, <2>5 DEF View, NoStart
  <2>6. CASE client' = [client EXCEPT ![c] = [client[c] EXCEPT !.link = FALSE, !.initializing = FALSE]]
    BY <1>4, <2>1, <2>3, <2>6 DEF View, NoStart
  <2> QED
    BY <2>2, <2>4, <2>5, <2>6
<1>3. \E call \in CallRecord :
         /\ calls' = [calls EXCEPT ![i] = call]
         /\ SameCall(call, calls[i])
  <2>1. CASE TransportSettles(i)
    <3>1. [calls[i] EXCEPT !.pc = "waiting"] \in CallRecord
      BY <1>1 DEF CallRecord
    <3>2. SameCall([calls[i] EXCEPT !.pc = "waiting"], calls[i])
      BY <1>1 DEF CallRecord, SameCall
    <3> QED
      BY <2>1, <3>1, <3>2, <1>1, ReturnedType DEF TransportSettles
  <2>2. CASE CallTimesOut(i)
    BY <2>2, <1>1, ReturnedType DEF CallTimesOut
  <2>3. CASE CallRefused(i)
    BY <2>3, <1>1, ReturnedType DEF CallRefused, SameCall
  <2> QED
    BY <2>1, <2>2, <2>3
<1> QED
  BY <1>1, <1>2, <1>3 DEF SameCalls, SameCall, ClientsOK

LEMMA PayloadKeepsCalls ==
  ASSUME ClientsOK, NEW c \in Clients, PayloadArrives(c)
  PROVE  SameCalls
<1>1. /\ client' \in [Clients -> View]
      /\ \A d \in Clients : /\ client[d].built => client'[d].built
                            /\ NoStart(client'[d], client[d])
  <2> DEFINE view == [client[c] EXCEPT !.received = TRUE, !.cached = FALSE, !.pending = FALSE,
                                       !.ready = @ \/ BecomesReady(c),
                                       !.initializing = @ /\ ~BecomesReady(c)]
  <2>1. client[c] \in View
    BY DEF ClientsOK
  <2>2. /\ view \in View /\ view.built = client[c].built
        /\ NoStart(view, client[c])
    BY <2>1 DEF View, BecomesReady, PayloadArrives, NoStart
  <2>3. client' = [client EXCEPT ![c] = view]
    BY <2>1 DEF PayloadArrives, ClientsOK, View
  <2> HIDE DEF view
  <2> QED
    BY <2>2, <2>3 DEF ClientsOK, NoStart
<1>2. DOMAIN calls = 1 .. Len(calls) /\ Len(calls) \in Nat
      /\ \A i \in DOMAIN calls : calls[i] \in CallRecord
  BY DEF ClientsOK
<1>3. \A i \in DOMAIN calls : /\ calls'[i] \in CallRecord
                              /\ calls'[i] = calls[i] \/ calls'[i] = Returned(calls[i])
  BY <1>2, ReturnedType DEF PayloadArrives
<1>4. calls' = [i \in 1 .. Len(calls) |-> calls'[i]]
  BY <1>2 DEF PayloadArrives
<1>5. calls' \in Seq(CallRecord) /\ Len(calls') = Len(calls)
  BY <1>2, <1>3, <1>4
<1> QED
  BY <1>1, <1>2, <1>3, <1>5, ReturnedType DEF SameCalls, SameCall

LEMMA ResumingKeepsCalls ==
  ASSUME ClientsOK, NEW i \in DOMAIN calls, Resumed(i), UNCHANGED client
  PROVE  SameCalls
<1>1. calls[i] \in CallRecord /\ i \in 1 .. Len(calls)
  BY DEF ClientsOK
<1>2. \E call \in CallRecord :
         /\ calls' = [calls EXCEPT ![i] = call]
         /\ SameCall(call, calls[i])
  <2>1. [calls[i] EXCEPT !.pc = "done"] \in CallRecord
    BY <1>1 DEF CallRecord
  <2> QED
    BY <1>1, <2>1 DEF Resumed, CallRecord, SameCall
<1> QED
  BY <1>1, <1>2 DEF SameCalls, SameCall, NoStart, ClientsOK

\* A call is the last of all, and it is its client's.
CallMade(c, action, context) ==
    /\ client' \in [Clients -> View] /\ calls' \in Seq(CallRecord)
    /\ Len(calls') = Len(calls) + 1
    /\ \A i \in 1 .. Len(calls) : calls'[i] = calls[i]
    /\ calls'[Len(calls) + 1].client = c
    /\ calls'[Len(calls) + 1].action = action
    /\ calls'[Len(calls) + 1].context = context
    /\ client'[c].built /\ \A d \in Clients : client[d].built => client'[d].built
    /\ \A d \in Clients \ {c} : NoStart(client'[d], client[d])

LEMMA CallIsMade ==
  ASSUME calls \in Seq(CallRecord), NEW clients \in [Clients -> View],
         NEW c \in Clients, clients[c].built,
         \A d \in Clients : client[d].built => clients[d].built,
         \A d \in Clients : NoStart(clients[d], client[d]),
         NEW action \in Actions, NEW context \in GivenContexts,
         NEW then \in Thens, CallOn(clients, c, action, context, then)
  PROVE  CallMade(c, action, context)
<1> DEFINE call == [client |-> c, action |-> action, context |-> context, pc |-> "connecting",
                    then |-> then]
<1>1. call \in CallRecord /\ call.client = c /\ call.action = action /\ call.context = context
  BY DEF CallRecord
<1>2. calls' = Append(calls, call)
  BY DEF CallOn
<1>3. /\ client' \in [Clients -> View] /\ client'[c].built
      /\ \A d \in Clients : client[d].built => client'[d].built
      /\ \A d \in Clients \ {c} : NoStart(client'[d], client[d])
  <2> DEFINE view == [clients[c] EXCEPT !.ready = FALSE, !.pending = TRUE, !.link = TRUE,
                         !.initializing = @ \/ (action = "initialize" /\ ~clients[c].received)]
  <2>1. clients[c] \in View
    OBVIOUS
  <2>2. view \in View /\ view.built = clients[c].built
    BY <2>1 DEF View
  <2>3. client' = [clients EXCEPT ![c] = view]
    BY <2>1 DEF CallOn, Connecting, View
  <2> HIDE DEF view
  <2> QED
    BY <2>2, <2>3
<1> HIDE DEF call
<1> QED
  BY <1>1, <1>2, <1>3 DEF CallMade

\* What a step leaves to be said of a client's calls.
LEMMA SameCallsSame ==
  ASSUME SameCalls, NEW c
  PROVE  /\ NoneFor(calls, c) <=> NoneFor(calls', c)
         /\ \A context : Submitted(calls, c, context) => Submitted(calls', c, context)
  BY DEF SameCalls, SameCall, NoneFor, Submits, Submitted

LEMMA CallMadeIsLast ==
  ASSUME ClientsOK, NEW c, NEW action, NEW context, CallMade(c, action, context)
  PROVE  /\ action # "resume" => Submitted(calls', c, context)
         /\ action = "resume" =>
              \A given1 : Submitted(calls, c, given1) => Submitted(calls', c, given1)
         /\ ~NoneFor(calls', c)
         /\ \A d : d # c /\ NoneFor(calls', d) => NoneFor(calls, d)
         /\ \A d : d # c /\ NoneFor(calls, d) => NoneFor(calls', d)
<1>1. Len(calls) \in Nat
  BY DEF ClientsOK
<1> QED
  BY <1>1 DEF CallMade, NoneFor, Submits, Submitted

LEMMA SubmittedIsSome ==
  ASSUME NEW s, NEW c, NEW context, Submitted(s, c, context) PROVE ~NoneFor(s, c)
  BY DEF Submitted, Submits, NoneFor

\* A client that is not built has no calls.
LEMMA UnbuiltHasNone ==
  ASSUME CallsInv, NEW c, ~client[c].built
  PROVE  NoneFor(calls, c)
  BY DEF CallsInv, CallsOK, NoneFor

\* OneAttempt of one step, and the two kinds of steps.
NoSecondAttempt ==
    \A c \in Clients :
       Len(calls') > Len(calls) /\ client[c].initializing
          => ~(calls'[Len(calls')].client = c /\ calls'[Len(calls')].action = "initialize")

LEMMA CallsHaveClients ==
  ASSUME ClientsOK
  PROVE  Len(calls) \in Nat /\ \A i \in 1 .. Len(calls) : calls[i].client \in Clients
<1>1. Len(calls) \in Nat /\ \A i \in 1 .. Len(calls) : calls[i] \in CallRecord
  BY DEF ClientsOK
<1> QED
  BY <1>1 DEF CallRecord

LEMMA AfterSameCalls ==
  ASSUME CallsInv, SameCalls, current' = current \/ current' = 0, UNCHANGED kind,
         mount' = "new" => mount = "new"
  PROVE  ClientsOK' /\ CallsOK' /\ NoSecondAttempt
<1>1. ClientsOK'
  BY DEF SameCalls, ClientsOK
<1>2. Len(calls) \in Nat /\ \A i \in 1 .. Len(calls) : calls[i].client \in Clients
  BY CallsHaveClients DEF CallsInv
<1>3. CallsOK'
  BY <1>2, SameCallsSame
  DEF SameCalls, SameCall, NoStart, Fresh, CallsInv, CallsOK, HostOK
<1>4. NoSecondAttempt
  BY <1>2 DEF SameCalls, NoSecondAttempt
<1> QED
  BY <1>1, <1>3, <1>4

LEMMA AfterCall ==
  ASSUME CallsInv, NEW c \in Clients, NEW action, NEW context, CallMade(c, action, context),
         action = "initialize" => ~client[c].initializing,
         current' \in {current, c}, UNCHANGED kind, kind = "openfeature" => mount' # "new"
  PROVE  ClientsOK' /\ CallsOK' /\ NoSecondAttempt
<1>1. ClientsOK'
  BY DEF CallMade, ClientsOK
<1>2. Len(calls) \in Nat /\ \A i \in 1 .. Len(calls) : calls[i].client \in Clients
  BY CallsHaveClients DEF CallsInv
<1>3. CallsOK'
  <2>1. \A d \in Clients : NoneFor(calls', d) => Fresh(client'[d])
    BY CallMadeIsLast DEF CallMade, NoStart, Fresh, CallsInv, CallsOK
  <2> QED
    BY <1>2, <2>1 DEF CallMade, CallsInv, CallsOK, HostOK
<1>4. NoSecondAttempt
  BY <1>2 DEF CallMade, NoSecondAttempt
<1> QED
  BY <1>1, <1>3, <1>4

LEMMA HostCalls ==
  ASSUME CallsInv, NEW c \in Clients, client[c].built, NEW action \in Actions,
         NEW context \in GivenContexts, NEW then \in Thens, Call(c, action, context, then)
  PROVE  CallMade(c, action, context)
<1>1. calls \in Seq(CallRecord) /\ client \in [Clients -> View]
  BY DEF CallsInv, ClientsOK
<1>2. \A d \in Clients : NoStart(client[d], client[d])
  BY DEF NoStart
<1> QED
  BY <1>1, <1>2, CallIsMade DEF Call

LEMMA ClientContexts ==
  ASSUME CallsInv, NEW c \in Clients
  PROVE  client[c].context \in GivenContexts /\ client[c].built \in BOOLEAN
<1>1. client[c] \in View
  BY DEF CallsInv, ClientsOK
<1> QED
  BY <1>1 DEF View

LEMMA UnchangedCalls == ASSUME CallsInv, UNCHANGED clientVars PROVE SameCalls
  BY CallsHaveClients DEF CallsInv, ClientsOK, SameCalls, SameCall, NoStart, clientVars

-----------------------------------------------------------------------------
(* Each step keeps CallsInv and makes no second attempt. *)

Follows == CallsInv' /\ NoSecondAttempt

\* Steps of the clients, and others that change neither the host nor its contexts.
LEMMA SameHost ==
  ASSUME CallsInv, SameCalls,
         UNCHANGED <<configuration, componentVars, contextVars, given, phase, starting>>
  PROVE  Follows
<1>1. ClientsOK' /\ CallsOK' /\ NoSecondAttempt
  BY AfterSameCalls DEF configuration, componentVars
<1>2. HostOK'
  BY DEF CallsInv, HostOK, configuration, componentVars, contextVars, Mounted
<1>3. \A c : /\ NoneFor(calls, c) <=> NoneFor(calls', c)
             /\ \A context : Submitted(calls, c, context) => Submitted(calls', c, context)
  BY SameCallsSame
<1>4. ContextsFollow'
  <2>1. Len(calls') = Len(calls)
    BY DEF SameCalls
  <2>2. UNCHANGED <<kind, owned, defer, mount, current, disposedOwn, prop, latest, given, phase,
                    starting>>
    BY DEF configuration, componentVars, contextVars
  <2> SUFFICES ASSUME owned PROVE ContextsFollow'
    BY <2>2 DEF ContextsFollow
  <2>3. kind \in ClassKinds => ReactFollows'
    BY <1>3, <2>2 DEF CallsInv, ContextsFollow, ReactFollows, Mounted
  <2>4. kind = "nextjs" => NextFollows'
    BY <1>3, <2>2 DEF CallsInv, ContextsFollow, NextFollows, Mounted
  <2>5. kind = "nuxt" => NuxtFollows'
    BY <1>3, <2>2 DEF CallsInv, ContextsFollow, NuxtFollows, Mounted
  <2>6. kind \in {"withProvider", "openfeature"} => OthersFollow'
    BY <1>3, <2>1, <2>2 DEF CallsInv, ContextsFollow, OthersFollow
  <2> QED
    BY <2>2, <2>3, <2>4, <2>5, <2>6 DEF ContextsFollow
<1> QED
  BY <1>1, <1>2, <1>4 DEF Follows, CallsInv

LEMMA ClientStepFollows ==
  ASSUME CallsInv, \/ ClientStep \/ OnCachedValuesLoaded \/ ReportStatus
                   \/ \E c \in Clients : Payload(c)
                   \/ \E i \in DOMAIN calls : Continue(i)
  PROVE  Follows
<1>1. UNCHANGED <<configuration, componentVars, contextVars, given, phase, starting>>
  BY DEF ClientStep, OnCachedValuesLoaded, ReportStatus, Payload, Continue, hostVars, kindVars,
         startVars
<1>2. SameCalls
  <2>1. CASE ClientStep
    BY <2>1, SettlingKeepsCalls DEF ClientStep, CallsInv
  <2>2. CASE OnCachedValuesLoaded
    <3>1. handlers \in Clients /\ CachedValuesLoad(handlers)
      BY <2>2 DEF OnCachedValuesLoaded, CallsInv, HostOK
    <3>2. client[handlers] \in View /\ [client[handlers] EXCEPT !.cached = TRUE] \in View
      BY <3>1 DEF CallsInv, ClientsOK, View
    <3>3. client' = [client EXCEPT ![handlers] = [client[handlers] EXCEPT !.cached = TRUE]]
          /\ calls' = calls
      BY <3>1 DEF CachedValuesLoad
    <3> QED
      BY <3>1, <3>2, <3>3, CallsHaveClients
      DEF SameCalls, SameCall, NoStart, CallsInv, ClientsOK, View
  <2>3. ASSUME NEW c \in Clients, Payload(c) PROVE SameCalls
    BY <2>3, PayloadKeepsCalls DEF Payload, CallsInv
  <2>4. CASE ReportStatus
    BY <2>4, UnchangedCalls DEF ReportStatus
  <2>5. ASSUME NEW i \in DOMAIN calls, Continue(i) PROVE SameCalls
    BY <2>5, ResumingKeepsCalls DEF Continue, CallsInv
  <2> QED
    BY <2>1, <2>2, <2>3, <2>4, <2>5
<1> QED
  BY <1>1, <1>2, SameHost

LEMMA RenderFollows ==
  ASSUME CallsInv, Render
  PROVE  Follows
<1>1. SameCalls
  BY UnchangedCalls DEF Render
<1>2. ClientsOK' /\ CallsOK' /\ NoSecondAttempt
  BY <1>1, AfterSameCalls DEF Render, configuration
<1>3. HostOK'
  BY DEF Render, CallsInv, HostOK, configuration, contextVars, kindVars, startVars, Mounted
<1>5. kind = "withProvider" => Len(calls) # 0
  BY DEF Render, CallsInv, ClientsOK
<1>4. ContextsFollow'
  BY <1>5
  DEF Render, CallsInv, ContextsFollow, ReactFollows, NextFollows, NuxtFollows, OthersFollow,
         ClassKinds, PluginKinds, configuration, contextVars, kindVars, startVars, clientVars, Mounted
<1> QED
  BY <1>2, <1>3, <1>4 DEF Follows, CallsInv

LEMMA UnmountFollows ==
  ASSUME CallsInv, Unmount \/ OnClose
  PROVE  Follows
<1>1. SameCalls
  <2>1. client' = client \/ client' = Disposed(current)
    BY DEF Unmount, OnClose, DisposeOwn
  <2>2. calls' = calls
    BY DEF Unmount, OnClose
  <2>3. client \in [Clients -> View] /\ current \in Clients
    BY DEF CallsInv, ClientsOK, HostOK, Unmount, OnClose
  <2> DEFINE view == [client[current] EXCEPT !.ready = FALSE, !.initializing = FALSE,
                                            !.pending = FALSE, !.link = FALSE]
  <2>4. /\ view \in View /\ view.built = client[current].built
        /\ NoStart(view, client[current])
    BY <2>3 DEF View, NoStart
  <2>5. Disposed(current) = [client EXCEPT ![current] = view]
    BY <2>3 DEF Disposed, View
  <2> HIDE DEF view
  <2>6. /\ client' \in [Clients -> View]
        /\ \A c \in Clients : /\ client[c].built => client'[c].built
                              /\ NoStart(client'[c], client[c])
    BY <2>1, <2>3, <2>4, <2>5 DEF NoStart
  <2> QED
    BY <2>2, <2>6, CallsHaveClients DEF SameCalls, SameCall, CallsInv, ClientsOK
<1>2. UNCHANGED configuration /\ mount' = "unmounted" /\ current' \in {current, 0}
  BY DEF Unmount, OnClose
<1>3. ClientsOK' /\ CallsOK' /\ NoSecondAttempt
  BY <1>1, <1>2, AfterSameCalls DEF configuration
<1>4. CASE Unmount
  <2>1. HostOK'
    BY <1>4 DEF Unmount, CallsInv, HostOK, configuration, kindVars, nativeVars, featureVars,
                Mounted, PhaseAfterUnmount, BeforeFirstRenderEffects, Phases
  <2>2. ContextsFollow'
    BY <1>4 DEF Unmount, CallsInv, ContextsFollow, ReactFollows, NextFollows, OthersFollow,
                configuration, ClassKinds, PluginKinds, Mounted
  <2> QED
    BY <1>3, <2>1, <2>2 DEF Follows, CallsInv
<1>5. CASE OnClose
  <2>1. HostOK'
    BY <1>5 DEF OnClose, CallsInv, HostOK, configuration, contextVars, kindVars, startVars, Mounted
  <2>2. ContextsFollow'
    BY <1>5 DEF OnClose, CallsInv, ContextsFollow, OthersFollow, ClassKinds, configuration,
                contextVars, Mounted
  <2> QED
    BY <1>3, <2>1, <2>2 DEF Follows, CallsInv
<1> QED
  BY <1>4, <1>5

LEMMA KindIsKnown ==
  ASSUME HostOK
  PROVE  kind \in ClassKinds \cup PluginKinds \cup {"nextjs", "withProvider", "openfeature"}
  BY ProviderAssumption DEF HostOK

LEMMA MountActions ==
  ASSUME NEW view, NEW context
  PROVE  /\ DecideMountAction(view, context) \in {"none", "initialize", "updateContext"}
         /\ DecideMountAction(view, context) = "initialize" => ~view.initializing
         /\ Fresh(view) => DecideMountAction(view, context) = "initialize"
         /\ Fresh(view) /\ DecideStartupAction(view, context) # "initialize"
               => DecideStartupAction(view, context) = "waitForContext" /\ defer /\ context = None
         /\ DecideStartupAction(view, context)
               \in {"none", "initialize", "updateContext", "waitForContext", "firstStartInFlight"}
         /\ DecideStartupAction(view, context) = "initialize" => ~view.initializing
         /\ DecideStartupAction(view, context) = "firstStartInFlight" => kind = "nuxt"
         /\ DecideStartupAction(view, context) = "waitForContext" => defer /\ context = None
  BY DEF DecideMountAction, DecideStartupAction, Fresh

LEMMA CurrentIsBuilt ==
  ASSUME CallsInv, current # 0
  PROVE  current \in Clients /\ client[current].built
  BY DEF CallsInv, HostOK, CallsOK

\* The next client is one that is not built.
LEMMA BuildingNext ==
  ASSUME CallsInv, CanBuild
  PROVE  LET c == NextClient IN
         /\ c \in Clients /\ ~client[c].built
         /\ BuildClient(client, c) \in [Clients -> View]
         /\ BuildClient(client, c)[c].built
         /\ Fresh(BuildClient(client, c)[c])
         /\ \A d \in Clients : NoStart(BuildClient(client, c)[d], client[d])
         /\ \A d \in Clients : d # c => BuildClient(client, c)[d] = client[d]
<1> DEFINE c == NextClient
<1> DEFINE Free == {d \in Clients : ~Built(d)}
<1>1. \E d \in Free : \A e \in Free : d <= e
  <2>1. Free \in SUBSET Nat /\ Free # {}
    BY HostBoundsAssumption DEF Clients, CanBuild
  <2> HIDE DEF Free
  <2> QED
    BY <2>1, LeastNat
<1>2. c \in Clients /\ ~Built(c)
  BY <1>1 DEF NextClient
<1> HIDE DEF c
<1>3. client \in [Clients -> View] /\ client[c] \in View
  BY <1>2 DEF CallsInv, ClientsOK
<1>7. Fresh(client[c])
  BY <1>2 DEF CallsInv, CallsOK, NoneFor, Built
<1>4. /\ [client[c] EXCEPT !.built = TRUE] \in View
      /\ [client[c] EXCEPT !.built = TRUE].built
      /\ Fresh([client[c] EXCEPT !.built = TRUE])
  BY <1>3, <1>7 DEF View, Fresh
<1>5. BuildClient(client, c) = [client EXCEPT ![c] = [client[c] EXCEPT !.built = TRUE]]
  BY DEF BuildClient
<1>6. /\ c \in Clients /\ ~client[c].built
      /\ BuildClient(client, c) \in [Clients -> View]
      /\ BuildClient(client, c)[c].built
      /\ Fresh(BuildClient(client, c)[c])
      /\ \A d \in Clients : d # c => BuildClient(client, c)[d] = client[d]
  BY <1>2, <1>3, <1>4, <1>5 DEF Built
<1>8. \A d \in Clients : NoStart(BuildClient(client, c)[d], client[d])
  BY <1>6 DEF NoStart, Fresh
<1> QED
  BY <1>6, <1>8 DEF c

\* connect(): a call with the context prop, or none.
LEMMA Connects ==
  ASSUME CallsInv, NEW clients \in [Clients -> View], NEW c \in Clients, clients[c].built,
         \A d \in Clients : /\ client[d].built => clients[d].built
                            /\ NoStart(clients[d], client[d]),
         clients[c].initializing = client[c].initializing,
         NEW opening, ConnectMounted(clients, c, opening)
  PROVE  /\ client'[c].built
         /\ \/ SameCalls /\ ~Fresh(clients[c])
            \/ \E action : /\ CallMade(c, action, prop) /\ action # "resume"
                           /\ action = "initialize" => ~client[c].initializing
<1> DEFINE action == DecideMountAction(clients[c], prop)
<1>1. /\ action \in {"none", "initialize", "updateContext"}
      /\ action = "initialize" => ~clients[c].initializing
      /\ Fresh(clients[c]) => action = "initialize"
  BY MountActions
<1>2. CASE action = "none"
  <2>1. client' = clients /\ calls' = calls /\ ~Fresh(clients[c])
    BY <1>1, <1>2 DEF ConnectMounted
  <2> QED
    BY <2>1, CallsHaveClients DEF SameCalls, SameCall, CallsInv, ClientsOK
<1>3. CASE action # "none"
  <2>1. CallOn(clients, c, action, prop, "settle")
    BY <1>3 DEF ConnectMounted
  <2>2. action \in Actions /\ prop \in GivenContexts /\ "settle" \in Thens
    BY <1>1, <1>3 DEF Actions, Thens, CallsInv, HostOK
  <2> HIDE DEF action
  <2>3. CallMade(c, action, prop)
    BY <2>1, <2>2, CallIsMade DEF CallsInv, ClientsOK
  <2> QED
    BY <2>3, <1>1 DEF CallMade
<1> QED
  BY <1>2, <1>3

LEMMA MountFollows ==
  ASSUME CallsInv, Mount
  PROVE  Follows
<1> DEFINE c == current'
<1>1. /\ c \in Clients /\ client'[c].built
      /\ MustBuild => ~client[c].built
      /\ ~MustBuild => c = current
      /\ \/ SameCalls /\ ~owned
         \/ \E action : /\ CallMade(c, action, prop) /\ action # "resume"
                        /\ action = "initialize" => ~client[c].initializing
  <2>1. CASE MustBuild
    <3> DEFINE next == NextClient
    <3> DEFINE clients == BuildClient(client, next)
    <3>1. /\ next \in Clients /\ ~client[next].built
          /\ clients \in [Clients -> View]
          /\ clients[next].built
          /\ Fresh(clients[next])
          /\ \A d \in Clients : NoStart(clients[d], client[d])
          /\ \A d \in Clients : d # next => clients[d] = client[d]
      BY <2>1, BuildingNext DEF Mount
    <3>2. current' = next /\ ConnectMounted(clients, next, "loading")
      BY <2>1 DEF Mount, Mounting
    <3> HIDE DEF clients, next
    <3>3. \A d \in Clients : client[d].built => clients[d].built
      BY <3>1
    <3>4. Fresh(client[next]) /\ client[next] \in View /\ clients[next] \in View
      BY <3>1 DEF CallsInv, CallsOK, ClientsOK, NoneFor
    <3>5. clients[next].initializing = client[next].initializing
      BY <3>1, <3>4 DEF Fresh, View
    <3> QED
      BY <2>1, <3>1, <3>2, <3>3, <3>5, Connects
  <2>2. CASE ~MustBuild
    <3>1. current' = current /\ ConnectMounted(client, current, status)
      BY <2>2 DEF Mount, Mounting
    <3>2. current # 0
      BY DEF Mount, ClassKinds, CallsInv, HostOK
    <3>3. current \in Clients /\ client[current].built /\ client \in [Clients -> View]
      BY <3>2, CurrentIsBuilt DEF CallsInv, ClientsOK
    <3>4. \A d \in Clients : NoStart(client[d], client[d])
      BY DEF NoStart
    <3>5. owned => Fresh(client[current])
      BY <2>2, <3>3
      DEF Mount, Mounting, CanMount, MustBuild, CallsInv, CallsOK, ContextsFollow, ReactFollows
    <3> QED
      BY <2>2, <3>1, <3>3, <3>4, <3>5, Connects
  <2> QED
    BY <2>1, <2>2
<1> HIDE DEF c
<1>2. /\ UNCHANGED <<configuration, contextVars, kindVars>>
      /\ kind \in ClassKinds /\ mount \in {"rendered", "unmounted"} /\ mount' = "mounted"
      /\ handlers' = current'
  BY DEF Mount, Mounting, CanMount
<1>3. ClientsOK' /\ CallsOK' /\ NoSecondAttempt
  <2>1. CASE SameCalls
    <3>1. ClientsOK'
      BY <2>1 DEF SameCalls, ClientsOK
    <3>2. CallsOK'
      BY <2>1, <1>1, <1>2, CallsHaveClients, SameCallsSame
      DEF SameCalls, SameCall, NoStart, Fresh, CallsInv, CallsOK, HostOK, c, configuration
    <3>3. NoSecondAttempt
      BY <2>1, CallsHaveClients DEF SameCalls, NoSecondAttempt, CallsInv
    <3> QED
      BY <3>1, <3>2, <3>3
  <2>2. ASSUME NEW action, CallMade(c, action, prop),
               action = "initialize" => ~client[c].initializing
        PROVE  ClientsOK' /\ CallsOK' /\ NoSecondAttempt
    <3>1. kind = "openfeature" => mount' # "new"
      BY <1>2
    <3>2. current' \in {current, c} /\ UNCHANGED kind
      BY <1>2 DEF c, configuration
    <3> QED
      BY <2>2, <1>1, <3>1, <3>2, AfterCall
  <2> QED
    BY <1>1, <2>1, <2>2
<1>4. HostOK'
  <2>1. c # 0
    BY <1>1, HostBoundsAssumption DEF Clients
  <2> QED
    BY <1>1, <1>2, <2>1
    DEF CallsInv, HostOK, configuration, contextVars, kindVars, startVars, Mounted, ClassKinds, c
<1>5. ContextsFollow'
  <2> SUFFICES ASSUME owned PROVE Submitted(calls', c, prop) /\ latest = prop
    BY <1>2 DEF ContextsFollow, ReactFollows, NextFollows, NuxtFollows, OthersFollow, configuration,
                contextVars, ClassKinds, Mounted, c
  <2>1. \E action : CallMade(c, action, prop) /\ action # "resume"
    BY <1>1
  <2>2. Submitted(calls', c, prop)
    BY <2>1, CallMadeIsLast DEF CallsInv
  <2>3. latest = prop
    BY <1>2 DEF CallsInv, ContextsFollow, ReactFollows, Mounted
  <2> QED
    BY <2>2, <2>3
<1> QED
  BY <1>3, <1>4, <1>5 DEF Follows, CallsInv

\* The other mounts make no call.
LEMMA OtherMountsFollow ==
  ASSUME CallsInv, MountNext \/ MountWithProvider
  PROVE  Follows
<1>1. CASE MountNext
  <2> DEFINE c == current'
  <2>1. /\ c \in Clients /\ client'[c].built /\ c # 0
        /\ owned => ~client[c].built
        /\ ~owned => c = current
        /\ SameCalls
    <3>1. CASE MustBuild
      <4> DEFINE next == NextClient
      <4>1. /\ next \in Clients /\ ~client[next].built
            /\ BuildClient(client, next) \in [Clients -> View]
            /\ BuildClient(client, next)[next].built
            /\ Fresh(BuildClient(client, next)[next])
            /\ \A d \in Clients : NoStart(BuildClient(client, next)[d], client[d])
            /\ \A d \in Clients : d # next => BuildClient(client, next)[d] = client[d]
        BY <1>1, <3>1, BuildingNext DEF MountNext
      <4>2. current' = next /\ client' = BuildClient(client, next) /\ calls' = calls
        BY <1>1, <3>1 DEF MountNext, Mounting
      <4>3. next # 0
        BY <4>1, HostBoundsAssumption DEF Clients
      <4>4. ~(~owned)
        BY <3>1, <1>1 DEF MustBuild
      <4> HIDE DEF next
      <4>5. SameCalls
        BY <4>1, <4>2, CallsHaveClients DEF SameCalls, SameCall, CallsInv, ClientsOK
      <4> QED
        BY <4>1, <4>2, <4>3, <4>4, <4>5
    <3>2. CASE ~MustBuild
      <4>1. current' = current /\ UNCHANGED clientVars /\ ~owned
        BY <1>1, <3>2 DEF MountNext, Mounting, clientVars, MustBuild
      <4>2. current # 0
        BY <4>1 DEF CallsInv, HostOK
      <4>3. current \in Clients /\ client[current].built
        BY <4>2, CurrentIsBuilt
      <4> QED
        BY <4>1, <4>2, <4>3, UnchangedCalls DEF clientVars
    <3> QED
      BY <3>1, <3>2
  <2> HIDE DEF c
  <2>2. /\ UNCHANGED <<configuration, disposedOwn, contextVars, given, phase>>
        /\ kind = "nextjs" /\ mount \in {"rendered", "unmounted"} /\ mount' = "mounted"
        /\ handlers' = current' /\ starting' = TRUE
    BY <1>1 DEF MountNext, Mounting, CanMount
  <2>3. ClientsOK' /\ NoSecondAttempt
    BY <2>1, CallsHaveClients DEF SameCalls, CallsInv, ClientsOK, NoSecondAttempt
  <2>4. CallsOK'
    BY <2>1, <2>2, CallsHaveClients, SameCallsSame
    DEF SameCalls, SameCall, NoStart, Fresh, CallsInv, CallsOK, HostOK, c, configuration
  <2>5. HostOK'
    BY <2>1, <2>2 DEF CallsInv, HostOK, configuration, contextVars, Mounted, c
  <2>6. ContextsFollow'
    <3> SUFFICES ASSUME owned PROVE NextFollows'
      BY <2>2 DEF ContextsFollow, ClassKinds, configuration
    <3>1. NoneFor(calls', c)
      BY <2>1, UnbuiltHasNone, SameCallsSame
    <3>2. phase.kind = "beforeFirstRenderEffects"
      BY <2>2 DEF CallsInv, HostOK, Mounted
    <3> QED
      BY <2>2, <3>1, <3>2 DEF CallsInv, ContextsFollow, NextFollows, contextVars, c
  <2> QED
    BY <2>3, <2>4, <2>5, <2>6 DEF Follows, CallsInv
<1>2. CASE MountWithProvider
  <2>1. /\ UNCHANGED <<configuration, current, contextVars, given, phase, starting, clientVars>>
        /\ kind = "withProvider" /\ mount \in {"rendered", "unmounted"} /\ mount' = "mounted"
        /\ handlers' = current
    BY <1>2 DEF MountWithProvider, Mounting, CanMount, kindVars, startVars
  <2>2. SameCalls
    BY <2>1, UnchangedCalls
  <2>3. ClientsOK' /\ CallsOK' /\ NoSecondAttempt
    BY <2>1, <2>2, AfterSameCalls DEF configuration
  <2>4. HostOK'
    BY <2>1 DEF CallsInv, HostOK, configuration, contextVars, Mounted
  <2>5. ContextsFollow'
    BY <2>1 DEF CallsInv, ContextsFollow, OthersFollow, ClassKinds, configuration, contextVars,
                clientVars
  <2> QED
    BY <2>3, <2>4, <2>5 DEF Follows, CallsInv
<1> QED
  BY <1>1, <1>2

LEMMA InstallFollows ==
  ASSUME CallsInv, InstallVue \/ InstallNuxt \/ InstallOpenFeature
  PROVE  Follows
<1>1. /\ UNCHANGED <<configuration, current, contextVars, given, phase>>
      /\ mount = "new" /\ mount' = "mounted" /\ handlers' = current
      /\ kind \in PluginKinds \cup {"openfeature"}
      /\ starting' => starting \/ kind = "nuxt"
      /\ kind = "nuxt" => starting' /\ UNCHANGED clientVars
      /\ kind = "openfeature" => Call(current, "initialize", prop, "requireReady")
  BY DEF InstallVue, InstallNuxt, InstallOpenFeature, Installing, startVars, PluginKinds
<1>2. current \in Clients /\ client[current].built /\ current # 0
  BY <1>1, CurrentIsBuilt DEF CallsInv, HostOK, PluginKinds
<1>3. HostOK'
  BY <1>1, <1>2 DEF CallsInv, HostOK, configuration, contextVars, Mounted, PluginKinds
<1>4. CASE UNCHANGED clientVars
  <2>1. SameCalls
    BY <1>4, UnchangedCalls
  <2>2. ClientsOK' /\ CallsOK' /\ NoSecondAttempt
    BY <1>1, <2>1, AfterSameCalls DEF configuration
  <2>4. kind # "openfeature"
    BY <1>1, <1>2, <1>4, HostCalls, CallsHaveClients
    DEF CallMade, clientVars, CallsInv, HostOK, Actions, Thens
  <2>3. ContextsFollow'
    BY <1>1, <1>4, <2>4 DEF CallsInv, ContextsFollow, NuxtFollows, configuration, contextVars,
                            clientVars, PluginKinds, ClassKinds
  <2> QED
    BY <1>3, <2>2, <2>3 DEF Follows, CallsInv
<1>5. CASE ~(UNCHANGED clientVars)
  <2>1. /\ kind \in {"vue", "openfeature"}
        /\ \E then \in Thens : Call(current, "initialize", prop, then)
        /\ ~client[current].initializing
    <3>1. CASE InstallVue
      BY <1>5, <3>1 DEF InstallVue, Thens
    <3>2. CASE InstallOpenFeature
      BY <3>2, <1>1, <1>2 DEF InstallOpenFeature, Thens, CallsInv, CallsOK, Fresh, NoneFor
    <3> QED
      BY <1>5, <3>1, <3>2 DEF InstallNuxt
  <2>2. CallMade(current, "initialize", prop)
    BY <1>2, <2>1, HostCalls DEF Actions, CallsInv, HostOK
  <2>3. ClientsOK' /\ CallsOK' /\ NoSecondAttempt
    BY <1>1, <1>2, <2>1, <2>2, AfterCall DEF configuration
  <2>5. Submitted(calls', current, prop) /\ ~NoneFor(calls', current)
    BY <2>2, CallMadeIsLast DEF CallsInv
  <2>4. ContextsFollow'
    <3>1. kind = "openfeature" /\ owned => latest = prop
      BY <1>1, CallsHaveClients DEF CallsInv, ContextsFollow, CallsOK, OthersFollow, NoneFor
    <3> QED
      BY <1>1, <2>1, <2>5, <3>1
      DEF ContextsFollow, OthersFollow, configuration, contextVars, ClassKinds
  <2> QED
    BY <1>3, <2>3, <2>4 DEF Follows, CallsInv
<1> QED
  BY <1>4, <1>5

\* A call on the host's client, with the context last given where the host keeps track of it.
LEMMA CurrentCallFollows ==
  ASSUME CallsInv, NEW action \in Actions, NEW context \in GivenContexts, NEW then \in Thens,
         Call(current, action, context, then), current # 0,
         action = "initialize" => ~client[current].initializing,
         UNCHANGED <<configuration, componentVars, phase>>, starting' => starting,
         prop' \in GivenContexts, latest' \in GivenContexts, given' \in GivenContexts,
         kind = "openfeature" => mount # "new",
         owned => kind # "nextjs",
         owned /\ kind = "nuxt" => given' = latest',
         owned /\ kind \in ClassKinds => Mounted,
         owned => \/ action = "resume" /\ kind = "react-native" /\ latest' = latest
                  \/ action # "resume" /\ latest' = context
  PROVE  Follows
<1>1. current \in Clients /\ client[current].built
  BY CurrentIsBuilt
<1>2. CallMade(current, action, context)
  BY <1>1, HostCalls
<1>3. UNCHANGED <<kind, owned, mount, mounts, current, handlers, disposedOwn>>
  BY DEF configuration, componentVars
<1>4. ClientsOK' /\ CallsOK' /\ NoSecondAttempt
  BY <1>1, <1>2, <1>3, AfterCall
<1>5. HostOK'
  BY <1>3 DEF CallsInv, HostOK, Mounted
<1>6. owned => /\ kind \in ClassKinds => Submitted(calls, current, latest)
               /\ kind # "react-native" => action # "resume"
  BY DEF CallsInv, ContextsFollow, ReactFollows
<1>8. /\ action # "resume" => Submitted(calls', current, context)
      /\ action = "resume" /\ Submitted(calls, current, latest) => Submitted(calls', current, latest)
      /\ ~NoneFor(calls', current)
  BY <1>1, <1>2, CallMadeIsLast DEF CallsInv
<1>7. ContextsFollow'
  <2> SUFFICES ASSUME owned PROVE ContextsFollow'
    BY <1>3 DEF ContextsFollow
  <2>1. CASE action = "resume"
    BY <1>3, <1>6, <1>8, <2>1
    DEF CallsInv, ContextsFollow, ReactFollows, ClassKinds, Mounted
  <2>2. CASE action # "resume"
    BY <1>3, <1>8, <2>2
    DEF CallsInv, ContextsFollow, ReactFollows, NuxtFollows, OthersFollow, ClassKinds, Mounted
  <2> QED
    BY <2>1, <2>2
<1> QED
  BY <1>4, <1>5, <1>7 DEF Follows, CallsInv

\* No call: the context given is the one the host had.
LEMMA NoCallFollows ==
  ASSUME CallsInv, UNCHANGED <<clientVars, configuration, componentVars, prop, phase>>,
         starting' => starting, latest' \in GivenContexts, given' \in GivenContexts,
         owned => /\ kind # "nextjs" /\ (kind # "vue" => latest' = latest)
                  /\ kind = "nuxt" => given' = latest' /\ (starting => starting' \/ ~Fresh(client[current])
                                                            \/ (defer /\ latest = None))
  PROVE  Follows
<1>1. UNCHANGED <<kind, owned, mount, mounts, current, handlers, disposedOwn, calls>>
  BY DEF configuration, componentVars, clientVars
<1>2. ClientsOK' /\ CallsOK' /\ NoSecondAttempt
  BY <1>1, AfterSameCalls, UnchangedCalls
<1>3. HostOK'
  BY <1>1 DEF CallsInv, HostOK, Mounted
<1>4. current # 0 => (NoneFor(calls, current) => Fresh(client[current]))
  BY DEF CallsInv, CallsOK, HostOK
<1>5. ContextsFollow'
  BY <1>1, <1>4
  DEF CallsInv, HostOK, ContextsFollow, ReactFollows, NuxtFollows, OthersFollow, ClassKinds,
      configuration, Mounted
<1> QED
  BY <1>2, <1>3, <1>5 DEF Follows, CallsInv

\* Calls by the application and the hooks, and the handlers that only call the client.
LEMMA CallerFollows ==
  ASSUME CallsInv, NEW context \in GivenContexts,
         \/ WithProvider \/ AppInitializes(context) \/ UpdateFromHook(context)
         \/ SetContext(context) \/ OnContextChange(context)
  PROVE  Follows
<1>1. "nothing" \in Thens /\ "settleCurrent" \in Thens /\ "requireReady" \in Thens
      /\ "initialize" \in Actions /\ "updateContext" \in Actions
  BY DEF Thens, Actions
<1>2. CASE WithProvider
  <2>1. /\ Call(1, "initialize", prop, "nothing") /\ kind = "withProvider" /\ Len(calls) = 0
        /\ mount = "new" /\ UNCHANGED hostVars
    BY <1>2 DEF WithProvider
  <2>2. current = 1 /\ current \in Clients
    BY <2>1, CurrentIsBuilt DEF CallsInv, HostOK
  <2>3. UNCHANGED <<configuration, componentVars, contextVars, given, phase, starting>>
    BY <2>1 DEF hostVars, kindVars, startVars
  <2>4. UNCHANGED <<prop, latest>> /\ prop \in GivenContexts /\ latest \in GivenContexts
        /\ given \in GivenContexts
    BY <2>3 DEF contextVars, CallsInv, HostOK
  <2>6. NoneFor(calls, current)
    BY <2>1 DEF NoneFor
  <2>5. ~client[current].initializing
    BY <2>2, <2>6 DEF CallsInv, CallsOK, Fresh
  <2>7. owned => latest = prop
    BY <2>1, <2>6 DEF CallsInv, ContextsFollow, OthersFollow
  <2> QED
    BY <1>1, <2>1, <2>2, <2>3, <2>4, <2>5, <2>7, CurrentCallFollows DEF ClassKinds
<1>3. CASE AppInitializes(context)
  <2>1. /\ Call(current, "initialize", context, "nothing") /\ ~owned
        /\ ~client[current].initializing
        /\ UNCHANGED <<configuration, componentVars, contextVars, kindVars>>
    BY <1>3 DEF AppInitializes
  <2>2. UNCHANGED <<phase, starting, prop, latest, given>>
    BY <2>1 DEF kindVars, startVars, contextVars
  <2>3. current # 0 /\ kind # "openfeature" /\ prop \in GivenContexts /\ latest \in GivenContexts
        /\ given \in GivenContexts
    BY <2>1 DEF CallsInv, HostOK
  <2> QED
    BY <1>1, <2>1, <2>2, <2>3, CurrentCallFollows
<1>4. CASE UpdateFromHook(context) \/ SetContext(context) \/ OnContextChange(context)
  <2>1. /\ \E then \in Thens : Call(current, "updateContext", context, then)
        /\ Mounted /\ latest' = context /\ prop' \in {prop, context}
        /\ kind \in ClassKinds \cup {"withProvider", "openfeature"}
        /\ UNCHANGED <<configuration, componentVars, phase, starting, given>>
    BY <1>1, <1>4
    DEF UpdateFromHook, SetContext, OnContextChange, kindVars, startVars
  <2>2. current # 0 /\ kind # "nextjs" /\ kind # "nuxt" /\ mount # "new"
    BY <2>1 DEF CallsInv, HostOK, ClassKinds, Mounted
  <2>3. prop' \in GivenContexts /\ latest' \in GivenContexts /\ given' \in GivenContexts
    BY <2>1 DEF CallsInv, HostOK
  <2> QED
    BY <1>1, <2>1, <2>2, <2>3, CurrentCallFollows
<1> QED
  BY <1>2, <1>3, <1>4

\* Vue and Nuxt compare the context with the one they know.
LEMMA PluginFollows ==
  ASSUME CallsInv, NEW context \in GivenContexts,
         UpdateVueContext(context) \/ UpdateNuxtContext(context) \/ AppCreated
  PROVE  Follows
<1>1. "nothing" \in Thens /\ "settleDown" \in Thens
      /\ "initialize" \in Actions /\ "updateContext" \in Actions
  BY DEF Thens, Actions
<1>2. Mounted /\ current # 0
  BY DEF UpdateVueContext, UpdateNuxtContext, AppCreated, CallsInv, HostOK
<1>3. prop \in GivenContexts /\ latest \in GivenContexts /\ given \in GivenContexts
  BY DEF CallsInv, HostOK
<1>4. CASE UpdateVueContext(context)
  <2>1. /\ kind = "vue" /\ latest' = context
        /\ UNCHANGED <<configuration, componentVars, prop, given, phase, starting>>
    BY <1>4 DEF UpdateVueContext, kindVars, startVars
  <2>2. CASE UNCHANGED clientVars
    BY <1>3, <2>1, <2>2, NoCallFollows
  <2>3. CASE Call(current, "updateContext", context, "nothing")
    BY <1>1, <1>2, <1>3, <2>1, <2>3, CurrentCallFollows
  <2> QED
    BY <1>4, <2>2, <2>3 DEF UpdateVueContext
<1>5. CASE UpdateNuxtContext(context)
  <2>1. /\ kind = "nuxt" /\ latest' = context /\ given' = context
        /\ UNCHANGED <<configuration, componentVars, prop, phase, starting>>
    BY <1>5 DEF UpdateNuxtContext
  <2>2. CASE context = given
    <3>1. UNCHANGED clientVars
      BY <1>5, <2>2 DEF UpdateNuxtContext
    <3>2. owned => latest = given
      BY <2>1 DEF CallsInv, ContextsFollow, NuxtFollows
    <3> QED
      BY <1>3, <2>1, <2>2, <3>1, <3>2, NoCallFollows
  <2>3. CASE context # given
    <3>1. HandContextToClient(context)
      BY <1>5, <2>3 DEF UpdateNuxtContext
    <3>2. \/ /\ Call(current, "initialize", context, "settleDown")
             /\ ~client[current].initializing
          \/ Call(current, "updateContext", context, "nothing")
      BY <3>1, MountActions DEF HandContextToClient
    <3> QED
      BY <1>1, <1>2, <1>3, <2>1, <3>2, CurrentCallFollows
  <2> QED
    BY <2>2, <2>3
<1>6. CASE AppCreated
  <2> DEFINE action == DecideStartupAction(client[current], given)
  <2>1. /\ kind = "nuxt" /\ ~starting'
        /\ UNCHANGED <<configuration, componentVars, prop, latest, given, phase>>
    BY <1>6 DEF AppCreated, contextVars
  <2>2. owned => latest = given
    BY <2>1 DEF CallsInv, ContextsFollow, NuxtFollows
  <2>7. /\ Fresh(client[current]) /\ action # "initialize"
               => action = "waitForContext" /\ defer /\ given = None
    BY MountActions
  <2>3. /\ action \in {"none", "initialize", "updateContext", "waitForContext", "firstStartInFlight"}
        /\ action = "initialize" => ~client[current].initializing
    BY MountActions
  <2>4. \/ UNCHANGED clientVars
        \/ action \in {"initialize", "updateContext"} /\ Call(current, action, given, "settleDown")
    BY <1>6, <2>3 DEF AppCreated, clientVars
  <2> HIDE DEF action
  <2>8. action = "initialize" => ~UNCHANGED clientVars
    BY <1>2, <1>3, <1>6, HostCalls, CurrentIsBuilt, CallsHaveClients
    DEF AppCreated, CallMade, clientVars, CallsInv, Actions, Thens, action
  <2>5. CASE UNCHANGED clientVars
    BY <1>3, <2>1, <2>2, <2>5, <2>7, <2>8, NoCallFollows
  <2>6. CASE action \in {"initialize", "updateContext"} /\ Call(current, action, given, "settleDown")
    BY <1>1, <1>2, <1>3, <2>1, <2>2, <2>3, <2>6, CurrentCallFollows
  <2> QED
    BY <2>4, <2>5, <2>6
<1> QED
  BY <1>4, <1>5, <1>6

\* The app's state and connectivity: the client is paused or resumed.
LEMMA NativeFollows ==
  ASSUME CallsInv, NEW b, AppState(b) \/ HandleConnectivityChange(b)
  PROVE  Follows
<1>1. /\ kind = "react-native"
      /\ UNCHANGED <<configuration, componentVars, prop, latest, given, phase, starting>>
  BY DEF AppState, HandleConnectivityChange, startVars, contextVars
<1>2. prop \in GivenContexts /\ latest \in GivenContexts /\ given \in GivenContexts
  BY DEF CallsInv, HostOK
<1>3. current # 0 /\ current \in Clients /\ client[current].built
  BY <1>1, CurrentIsBuilt DEF CallsInv, HostOK
<1>4. \/ UNCHANGED clientVars
      \/ client' = Paused(current) /\ calls' = calls
      \/ Mounted /\ Resume(current)
  BY DEF AppState, HandleConnectivityChange
<1>5. CASE UNCHANGED clientVars
  BY <1>1, <1>2, <1>5, NoCallFollows
<1>6. CASE client' = Paused(current) /\ calls' = calls
  <2> DEFINE view == [client[current] EXCEPT !.ready = FALSE, !.link = FALSE]
  <2>1. client[current] \in View /\ client \in [Clients -> View]
    BY <1>3 DEF CallsInv, ClientsOK
  <2>2. view \in View /\ view.built = client[current].built /\ NoStart(view, client[current])
    BY <2>1 DEF View, NoStart
  <2>3. client' = [client EXCEPT ![current] = view]
    BY <1>3, <1>6, <2>1 DEF Paused, View
  <2> HIDE DEF view
  <2>4. SameCalls
    BY <1>3, <1>6, <2>1, <2>2, <2>3, CallsHaveClients
    DEF SameCalls, SameCall, NoStart, CallsInv, ClientsOK
  <2> QED
    BY <1>1, <2>4, SameHost DEF contextVars
<1>7. CASE Mounted /\ Resume(current)
  <2>1. client[current].context \in GivenContexts
    BY <1>3, ClientContexts
  <2>2. "resume" \in Actions /\ "nothing" \in Thens
    BY DEF Actions, Thens
  <2> QED
    BY <1>1, <1>2, <1>3, <1>7, <2>1, <2>2, CurrentCallFollows DEF Resume
<1> QED
  BY <1>4, <1>5, <1>6, <1>7

\* The start of a Next.js provider's client, which has no calls when the provider built it.
LEMMA NextStartFollows ==
  ASSUME CallsInv, NEW context \in GivenContexts, kind = "nextjs", Mounted,
         StartClient(current, context), owned => NoneFor(calls, current),
         UNCHANGED <<configuration, componentVars>>, ~starting',
         prop' \in GivenContexts, latest' \in GivenContexts, given' \in GivenContexts,
         owned => given' = latest' /\ latest' = context
  PROVE  Follows
<1> DEFINE action == DecideStartupAction(client[current], context)
<1>1. current # 0 /\ current \in Clients /\ client[current].built
  BY CurrentIsBuilt DEF CallsInv, HostOK
<1>2. /\ action \in {"none", "initialize", "updateContext", "waitForContext"}
      /\ action = "initialize" => ~client[current].initializing
      /\ Fresh(client[current]) /\ action # "initialize" => action = "waitForContext"
      /\ action = "waitForContext" => defer /\ context = None
  BY MountActions
<1>3. /\ phase' = StartupPhaseAfter(action, current)
      /\ action \in {"waitForContext", "none"} => UNCHANGED clientVars
      /\ action \notin {"waitForContext", "none"} =>
            Call(current, action, context, "settleIfCurrent")
  BY DEF StartClient
<1> HIDE DEF action
<1>4. /\ phase' \in Phases /\ phase'.client = current
      /\ phase'.kind = (IF action = "waitForContext" THEN "waitingForContext" ELSE "started")
  BY <1>1, <1>3 DEF StartupPhaseAfter, Phases
<1>5. UNCHANGED <<kind, owned, mount, mounts, current, handlers, disposedOwn>>
  BY DEF configuration, componentVars
<1>6. HostOK'
  BY <1>4, <1>5 DEF CallsInv, HostOK, Mounted
<1>7. CASE action \in {"waitForContext", "none"}
  <2>1. SameCalls
    BY <1>3, <1>7, UnchangedCalls
  <2>2. ClientsOK' /\ CallsOK' /\ NoSecondAttempt
    BY <1>5, <2>1, AfterSameCalls
  <2>3. ContextsFollow'
    <3> SUFFICES ASSUME owned PROVE NextFollows'
      BY <1>5 DEF ContextsFollow, ClassKinds
    <3>1. NoneFor(calls', current) /\ NoneFor(calls, current)
      BY <2>1, SameCallsSame
    <3>2. Fresh(client[current])
      BY <1>1, <3>1 DEF CallsInv, CallsOK
    <3>3. phase'.kind = "waitingForContext" /\ defer /\ context = None
      BY <1>2, <1>4, <1>7, <3>2
    <3> QED
      BY <1>5, <3>1, <3>3 DEF NextFollows, configuration
  <2> QED
    BY <1>6, <2>2, <2>3 DEF Follows, CallsInv
<1>8. CASE action \notin {"waitForContext", "none"}
  <2>1. action \in Actions /\ "settleIfCurrent" \in Thens
    BY <1>2, <1>8 DEF Actions, Thens
  <2>2. CallMade(current, action, context)
    BY <1>1, <1>3, <1>8, <2>1, HostCalls
  <2>3. ClientsOK' /\ CallsOK' /\ NoSecondAttempt
    BY <1>1, <1>2, <1>5, <2>2, AfterCall
  <2>4. Submitted(calls', current, context)
    BY <1>1, <1>2, <1>8, <2>2, CallMadeIsLast DEF CallsInv
  <2>5. ContextsFollow'
    <3> SUFFICES ASSUME owned PROVE NextFollows'
      BY <1>5 DEF ContextsFollow, ClassKinds
    <3> QED
      BY <1>4, <1>5, <1>8, <2>4 DEF NextFollows
  <2> QED
    BY <1>6, <2>3, <2>5 DEF Follows, CallsInv
<1> QED
  BY <1>7, <1>8

LEMMA NextStepFollows ==
  ASSUME CallsInv, NEW context \in GivenContexts, NEW asProp,
         StartAfterFirstRenderEffects \/ GiveNextContext(context, asProp)
  PROVE  Follows
<1>1. prop \in GivenContexts /\ latest \in GivenContexts /\ given \in GivenContexts
  BY DEF CallsInv, HostOK
<1>2. CASE StartAfterFirstRenderEffects
  <2>1. /\ kind = "nextjs" /\ starting /\ ~starting' /\ StartClient(current, given)
        /\ UNCHANGED <<configuration, componentVars, prop, latest, given>>
    BY <1>2 DEF StartAfterFirstRenderEffects, contextVars
  <2>2. Mounted /\ phase.kind = "beforeFirstRenderEffects"
    BY <2>1 DEF CallsInv, HostOK
  <2>3. owned => NoneFor(calls, current) /\ given = latest
    BY <2>1, <2>2 DEF CallsInv, ContextsFollow, NextFollows
  <2> QED
    BY <1>1, <2>1, <2>2, <2>3, NextStartFollows
<1>3. CASE GiveNextContext(context, asProp)
  <2>1. /\ kind = "nextjs" /\ Mounted /\ latest' = context /\ prop' \in {prop, context}
        /\ ReceiveContext(context)
        /\ UNCHANGED <<configuration, componentVars, starting>>
    BY <1>3 DEF GiveNextContext
  <2>2. UNCHANGED <<kind, owned, mount, mounts, current, handlers, disposedOwn>>
    BY <2>1 DEF configuration, componentVars
  <2>3. current # 0 /\ current \in Clients /\ client[current].built
    BY <2>1, CurrentIsBuilt DEF CallsInv, HostOK
  <2>4. owned => NextFollows
    BY <2>1 DEF CallsInv, ContextsFollow
  <2>5. /\ phase.kind \in {"beforeFirstRenderEffects", "waitingForContext", "started"}
        /\ phase.kind # "beforeFirstRenderEffects" => phase.client = current /\ ~starting
    BY <2>1 DEF CallsInv, HostOK, Phases
  <2>6. \/ /\ UNCHANGED <<clientVars, phase>>
           /\ given' = context
           /\ context = given \/ phase.kind = "beforeFirstRenderEffects"
        \/ /\ phase.kind = "waitingForContext" /\ given' = context /\ StartClient(current, context)
        \/ /\ phase.kind = "started" /\ given' = context /\ UNCHANGED phase
           /\ Call(current, "updateContext", context, "settleIfCurrent")
    BY <2>1, <2>5 DEF ReceiveContext, DecideGivenContextAction, KeepForStartup
  <2>7. CASE /\ UNCHANGED <<clientVars, phase>> /\ given' = context
             /\ context = given \/ phase.kind = "beforeFirstRenderEffects"
    <3>1. ClientsOK' /\ CallsOK' /\ NoSecondAttempt
      BY <2>2, <2>7, UnchangedCalls, AfterSameCalls
    <3>2. HostOK'
      BY <1>1, <2>1, <2>2, <2>7 DEF CallsInv, HostOK, Mounted
    <3>3. ContextsFollow'
      <4> SUFFICES ASSUME owned PROVE NextFollows'
        BY <2>1, <2>2 DEF ContextsFollow, ClassKinds
      <4>1. calls' = calls
        BY <2>7 DEF clientVars
      <4>2. phase.kind = "beforeFirstRenderEffects" \/ context = latest
        BY <2>4, <2>7 DEF NextFollows
      <4> QED
        BY <2>1, <2>2, <2>4, <2>7, <4>1, <4>2 DEF NextFollows, configuration
    <3> QED
      BY <3>1, <3>2, <3>3 DEF Follows, CallsInv
  <2>8. CASE phase.kind = "waitingForContext" /\ given' = context /\ StartClient(current, context)
    <3>1. owned => NoneFor(calls, current)
      BY <2>1, <2>4, <2>8 DEF NextFollows
    <3>2. ~starting'
      BY <2>1, <2>5, <2>8 DEF CallsInv, HostOK
    <3> QED
      BY <1>1, <2>1, <2>8, <3>1, <3>2, NextStartFollows
  <2>9. CASE /\ phase.kind = "started" /\ given' = context /\ UNCHANGED phase
             /\ Call(current, "updateContext", context, "settleIfCurrent")
    <3>1. CallMade(current, "updateContext", context)
      BY <2>3, <2>9, HostCalls DEF Actions, Thens
    <3>2. ClientsOK' /\ CallsOK' /\ NoSecondAttempt
      BY <2>1, <2>2, <2>3, <3>1, AfterCall
    <3>3. HostOK'
      BY <1>1, <2>1, <2>2, <2>9 DEF CallsInv, HostOK, Mounted
    <3>4. Submitted(calls', current, context)
      BY <2>3, <3>1, CallMadeIsLast DEF CallsInv
    <3>5. ContextsFollow'
      BY <2>1, <2>2, <2>9, <3>4 DEF ContextsFollow, NextFollows, ClassKinds
    <3> QED
      BY <3>2, <3>3, <3>5 DEF Follows, CallsInv
  <2> QED
    BY <2>6, <2>7, <2>8, <2>9
<1> QED
  BY <1>2, <1>3

-----------------------------------------------------------------------------
(* The theorems *)

LEMMA InitCalls == Init => CallsInv
<1> SUFFICES ASSUME Init PROVE CallsInv
  OBVIOUS
<1>1. 1 \in Clients /\ 0 \notin Clients
  BY HostBoundsAssumption DEF Clients
<1>2. /\ calls = <<>> /\ Len(calls) = 0 /\ mount = "new" /\ ~starting
      /\ current = (IF owned /\ kind = "nextjs" THEN 0 ELSE 1)
  BY DEF Init
<1>3. Unbuilt \in View /\ [Unbuilt EXCEPT !.built = TRUE] \in View
      /\ \A b \in BOOLEAN : [Unbuilt EXCEPT !.built = b] \in View
                            /\ Fresh([Unbuilt EXCEPT !.built = b])
                            /\ [Unbuilt EXCEPT !.built = b].built = b
  BY DEF Unbuilt, View, GivenContexts, Fresh
<1>4. /\ client \in [Clients -> View]
      /\ \A c \in Clients : Fresh(client[c]) /\ (client[c].built <=> c = current)
  BY <1>3 DEF Init
<1>5. ClientsOK
  BY <1>2, <1>4 DEF ClientsOK
<1>6. HostOK
  BY <1>1, <1>2 DEF Init, HostOK, Phases, BeforeFirstRenderEffects, Mounted, GivenContexts
<1>7. CallsOK
  BY <1>1, <1>2, <1>4 DEF CallsOK, Fresh
<1>8. ContextsFollow
  BY <1>2
  DEF Init, ContextsFollow, ReactFollows, NextFollows, NuxtFollows, OthersFollow, NoneFor, Mounted
<1> QED
  BY <1>5, <1>6, <1>7, <1>8 DEF CallsInv

LEMMA CallsStep == CallsInv /\ [Next]_vars => CallsInv' /\ [NoSecondAttempt]_vars
<1> SUFFICES ASSUME CallsInv, [Next]_vars PROVE Follows
  BY DEF Follows
<1>1. CASE UNCHANGED vars
  <2>1. UNCHANGED <<clientVars, configuration, componentVars, contextVars, given, phase, starting>>
    BY <1>1 DEF vars, hostVars, kindVars, startVars
  <2> QED
    BY <2>1, UnchangedCalls, SameHost
<1>2. CASE Next
  <2>1. ASSUME NEW context \in Contexts \cup {None}, NEW asProp \in BOOLEAN,
               GiveNextContext(context, asProp)
        PROVE  Follows
    BY <2>1, NextStepFollows DEF GivenContexts
  <2>2. ASSUME NEW context \in Contexts \cup {None},
               \/ SetContext(context) \/ UpdateFromHook(context) \/ AppInitializes(context)
               \/ OnContextChange(context)
        PROVE  Follows
    BY <2>2, CallerFollows DEF GivenContexts
  <2>3. ASSUME NEW context \in Contexts \cup {None},
               UpdateVueContext(context) \/ UpdateNuxtContext(context)
        PROVE  Follows
    BY <2>3, PluginFollows DEF GivenContexts
  <2>4. ASSUME NEW b \in BOOLEAN, AppState(b) \/ HandleConnectivityChange(b) PROVE Follows
    BY <2>4, NativeFollows
  <2>5. None \in GivenContexts
    BY DEF GivenContexts
  <2>6. CASE StartAfterFirstRenderEffects
    BY <2>5, <2>6, NextStepFollows
  <2>7. CASE AppCreated
    BY <2>5, <2>7, PluginFollows
  <2>8. CASE WithProvider
    BY <2>5, <2>8, CallerFollows
  <2> QED
    BY <1>2, <2>1, <2>2, <2>3, <2>4, <2>6, <2>7, <2>8, RenderFollows, MountFollows,
       OtherMountsFollow, InstallFollows, UnmountFollows, ClientStepFollows
    DEF Next
<1> QED
  BY <1>1, <1>2

\* For every host but Vue that built its client: through the start after the first effects
\* or app:created, a wait for a first context, pauses and mounts again, the context last
\* given is the one last submitted, resumes not counted, or there is none and the host waits
\* for one.
THEOREM LatestContextAlwaysWins == Spec => []LatestContextWins
<1>1. CallsInv => LatestContextWins
  <2> SUFFICES ASSUME CallsInv, owned, kind # "vue", Mounted, ~starting
               PROVE  LatestSubmitted \/ (SubmittedCalls = {} /\ defer /\ latest = None)
    BY DEF LatestContextWins
  <2>1. DOMAIN calls = 1 .. Len(calls)
    BY DEF CallsInv, ClientsOK
  <2>2. Submitted(calls, current, latest) => LatestSubmitted
    BY <2>1 DEF Submitted, Submits, LatestSubmitted, SubmittedCalls, CallsOf
  <2>3. NoneFor(calls, current) => SubmittedCalls = {}
    BY <2>1 DEF NoneFor, SubmittedCalls, CallsOf
  <2>4. kind \in ClassKinds \cup {"nextjs", "nuxt", "withProvider", "openfeature"}
    BY KindIsKnown DEF CallsInv, PluginKinds
  <2>5. CASE kind \in ClassKinds \cup {"withProvider", "openfeature"}
    BY <2>2, <2>5 DEF CallsInv, ContextsFollow, ReactFollows, OthersFollow, Mounted
  <2>6. CASE kind = "nextjs"
    BY <2>2, <2>3, <2>6 DEF CallsInv, HostOK, Phases, ContextsFollow, NextFollows
  <2>7. CASE kind = "nuxt"
    BY <2>2, <2>3, <2>7 DEF CallsInv, ContextsFollow, NuxtFollows
  <2> QED
    BY <2>4, <2>5, <2>6, <2>7
<1> QED
  BY <1>1, InitCalls, CallsStep, PTL DEF Spec

\* No host starts a second initialization of a client while it is initializing, whoever
\* started the first.  Once the client has stopped initializing a host may: a deferred Nuxt
\* does, when a context comes while an update left the client unready.
THEOREM OnlyOneAttempt == Spec => OneAttempt
<1>1. [NoSecondAttempt]_vars => [\A c \in Clients :
          Len(calls') > Len(calls) /\ client[c].initializing
              => ~(calls'[Len(calls')].client = c /\ calls'[Len(calls')].action = "initialize")]_vars
  BY DEF NoSecondAttempt
<1> QED
  BY <1>1, InitCalls, CallsStep, PTL DEF Spec, OneAttempt

-----------------------------------------------------------------------------
(***************************************************************************)
(* Statuses.  What the getters of a client say hangs together, every host  *)
(* hears the client of its state, and only a class or Next.js provider     *)
(* that builds its clients has calls on another one.                       *)
(***************************************************************************)
ViewOK(view) ==
    /\ view.ready => view.received /\ ~view.pending
    /\ view.link /\ ~view.received => view.pending
    /\ view.initializing => ~view.received

SingleClient == ~(owned /\ kind \in ClassKinds \cup {"nextjs"})

\* What the callers of each kind of host do when their calls return.
ThensOf(k) ==
    {then \in Thens :
       /\ then = "nothing" => k # "openfeature"
       /\ then \in {"settle", "settleCurrent"} => k \in ClassKinds
       /\ then = "settleIfCurrent" => k = "nextjs"
       /\ then = "settleDown" => k \in PluginKinds
       /\ then = "requireReady" => k = "openfeature"}

HostShape ==
    /\ mount \in {"new", "rendered", "mounted", "unmounted"}
    /\ handlers = IF Mounted THEN current ELSE 0
    /\ kind # "openfeature" => ~servingCachedValues

CallsShape ==
    /\ SingleClient => \A i \in 1 .. Len(calls) : calls[i].client = current
    /\ \A i \in 1 .. Len(calls) : calls[i].then \in ThensOf(kind)
    /\ mount = "new" => \A i \in 1 .. Len(calls) : calls[i].then = "nothing"

ViewsFollow ==
    /\ \A c \in Clients : ViewOK(client[c])
    /\ Owning => \A c \in Clients : client[c].ready => Mounted /\ c = current

\* A component's status says "ready" of a ready client at every moment, but before its
\* first render; a plugin's and withProvider's while they are mounted.
HostTold ==
    /\ kind # "openfeature" /\ current # 0 /\ client[current].ready
    /\ IF kind \in PluginKinds \cup {"withProvider"} THEN Mounted ELSE mount # "new"
    /\ missedReady => kind = "withProvider"
    /\ ~settledByReplaced
    => status = "ready"

\* The last of c's calls is one the host awaited, and it has gone on.
AwaitedLast(s, c) ==
    \E i \in 1 .. Len(s) :
       /\ s[i].client = c /\ s[i].then # "nothing" /\ s[i].pc = "done"
       /\ \A j \in 1 .. Len(s) : s[j].client = c => j <= i

\* No pause made this client unready, or the host makes a call on it when it is mounted.
Informed(view) ==
    \/ ~view.received
    \/ Mounted /\ ~background
    \/ kind = "nextjs" /\ ~owned

UnreadyTold ==
    /\ kind # "openfeature" /\ current # 0 /\ ~client[current].ready
    /\ AwaitedLast(calls, current)
    /\ Informed(client[current])
    => status = "default"

\* OpenFeature's is behind while a call is open: the SDK records what it returns.
OpenCall == \E i \in 1 .. Len(calls) : calls[i].pc # "done"

FeatureReported(view) ==
    /\ view.ready => status = "ready" \/ OpenCall
    /\ ~view.ready => (awaitingRecovery /\ status \in {"error", "stale"}) \/ OpenCall
    /\ view.pending \/ ~view.received => awaitingRecovery \/ OpenCall
    /\ servingCachedValues => ~view.received
    /\ view.cached => servingCachedValues
    /\ awaitingRecovery /\ servingCachedValues /\ ~reportDue => status = "stale"

FeatureTold ==
    kind = "openfeature" =>
        /\ mount = "new" => ~awaitingRecovery /\ ~servingCachedValues /\ ~client[current].cached
        /\ Mounted => FeatureReported(client[current])

StatusInv == HostShape /\ CallsShape /\ ViewsFollow /\ HostTold /\ UnreadyTold /\ FeatureTold

-----------------------------------------------------------------------------
(* What the steps of a client leave of its view. *)

\* Nothing becomes ready, arrives or is asked for.
Quieter(new, old) ==
    /\ new.ready => old.ready
    /\ new.initializing => old.initializing
    /\ new.received => old.received
    /\ old.received => new.received
    /\ new.pending => old.pending
    /\ old.pending => new.pending \/ ~new.link
    /\ new.link => old.link
    /\ new.cached => old.cached

\* The calls are those of before, and no call of an awaiting caller is done.
SameOutcomes ==
    \A i \in 1 .. Len(calls) :
        /\ calls'[i].then = calls[i].then
        /\ calls'[i].pc = "done" => calls[i].pc = "done" \/ calls[i].then = "nothing"

Unheard ==
    /\ SameCalls /\ SameOutcomes
    /\ \A c \in Clients : Quieter(client'[c], client[c])

\* Nor is any client less ready.
StillReady == \A c \in Clients : client[c].ready => client'[c].ready

CallPlaced(c, then) ==
    /\ Len(calls') = Len(calls) + 1
    /\ \A i \in 1 .. Len(calls) : calls'[i] = calls[i]
    /\ calls'[Len(calls) + 1].client = c
    /\ calls'[Len(calls) + 1].then = then
    /\ calls'[Len(calls) + 1].pc = "connecting"
    /\ ~client'[c].ready /\ client'[c].pending
    /\ client'[c].initializing => client[c].initializing \/ ~client'[c].received
    /\ client'[c].received => client[c].received
    /\ client'[c].cached => client[c].cached
    /\ \A d \in Clients \ {c} : Quieter(client'[d], client[d])
    /\ client'[c].built /\ \A d \in Clients : client[d].built => client'[d].built

LEMMA QuieterSelf == ASSUME NEW view PROVE Quieter(view, view)
  BY DEF Quieter

LEMMA ReturnedOutcome ==
  ASSUME NEW call \in CallRecord
  PROVE  /\ Returned(call).then = call.then
         /\ Returned(call).pc = "done" => call.then = "nothing"
  BY DEF Returned, CallRecord

\* One view changes, and no call.
LEMMA OneQuieter ==
  ASSUME ClientsOK, NEW c \in Clients, NEW view \in View, Quieter(view, client[c]),
         view.built = client[c].built,
         client' = [client EXCEPT ![c] = view], calls' = calls
  PROVE  Unheard
<1>1. client \in [Clients -> View] /\ calls \in Seq(CallRecord)
  BY DEF ClientsOK
<1>2. SameCalls
  BY <1>1, CallsHaveClients DEF SameCalls, SameCall, NoStart, Quieter
<1>3. \A d \in Clients : Quieter(client'[d], client[d])
  BY <1>1, QuieterSelf
<1> QED
  BY <1>2, <1>3 DEF Unheard, SameOutcomes

LEMMA UnchangedUnheard ==
  ASSUME CallsInv, UNCHANGED clientVars PROVE Unheard /\ StillReady
  BY UnchangedCalls, QuieterSelf DEF Unheard, SameOutcomes, StillReady, clientVars

LEMMA PausedUnheard ==
  ASSUME CallsInv, NEW c \in Clients, client' = Paused(c) \/ client' = Disposed(c), calls' = calls
  PROVE  Unheard /\ ~client'[c].ready
<1> DEFINE paused == [client[c] EXCEPT !.ready = FALSE, !.link = FALSE]
<1> DEFINE disposed == [client[c] EXCEPT !.ready = FALSE, !.initializing = FALSE, !.pending = FALSE,
                                         !.link = FALSE]
<1>1. client[c] \in View /\ ClientsOK
  BY DEF CallsInv, ClientsOK
<1>2. paused \in View /\ paused.built = client[c].built /\ ~paused.ready
  BY <1>1 DEF View
<1>3. Quieter(paused, client[c])
  BY <1>1 DEF View, Quieter
<1>4. disposed \in View /\ disposed.built = client[c].built /\ ~disposed.ready
  BY <1>1 DEF View
<1>5. Quieter(disposed, client[c])
  BY <1>1 DEF View, Quieter
<1>6. Paused(c) = [client EXCEPT ![c] = paused] /\ Disposed(c) = [client EXCEPT ![c] = disposed]
  BY <1>1 DEF Paused, Disposed, View, ClientsOK
<1> HIDE DEF paused, disposed
<1>7. CASE client' = Paused(c)
  BY <1>1, <1>2, <1>3, <1>6, <1>7, OneQuieter DEF ClientsOK
<1>8. CASE client' = Disposed(c)
  BY <1>1, <1>4, <1>5, <1>6, <1>8, OneQuieter DEF ClientsOK
<1> QED
  BY <1>7, <1>8

LEMMA SettlingUnheard ==
  ASSUME CallsInv, NEW i \in DOMAIN calls, TransportSettles(i) \/ CallTimesOut(i) \/ CallRefused(i)
  PROVE  Unheard /\ StillReady
<1> DEFINE c == calls[i].client
<1>1. calls[i] \in CallRecord /\ i \in 1 .. Len(calls) /\ ClientsOK
  BY DEF CallsInv, ClientsOK
<1>2. c \in Clients
  BY <1>1 DEF CallRecord
<1>3. SameCalls
  BY <1>1, SettlingKeepsCalls
<1>4. client[c] \in View
  BY <1>1, <1>2 DEF ClientsOK
<1> DEFINE settled == [client[c] EXCEPT !.context = calls[i].context]
<1> DEFINE refused == [client[c] EXCEPT !.link = FALSE, !.initializing = FALSE]
<1>5. Quieter(settled, client[c]) /\ settled.ready = client[c].ready
  BY <1>4 DEF View, Quieter
<1>6. Quieter(refused, client[c]) /\ refused.ready = client[c].ready
  BY <1>4 DEF View, Quieter
<1>10. client' \in {client, [client EXCEPT ![c] = settled], [client EXCEPT ![c] = refused]}
  BY <1>1, <1>2 DEF TransportSettles, CallTimesOut, CallRefused, ClientsOK
<1>11. /\ \A d \in Clients : Quieter(client'[d], client[d])
       /\ StillReady
  <2> HIDE DEF settled, refused, c
  <2> QED
    BY <1>1, <1>2, <1>5, <1>6, <1>10, QuieterSelf DEF ClientsOK, StillReady
<1>7. CASE TransportSettles(i)
  <2>3. calls' = [calls EXCEPT ![i] = [calls[i] EXCEPT !.pc = "waiting"]]
        \/ calls' = [calls EXCEPT ![i] = Returned(calls[i])]
    BY <1>7 DEF TransportSettles
  <2>4. /\ [calls[i] EXCEPT !.pc = "waiting"].then = calls[i].then
        /\ [calls[i] EXCEPT !.pc = "waiting"].pc = "waiting"
    BY <1>1 DEF CallRecord
  <2>5. \E call : /\ calls' = [calls EXCEPT ![i] = call]
                  /\ call.then = calls[i].then
                  /\ call.pc = "done" => calls[i].then = "nothing"
    BY <1>1, <2>3, <2>4, ReturnedOutcome
  <2>6. SameOutcomes
    BY <1>1, <2>5 DEF SameOutcomes, ClientsOK
  <2> QED
    BY <1>3, <1>11, <2>6 DEF Unheard
<1>8. CASE CallTimesOut(i)
  <2>3. calls' = [calls EXCEPT ![i] = Returned(calls[i])]
    BY <1>8 DEF CallTimesOut
  <2>5. SameOutcomes
    BY <1>1, <2>3, ReturnedOutcome DEF SameOutcomes, ClientsOK
  <2> QED
    BY <1>3, <1>11, <2>5 DEF Unheard
<1>9. CASE CallRefused(i)
  <2>3. calls' = [calls EXCEPT ![i] = Returned(calls[i])] \/ calls' = [calls EXCEPT ![i] = calls[i]]
    BY <1>9 DEF CallRefused
  <2>5. SameOutcomes
    BY <1>1, <2>3, ReturnedOutcome DEF SameOutcomes, ClientsOK
  <2> QED
    BY <1>3, <1>11, <2>5 DEF Unheard
<1> QED
  BY <1>7, <1>8, <1>9

\* Building a client changes no view but for saying that it is built.
LEMMA BuildingQuieter ==
  ASSUME CallsInv, NEW c \in Clients
  PROVE  \A d \in Clients : Quieter(BuildClient(client, c)[d], client[d])
<1>1. client \in [Clients -> View] /\ client[c] \in View
  BY DEF CallsInv, ClientsOK
<1>2. Quieter([client[c] EXCEPT !.built = TRUE], client[c])
  BY <1>1 DEF View, Quieter
<1>3. BuildClient(client, c) = [client EXCEPT ![c] = [client[c] EXCEPT !.built = TRUE]]
  BY DEF BuildClient
<1> QED
  BY <1>1, <1>2, <1>3, QuieterSelf

LEMMA CallIsPlaced ==
  ASSUME calls \in Seq(CallRecord), NEW clients \in [Clients -> View],
         \A d \in Clients : Quieter(clients[d], client[d]),
         NEW c \in Clients, clients[c].built,
         \A d \in Clients : client[d].built => clients[d].built, NEW action, NEW context,
         NEW then, CallOn(clients, c, action, context, then)
  PROVE  CallPlaced(c, then)
<1> DEFINE call == [client |-> c, action |-> action, context |-> context, pc |-> "connecting",
                    then |-> then]
<1> DEFINE view == [clients[c] EXCEPT !.ready = FALSE, !.pending = TRUE, !.link = TRUE,
                       !.initializing = @ \/ (action = "initialize" /\ ~clients[c].received)]
<1>1. call.client = c /\ call.then = then /\ call.pc = "connecting" /\ calls' = Append(calls, call)
  BY DEF CallOn
<1>2. clients[c] \in View
  OBVIOUS
<1>3. /\ ~view.ready /\ view.pending /\ view.built = clients[c].built
      /\ view.received = clients[c].received /\ view.cached = clients[c].cached
      /\ view.initializing => clients[c].initializing \/ ~view.received
  BY <1>2 DEF View
<1>4. client' = [clients EXCEPT ![c] = view]
  BY <1>2 DEF CallOn, Connecting, View
<1> HIDE DEF call, view
<1>5. client'[c] = view /\ \A d \in Clients \ {c} : client'[d] = clients[d]
  BY <1>4
<1>6. Len(calls') = Len(calls) + 1 /\ calls'[Len(calls) + 1] = call
      /\ \A i \in 1 .. Len(calls) : calls'[i] = calls[i]
  BY <1>1
<1>7. /\ view.received => client[c].received
      /\ view.cached => client[c].cached
      /\ view.initializing => client[c].initializing \/ ~view.received
  BY <1>3 DEF Quieter
<1> QED
  BY <1>1, <1>3, <1>5, <1>6, <1>7 DEF CallPlaced

LEMMA HostPlaces ==
  ASSUME CallsInv, NEW c \in Clients, client[c].built, NEW action, NEW context, NEW then,
         Call(c, action, context, then)
  PROVE  CallPlaced(c, then)
<1>1. calls \in Seq(CallRecord) /\ client \in [Clients -> View]
  BY DEF CallsInv, ClientsOK
<1>2. \A d \in Clients : Quieter(client[d], client[d])
  BY QuieterSelf
<1> QED
  BY <1>1, <1>2, CallIsPlaced DEF Call

\* The last call stays the last, and a new one is not awaited yet.
LEMMA AwaitedBefore ==
  ASSUME SameCalls, SameOutcomes, NEW c, AwaitedLast(calls', c)
  PROVE  AwaitedLast(calls, c)
  BY DEF SameCalls, SameCall, SameOutcomes, AwaitedLast

LEMMA PlacedIsNotAwaited ==
  ASSUME Len(calls) \in Nat, NEW c, NEW then, CallPlaced(c, then)
  PROVE  ~AwaitedLast(calls', c)
<1> SUFFICES ASSUME AwaitedLast(calls', c) PROVE FALSE
  OBVIOUS
<1>1. PICK i \in 1 .. Len(calls') : /\ calls'[i].pc = "done"
                                    /\ \A j \in 1 .. Len(calls') : calls'[j].client = c => j <= i
  BY DEF AwaitedLast
<1>2. Len(calls) + 1 \in 1 .. Len(calls') /\ i <= Len(calls) + 1
  BY <1>1 DEF CallPlaced
<1>3. i = Len(calls) + 1
  BY <1>1, <1>2 DEF CallPlaced
<1> QED
  BY <1>1, <1>3 DEF CallPlaced

LEMMA NoneIsNotAwaited == ASSUME NEW s, NEW c, NoneFor(s, c) PROVE ~AwaitedLast(s, c)
  BY DEF NoneFor, AwaitedLast

-----------------------------------------------------------------------------
(* What the steps of a host leave of its shape. *)

HostKept ==
    /\ UNCHANGED configuration
    /\ HostShape'
    /\ mount' = "new" => mount = "new"
    /\ SingleClient => current' = current
    /\ Owning /\ Mounted => (Mounted' /\ current' = current) \/ ~client'[current].ready

FeatureKept ==
    kind = "openfeature" => /\ UNCHANGED <<status, featureVars>>
                            /\ mount' = "unmounted" \/ (mount' = mount /\ StillReady)

\* What a host missed stays so.
HistoryKept ==
    (missedReady => missedReady') /\ (settledByReplaced => settledByReplaced')

LEMMA SameHostKept ==
  ASSUME HostShape, UNCHANGED <<configuration, componentVars, servingCachedValues>>
  PROVE  HostKept
  BY DEF HostShape, HostKept, configuration, componentVars, Mounted

LEMMA CurrentOfMounted ==
  ASSUME CallsInv, Mounted \/ kind # "nextjs" \/ ~owned
  PROVE  current \in Clients
  BY DEF CallsInv, HostOK

LEMMA QuieterIsOK ==
  ASSUME NEW old, ViewOK(old), NEW new, Quieter(new, old)
  PROVE  ViewOK(new)
  BY DEF ViewOK, Quieter

\* A step the host does not hear.
LEMMA UnheardKeepsStatus ==
  ASSUME CallsInv, StatusInv, Unheard, HostKept, FeatureKept, HostTold', UnreadyTold', HostOK'
  PROVE  StatusInv'
<1>1. UNCHANGED <<kind, owned, defer>> /\ HostShape'
  BY DEF HostKept, configuration
<1>2. SingleClient' => SingleClient /\ current' = current
  BY <1>1 DEF HostKept, SingleClient
<1>3. Len(calls) \in Nat
  BY CallsHaveClients DEF CallsInv
<1>4. CallsShape'
  BY <1>1, <1>2, <1>3
  DEF StatusInv, CallsShape, HostKept, Unheard, SameCalls, SameCall, SameOutcomes
<1>5. \A c \in Clients : ViewOK(client'[c])
  BY QuieterIsOK DEF StatusInv, ViewsFollow, Unheard
<1>6. ViewsFollow'
  <2>1. ASSUME Owning, NEW c \in Clients, client'[c].ready PROVE Mounted' /\ c = current'
    <3>1. client[c].ready
      BY <2>1 DEF Unheard, Quieter
    <3>2. Mounted /\ c = current
      BY <2>1, <3>1 DEF StatusInv, ViewsFollow
    <3> QED
      BY <2>1, <3>2 DEF HostKept
  <2> QED
    BY <1>1, <1>5, <2>1 DEF ViewsFollow, Owning
<1>9. FeatureTold'
  <2> SUFFICES ASSUME kind = "openfeature" PROVE FeatureTold'
    BY <1>1 DEF FeatureTold
  <2>1. UNCHANGED <<status, awaitingRecovery, servingCachedValues, reportDue>>
        /\ (mount' = "unmounted" \/ (mount' = mount /\ StillReady))
    BY DEF FeatureKept, featureVars
  <2> SUFFICES ASSUME mount' = mount, StillReady PROVE FeatureTold'
    BY <2>1 DEF FeatureTold, Mounted
  <2>2. current' = current /\ current \in Clients
    BY <1>1, <1>2, CurrentOfMounted DEF SingleClient, ClassKinds
  <2>3. Quieter(client'[current], client[current]) /\ (client[current].ready => client'[current].ready)
    BY <2>2 DEF Unheard, StillReady
  <2>4. OpenCall => OpenCall'
    <3>1. \A i \in 1 .. Len(calls) : calls[i].then = "requireReady"
      BY DEF StatusInv, CallsShape, ThensOf, Thens, ClassKinds, PluginKinds
    <3> QED
      BY <1>3, <3>1 DEF OpenCall, Unheard, SameCalls, SameOutcomes
  <2>5. mount' = "new" => ~awaitingRecovery' /\ ~servingCachedValues' /\ ~client'[current'].cached
    BY <2>1, <2>2, <2>3 DEF StatusInv, FeatureTold, Quieter
  <2>6. Mounted' => FeatureReported(client[current])
    BY <2>1 DEF StatusInv, FeatureTold, Mounted
  <2>7. Mounted' => FeatureReported(client[current])'
    BY <2>1, <2>2, <2>3, <2>4, <2>6 DEF FeatureReported, Quieter
  <2> QED
    BY <2>5, <2>7 DEF FeatureTold
<1> QED
  BY <1>1, <1>4, <1>6, <1>9 DEF StatusInv

\* A call on the host's client: it is not ready, and a call is open.
LEMMA CallKeepsStatus ==
  ASSUME CallsInv, StatusInv, NEW then \in ThensOf(kind), NEW c \in Clients, CallPlaced(c, then),
         current' = c, HostKept, HostOK', mount' = "new" => then = "nothing",
         kind = "openfeature" => /\ UNCHANGED servingCachedValues /\ ~awaitingRecovery'
                                 /\ Mounted \/ mount = "new"
                                 /\ mount' # "new"
  PROVE  StatusInv'
<1>1. UNCHANGED <<kind, owned, defer>> /\ HostShape'
  BY DEF HostKept, configuration
<1>2. SingleClient' => SingleClient /\ current' = current
  BY <1>1 DEF HostKept, SingleClient
<1>3. Len(calls) \in Nat /\ Len(calls') = Len(calls) + 1
  BY CallsHaveClients DEF CallsInv, CallPlaced
<1>4. \A i \in 1 .. Len(calls') : \/ i \in 1 .. Len(calls) /\ calls'[i] = calls[i]
                                  \/ i = Len(calls) + 1
  BY <1>3 DEF CallPlaced
<1>5. CallsShape'
  BY <1>1, <1>2, <1>4 DEF StatusInv, CallsShape, CallPlaced, HostKept
<1>6. \A d \in Clients : ViewOK(client'[d])
  <2>1. ViewOK(client'[c])
    BY DEF CallPlaced, ViewOK, StatusInv, ViewsFollow
  <2>2. ASSUME NEW d \in Clients \ {c} PROVE ViewOK(client'[d])
    BY <2>2, QuieterIsOK DEF StatusInv, ViewsFollow, CallPlaced
  <2> QED
    BY <2>1, <2>2
<1>7. ViewsFollow'
  <2>1. ASSUME Owning, NEW d \in Clients, client'[d].ready PROVE FALSE
    <3>1. d # c /\ client[d].ready
      BY <2>1 DEF CallPlaced, Quieter
    <3>2. Mounted /\ d = current
      BY <2>1, <3>1 DEF StatusInv, ViewsFollow
    <3> QED
      BY <2>1, <3>1, <3>2 DEF HostKept
  <2> QED
    BY <1>1, <1>6, <2>1 DEF ViewsFollow, Owning
<1>8. HostTold' /\ UnreadyTold'
  BY <1>3, PlacedIsNotAwaited DEF HostTold, UnreadyTold, CallPlaced
<1>9. FeatureTold'
  <2> SUFFICES ASSUME kind = "openfeature" PROVE FeatureTold'
    BY <1>1 DEF FeatureTold
  <2>1. OpenCall'
    BY <1>3 DEF OpenCall, CallPlaced
  <2>2. current = c
    BY <1>1, <1>2 DEF SingleClient, ClassKinds
  <2>3. /\ servingCachedValues => ~client[c].received
        /\ client[c].cached => servingCachedValues
    BY <2>2 DEF StatusInv, FeatureTold, FeatureReported
  <2>4. FeatureReported(client[c])'
    BY <2>1, <2>3 DEF FeatureReported, CallPlaced
  <2> QED
    BY <2>4 DEF FeatureTold
<1> QED
  BY <1>1, <1>5, <1>7, <1>8, <1>9 DEF StatusInv

\* A step that leaves the component as it is and calls nothing: its status is what it was,
\* or that of its client.
LEMMA NoCallKeeps ==
  ASSUME CallsInv, StatusInv, HostOK', Unheard, HistoryKept,
         UNCHANGED <<configuration, componentVars, featureVars>>,
         kind = "openfeature" => StillReady,
         StillReady \/ (kind = "react-native" /\ background'),
         background' = background \/ kind = "react-native",
         background /\ ~background' => ~Mounted,
         \/ status' = status
         \/ /\ kind \in PluginKinds /\ client' = client
            /\ status' = IF client[current].ready THEN status ELSE "default"
  PROVE  StatusInv'
<1>1. HostKept
  BY SameHostKept DEF StatusInv, featureVars
<1>2. UNCHANGED <<kind, owned, mount, mounts, current>>
  BY DEF configuration, componentVars
<1>3. kind # "openfeature" \/ status' = status
  BY DEF PluginKinds
<1>4. FeatureKept
  BY <1>2, <1>3 DEF FeatureKept
<1>5. current # 0 => /\ current \in Clients
                     /\ Quieter(client'[current], client[current])
                     /\ ViewOK(client[current])
  BY DEF CallsInv, HostOK, Unheard, StatusInv, ViewsFollow
<1>6. HostTold'
  <2> SUFFICES ASSUME kind # "openfeature", current # 0, client'[current].ready,
                      IF kind \in PluginKinds \cup {"withProvider"} THEN Mounted ELSE mount # "new",
                      missedReady' => kind = "withProvider", ~settledByReplaced'
               PROVE  status' = "ready"
    BY <1>2 DEF HostTold, Mounted
  <2>1. client[current].ready
    BY <1>5 DEF Quieter
  <2>2. status = "ready"
    BY <2>1 DEF StatusInv, HostTold, HistoryKept
  <2> QED
    BY <2>1, <2>2
<1>7. UnreadyTold'
  <2> SUFFICES ASSUME kind # "openfeature", current # 0, ~client'[current].ready,
                      AwaitedLast(calls', current), Informed(client[current])'
               PROVE  status' = "default"
    BY <1>2 DEF UnreadyTold
  <2>1. AwaitedLast(calls, current)
    BY AwaitedBefore DEF Unheard
  <2>2. Informed(client[current]) /\ ~client[current].ready
    <3>1. client'[current].received <=> client[current].received
      BY <1>5 DEF Quieter
    <3>2. Informed(client[current])
      BY <1>2, <3>1 DEF Informed, Mounted
    <3>3. ~client[current].ready
      BY <1>2, <1>5, <3>1 DEF Informed, StillReady, ViewOK, Mounted
    <3> QED
      BY <3>2, <3>3
  <2>3. status = "default"
    BY <2>1, <2>2 DEF StatusInv, UnreadyTold
  <2> QED
    BY <2>2, <2>3
<1> QED
  BY <1>1, <1>4, <1>6, <1>7, UnheardKeepsStatus

\* A call of a host that stays as it is.
LEMMA CurrentCallKeeps ==
  ASSUME CallsInv, StatusInv, HostOK', current # 0, NEW action, NEW context,
         NEW then \in ThensOf(kind), Call(current, action, context, then),
         mount = "new" => then = "nothing",
         UNCHANGED <<configuration, componentVars, servingCachedValues>>,
         kind = "openfeature" => Mounted /\ ~awaitingRecovery'
  PROVE  StatusInv'
<1>1. current \in Clients /\ client[current].built
  BY CurrentIsBuilt
<1>2. CallPlaced(current, then)
  BY <1>1, HostPlaces
<1>3. HostKept /\ current' = current /\ mount' = mount
  BY SameHostKept DEF StatusInv, componentVars
<1> QED
  BY <1>1, <1>2, <1>3, CallKeepsStatus DEF Mounted

-----------------------------------------------------------------------------
(* Each step keeps StatusInv. *)

\* A payload.  Only a linked client is told one: it is the one the host has, if it built it.
LEMMA PayloadView ==
  ASSUME CallsInv, NEW c \in Clients, PayloadArrives(c)
  PROVE  /\ client[c].link
         /\ \A d \in Clients \ {c} : client'[d] = client[d]
         /\ client'[c].received /\ ~client'[c].pending /\ ~client'[c].cached
         /\ client'[c].ready <=> client[c].ready \/ client[c].pending
         /\ client'[c].initializing => client[c].initializing /\ ~client[c].pending
         /\ SameCalls /\ SameOutcomes
<1> DEFINE view == [client[c] EXCEPT !.received = TRUE, !.cached = FALSE, !.pending = FALSE,
                                     !.ready = @ \/ BecomesReady(c),
                                     !.initializing = @ /\ ~BecomesReady(c)]
<1>1. client[c] \in View /\ client \in [Clients -> View] /\ ClientsOK
  BY DEF CallsInv, ClientsOK
<1>2. /\ view.received /\ ~view.pending /\ ~view.cached
      /\ view.ready <=> client[c].ready \/ client[c].pending
      /\ view.initializing => client[c].initializing /\ ~client[c].pending
  BY <1>1 DEF View, BecomesReady
<1>3. client' = [client EXCEPT ![c] = view] /\ client[c].link
  BY <1>1 DEF PayloadArrives, View
<1> HIDE DEF view
<1>4. client'[c] = view /\ \A d \in Clients \ {c} : client'[d] = client[d]
  BY <1>1, <1>3
<1>5. SameCalls
  BY <1>1, PayloadKeepsCalls
<1>6. DOMAIN calls = 1 .. Len(calls) /\ \A i \in DOMAIN calls : calls[i] \in CallRecord
  BY <1>1 DEF ClientsOK
<1>7. \A i \in DOMAIN calls : calls'[i] = calls[i] \/ calls'[i] = Returned(calls[i])
  BY <1>6 DEF PayloadArrives
<1>8. SameOutcomes
  BY <1>6, <1>7, ReturnedOutcome DEF SameOutcomes
<1> QED
  BY <1>2, <1>3, <1>4, <1>5, <1>8

LEMMA PayloadKeepsStatus ==
  ASSUME CallsInv, OwnedInv, StatusInv, NEW c \in Clients, Payload(c), HostOK'
  PROVE  StatusInv'
<1> DEFINE heard == handlers = c /\ BecomesReady(c)
<1>1. PayloadArrives(c) /\ UNCHANGED <<kind, owned, mount, mounts, current, handlers, disposedOwn,
                                       background, reportDue, settledByReplaced>>
  BY DEF Payload, configuration, componentVars, nativeVars
<1>2. /\ client[c].link
      /\ \A d \in Clients \ {c} : client'[d] = client[d]
      /\ client'[c].received /\ ~client'[c].pending /\ ~client'[c].cached
      /\ client'[c].ready <=> client[c].ready \/ client[c].pending
      /\ client'[c].initializing => client[c].initializing /\ ~client[c].pending
      /\ SameCalls /\ SameOutcomes
  BY <1>1, PayloadView
<1>3. /\ servingCachedValues' <=> servingCachedValues /\ ~heard
      /\ awaitingRecovery' <=> awaitingRecovery /\ ~heard
      /\ status' = IF heard /\ (kind = "openfeature" => awaitingRecovery) THEN "ready" ELSE status
      /\ missedReady' <=> missedReady \/ (BecomesReady(c) /\ mount \in {"rendered", "unmounted"})
  BY DEF Payload
<1>4. heard <=> handlers = c /\ client[c].pending
  BY DEF BecomesReady
<1> HIDE DEF heard
<1>5. Len(calls) \in Nat
  BY CallsHaveClients DEF CallsInv
<1>6. HostShape'
  BY <1>1, <1>3 DEF StatusInv, HostShape, Mounted
<1>7. CallsShape'
  BY <1>1, <1>2, <1>5 DEF StatusInv, CallsShape, SameCalls, SameCall, SameOutcomes, SingleClient
<1>13. ViewOK(client[c])
  BY DEF StatusInv, ViewsFollow
<1>8. Owning => Mounted /\ c = current
  <2>1. c \in Linked(client)
    BY <1>2 DEF Linked
  <2> QED
    BY <2>1 DEF OwnedInv, LinksOwned
<1>9. ViewsFollow'
  <2>1. ASSUME NEW d \in Clients PROVE ViewOK(client'[d])
    <3>1. CASE d = c
      BY <1>2, <1>13, <3>1 DEF ViewOK
    <3>2. CASE d # c
      BY <1>2, <3>2 DEF StatusInv, ViewsFollow
    <3> QED
      BY <3>1, <3>2
  <2>2. ASSUME Owning, NEW d \in Clients, client'[d].ready PROVE Mounted /\ d = current
    BY <1>2, <1>8, <2>2 DEF StatusInv, ViewsFollow
  <2> QED
    BY <1>1, <2>1, <2>2 DEF ViewsFollow, Owning, Mounted
<1>10. Mounted => handlers = current /\ current \in Clients
  BY CurrentOfMounted DEF StatusInv, HostShape, CallsInv, HostOK
<1>14. current # 0 => current \in Clients
  BY DEF CallsInv, HostOK
<1>11. HostTold'
  <2> SUFFICES ASSUME kind # "openfeature", current # 0, client'[current].ready,
                      IF kind \in PluginKinds \cup {"withProvider"} THEN Mounted ELSE mount # "new",
                      missedReady' => kind = "withProvider", ~settledByReplaced
               PROVE  status' = "ready"
    BY <1>1 DEF HostTold, Mounted
  <2>1. HostTold /\ (missedReady => kind = "withProvider")
    BY <1>3 DEF StatusInv
  <2>2. CASE client[current].ready
    BY <1>3, <2>1, <2>2 DEF HostTold
  <2>3. CASE ~client[current].ready
    <3>1. c = current /\ client[c].pending
      BY <1>2, <1>14, <2>3
    <3>2. Mounted
      <4>1. mount \in {"rendered", "unmounted"} => missedReady'
        BY <1>3, <3>1 DEF BecomesReady
      <4>2. mount \in {"new", "rendered", "mounted", "unmounted"}
        BY DEF StatusInv, HostShape
      <4> QED
        BY <4>1, <4>2 DEF Mounted
    <3> QED
      BY <1>3, <1>4, <1>10, <3>1, <3>2
  <2> QED
    BY <2>2, <2>3
<1>15. UnreadyTold'
  <2> SUFFICES ASSUME kind # "openfeature", current # 0, ~client'[current].ready,
                      AwaitedLast(calls', current), Informed(client[current])'
               PROVE  status' = "default"
    BY <1>1 DEF UnreadyTold
  <2>1. AwaitedLast(calls, current)
    BY <1>2, AwaitedBefore
  <2>2. ~client[current].ready
    BY <1>2, <1>14
  <2>3. Informed(client[current])
    <3>1. CASE c = current
      BY <1>1, <1>2, <3>1 DEF Informed, Mounted
    <3>2. CASE c # current
      BY <1>1, <1>2, <1>14, <3>2 DEF Informed, Mounted
    <3> QED
      BY <3>1, <3>2
  <2>4. status = "default"
    BY <2>1, <2>2, <2>3 DEF StatusInv, UnreadyTold
  <2>5. ~heard
    <3> SUFFICES ASSUME heard PROVE FALSE
      OBVIOUS
    <3>1. c = current /\ client[c].pending
      BY <1>4, HostBoundsAssumption DEF StatusInv, HostShape, Clients
    <3> QED
      BY <1>2, <3>1
  <2> QED
    BY <1>3, <2>4, <2>5
<1>12. FeatureTold'
  <2> SUFFICES ASSUME kind = "openfeature" PROVE FeatureTold'
    BY <1>1 DEF FeatureTold
  <2>1. OpenCall => OpenCall'
    <3>1. \A i \in 1 .. Len(calls) : calls[i].then = "requireReady"
      BY DEF StatusInv, CallsShape, ThensOf, Thens, ClassKinds, PluginKinds
    <3> QED
      BY <1>2, <1>5, <3>1 DEF OpenCall, SameCalls, SameOutcomes
  <2>2. c = current /\ Mounted /\ handlers = c
    BY <1>8, <1>10 DEF Owning, CallsInv, HostOK
  <2>3. FeatureReported(client[c]) /\ ViewOK(client[c])
    BY <2>2 DEF StatusInv, FeatureTold, ViewsFollow
  <2>4. FeatureReported(client[c])'
    <3>1. client'[c].ready => status' = "ready" \/ OpenCall'
      BY <1>2, <1>3, <1>4, <2>1, <2>2, <2>3 DEF FeatureReported
    <3>2. ~servingCachedValues'
      BY <1>2, <1>3, <1>4, <2>2, <2>3 DEF FeatureReported, ViewOK
    <3>3. ~client'[c].ready => (awaitingRecovery' /\ status' \in {"error", "stale"}) \/ OpenCall'
      BY <1>2, <1>3, <1>4, <2>1, <2>3 DEF FeatureReported
    <3> QED
      BY <1>2, <3>1, <3>2, <3>3 DEF FeatureReported
  <2> QED
    BY <1>1, <2>2, <2>4 DEF FeatureTold, Mounted
<1> QED
  BY <1>6, <1>7, <1>9, <1>11, <1>12, <1>15 DEF StatusInv

\* What a caller makes of a host's status is what its client says, if it is the current one.
LEMMA ContinueKeepsStatus ==
  ASSUME CallsInv, StatusInv, NEW i \in DOMAIN calls, Continue(i)
  PROVE  StatusInv'
<1> DEFINE c == calls[i].client
<1> DEFINE then == calls[i].then
<1>1. /\ UNCHANGED <<client, configuration, componentVars, servingCachedValues, background,
                     missedReady>>
      /\ Resumed(i)
      /\ \/ then = "settle" /\ status' = SettledStatusOf(c)
         \/ then = "settleCurrent" /\ status' = SettledStatusOf(current)
         \/ then = "settleIfCurrent" /\ status' = SettleStatus(c)
         \/ then = "settleDown" /\ status' = SettledDown(c)
         \/ then = "requireReady" /\ RequireReady(i)
      /\ settledByReplaced' <=> settledByReplaced \/ (then = "settle" /\ c # current)
  BY DEF Continue, featureVars, nativeVars
<1>2. /\ UNCHANGED <<kind, owned, mount, mounts, current>>
      /\ i \in 1 .. Len(calls) /\ calls[i] \in CallRecord
  BY <1>1 DEF configuration, componentVars, CallsInv, ClientsOK
<1>3. SameCalls
  BY <1>1, ResumingKeepsCalls DEF CallsInv
<1>4. \A j \in 1 .. Len(calls) : /\ calls'[j].then = calls[j].then
                                 /\ j # i => calls'[j] = calls[j]
  <2>1. [calls[i] EXCEPT !.pc = "done"].then = calls[i].then
    BY <1>2 DEF CallRecord
  <2> QED
    BY <1>1, <1>2, <2>1 DEF Resumed, CallsInv, ClientsOK
<1>5. Len(calls) \in Nat
  BY CallsHaveClients DEF CallsInv
<1>6. HostShape' /\ CallsShape'
  BY <1>1, <1>2, <1>3, <1>4, <1>5
  DEF StatusInv, HostShape, CallsShape, SameCalls, SameCall, SingleClient, componentVars, Mounted
<1>7. ViewsFollow'
  BY <1>1, <1>2 DEF StatusInv, ViewsFollow, Owning, Mounted
<1>8. then \in ThensOf(kind) /\ (SingleClient => c = current) /\ c \in Clients
  BY <1>2 DEF StatusInv, CallsShape, CallRecord
<1>11. AwaitedLast(calls', current) => AwaitedLast(calls, current) \/ c = current
  BY <1>3, <1>4, <1>5 DEF AwaitedLast, SameCalls, SameCall
<1> HIDE DEF c, then
<1>12. kind \in ClassKinds \cup PluginKinds \cup {"nextjs", "withProvider", "openfeature"}
  BY KindIsKnown DEF CallsInv
<1>13. kind # "openfeature" =>
         \/ status' = SettledStatusOf(current)
         \/ kind = "nextjs" /\ c # current /\ status' = status
         \/ kind \in PluginKinds /\ status' = SettledDown(current)
         \/ Owning /\ c # current /\ settledByReplaced' /\ status' = SettledStatusOf(c)
  <2>1. kind \in PluginKinds \/ ~owned => c = current
    BY <1>8 DEF SingleClient, PluginKinds, ClassKinds
  <2>2. CASE kind \in PluginKinds
    BY <1>1, <1>8, <2>1, <2>2 DEF ThensOf, PluginKinds, Thens, ClassKinds
  <2>3. CASE kind = "nextjs"
    BY <1>1, <1>8, <2>3 DEF ThensOf, SettleStatus, Thens, ClassKinds, PluginKinds
  <2>4. CASE kind \in ClassKinds
    BY <1>1, <1>8, <2>1, <2>4 DEF ThensOf, ClassKinds, PluginKinds, Owning, Thens
  <2>5. CASE kind = "withProvider"
    BY <1>1, <1>8, <2>5 DEF ThensOf, PluginKinds, Thens, ClassKinds
  <2> QED
    BY <1>12, <2>2, <2>3, <2>4, <2>5
<1>9. HostTold'
  <2> SUFFICES ASSUME kind # "openfeature", current # 0, client[current].ready,
                      IF kind \in PluginKinds \cup {"withProvider"} THEN Mounted ELSE mount # "new",
                      missedReady => kind = "withProvider", ~settledByReplaced'
               PROVE  status' = "ready"
    BY <1>1, <1>2 DEF HostTold, Mounted
  <2>1. status = "ready"
    BY <1>1 DEF StatusInv, HostTold
  <2> QED
    BY <1>13, <2>1 DEF SettledStatusOf, SettledDown
<1>14. UnreadyTold'
  <2> SUFFICES ASSUME kind # "openfeature", current # 0, ~client[current].ready,
                      AwaitedLast(calls', current), Informed(client[current])
               PROVE  status' = "default"
    BY <1>1, <1>2 DEF UnreadyTold, Informed, Mounted
  <2>1. c # current => status = "default"
    BY <1>11 DEF StatusInv, UnreadyTold
  <2>2. Owning /\ c # current => ~client[c].ready
    BY <1>8 DEF StatusInv, ViewsFollow
  <2> QED
    BY <1>13, <2>1, <2>2 DEF SettledStatusOf, SettledDown
<1>10. FeatureTold'
  <2> SUFFICES ASSUME kind = "openfeature" PROVE FeatureTold'
    BY <1>2 DEF FeatureTold
  <2>1. RequireReady(i)
    BY <1>1, <1>8 DEF ThensOf, Thens, ClassKinds, PluginKinds
  <2>2. mount # "new"
    BY <1>2, <1>5 DEF CallsInv, CallsOK
  <2> SUFFICES ASSUME Mounted PROVE FeatureReported(client[current])'
    BY <1>2, <2>2 DEF FeatureTold, Mounted
  <2>3. FeatureReported(client[current]) /\ ViewOK(client[current])
    BY CurrentOfMounted DEF StatusInv, FeatureTold, ViewsFollow
  <2>4. CASE client[current].ready
    <3>1. status' = "ready" /\ UNCHANGED <<awaitingRecovery, reportDue>>
      BY <2>1, <2>4 DEF RequireReady
    <3>2. client[current].received /\ ~client[current].pending /\ ~servingCachedValues
      BY <2>3, <2>4 DEF FeatureReported, ViewOK
    <3> QED
      BY <1>1, <1>2, <2>3, <2>4, <3>1, <3>2 DEF FeatureReported
  <2>5. CASE ~client[current].ready
    <3>1. status' = "error" /\ awaitingRecovery' /\ reportDue'
      BY <2>1, <2>5 DEF RequireReady
    <3> QED
      BY <1>1, <1>2, <2>3, <2>5, <3>1 DEF FeatureReported
  <2> QED
    BY <2>4, <2>5
<1> QED
  BY <1>6, <1>7, <1>9, <1>10, <1>14 DEF StatusInv

LEMMA ReportKeepsStatus ==
  ASSUME CallsInv, StatusInv, ReportStatus
  PROVE  StatusInv'
<1>1. /\ UNCHANGED <<client, calls, kind, owned, mount, mounts, current, handlers, disposedOwn,
                     background, historyVars, awaitingRecovery, servingCachedValues>>
      /\ ~reportDue'
      /\ status' = IF servingCachedValues /\ awaitingRecovery THEN "stale" ELSE status
  BY DEF ReportStatus, clientVars, configuration, componentVars, nativeVars
<1>2. HostShape' /\ CallsShape' /\ ViewsFollow'
  BY <1>1 DEF StatusInv, HostShape, CallsShape, ViewsFollow, SingleClient, Mounted, Owning
<1>3. HostTold' /\ UnreadyTold'
  BY <1>1 DEF StatusInv, HostShape, HostTold, UnreadyTold, Informed, Mounted, historyVars
<1>4. FeatureTold'
  <2> SUFFICES ASSUME kind = "openfeature", Mounted PROVE FeatureReported(client[current])'
    BY <1>1 DEF FeatureTold, StatusInv, Mounted
  <2>1. FeatureReported(client[current]) /\ ViewOK(client[current])
    BY CurrentOfMounted DEF StatusInv, FeatureTold, ViewsFollow
  <2> QED
    BY <1>1, <2>1 DEF FeatureReported, ViewOK, OpenCall
<1> QED
  BY <1>2, <1>3, <1>4 DEF StatusInv

LEMMA CachedValuesKeepStatus ==
  ASSUME CallsInv, StatusInv, OnCachedValuesLoaded
  PROVE  StatusInv'
<1>1. /\ kind = "openfeature" /\ handlers # 0
      /\ CachedValuesLoad(handlers)
      /\ servingCachedValues' /\ reportDue'
      /\ UNCHANGED <<status, kind, owned, mount, mounts, current, handlers, disposedOwn,
                     awaitingRecovery>>
  BY DEF OnCachedValuesLoaded, configuration, componentVars
<1>2. Mounted /\ handlers = current /\ current \in Clients
  BY <1>1, CurrentOfMounted DEF StatusInv, HostShape
<1> DEFINE view == [client[current] EXCEPT !.cached = TRUE]
<1>3. client[current] \in View /\ client \in [Clients -> View]
  BY <1>2 DEF CallsInv, ClientsOK
<1>4. /\ view.ready = client[current].ready /\ view.received = client[current].received
      /\ view.pending = client[current].pending /\ view.link = client[current].link
      /\ view.initializing = client[current].initializing
  BY <1>3 DEF View
<1>5. client' = [client EXCEPT ![current] = view] /\ calls' = calls /\ ~client[current].received
  BY <1>1, <1>2 DEF CachedValuesLoad
<1> HIDE DEF view
<1>6. client'[current] = view /\ \A d \in Clients \ {current} : client'[d] = client[d]
  BY <1>2, <1>3, <1>5
<1>7. HostShape' /\ CallsShape'
  BY <1>1, <1>5 DEF StatusInv, HostShape, CallsShape, SingleClient, Mounted
<1>8. ViewsFollow'
  BY <1>1, <1>4, <1>6 DEF StatusInv, ViewsFollow, ViewOK, Owning, Mounted
<1>9. HostTold' /\ UnreadyTold'
  BY <1>1 DEF HostTold, UnreadyTold
<1>10. FeatureTold'
  <2>1. FeatureReported(client[current])
    BY <1>1, <1>2 DEF StatusInv, FeatureTold
  <2>2. FeatureReported(client[current])'
    BY <1>1, <1>4, <1>5, <1>6, <2>1 DEF FeatureReported, OpenCall
  <2> QED
    BY <1>1, <1>2, <2>2 DEF FeatureTold, Mounted
<1> QED
  BY <1>7, <1>8, <1>9, <1>10 DEF StatusInv

LEMMA CallersKeepStatus ==
  ASSUME CallsInv, StatusInv, HostOK', NEW context,
         \/ WithProvider \/ AppInitializes(context) \/ UpdateFromHook(context)
         \/ SetContext(context) \/ OnContextChange(context)
  PROVE  StatusInv'
<1>1. /\ UNCHANGED <<configuration, componentVars, servingCachedValues>>
      /\ kind = "openfeature" => Mounted /\ ~awaitingRecovery'
  BY DEF WithProvider, AppInitializes, UpdateFromHook, SetContext, OnContextChange, hostVars,
         kindVars, featureVars, ClassKinds, CallsInv, HostOK
<1>2. \E action, given1 : \E then \in ThensOf(kind) :
         Call(current, action, given1, then) /\ (mount = "new" => then = "nothing")
  <2>1. kind # "openfeature" => "nothing" \in ThensOf(kind)
    BY KindIsKnown DEF ThensOf, CallsInv, ClassKinds, PluginKinds, Thens
  <2>2. kind \in ClassKinds => "settleCurrent" \in ThensOf(kind)
    BY DEF ThensOf, ClassKinds, PluginKinds, Thens
  <2>3. kind = "openfeature" => "requireReady" \in ThensOf(kind)
    BY DEF ThensOf, Thens, ClassKinds, PluginKinds
  <2>4. CASE WithProvider
    <3>1. Call(current, "initialize", prop, "nothing") /\ kind = "withProvider"
      BY <2>4, CurrentOfMounted, HostBoundsAssumption DEF WithProvider, CallsInv, HostOK, Clients
    <3> QED
      BY <2>1, <3>1
  <2>5. CASE AppInitializes(context)
    BY <2>1, <2>5 DEF AppInitializes, CallsInv, HostOK
  <2>6. CASE UpdateFromHook(context)
    BY <2>1, <2>6 DEF UpdateFromHook, ClassKinds
  <2>7. CASE SetContext(context)
    BY <2>2, <2>7 DEF SetContext, Mounted
  <2>8. CASE OnContextChange(context)
    BY <2>3, <2>8 DEF OnContextChange, Mounted
  <2> QED
    BY <2>4, <2>5, <2>6, <2>7, <2>8
<1>3. current # 0
  BY DEF WithProvider, AppInitializes, UpdateFromHook, SetContext, OnContextChange, ClassKinds,
         CallsInv, HostOK
<1> QED
  BY <1>1, <1>2, <1>3, CurrentCallKeeps

LEMMA PluginsKeepStatus ==
  ASSUME CallsInv, StatusInv, HostOK', NEW context,
         UpdateVueContext(context) \/ UpdateNuxtContext(context) \/ AppCreated
  PROVE  StatusInv'
<1>1. /\ UNCHANGED <<configuration, componentVars, featureVars, servingCachedValues, background,
                     historyVars>>
      /\ kind \in PluginKinds /\ current # 0 /\ Mounted
  BY DEF UpdateVueContext, UpdateNuxtContext, AppCreated, kindVars, featureVars, nativeVars,
         PluginKinds, CallsInv, HostOK
<1>2. kind # "openfeature" /\ "nothing" \in ThensOf(kind) /\ "settleDown" \in ThensOf(kind)
  BY <1>1 DEF ThensOf, PluginKinds, Thens, ClassKinds
<1>3. \/ /\ UNCHANGED clientVars
         /\ status' = status \/ status' = SettledDown(current)
      \/ \E action, given1 : \/ Call(current, action, given1, "nothing")
                             \/ Call(current, action, given1, "settleDown")
  <2>1. CASE UpdateVueContext(context)
    BY <2>1 DEF UpdateVueContext
  <2>2. CASE UpdateNuxtContext(context)
    BY <2>2 DEF UpdateNuxtContext, HandContextToClient
  <2>3. CASE AppCreated
    <3> DEFINE action == DecideStartupAction(client[current], given)
    <3>1. \/ action \in {"waitForContext", "firstStartInFlight"} /\ UNCHANGED <<clientVars, status>>
          \/ action = "none" /\ status' = SettledDown(current) /\ UNCHANGED clientVars
          \/ Call(current, action, given, "settleDown")
      BY <2>3, MountActions DEF AppCreated
    <3> HIDE DEF action
    <3> QED
      BY <3>1
  <2> QED
    BY <2>1, <2>2, <2>3
<1>4. CASE UNCHANGED clientVars /\ (status' = status \/ status' = SettledDown(current))
  <2>1. HistoryKept /\ Unheard /\ StillReady /\ client' = client
    BY <1>1, <1>4, UnchangedUnheard DEF HistoryKept, historyVars, clientVars
  <2> QED
    BY <1>1, <1>4, <2>1, NoCallKeeps DEF SettledDown
<1>5. CASE \E action, given1 : \/ Call(current, action, given1, "nothing")
                               \/ Call(current, action, given1, "settleDown")
  BY <1>1, <1>2, <1>5, CurrentCallKeeps DEF Mounted
<1> QED
  BY <1>3, <1>4, <1>5

LEMMA NativeKeepsStatus ==
  ASSUME CallsInv, StatusInv, HostOK', NEW b \in BOOLEAN, AppState(b) \/ HandleConnectivityChange(b)
  PROVE  StatusInv'
<1>1. /\ kind = "react-native"
      /\ UNCHANGED <<configuration, componentVars, featureVars, status, servingCachedValues,
                     historyVars>>
  BY DEF AppState, HandleConnectivityChange, featureVars
<1>2. current # 0 /\ current \in Clients
  BY <1>1, CurrentIsBuilt DEF CallsInv, HostOK
<1>3. \/ UNCHANGED clientVars /\ (Mounted => background' = background)
      \/ client' = Paused(current) /\ calls' = calls /\ background'
      \/ Resume(current) /\ Mounted
  BY DEF AppState, HandleConnectivityChange
<1>6. HistoryKept
  BY <1>1 DEF HistoryKept, historyVars
<1>4. CASE UNCHANGED clientVars /\ (Mounted => background' = background)
  BY <1>1, <1>2, <1>4, <1>6, UnchangedUnheard, NoCallKeeps
<1>7. CASE client' = Paused(current) /\ calls' = calls /\ background'
  BY <1>1, <1>2, <1>6, <1>7, PausedUnheard, NoCallKeeps
<1>5. CASE Resume(current) /\ Mounted
  <2>1. "nothing" \in ThensOf(kind) /\ kind # "openfeature"
    BY <1>1 DEF ThensOf, ClassKinds, PluginKinds, Thens
  <2> QED
    BY <1>1, <1>2, <1>5, <2>1, CurrentCallKeeps DEF Resume
<1> QED
  BY <1>3, <1>4, <1>5, <1>7

LEMMA NextKeepsStatus ==
  ASSUME CallsInv, StatusInv, HostOK', NEW context, NEW asProp,
         StartAfterFirstRenderEffects \/ GiveNextContext(context, asProp)
  PROVE  StatusInv'
<1>1. /\ kind = "nextjs" /\ Mounted /\ current # 0
      /\ UNCHANGED <<configuration, componentVars, featureVars, servingCachedValues, background,
                     historyVars>>
  BY DEF StartAfterFirstRenderEffects, GiveNextContext, featureVars, nativeVars, CallsInv, HostOK
<1>2. \A context1 : StartClient(current, context1) =>
        \/ UNCHANGED <<clientVars, status>>
        \/ \E action : Call(current, action, context1, "settleIfCurrent")
  BY DEF StartClient
<1>3. \/ UNCHANGED <<clientVars, status>>
      \/ \E action, context1 : Call(current, action, context1, "settleIfCurrent")
  <2>1. CASE StartAfterFirstRenderEffects
    BY <1>2, <2>1 DEF StartAfterFirstRenderEffects
  <2>2. CASE GiveNextContext(context, asProp)
    <3>1. ReceiveContext(context)
      BY <2>2 DEF GiveNextContext
    <3>2. phase.kind # "beforeFirstRenderEffects" => phase.client = current
      BY DEF CallsInv, HostOK
    <3>3. \/ UNCHANGED <<clientVars, status>>
          \/ phase.kind # "beforeFirstRenderEffects" /\ StartClient(phase.client, context)
          \/ /\ phase.kind # "beforeFirstRenderEffects"
             /\ Call(phase.client, "updateContext", context, "settleIfCurrent")
      BY <3>1 DEF ReceiveContext, DecideGivenContextAction
    <3> QED
      BY <1>2, <3>2, <3>3
  <2> QED
    BY <2>1, <2>2
<1>4. "settleIfCurrent" \in ThensOf(kind) /\ kind # "openfeature"
  BY <1>1 DEF ThensOf, Thens, ClassKinds, PluginKinds
<1>5. CASE UNCHANGED <<clientVars, status>>
  BY <1>1, <1>4, <1>5, UnchangedUnheard, NoCallKeeps DEF HistoryKept, historyVars
<1>6. CASE \E action, context1 : Call(current, action, context1, "settleIfCurrent")
  BY <1>1, <1>4, <1>6, CurrentCallKeeps DEF Mounted
<1> QED
  BY <1>3, <1>5, <1>6

\* Before the first render no call is one the host awaits.
LEMMA NewIsNotAwaited ==
  ASSUME CallsInv, StatusInv, mount = "new", SameCalls, SameOutcomes
  PROVE  \A c : ~AwaitedLast(calls', c)
<1>1. \A c : ~AwaitedLast(calls, c)
  BY DEF StatusInv, CallsShape, AwaitedLast
<1> QED
  BY <1>1, AwaitedBefore

LEMMA RenderKeepsStatus ==
  ASSUME CallsInv, StatusInv, HostOK', Render
  PROVE  StatusInv'
<1>1. /\ kind # "openfeature" /\ kind \notin PluginKinds /\ mount = "new" /\ mount' = "rendered"
      /\ UNCHANGED <<clientVars, configuration, mounts, current, handlers, disposedOwn,
                     servingCachedValues>>
      /\ current # 0 /\ client[current].ready => status' = "ready"
  BY DEF Render, kindVars, featureVars
<1>2. HostKept
  BY <1>1 DEF StatusInv, HostShape, HostKept, configuration, Mounted
<1>3. Unheard
  BY <1>1, UnchangedUnheard
<1>4. HostTold'
  BY <1>1 DEF HostTold, clientVars
<1>5. UnreadyTold'
  BY <1>1, <1>3, NewIsNotAwaited DEF UnreadyTold, Unheard
<1> QED
  BY <1>1, <1>2, <1>3, <1>4, <1>5, UnheardKeepsStatus DEF FeatureKept

LEMMA UnmountKeepsStatus ==
  ASSUME CallsInv, StatusInv, HostOK', Unmount \/ OnClose
  PROVE  StatusInv'
<1>1. /\ mount' = "unmounted" /\ handlers' = 0 /\ Mounted /\ kind \notin PluginKinds
      /\ UNCHANGED <<calls, status, kind, owned, configuration, mounts, featureVars, background,
                     missedReady, settledByReplaced>>
      /\ current' = IF owned /\ kind = "nextjs" THEN 0 ELSE current
  BY DEF Unmount, OnClose, kindVars, historyVars, nativeVars, configuration, PluginKinds
<1>2. current \in Clients
  BY <1>1, CurrentOfMounted
<1>3. Unheard /\ (Owning => ~client'[current].ready)
  <2>1. IF Owning THEN client' = Disposed(current) ELSE client' = client
    BY DEF Unmount, OnClose, DisposeOwn, Owning, CallsInv, HostOK
  <2> QED
    BY <1>1, <1>2, <2>1, UnchangedUnheard, PausedUnheard DEF clientVars
<1>4. HostKept
  BY <1>1, <1>3 DEF StatusInv, HostShape, HostKept, SingleClient, Mounted, featureVars
<1>5. Quieter(client'[current], client[current]) /\ ViewOK(client[current])
  BY <1>2, <1>3 DEF Unheard, StatusInv, ViewsFollow
<1>6. HostTold'
  <2> SUFFICES ASSUME kind # "openfeature", current' = current, client'[current].ready,
                      kind # "withProvider", missedReady => kind = "withProvider",
                      ~settledByReplaced
               PROVE  status = "ready"
    BY <1>1 DEF HostTold, Mounted
  <2> QED
    BY <1>1, <1>2, <1>5, HostBoundsAssumption DEF Quieter, StatusInv, HostTold, Mounted, Clients
<1>7. UnreadyTold'
  <2> SUFFICES ASSUME kind # "openfeature", current' = current, ~client'[current].ready,
                      AwaitedLast(calls', current), Informed(client[current])'
               PROVE  status = "default"
    BY <1>1 DEF UnreadyTold
  <2>1. AwaitedLast(calls, current)
    BY <1>1
  <2>2. Informed(client[current])
    BY <1>1, <1>5 DEF Informed, Quieter, Mounted
  <2>3. ~client[current].ready
    <3>1. CASE Owning
      BY <1>1, <1>5, <3>1 DEF Informed, Quieter, ViewOK, Owning, Mounted
    <3>2. CASE ~Owning
      <4>1. client' = client
        BY <3>2 DEF Unmount, OnClose, DisposeOwn, Owning, CallsInv, HostOK
      <4> QED
        BY <4>1
    <3> QED
      BY <3>1, <3>2
  <2> QED
    BY <1>2, <2>1, <2>2, <2>3, HostBoundsAssumption DEF StatusInv, UnreadyTold, Clients
<1>8. FeatureKept
  BY <1>1 DEF FeatureKept
<1> QED
  BY <1>3, <1>4, <1>6, <1>7, <1>8, UnheardKeepsStatus

LEMMA InstallKeepsStatus ==
  ASSUME CallsInv, StatusInv, HostOK', InstallVue \/ InstallNuxt \/ InstallOpenFeature
  PROVE  StatusInv'
<1>1. /\ UNCHANGED <<configuration, current, disposedOwn, featureVars, awaitingRecovery,
                     servingCachedValues>>
      /\ mount = "new" /\ mount' = "mounted" /\ mounts' = 1 /\ handlers' = current
      /\ kind \in PluginKinds \cup {"openfeature"}
  BY DEF InstallVue, InstallNuxt, InstallOpenFeature, Installing, PluginKinds, featureVars
<1>2. current \in Clients /\ client[current].built
  BY <1>1, CurrentIsBuilt DEF CallsInv, HostOK, PluginKinds
<1>3. HostKept
  <2>1. kind \notin ClassKinds /\ kind # "nextjs" /\ UNCHANGED <<kind, owned>>
    BY <1>1 DEF PluginKinds, ClassKinds, configuration
  <2> QED
    BY <1>1, <2>1 DEF StatusInv, HostShape, HostKept, Mounted
<1>4. CASE UNCHANGED clientVars /\ status' = FirstStatus /\ kind # "openfeature"
  <2>1. Unheard
    BY <1>4, UnchangedUnheard
  <2>2. HostTold'
    BY <1>1, <1>4 DEF HostTold, FirstStatus, clientVars
  <2>3. UnreadyTold'
    BY <1>1, <2>1, NewIsNotAwaited DEF UnreadyTold, Unheard
  <2> QED
    BY <1>3, <1>4, <2>1, <2>2, <2>3, UnheardKeepsStatus DEF FeatureKept
<1>5. ASSUME NEW then \in ThensOf(kind), Call(current, "initialize", prop, then) PROVE StatusInv'
  <2>1. CallPlaced(current, then)
    BY <1>2, <1>5, HostPlaces
  <2>2. kind = "openfeature" => ~awaitingRecovery
    BY <1>1 DEF StatusInv, FeatureTold
  <2> QED
    BY <1>1, <1>2, <1>3, <2>1, <2>2, CallKeepsStatus
<1>6. CASE InstallVue
  <2>1. kind = "vue" /\ "settleDown" \in ThensOf(kind)
    BY <1>6 DEF InstallVue, ThensOf, PluginKinds, Thens, ClassKinds
  <2> QED
    BY <1>4, <1>5, <1>6, <2>1 DEF InstallVue
<1>7. CASE InstallNuxt
  BY <1>4, <1>7 DEF InstallNuxt
<1>8. CASE InstallOpenFeature
  BY <1>5, <1>8 DEF InstallOpenFeature, ThensOf, Thens, ClassKinds, PluginKinds
<1> QED
  BY <1>6, <1>7, <1>8

\* A client that is built now has no calls and is not ready.
LEMMA NextIsUnready ==
  ASSUME CallsInv, CanBuild
  PROVE  /\ NextClient \in Clients /\ NoneFor(calls, NextClient)
         /\ ~BuildClient(client, NextClient)[NextClient].ready
  BY BuildingNext, UnbuiltHasNone DEF Fresh

LEMMA MountKeepsStatus ==
  ASSUME CallsInv, StatusInv, HostOK', Mount
  PROVE  StatusInv'
<1> DEFINE c == current'
<1> DEFINE clients == IF MustBuild THEN BuildClient(client, NextClient) ELSE client
<1>1. /\ UNCHANGED <<configuration, featureVars, servingCachedValues, background, historyVars>>
      /\ kind \in ClassKinds /\ mount \in {"rendered", "unmounted"} /\ mount' = "mounted"
      /\ handlers' = c
      /\ \E opening : /\ ConnectMounted(clients, c, opening)
                      /\ ~MustBuild => opening = status
      /\ c = IF MustBuild THEN NextClient ELSE current
      /\ MustBuild => CanBuild /\ owned
  BY DEF Mount, Mounting, CanMount, kindVars, featureVars, nativeVars, MustBuild, ClassKinds
<1>2. UNCHANGED <<kind, owned>> /\ kind # "openfeature" /\ kind # "nextjs"
      /\ kind \notin PluginKinds /\ kind # "withProvider"
  BY <1>1 DEF configuration, ClassKinds, PluginKinds
<1>3. /\ c \in Clients /\ clients[c].built /\ clients \in [Clients -> View]
      /\ \A d \in Clients : /\ client[d].built => clients[d].built
                            /\ Quieter(clients[d], client[d])
                            /\ NoStart(clients[d], client[d])
      /\ MustBuild => NoneFor(calls, c) /\ ~clients[c].ready
  <2>1. CASE MustBuild
    <3>1. \A d \in Clients : client[d].built => clients[d].built
      BY <1>1, <2>1, BuildingNext
    <3> QED
      BY <1>1, <2>1, <3>1, BuildingNext, BuildingQuieter, NextIsUnready
  <2>2. CASE ~MustBuild
    <3>1. current \in Clients /\ client[current].built
      BY <1>2, CurrentOfMounted, CurrentIsBuilt, HostBoundsAssumption DEF Clients
    <3> QED
      BY <1>1, <2>2, <3>1, QuieterSelf DEF CallsInv, ClientsOK, NoStart
  <2> QED
    BY <2>1, <2>2
<1>4. HostKept
  BY <1>1, <1>2 DEF StatusInv, HostShape, HostKept, SingleClient, Mounted
<1>5. CASE \E opening : /\ UNCHANGED calls /\ client' = clients /\ status' = opening
                        /\ ~MustBuild => opening = status
                        /\ clients[c].ready \/ clients[c].initializing
  <2>1. Unheard
    BY <1>3, <1>5, CallsHaveClients DEF Unheard, SameCalls, SameCall, SameOutcomes, CallsInv, ClientsOK
  <2>2. HostTold'
    <3>1. CASE MustBuild
      BY <1>3, <1>5, <3>1 DEF HostTold
    <3>2. CASE ~MustBuild
      BY <1>1, <1>2, <1>5, <3>2 DEF StatusInv, HostTold, historyVars
    <3> QED
      BY <3>1, <3>2
  <2>3. UnreadyTold'
    <3>1. CASE MustBuild
      BY <1>3, <1>5, <3>1, NoneIsNotAwaited DEF UnreadyTold
    <3>2. CASE ~MustBuild
      <4>1. client' = client /\ calls' = calls /\ current' = current /\ status' = status
        BY <1>1, <1>5, <3>2
      <4>2. current \in Clients /\ ViewOK(client[current])
        BY <1>3, <4>1 DEF StatusInv, ViewsFollow
      <4>3. ~client[current].ready => Informed(client[current])
        BY <1>5, <3>2, <4>1, <4>2 DEF ViewOK, Informed
      <4> QED
        BY <1>2, <4>1, <4>3 DEF StatusInv, UnreadyTold
    <3> QED
      BY <3>1, <3>2
  <2> QED
    BY <1>2, <1>4, <2>1, <2>2, <2>3, UnheardKeepsStatus DEF FeatureKept
<1>6. CASE \E action : CallOn(clients, c, action, prop, "settle")
  <2>1. CallPlaced(c, "settle")
    BY <1>3, <1>6, CallIsPlaced DEF CallsInv, ClientsOK
  <2>2. "settle" \in ThensOf(kind)
    BY <1>1 DEF ThensOf, ClassKinds, PluginKinds, Thens
  <2> QED
    BY <1>1, <1>2, <1>3, <1>4, <2>1, <2>2, CallKeepsStatus
<1>7. DecideMountAction(clients[c], prop) = "none" => clients[c].ready \/ clients[c].initializing
  BY DEF DecideMountAction
<1> HIDE DEF clients
<1> QED
  BY <1>1, <1>5, <1>6, <1>7 DEF ConnectMounted

LEMMA OtherMountsKeepStatus ==
  ASSUME CallsInv, StatusInv, HostOK', MountNext \/ MountWithProvider
  PROVE  StatusInv'
<1> DEFINE building == owned /\ kind = "nextjs"
<1>1. /\ UNCHANGED <<configuration, calls, disposedOwn, featureVars, servingCachedValues, background,
                     historyVars>>
      /\ kind \in {"nextjs", "withProvider"} /\ mount' = "mounted" /\ ~Mounted
      /\ mount \in {"rendered", "unmounted"}
      /\ handlers' = current'
      /\ kind = "withProvider" => current' = current /\ status' = CatchUp
      /\ kind = "nextjs" => status' = status
      /\ IF building
           THEN current' = NextClient /\ CanBuild /\ client' = BuildClient(client, NextClient)
           ELSE current' = current /\ UNCHANGED client
  BY DEF MountNext, MountWithProvider, Mounting, CanMount, kindVars, featureVars, nativeVars,
         clientVars, MustBuild, Mounted, StatusInv, HostShape, CallsInv, ContextsFollow
<1>2. HostKept /\ UNCHANGED <<kind, owned>>
  BY <1>1 DEF StatusInv, HostShape, HostKept, SingleClient, configuration, Mounted
<1>3. Unheard
  <2>1. CASE ~building
    BY <1>1, <2>1, UnchangedUnheard DEF clientVars
  <2>2. CASE building
    <3>1. NextClient \in Clients
      BY <1>1, <2>2, BuildingNext
    <3>2. /\ BuildClient(client, NextClient) \in [Clients -> View]
          /\ \A d \in Clients : Quieter(BuildClient(client, NextClient)[d], client[d])
          /\ \A d \in Clients : NoStart(BuildClient(client, NextClient)[d], client[d])
      BY <1>1, <2>2, <3>1, BuildingNext, BuildingQuieter
    <3>3. \A d \in Clients : client[d].built => BuildClient(client, NextClient)[d].built
      BY <1>1, <2>2, BuildingNext
    <3> QED
      BY <1>1, <2>2, <3>2, <3>3, CallsHaveClients
      DEF Unheard, SameCalls, SameCall, SameOutcomes, CallsInv, ClientsOK
  <2> QED
    BY <2>1, <2>2
<1>4. CASE building
  <2>1. ~client'[current'].ready /\ NoneFor(calls, current')
    BY <1>1, <1>4, NextIsUnready
  <2>2. HostTold' /\ UnreadyTold'
    BY <1>1, <2>1, NoneIsNotAwaited DEF HostTold, UnreadyTold
  <2> QED
    BY <1>1, <1>2, <1>3, <2>2, UnheardKeepsStatus DEF FeatureKept
<1>5. CASE kind = "nextjs" /\ ~owned
  <2>1. HostTold'
    BY <1>1, <1>2, <1>5 DEF StatusInv, HostTold, PluginKinds, historyVars
  <2>2. UnreadyTold'
    BY <1>1, <1>2, <1>5 DEF StatusInv, UnreadyTold, Informed
  <2> QED
    BY <1>1, <1>2, <1>3, <2>1, <2>2, UnheardKeepsStatus DEF FeatureKept
<1>6. CASE kind = "withProvider"
  <2>1. HostTold'
    BY <1>1, <1>6 DEF HostTold, CatchUp
  <2>2. \A i \in 1 .. Len(calls) : calls[i].then = "nothing"
    BY <1>6 DEF StatusInv, CallsShape, ThensOf, Thens, ClassKinds, PluginKinds
  <2>3. UnreadyTold'
    BY <1>1, <2>2 DEF UnreadyTold, AwaitedLast
  <2> QED
    BY <1>1, <1>2, <1>3, <2>1, <2>3, UnheardKeepsStatus DEF FeatureKept
<1> QED
  BY <1>1, <1>4, <1>5, <1>6

LEMMA ClientStepKeepsStatus ==
  ASSUME CallsInv, StatusInv, HostOK', ClientStep
  PROVE  StatusInv'
<1>1. UNCHANGED <<status, configuration, componentVars, featureVars, background>> /\ HistoryKept
  BY DEF ClientStep, hostVars, kindVars, nativeVars, historyVars, HistoryKept
<1>2. Unheard /\ StillReady
  BY SettlingUnheard DEF ClientStep
<1> QED
  BY <1>1, <1>2, NoCallKeeps

-----------------------------------------------------------------------------
LEMMA InitStatus == Init => StatusInv
<1> SUFFICES ASSUME Init PROVE StatusInv
  OBVIOUS
<1>1. calls = <<>> /\ Len(calls) = 0 /\ mount = "new" /\ mounts = 0 /\ handlers = 0 /\ ~disposedOwn
      /\ ~awaitingRecovery /\ ~servingCachedValues
  BY DEF Init
<1>2. \A b \in BOOLEAN : LET view == [Unbuilt EXCEPT !.built = b] IN
          ~view.ready /\ ~view.received /\ ~view.pending /\ ~view.link /\ ~view.cached
             /\ ~view.initializing
  BY DEF Unbuilt
<1>3. \A c \in Clients : ~client[c].ready /\ ~client[c].link /\ ~client[c].cached
                            /\ ~client[c].initializing
  BY <1>2 DEF Init
<1>4. current = 1 \/ current = 0
  BY DEF Init
<1>5. kind # "nextjs" => current \in Clients
  BY HostBoundsAssumption DEF Init, Clients
<1>6. HostShape /\ CallsShape
  BY <1>1 DEF HostShape, CallsShape, Mounted
<1>7. HostTold /\ UnreadyTold
  BY <1>1 DEF HostTold, UnreadyTold, AwaitedLast, Mounted
<1>8. ViewsFollow
  BY <1>3 DEF ViewsFollow, ViewOK
<1>9. FeatureTold
  BY <1>1, <1>3, <1>5 DEF FeatureTold, Mounted
<1> QED
  BY <1>6, <1>7, <1>8, <1>9 DEF StatusInv

LEMMA StatusStep == CallsInv /\ OwnedInv /\ StatusInv /\ [Next]_vars => StatusInv'
<1> SUFFICES ASSUME CallsInv, OwnedInv, StatusInv, [Next]_vars PROVE StatusInv'
  OBVIOUS
<1>1. HostOK'
  BY CallsStep DEF CallsInv
<1>2. CASE UNCHANGED vars
  <2>1. UNCHANGED <<clientVars, status, configuration, componentVars, featureVars, background>>
        /\ HistoryKept
    BY <1>2 DEF vars, hostVars, kindVars, nativeVars, historyVars, HistoryKept
  <2> QED
    BY <1>1, <2>1, UnchangedUnheard, NoCallKeeps
<1>3. CASE Next
  <2>1. ASSUME NEW context \in Contexts \cup {None},
               \/ \E asProp \in BOOLEAN : GiveNextContext(context, asProp)
               \/ SetContext(context) \/ UpdateFromHook(context) \/ AppInitializes(context)
               \/ UpdateVueContext(context) \/ UpdateNuxtContext(context)
               \/ OnContextChange(context)
        PROVE  StatusInv'
    BY <1>1, <2>1, NextKeepsStatus, CallersKeepStatus, PluginsKeepStatus
  <2>2. ASSUME NEW b \in BOOLEAN, AppState(b) \/ HandleConnectivityChange(b) PROVE StatusInv'
    BY <1>1, <2>2, NativeKeepsStatus
  <2>3. CASE StartAfterFirstRenderEffects \/ AppCreated \/ WithProvider
    BY <1>1, <2>3, NextKeepsStatus, PluginsKeepStatus, CallersKeepStatus
  <2>4. CASE Render \/ Mount \/ MountNext \/ MountWithProvider \/ Unmount \/ OnClose
    BY <1>1, <2>4, RenderKeepsStatus, MountKeepsStatus, OtherMountsKeepStatus, UnmountKeepsStatus
  <2>5. CASE InstallVue \/ InstallNuxt \/ InstallOpenFeature
    BY <1>1, <2>5, InstallKeepsStatus
  <2>6. CASE ClientStep \/ OnCachedValuesLoaded \/ ReportStatus
    BY <1>1, <2>6, ClientStepKeepsStatus, CachedValuesKeepStatus, ReportKeepsStatus
  <2>7. ASSUME NEW c \in Clients, Payload(c) PROVE StatusInv'
    BY <1>1, <2>7, PayloadKeepsStatus
  <2>8. ASSUME NEW i \in DOMAIN calls, Continue(i) PROVE StatusInv'
    BY <2>8, ContinueKeepsStatus
  <2> QED
    BY <1>3, <2>1, <2>2, <2>3, <2>4, <2>5, <2>6, <2>7, <2>8 DEF Next
<1> QED
  BY <1>2, <1>3

\* Whatever calls timed out, were superseded or were refused, whenever payloads and cached
\* values arrived and contexts were given, and however often a component was mounted: once
\* there is nothing a host is still to do, it says "ready" of a client that is ready, but
\* for the two cases ReadyIsReported names, and of one that is not, once a call it awaited
\* was the last, it says so.
THEOREM StatusAlwaysFollows == Spec => []StatusFollowsClient
<1>1. CallsInv /\ StatusInv => StatusFollowsClient
  <2> SUFFICES ASSUME CallsInv, StatusInv, Quiet PROVE StatusFollowsClient
    BY DEF StatusFollowsClient, ReadyIsReported, UnreadyIsReported, StaleWhileCached
  <2>1. Mounted /\ ~reportDue /\ current # 0 /\ mount # "new"
    BY DEF Quiet, CallsInv, HostOK, Mounted
  <2>2. DOMAIN calls = 1 .. Len(calls) /\ \A i \in 1 .. Len(calls) : calls[i] \in CallRecord
    BY DEF CallsInv, ClientsOK
  <2>3. kind = "openfeature" => ~OpenCall /\ FeatureReported(client[current])
    BY <2>1, <2>2 DEF Quiet, OpenCall, StatusInv, FeatureTold
  <2>4. ReadyIsReported
    BY <2>1, <2>3 DEF ReadyIsReported, StatusInv, HostTold, FeatureReported
  <2>5. HostSettled => AwaitedLast(calls, current)
    BY <2>2 DEF HostSettled, AwaitedLast, CallsOf, IsLastCall
  <2>6. ~background => Informed(client[current])
    BY <2>1 DEF Informed
  <2>7. UnreadyIsReported
    BY <2>1, <2>3, <2>5, <2>6 DEF UnreadyIsReported, StatusInv, UnreadyTold, FeatureReported
  <2>8. StaleWhileCached
    BY <2>1, <2>3 DEF StaleWhileCached, FeatureReported
  <2> QED
    BY <2>4, <2>7, <2>8 DEF StatusFollowsClient
<1> QED
  BY <1>1, InitCalls, CallsStep, InitOwned, OwnedStep, InitStatus, StatusStep, PTL DEF Spec
=============================================================================
