-------------------------- MODULE ProviderComponent -------------------------
(***************************************************************************)
(* What the hosts of a browser client share: the client they were given or *)
(* built, the status they report, and how they decide what to do with the  *)
(* client when they start.  A host is a component of React, React Native   *)
(* or Next.js, a plugin of Vue or Nuxt, or an OpenFeature provider.        *)
(*                                                                         *)
(* setState is applied when it is called.  Between the render that reads   *)
(* the first status and the mount that registers handlers, the client and  *)
(* the application may go on.                                              *)
(***************************************************************************)
EXTENDS HostedClient

CONSTANTS
    Kinds,      \* the hosts checked
    MaxMounts,  \* bound: mounts of a component
    MaxInputs   \* bound: contexts given, app state changes and calls of the application

ClassKinds == {"react", "react-native"}
PluginKinds == {"vue", "nuxt"}

ASSUME ProviderAssumption ==
    /\ Kinds \subseteq ClassKinds \cup PluginKinds \cup {"nextjs", "withProvider", "openfeature"}
    /\ MaxMounts \in Nat /\ MaxInputs \in Nat

VARIABLES
    kind,
    owned,       \* the host built its client
    defer,       \* deferInitialization of Next.js and Nuxt
    mount,       \* "new", "rendered", "mounted" or "unmounted"
    mounts,
    current,     \* the client of the component's state; 0: none yet
    handlers,    \* the client whose events it listens to; 0: none
    disposedOwn, \* disposedOwnClient
    status,
    prop,        \* the context prop
    latest,      \* the context last given, by the prop or by updateContext
    given,       \* Next.js: lastGivenContext; Nuxt: the configdirector-context state
    phase,       \* Next.js: startupPhase, with the client it names
    starting,    \* Next.js: the first effects are to run; Nuxt: app:created is to come
    offline,     \* React Native: wasOffline
    background,  \* React Native: AppState.currentState is "background"
    awaitingRecovery, servingCachedValues, reportDue,  \* OpenFeature, and its timers
    inputs,
    missedReady,       \* history: clientReady came while a component listened to nothing
    settledByReplaced  \* history: a call of a client that was replaced settled the status

configuration == <<kind, owned, defer>>
componentVars == <<mount, mounts, current, handlers, disposedOwn>>
contextVars == <<prop, latest>>
startVars == <<given, phase, starting>>
nativeVars == <<offline, background>>
featureVars == <<awaitingRecovery, servingCachedValues, reportDue>>
historyVars == <<missedReady, settledByReplaced>>
kindVars == <<startVars, nativeVars, featureVars, historyVars>>
hostVars == <<configuration, componentVars, contextVars, kindVars, inputs>>
vars == <<clientVars, status, hostVars>>

BeforeFirstRenderEffects == [kind |-> "beforeFirstRenderEffects", client |-> 0]

\* React's constructors build the client, Next.js builds it on mount.
Init ==
    /\ kind \in Kinds /\ owned \in BOOLEAN /\ defer \in BOOLEAN
    /\ defer => kind \in {"nextjs", "nuxt"}
    /\ kind \in {"withProvider", "openfeature"} => owned
    /\ current = IF owned /\ kind = "nextjs" THEN 0 ELSE 1
    /\ client = [c \in Clients |-> [Unbuilt EXCEPT !.built = c = current]]
    /\ calls = <<>>
    /\ mount = "new" /\ mounts = 0 /\ handlers = 0 /\ disposedOwn = FALSE
    /\ status = "loading"
    /\ prop \in Contexts \cup {None} /\ latest = prop /\ given = prop
    /\ phase = BeforeFirstRenderEffects /\ starting = FALSE
    /\ offline = FALSE /\ background = FALSE /\ inputs = 0
    /\ awaitingRecovery = FALSE /\ servingCachedValues = FALSE /\ reportDue = FALSE
    /\ missedReady = FALSE /\ settledByReplaced = FALSE

Mounted == mount = "mounted"
Input == inputs < MaxInputs /\ inputs' = inputs + 1

SettledStatusOf(c) == IF client[c].ready THEN "ready" ELSE "default"

CanMount == mount \in {"rendered", "unmounted"} /\ mounts < MaxMounts

Mounting(c) ==
    /\ CanMount
    /\ mount' = "mounted" /\ mounts' = mounts + 1
    /\ current' = c /\ handlers' = c

MustBuild == owned /\ (disposedOwn \/ kind = "nextjs")
CanBuild == \E c \in Clients : ~Built(c)
NextClient == CHOOSE c \in Clients : ~Built(c) /\ \A d \in Clients : ~Built(d) => c <= d

\* mountAction.ts
DecideMountActionEager(view, context) ==
    IF ~view.ready THEN "initialize" ELSE "none"

DecideMountAction(view, context) ==
    IF view.initializing THEN "none"
    ELSE IF ~view.ready THEN "initialize"
    ELSE IF context # None /\ context # view.context THEN "updateContext"
    ELSE "none"

\* decideStartupAction; Nuxt's says "firstStartInFlight" for "none" while it initializes.
DecideStartupAction(view, context) ==
    LET action == DecideMountAction(view, context) IN
    IF defer /\ action = "initialize" /\ context = None THEN "waitForContext"
    ELSE IF kind = "nuxt" /\ defer /\ action = "none" /\ view.initializing THEN "firstStartInFlight"
    ELSE action

\* The application initializes the client it gave.
AppInitializes(context) ==
    /\ ~owned /\ Input
    /\ ~client[current].ready /\ ~client[current].initializing
    /\ Call(current, "initialize", context, "nothing")
    /\ UNCHANGED <<configuration, componentVars, status, contextVars, kindVars>>

\* useContext().updateContext of React, which calls the client.
UpdateFromHook(context) ==
    /\ kind \in ClassKinds \cup {"withProvider"} /\ Mounted /\ Input
    /\ latest' = context
    /\ Call(current, "updateContext", context, "nothing")
    /\ UNCHANGED <<configuration, componentVars, status, prop, kindVars>>
=============================================================================
