---------------------------- MODULE NextProvider ----------------------------
(***************************************************************************)
(* The client-side ConfigDirectorProvider of the Next.js SDK: it builds    *)
(* its client when it mounts, starts it after the effects of the first     *)
(* render with the context last given by then, and may wait for one.       *)
(***************************************************************************)
EXTENDS ProviderComponent

StartupPhaseAfter(action, c) ==
    [kind |-> IF action = "waitForContext" THEN "waitingForContext" ELSE "started", client |-> c]

DecideGivenContextAction(context) ==
    IF context = given THEN "skipUnchanged"
    ELSE CASE phase.kind = "beforeFirstRenderEffects" -> "keepForStartup"
           [] phase.kind = "waitingForContext" -> "startClient"
           [] phase.kind = "started" -> "updateContext"

\* componentDidMount
MountNext ==
    /\ kind = "nextjs"
    /\ IF MustBuild
         THEN /\ CanBuild
              /\ Mounting(NextClient)
              /\ client' = BuildClient(client, NextClient)
         ELSE Mounting(current) /\ UNCHANGED client
    /\ starting' = TRUE
    /\ UNCHANGED <<calls, configuration, disposedOwn, status, contextVars, given, phase, nativeVars,
                   featureVars, historyVars, inputs>>

StartClient(c, context) ==
    LET action == DecideStartupAction(client[c], context) IN
    /\ phase' = StartupPhaseAfter(action, c)
    /\ IF action \in {"waitForContext", "none"}
         THEN UNCHANGED <<clientVars, status>>
         ELSE /\ Call(c, action, context, "settleIfCurrent")
              /\ status' = IF action = "updateContext" THEN "loading" ELSE status

StartAfterFirstRenderEffects ==
    /\ kind = "nextjs" /\ starting
    /\ starting' = FALSE
    /\ StartClient(current, given)
    /\ UNCHANGED <<configuration, componentVars, contextVars, given, nativeVars, featureVars,
                   historyVars, inputs>>

KeepForStartupLost(context) == given' = given
KeepForStartup(context) == given' = context

ReceiveContext(context) ==
    LET action == DecideGivenContextAction(context) IN
    \/ action = "skipUnchanged" /\ UNCHANGED <<clientVars, given, phase, status>>
    \/ action = "keepForStartup" /\ KeepForStartup(context) /\ UNCHANGED <<clientVars, phase, status>>
    \/ /\ action = "startClient"
       /\ given' = context
       /\ StartClient(phase.client, context)
    \/ /\ action = "updateContext"
       /\ given' = context /\ status' = "loading"
       /\ Call(phase.client, "updateContext", context, "settleIfCurrent")
       /\ UNCHANGED phase

\* updateContext of the hook or a new prop; no prop arrives before the effects have run.
GiveNextContext(context, asProp) ==
    /\ kind = "nextjs" /\ Mounted /\ Input
    /\ asProp => ~starting /\ context # prop
    /\ prop' = IF asProp THEN context ELSE prop
    /\ latest' = context
    /\ ReceiveContext(context)
    /\ UNCHANGED <<configuration, componentVars, starting, nativeVars, featureVars, historyVars>>

PhaseKeptAfterUnmount == phase
PhaseAfterUnmount == BeforeFirstRenderEffects

SettleStatusAnyway(c) == SettledStatusOf(c)
SettleStatus(c) == IF current = c THEN SettledStatusOf(c) ELSE status
=============================================================================
