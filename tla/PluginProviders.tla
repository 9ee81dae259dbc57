--------------------------- MODULE PluginProviders --------------------------
(***************************************************************************)
(* The hosts that are installed once: the plugins of Vue and Nuxt, and the *)
(* OpenFeature web provider with the status the OpenFeature SDK records.   *)
(***************************************************************************)
EXTENDS ProviderComponent

Installing ==
    /\ mount = "new"
    /\ mount' = "mounted" /\ mounts' = 1 /\ handlers' = current
    /\ UNCHANGED <<configuration, current, disposedOwn, contextVars, nativeVars, historyVars, inputs>>

FirstStatus == IF client[current].ready THEN "ready" ELSE "loading"

-----------------------------------------------------------------------------
(* Vue *)

InstallVue ==
    /\ kind = "vue" /\ Installing
    /\ status' = FirstStatus
    /\ IF client[current].ready \/ client[current].initializing
         THEN UNCHANGED clientVars
         ELSE Call(current, "initialize", prop, "settleDown")
    /\ UNCHANGED <<startVars, featureVars>>

\* useContext().updateContext compares with the context of the client.
UpdateVueContext(context) ==
    /\ kind = "vue" /\ Mounted /\ Input
    /\ latest' = context
    /\ IF context = client[current].context THEN UNCHANGED clientVars
       ELSE Call(current, "updateContext", context, "nothing")
    /\ UNCHANGED <<configuration, componentVars, status, prop, kindVars>>

-----------------------------------------------------------------------------
(* Nuxt *)

InstallNuxt ==
    /\ kind = "nuxt" /\ Installing
    /\ status' = FirstStatus
    /\ starting' = TRUE
    /\ UNCHANGED <<clientVars, given, phase, featureVars>>

\* settleReadyStatus
SettledDownNever(c) == status
SettledDown(c) == IF client[c].ready THEN status ELSE "default"

AppCreated ==
    LET action == DecideStartupAction(client[current], given) IN
    /\ kind = "nuxt" /\ starting
    /\ starting' = FALSE
    /\ CASE action \in {"waitForContext", "firstStartInFlight"} -> UNCHANGED <<clientVars, status>>
         [] action = "none" -> status' = SettledDown(current) /\ UNCHANGED clientVars
         [] OTHER -> Call(current, action, given, "settleDown") /\ UNCHANGED status
    /\ UNCHANGED <<configuration, componentVars, contextVars, given, phase, nativeVars, featureVars,
                   historyVars, inputs>>

\* updateContext of useConfigDirectorContext; the wait of its caller is left out.
HandContextToClient(context) ==
    IF defer /\ DecideMountAction(client[current], context) = "initialize"
      THEN Call(current, "initialize", context, "settleDown")
      ELSE Call(current, "updateContext", context, "nothing")

UpdateNuxtContext(context) ==
    /\ kind = "nuxt" /\ Mounted /\ Input
    /\ latest' = context /\ given' = context
    /\ IF context # given THEN HandContextToClient(context) ELSE UNCHANGED clientVars
    /\ UNCHANGED <<configuration, componentVars, status, prop, phase, starting, nativeVars, featureVars,
                   historyVars>>

-----------------------------------------------------------------------------
(* OpenFeature.  The SDK records "ready" or "error" when initialize or onContextChange    *)
(* returns, "reconciling" while a context changes, and what the provider's events say.    *)

InstallOpenFeature ==
    /\ kind = "openfeature" /\ Installing
    /\ Call(current, "initialize", prop, "requireReady")
    /\ UNCHANGED <<status, startVars, featureVars>>

OnContextChange(context) ==
    /\ kind = "openfeature" /\ Mounted /\ Input
    /\ prop' = context /\ latest' = context
    /\ awaitingRecovery' = FALSE
    /\ status' = "reconciling"
    /\ Call(current, "updateContext", context, "requireReady")
    /\ UNCHANGED <<configuration, componentVars, startVars, nativeVars, servingCachedValues, reportDue,
                   historyVars>>

RequireReadyAtOnce(i) ==
    IF client[current].ready
      THEN status' = "ready" /\ UNCHANGED <<awaitingRecovery, reportDue>>
      ELSE status' = "error" /\ awaitingRecovery' = TRUE /\ UNCHANGED reportDue

RequireReady(i) ==
    IF client[current].ready
      THEN status' = "ready" /\ UNCHANGED <<awaitingRecovery, reportDue>>
      ELSE status' = "error" /\ awaitingRecovery' = TRUE /\ reportDue' = TRUE

OnCachedValuesLoaded ==
    /\ kind = "openfeature" /\ handlers # 0
    /\ CachedValuesLoad(handlers)
    /\ servingCachedValues' = TRUE /\ reportDue' = TRUE
    /\ UNCHANGED <<status, configuration, componentVars, contextVars, startVars, nativeVars,
                   awaitingRecovery, historyVars, inputs>>

\* reportStatusOnceTheSdkRecordedTheOutcome: its timers fire.
ReportStatus ==
    /\ reportDue
    /\ reportDue' = FALSE
    /\ status' = IF servingCachedValues /\ awaitingRecovery THEN "stale" ELSE status
    /\ UNCHANGED <<clientVars, configuration, componentVars, contextVars, startVars, nativeVars,
                   awaitingRecovery, servingCachedValues, historyVars, inputs>>

OnClose ==
    /\ kind = "openfeature" /\ Mounted
    /\ mount' = "unmounted" /\ handlers' = 0
    /\ client' = Disposed(current)
    /\ UNCHANGED <<calls, status, configuration, mounts, current, disposedOwn, contextVars, kindVars, inputs>>
=============================================================================
