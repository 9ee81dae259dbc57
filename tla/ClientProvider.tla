--------------------------- MODULE ClientProvider ---------------------------
(***************************************************************************)
(* An application with one host of a browser client: every kind of host,   *)
(* around a client it was given or one it built.                           *)
(***************************************************************************)
EXTENDS ReactProviders, NextProvider, PluginProviders

-----------------------------------------------------------------------------
(* componentWillUnmount *)

DisposeNever == UNCHANGED client
DisposeOwn == IF owned /\ kind # "withProvider" THEN client' = Disposed(current) ELSE UNCHANGED client

Unmount ==
    /\ kind \notin PluginKinds \cup {"openfeature"}
    /\ Mounted /\ ~starting
    /\ mount' = "unmounted" /\ handlers' = 0
    /\ phase' = PhaseAfterUnmount
    /\ given' = prop
    /\ latest' = IF kind = "withProvider" THEN latest ELSE prop
    /\ DisposeOwn
    /\ disposedOwn' = (owned /\ kind \in ClassKinds)
    /\ current' = IF owned /\ kind = "nextjs" THEN 0 ELSE current
    /\ UNCHANGED <<calls, configuration, mounts, status, prop, starting, nativeVars, featureVars,
                   historyVars, inputs>>

-----------------------------------------------------------------------------
(* What the client does, and what it makes its host do *)

ClientStep ==
    /\ \E i \in DOMAIN calls : TransportSettles(i) \/ CallTimesOut(i) \/ CallRefused(i)
    /\ UNCHANGED <<status, hostVars>>

\* clientReady reaches the handlers of a mounted host; OpenFeature's tells the SDK when it
\* had failed before.
Payload(c) ==
    LET heard == handlers = c /\ BecomesReady(c) IN
    /\ PayloadArrives(c)
    /\ status' = IF heard /\ (kind = "openfeature" => awaitingRecovery) THEN "ready" ELSE status
    /\ servingCachedValues' = (servingCachedValues /\ ~heard)
    /\ awaitingRecovery' = (awaitingRecovery /\ ~heard)
    /\ missedReady' = (missedReady \/ (BecomesReady(c) /\ mount \in {"rendered", "unmounted"}))
    /\ UNCHANGED <<configuration, componentVars, contextVars, startVars, nativeVars, reportDue,
                   settledByReplaced, inputs>>

Continue(i) ==
    LET c == calls[i].client
        then == calls[i].then
    IN
    /\ calls[i].pc = "returned"
    /\ Resumed(i)
    /\ \/ then = "settle" /\ status' = SettledStatusOf(c) /\ UNCHANGED featureVars
       \/ then = "settleCurrent" /\ status' = SettledStatusOf(current) /\ UNCHANGED featureVars
       \/ then = "settleIfCurrent" /\ status' = SettleStatus(c) /\ UNCHANGED featureVars
       \/ then = "settleDown" /\ status' = SettledDown(c) /\ UNCHANGED featureVars
       \/ then = "requireReady" /\ RequireReady(i) /\ UNCHANGED servingCachedValues
    /\ settledByReplaced' = (settledByReplaced \/ (then = "settle" /\ c # current))
    /\ UNCHANGED <<client, configuration, componentVars, contextVars, startVars, nativeVars,
                   missedReady, inputs>>

Next ==
    \/ WithProvider \/ Render \/ Mount \/ MountNext \/ MountWithProvider
    \/ InstallVue \/ InstallNuxt \/ InstallOpenFeature
    \/ StartAfterFirstRenderEffects \/ AppCreated
    \/ \E context \in Contexts \cup {None} :
         \/ \E asProp \in BOOLEAN : GiveNextContext(context, asProp)
         \/ SetContext(context) \/ UpdateFromHook(context) \/ AppInitializes(context)
         \/ UpdateVueContext(context) \/ UpdateNuxtContext(context) \/ OnContextChange(context)
    \/ \E b \in BOOLEAN : AppState(b) \/ HandleConnectivityChange(b)
    \/ OnCachedValuesLoaded \/ ReportStatus
    \/ Unmount \/ OnClose
    \/ ClientStep
    \/ \E c \in Clients : Payload(c)
    \/ \E i \in DOMAIN calls : Continue(i)

Spec == Init /\ [][Next]_vars

-----------------------------------------------------------------------------
(* Properties *)

\* Nothing the host is still to do; a context being changed is only OpenFeature's to end.
Quiet ==
    /\ Mounted /\ ~starting /\ ~reportDue
    /\ \A i \in DOMAIN calls :
         calls[i].pc # "returned" /\ (kind = "openfeature" => calls[i].pc = "done")

\* A host of a ready client says "ready" once its continuations have run, whatever calls
\* timed out, were superseded or belong to clients disposed before, and whatever contexts
\* were given (provider.tsx 40-90, nextjs ConfigDirectorProvider.tsx 100-178,
\* withProvider.tsx 24-46, the plugins of Vue and Nuxt, openfeature-web-provider 50-138).
\* Two ways of the code to miss it are left out, and no more: a given client that became
\* ready between a component's render and its mount, or while it was unmounted, which only
\* withProvider catches up with (GivenIsReportedReady), and a class provider mounted again
\* whose status a call of the client it had disposed then settled (RemountedIsReportedReady).
ReadyIsReported ==
    Quiet /\ client[current].ready
    /\ (missedReady => kind = "withProvider") /\ ~settledByReplaced
        => status = "ready"

\* The last call on the client is one the host awaited, and it has gone on.
HostSettled ==
    \E i \in CallsOf(current) : IsLastCall(i) /\ calls[i].then # "nothing" /\ calls[i].pc = "done"

\* And of a client that is not ready it says "default", or OpenFeature's "error" or "stale",
\* once the last call made on it is one the host awaited.  Of the others it hears nothing,
\* and "ready" stays while the client is not: updateContext of a hook, resumeNetwork, a
\* pause in the background (UnreadyIsNeverReady, which also fails for a Next.js provider
\* mounted again, until it calls its new client).
UnreadyIsReported ==
    Quiet /\ HostSettled /\ ~background /\ ~client[current].ready
        => status \in IF kind = "openfeature" THEN {"error", "stale"} ELSE {"default"}

\* OpenFeature: while the client serves cached values and its last connection failed, the
\* SDK's status ends as STALE and not as the ERROR the rejection recorded
\* (ConfigDirectorProvider.ts 119-138).
StaleWhileCached ==
    kind = "openfeature" /\ Quiet /\ ~client[current].ready /\ client[current].cached => status = "stale"

\* What the host says of its client, once there is nothing it is still to do: "ready" of
\* one that is ready and, after a call it awaited, of no other.
StatusFollowsClient == ReadyIsReported /\ UnreadyIsReported /\ StaleWhileCached

\* Whatever was mounted, unmounted and mounted again, only the client of the mounted
\* component is connected: a client a provider built never outlives its mount.
ConnectionsAreOwned ==
    owned /\ kind # "withProvider" => \A c \in Clients : client[c].link => Mounted /\ c = current

\* Through the start after the first effects or app:created, a wait for a first context,
\* pauses and mounts again: the context last given is the one the host last submitted, or it
\* is none and the host waits for a first one (client-startup.ts of Next.js and Nuxt).  The
\* context a resume of React Native reconnects with is the client's own affair (see
\* ResumedWithLatestContext), and Vue's updateContext drops a context given back before its
\* connect ends (VueContextWins).
SubmittedCalls == {i \in CallsOf(current) : calls[i].action # "resume"}
LatestSubmitted ==
    \E i \in SubmittedCalls : (\A j \in SubmittedCalls : j <= i) /\ calls[i].context = latest

LatestContextWins ==
    owned /\ kind # "vue" /\ Mounted /\ ~starting
        => LatestSubmitted \/ (SubmittedCalls = {} /\ defer /\ latest = None)

\* A host starts no second initialization of a client that is initializing, whoever
\* started the first (mountAction.ts 10-12; plugin.ts 27).
OneAttempt ==
    [][ \A c \in Clients :
          Len(calls') > Len(calls) /\ client[c].initializing
              => ~(calls'[Len(calls')].client = c /\ calls'[Len(calls')].action = "initialize") ]_vars

-----------------------------------------------------------------------------
(* What the code does not do *)

\* types.ts 70-74: a provider given a client leaves it as it is and "reports ready as soon
\* as the client is".
GivenIsReportedReady ==
    Quiet /\ ~owned /\ client[current].ready => status = "ready"

\* A class provider that was mounted again says that its own client is ready.
RemountedIsReportedReady ==
    Quiet /\ owned /\ kind \in ClassKinds /\ client[current].ready => status = "ready"

\* Once every call has returned, no host says "ready" of a client that is not.
UnreadyIsNeverReady ==
    Quiet /\ (\A i \in DOMAIN calls : calls[i].pc = "done") /\ status = "ready"
        => client[current].ready

\* Vue, too, submits the context last given.
VueContextWins ==
    owned /\ kind = "vue" /\ Mounted /\ latest # None => LatestSubmitted
=============================================================================
