--------------------------- MODULE ReactProviders ---------------------------
(***************************************************************************)
(* The ConfigDirectorProvider of the React and React Native SDKs, and the  *)
(* one React's withProvider makes.  React may unmount a component and      *)
(* mount the same instance again (StrictMode, hidden trees): a provider    *)
(* that built its client disposes it and builds another.                   *)
(***************************************************************************)
EXTENDS ProviderComponent

\* withProvider connects before there is a component.
WithProvider ==
    /\ kind = "withProvider" /\ mount = "new" /\ calls = <<>>
    /\ Call(1, "initialize", prop, "nothing")
    /\ UNCHANGED <<status, hostVars>>

\* The constructor of a class, Next.js's too; the useState of withProvider's component.
Render ==
    /\ kind \notin PluginKinds \cup {"openfeature"} /\ mount = "new"
    /\ kind = "withProvider" => calls # <<>> /\ calls[1].pc = "done"
    /\ mount' = "rendered"
    /\ status' = IF current # 0 /\ client[current].ready THEN "ready"
                 ELSE IF kind = "withProvider" THEN "default" ELSE "loading"
    /\ UNCHANGED <<clientVars, configuration, mounts, current, handlers, disposedOwn, contextVars,
                   kindVars, inputs>>

\* connect
ConnectMounted(clients, c, opening) ==
    LET action == DecideMountAction(clients[c], prop) IN
    IF action = "none"
      THEN client' = clients /\ status' = opening /\ UNCHANGED calls
      ELSE /\ CallOn(clients, c, action, prop, "settle")
           /\ status' = IF action = "updateContext" THEN "loading" ELSE opening

\* componentDidMount
Mount ==
    /\ kind \in ClassKinds
    /\ IF MustBuild
         THEN /\ CanBuild
              /\ Mounting(NextClient)
              /\ ConnectMounted(BuildClient(client, NextClient), NextClient, "loading")
         ELSE /\ Mounting(current)
              /\ ConnectMounted(client, current, status)
    /\ disposedOwn' = FALSE
    /\ UNCHANGED <<configuration, contextVars, kindVars, inputs>>

\* The effect of withProvider's component: it catches up with a client that became ready
\* after the render.
CatchUpNever == status
CatchUp == IF client[current].ready THEN "ready" ELSE status

MountWithProvider ==
    /\ kind = "withProvider"
    /\ Mounting(current)
    /\ status' = CatchUp
    /\ UNCHANGED <<clientVars, configuration, disposedOwn, contextVars, kindVars, inputs>>

\* componentDidUpdate
SetContext(context) ==
    /\ kind \in ClassKinds /\ Mounted /\ Input
    /\ context # prop
    /\ prop' = context /\ latest' = context
    /\ status' = "loading"
    /\ Call(current, "updateContext", context, "settleCurrent")
    /\ UNCHANGED <<configuration, componentVars, kindVars>>

\* handleAppStateChange, heard while mounted
AppState(toBackground) ==
    /\ kind = "react-native" /\ mounts > 0 /\ Input
    /\ background' = toBackground
    /\ IF ~Mounted THEN UNCHANGED clientVars
       ELSE IF toBackground THEN client' = Paused(current) /\ UNCHANGED calls
       ELSE Resume(current)
    /\ UNCHANGED <<configuration, componentVars, status, contextVars, startVars, offline, featureVars, historyVars>>

HandleConnectivityChange(isConnected) ==
    /\ kind = "react-native" /\ Mounted /\ Input
    /\ IF ~isConnected THEN offline' = TRUE /\ UNCHANGED clientVars
       ELSE IF offline /\ ~background THEN offline' = FALSE /\ Resume(current)
       ELSE UNCHANGED <<clientVars, offline>>
    /\ UNCHANGED <<configuration, componentVars, status, contextVars, startVars, background, featureVars,
                   historyVars>>
=============================================================================
