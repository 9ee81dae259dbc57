-------------------------- MODULE ConnectionPlans --------------------------
(***************************************************************************)
(* What a client is built from: the connection plan both SDKs make of the  *)
(* SDK key and the connection options, and the transport built for it.     *)
(* A key that is blank or an URL that does not parse makes the constructor *)
(* throw; options that contradict each other make initialize reject.       *)
(***************************************************************************)
EXTENDS Integers

\* ConnectionOptions.  `key` and `url` say what was given; `mode` and `pollingInterval`
\* are sets with the option, empty when it is left out; `file` and `values` say whether
\* they were given.  `intervals` are the seconds an application may ask for.
ServerOptions(intervals) ==
    [key : {"given", "blank"}, url : {"none", "valid", "invalid"},
     mode : {{}, {"streaming"}, {"polling"}, {"offline"}},
     file : BOOLEAN, values : BOOLEAN,
     pollingInterval : {{}} \cup {{seconds} : seconds \in intervals}]

\* The client SDKs read no file.
ClientOptions(intervals) == {options \in ServerOptions(intervals) : ~options.file}

OfflineSources == {"in-code-defaults", "file", "values", "rejected"}

Connect(mode) == [kind |-> "connect", mode |-> mode]
StayOffline(source) == [kind |-> "stay-offline", source |-> source]
Throws == [kind |-> "throws"]

IsOffline(options) == options.mode = {"offline"}
ModeOf(options) == IF options.mode = {} THEN "streaming" ELSE CHOOSE m \in options.mode : TRUE

ServerSource(options) ==
    CASE options.file /\ options.values -> "rejected"
      [] options.file /\ ~options.values -> "file"
      [] ~options.file /\ options.values -> "values"
      [] OTHER -> "in-code-defaults"

ClientSource(options) == IF options.values THEN "values" ELSE "in-code-defaults"

\* The key is looked at first, then options that apply only offline, then the URL.
ServerPlan(options) ==
    IF IsOffline(options) THEN StayOffline(ServerSource(options))
    ELSE IF options.key = "blank" THEN Throws
    ELSE IF options.file \/ options.values THEN StayOffline("rejected")
    ELSE IF options.url = "invalid" THEN Throws
    ELSE Connect(ModeOf(options))

ClientPlan(options) ==
    IF IsOffline(options) THEN StayOffline(ClientSource(options))
    ELSE IF options.key = "blank" THEN Throws
    ELSE IF options.values THEN StayOffline("rejected")
    ELSE IF options.url = "invalid" THEN Throws
    ELSE Connect(ModeOf(options))

----------------------------------------------------------------------------
(* The transport: a live one is named by its mode, the offline one by the  *)
(* source of its values.                                                   *)

TransportOf(plan) == IF plan.kind = "connect" THEN plan.mode ELSE plan.source

ClientIntervals == [default |-> 60, minimum |-> 30]
ServerIntervals == [default |-> 300, minimum |-> 60]

ResolvePollingInterval(configured, intervals) ==
    IF configured = {} THEN intervals.default
    ELSE LET seconds == CHOOSE s \in configured : TRUE
         IN  IF seconds >= intervals.minimum THEN seconds ELSE intervals.minimum

\* A set with the seconds between polls; another transport than polling has none.
PollingIntervalFor(plan, options, intervals) ==
    IF plan = Connect("polling") THEN {ResolvePollingInterval(options.pollingInterval, intervals)}
    ELSE {}

\* Whether polls are scheduled at all.
SchedulesPolls(plan, options, intervals) ==
    \E seconds \in PollingIntervalFor(plan, options, intervals) : seconds > 0
=============================================================================
