-------------------------- MODULE ConfigEvaluation --------------------------
(***************************************************************************)
(* One evaluation, as the three kinds of client make it: a server client   *)
(* admits the context and walks the targeting rules of the config, an      *)
(* offline client encodes the value it was given, a connected client takes *)
(* the config state it was sent.  Each then reads the served text as the   *)
(* type of the in-code default and reports the evaluation.                 *)
(*                                                                         *)
(* The percentage of a context is a bucket: rapidhash is left out, and     *)
(* shares are counted in buckets, so their sums are exact.                 *)
(***************************************************************************)
EXTENDS ConfigValues, ConnectionPlans

CONSTANTS
    Inputs,   \* what an evaluation may be asked of
    Buckets   \* number of buckets (1000 in the code)

ASSUME BucketsAssumption == Buckets \in Nat \ {0}

\* What the types of the payload allow; an operator the payload left out is NoOperator.
IsList(list) == Len(list) \in Nat /\ DOMAIN list = 1 .. Len(list)

IsCondition(c) ==
    \/ /\ c.kind = "attribute"
       /\ {"operator", "targetType", "targetValues"} \subseteq DOMAIN c
       /\ c.targetType \in DOMAIN Operators
       /\ c.operator \in {NoOperator} \cup UNION {Operators[t] : t \in DOMAIN Operators}
       /\ c.targetValues \in Seq(Texts)
    \/ c.kind = "segment" /\ c.operator \in {NoOperator, "in", "not in"}

\* Stands for Number.MAX_SAFE_INTEGER, which no order of a payload reaches.
LastOrder == 1000

IsShares(shares) == IsList(shares) /\ \A i \in DOMAIN shares : shares[i].percentage \in 0 .. Buckets

IsRule(r) ==
    /\ r.type \in {"conditional", "percentage"} /\ r.target \in {"value", "percentage"}
    /\ r.type = "percentage" => r.target = "percentage"
    /\ r.value \subseteq Texts
    /\ \A n \in r.order : n \in Int /\ n < LastOrder
    /\ IsList(r.conditions) /\ \A c \in DOMAIN r.conditions : IsCondition(r.conditions[c])
    /\ \A shares \in r.percentages : IsShares(shares)

IsConfig(c) ==
    c.type \in ConfigTypes /\ IsList(c.rules) /\ \A r \in DOMAIN c.rules : IsRule(c.rules[r])

\* Groups of conditions.
IsSegment(s) == IsList(s) /\ \A g \in DOMAIN s : IsList(s[g])

\* What the conditions of a config find in a context are texts and numbers.
IsReadable(config, ctx, metadata) ==
    \A r \in DOMAIN config.rules : \A c \in DOMAIN config.rules[r].conditions :
        config.rules[r].conditions[c].kind = "attribute" =>
            \A admitted \in {ctx, NoContext} :
                LET value == ResolveAttribute(config.rules[r].conditions[c], admitted, metadata)
                IN  Render(value) \in Texts /\ ParseFinite(value) \subseteq Int

ASSUME InputsAssumption ==
    \A i \in Inputs :
        /\ i.side = "server" => /\ \A c \in i.config : IsConfig(c)
                                /\ \A s \in DOMAIN i.segments : IsSegment(i.segments[s])
                                /\ \A c \in i.config : IsReadable(c, i.context, i.metadata)
        /\ i.side = "offline" => ClientPlan(i.options).kind = "stay-offline" /\ IsNative(i.value)
        /\ i.side \in {"server", "client", "offline"}
        /\ DOMAIN i.inCode \in {{"text"}, {"number"}, {"flag"}, {"items"}, {"members"}, {"null"}}

VARIABLES
    input,     \* what is evaluated, never changed
    at,        \* the step the evaluation is at
    context,   \* the context it is made for
    walked,    \* explanations of the rules walked so far
    served,    \* the config state to read
    reason,    \* the reason the server gives it
    reported   \* the evaluation, and the telemetry event with the same contents

evaluationVars == <<input, at, context, walked, served, reason, reported>>

Nothing == [none |-> TRUE]
NotMatched == [outcome |-> "not-matched", served |-> {}, conditions |-> <<>>]
Serving(value, valueId, variation, share) ==
    [value |-> value, valueId |-> valueId, variation |-> variation, share |-> share]

----------------------------------------------------------------------------
(* Segments and conditions.  A list is decided by the first of its         *)
(* outcomes that differs from the neutral one; the rest is not evaluated.  *)

FirstOther(outcomes, neutral) ==
    LET others == {i \in DOMAIN outcomes : outcomes[i] # neutral} IN
    IF others = {} THEN neutral
    ELSE outcomes[CHOOSE i \in others : \A j \in others : i <= j]

\* Its groups are alternatives, the conditions of a group hold together.
Membership(groups, ctx, metadata) ==
    FirstOther([g \in DOMAIN groups |->
        FirstOther([i \in DOMAIN groups[g] |-> ConditionOutcome(groups[g][i], ctx, metadata)],
                   "matched")], "not-matched")

MembershipSatisfies(operator, member) ==
    IF member = "errored" \/ operator = NoOperator THEN "errored"
    ELSE IF (operator = "in" /\ member = "matched") \/ (operator = "not in" /\ member # "matched")
    THEN "matched" ELSE "not-matched"

\* A segment that is not there, or holds segment conditions, satisfies no operator.
SegmentOutcome(condition, segments, ctx, metadata) ==
    IF condition.segmentId \notin DOMAIN segments THEN "not-matched"
    ELSE MembershipSatisfies(condition.operator,
                             Membership(segments[condition.segmentId], ctx, metadata))

HoldsSegmentConditions(segment) ==
    \E g \in DOMAIN segment : \E i \in DOMAIN segment[g] : segment[g][i].kind = "segment"
UsableSegments(segments) ==
    [s \in {s \in DOMAIN segments : ~HoldsSegmentConditions(segments[s])} |-> segments[s]]

CheckCondition(condition, segments, ctx, metadata) ==
    IF condition.kind = "segment"
    THEN SegmentOutcome(condition, UsableSegments(segments), ctx, metadata)
    ELSE ConditionOutcome(condition, ctx, metadata)

----------------------------------------------------------------------------
(* Rules.                                                                  *)

\* Where share i of a rollout begins and ends, in buckets.
ShareEnd(percentages, i) ==
    LET end[n \in 0 .. Len(percentages)] ==
          IF n = 0 THEN 0 ELSE end[n - 1] + percentages[n].percentage
    IN  end[i]

SelectedShareClosed(percentages, bucket) ==
    SelectInSeq([i \in DOMAIN percentages |-> ShareEnd(percentages, i)], LAMBDA end : bucket <= end)

\* The first share that ends beyond the bucket (0: none); a boundary belongs to the next.
SelectedShare(percentages, bucket) ==
    SelectInSeq([i \in DOMAIN percentages |-> ShareEnd(percentages, i)], LAMBDA end : bucket < end)

\* `percentages` is a set with the list, or empty.
ExplainRollout(rule, bucket, ctx) ==
    IF rule.percentages = {} THEN NotMatched
    ELSE IF ctx.id = {} THEN [NotMatched EXCEPT !.outcome = "rollout-skipped-no-identifier"]
    ELSE LET percentages == CHOOSE p \in rule.percentages : TRUE
             i == SelectedShare(percentages, bucket)
         IN  IF i = 0 \/ percentages[i].value = {} THEN NotMatched
             ELSE [NotMatched EXCEPT !.outcome = "matched",
                      !.served = {Serving(percentages[i].value, percentages[i].valueId,
                                          percentages[i].variation, {<<rule.id, i>>})}]

\* The conditions after the first that does not match are not evaluated.
Checked(outcomes) ==
    [i \in DOMAIN outcomes |->
        IF \A j \in 1 .. i - 1 : outcomes[j] = "matched" THEN outcomes[i] ELSE "not-evaluated"]

ExplainOutcomes(rule, outcomes, bucket, ctx) ==
    LET decided == FirstOther(outcomes, "matched")
        serving == IF decided # "matched" THEN [NotMatched EXCEPT !.outcome = decided]
                   ELSE IF rule.target = "percentage" THEN ExplainRollout(rule, bucket, ctx)
                   ELSE IF rule.value = {} THEN NotMatched
                   ELSE [NotMatched EXCEPT !.outcome = "matched",
                            !.served = {Serving(rule.value, rule.valueId, rule.variation, {})}]
    IN  [serving EXCEPT !.conditions = IF decided = "errored" THEN <<>> ELSE Checked(outcomes)]

ExplainConditionalRule(rule, segments, bucket, ctx, metadata) ==
    ExplainOutcomes(rule, [i \in DOMAIN rule.conditions |->
                              CheckCondition(rule.conditions[i], segments, ctx, metadata)],
                    bucket, ctx)

\* A rule that throws is disregarded: its outcome is "errored" and the walk goes on.
ExplainRule(rule, segments, bucket, ctx, metadata) ==
    IF rule.type = "percentage" THEN ExplainRollout(rule, bucket, ctx)
    ELSE ExplainConditionalRule(rule, segments, bucket, ctx, metadata)

\* Rules are sorted by their order, those without one last; the sort is stable.
WalkOrderAsListed(rules) == [i \in DOMAIN rules |-> i]

RuleOrder(rule) == IF rule.order = {} THEN LastOrder ELSE CHOOSE n \in rule.order : TRUE
Precedes(rules, i, j) ==
    \/ RuleOrder(rules[i]) < RuleOrder(rules[j])
    \/ RuleOrder(rules[i]) = RuleOrder(rules[j]) /\ i < j

\* In the place a rule has, as many rules precede it as there are places before.
WalkOrder(rules) ==
    [place \in DOMAIN rules |->
        CHOOSE i \in DOMAIN rules :
            Cardinality({j \in DOMAIN rules : Precedes(rules, j, i)}) = place - 1]

\* Whether a bundle with these segments may change what a config evaluates to.
UsesAnySegmentIn(config, ids) ==
    \E r \in DOMAIN config.rules :
        /\ config.rules[r].type = "conditional"
        /\ \E c \in DOMAIN config.rules[r].conditions :
              /\ config.rules[r].conditions[c].kind = "segment"
              /\ config.rules[r].conditions[c].operator = "in"
              /\ config.rules[r].conditions[c].segmentId \in ids

UsesAnySegment(config, ids) ==
    \E r \in DOMAIN config.rules :
        /\ config.rules[r].type = "conditional"
        /\ \E c \in DOMAIN config.rules[r].conditions :
              /\ config.rules[r].conditions[c].kind = "segment"
              /\ config.rules[r].conditions[c].segmentId \in ids

----------------------------------------------------------------------------
(* The evaluation.                                                         *)

InvalidDefault == Null  \* undefined, null or a function

EvaluationInit ==
    /\ input \in Inputs
    /\ at = "start" /\ context = NoContext /\ walked = <<>>
    /\ served = Nothing /\ reason = "found-match" /\ reported = Nothing

\* validateDefaultValue throws before anything is evaluated.
RefuseDefault ==
    /\ at = "start" /\ input.inCode = InvalidDefault
    /\ at' = "refused"
    /\ UNCHANGED <<input, context, walked, served, reason, reported>>

Asked(side) == at = "start" /\ input.side = side /\ input.inCode # InvalidDefault

\* contextToEvaluate: a context with an invalid kind is recorded and ignored as a whole.
AdmitContext ==
    /\ Asked("server")
    /\ context' = AdmittedContext(input.context)
    /\ at' = IF input.config = {} THEN "missing" ELSE "walking"
    /\ UNCHANGED <<input, walked, served, reason, reported>>

Config == CHOOSE c \in input.config : TRUE
Order == WalkOrder(Config.rules)
WalkEnded ==
    \/ Len(walked) = Len(Order)
    \/ walked # <<>> /\ Last(walked).outcome \notin {"not-matched", "errored"}

WalkRule ==
    /\ at = "walking" /\ ~WalkEnded
    /\ walked' = Append(walked, ExplainRule(Config.rules[Order[Len(walked) + 1]],
                                    input.segments, input.bucket, context, input.metadata))
    /\ UNCHANGED <<input, at, context, served, reason, reported>>

\* servedConfigState: of the rule that served, else the default targeting rule value; a
\* variation the config does not have is left out.
ServeConfigState ==
    /\ at = "walking" /\ WalkEnded
    /\ LET last == IF walked = <<>> THEN NotMatched ELSE Last(walked)
           value == IF last.served = {} THEN Config.default ELSE CHOOSE v \in last.served : TRUE
       IN  /\ served' = ConfigState(Config.type, value.value, value.valueId,
                                    value.variation \cap Config.variations, value.share)
           /\ reason' = IF last.outcome = "rollout-skipped-no-identifier"
                        THEN last.outcome ELSE "found-match"
    /\ at' = "reading"
    /\ UNCHANGED <<input, context, walked, reported>>

\* An offline client encodes the values it was given when it connects; without any the
\* config is missing, and a value or a plan that is rejected fails the connect.
LoadOfflineValue ==
    /\ Asked("offline")
    /\ LET source == ClientPlan(input.options).source
           states == NativeValueConfigStates(input.value)
       IN  \/ source = "in-code-defaults" /\ at' = "missing" /\ UNCHANGED served
          \/ /\ source = "rejected" \/ (source = "values" /\ states = {})
             /\ at' = "refused" /\ UNCHANGED served
          \/ /\ source = "values" /\ states # {}
             /\ at' = "reading" /\ served' = CHOOSE s \in states : TRUE
    /\ UNCHANGED <<input, context, walked, reason, reported>>

\* A connected client has the config state it was sent, or was kept on the device.
TakeConfigState ==
    /\ Asked("client")
    /\ IF input.state = {} THEN at' = "missing" /\ UNCHANGED served
       ELSE at' = "reading" /\ served' = CHOOSE s \in input.state : TRUE
    /\ UNCHANGED <<input, context, walked, reason, reported>>

\* The server gives the reason of its explanation, unless the value could not be read ...
ServerReason(parsed) == IF parsed.usedDefault THEN parsed.reason ELSE reason

ReportServerEvaluation ==
    /\ at = "reading" /\ input.side = "server"
    /\ LET parsed == ParseConfigValue(served, input.inCode) IN
       reported' = [parsed EXCEPT !.reason = ServerReason(parsed)]
    /\ at' = "done"
    /\ UNCHANGED <<input, context, walked, served, reason>>

\* ... and the client says when it serves values kept on the device.
ServedReason(parsed) ==
    IF parsed.reason = "found-match" /\ input.side = "client" /\ input.cached
    THEN "cached" ELSE parsed.reason

ReportClientEvaluation ==
    /\ at = "reading" /\ input.side # "server"
    /\ LET parsed == ParseConfigValue(served, input.inCode) IN
       reported' = [parsed EXCEPT !.reason = ServedReason(parsed)]
    /\ at' = "done"
    /\ UNCHANGED <<input, context, walked, served, reason>>

MissingEvaluation ==
    WithIds(InCodeDefault(input.inCode, IF input.ready THEN "config-state-missing" ELSE "client-not-ready"),
            {}, {}, {})

ReportMissing ==
    /\ at = "missing"
    /\ reported' = MissingEvaluation
    /\ at' = "done"
    /\ UNCHANGED <<input, context, walked, served, reason>>

EvaluationNext ==
    \/ RefuseDefault \/ AdmitContext \/ WalkRule \/ ServeConfigState
        \/ LoadOfflineValue \/ TakeConfigState
        \/ ReportServerEvaluation \/ ReportClientEvaluation \/ ReportMissing

EvaluationSpec == EvaluationInit /\ [][EvaluationNext]_evaluationVars

----------------------------------------------------------------------------
(* Properties.                                                             *)

\* The explanations of all rules of the config, without walking them.
Explanations == [i \in DOMAIN Config.rules |->
    ExplainRule(Config.rules[i], input.segments, input.bucket,
                IF input.context.kind \subseteq KindTexts THEN input.context ELSE NoContext,
                input.metadata)]

ServedByFirst(rules, explanations) ==
    LET ends == {i \in DOMAIN explanations :
                    explanations[i].outcome \in {"matched", "rollout-skipped-no-identifier"}}
        first == {i \in ends : \A j \in ends \ {i} : Precedes(rules, i, j)}
        values == UNION {explanations[i].served : i \in first}
    IN  /\ served.value = (IF values = {} THEN Config.default ELSE CHOOSE v \in values : TRUE).value
        /\ \A v \in values : served.share = v.share /\ served.valueId = v.valueId
        /\ (reason # "found-match") <=> \E i \in first : explanations[i].served = {}

\* A served value is that of the first rule, in rule order, that matches or skips its
\* rollout; a skipped rollout and no such rule serve the default targeting rule value.
\* An invalid kind counts as no context at all.  (ConfigEvaluator.explain)
ServesFirstServing ==
    at = "reading" /\ input.side = "server" => ServedByFirst(Config.rules, Explanations)

\* Every share of a rollout is given exactly its percentage of the buckets, an empty one
\* none.  (ConfigEvaluator.explainRollout)
SharesAreExact ==
    input.side = "server" =>
        \A config \in input.config : \A r \in DOMAIN config.rules :
            \A shares \in config.rules[r].percentages : \A i \in DOMAIN shares :
                ShareEnd(shares, Len(shares)) <= Buckets =>
                    Cardinality({b \in 0 .. Buckets - 1 : SelectedShare(shares, b) = i})
                        = shares[i].percentage

\* A bundle that carries no segment a config uses does not change what any of its rules
\* does, so its watchers need not be called.  (usesAnySegment, SegmentEvaluator.explain)
OnlyUsedSegmentsMatter ==
    input.side = "server" /\ at = "reading" =>
        \A ids \in SUBSET DOMAIN input.segments : ~UsesAnySegment(Config, ids) =>
            LET others == [s \in DOMAIN input.segments \ ids |-> input.segments[s]] IN
            \A i \in DOMAIN Config.rules :
                ExplainRule(Config.rules[i], others, input.bucket, context, input.metadata)
                = ExplainRule(Config.rules[i], input.segments, input.bucket, context, input.metadata)

\* Of an operator and its negation exactly one matches, unless the attribute is unknown
\* or there is nothing to compare: no target where one is needed, a number or a date
\* that is none, an order with such a value.  (the comparisons of the evaluator)
Decidable(condition) ==
    LET value == ResolveAttribute(condition, context, input.metadata)
        target == First(condition.targetValues)
    IN  /\ value # UnknownAttribute
        /\ condition.operator \in Operators[condition.targetType] \cap DOMAIN Negation
        /\ CASE condition.targetType = "text" -> target # {} \/ condition.operator # "equals"
             [] condition.targetType = "array" -> TRUE
             [] condition.targetType = "number" ->
                   /\ \E t \in target : NumberIn[t] # {}
                   /\ condition.operator = "=" \/ ParseFinite(value) # {}
             [] condition.targetType = "semver" ->
                   \/ condition.operator = "is one of"
                   \/ VersionIn[Render(value)] # {} /\ \E t \in target : VersionIn[t] # {}
             [] OTHER -> FALSE

NegationsPartition ==
    input.side = "server" /\ at = "reading" =>
        \A r \in DOMAIN Config.rules : \A c \in DOMAIN Config.rules[r].conditions :
            LET condition == Config.rules[r].conditions[c] IN
            condition.kind = "attribute" /\ Decidable(condition) =>
               LET value == ResolveAttribute(condition, context, input.metadata) IN
               Compare(condition, value)
               <=> ~Compare([condition EXCEPT !.operator = Negation[@]], value)

\* What the boundaries are about: the shares of a rollout cut the buckets, an operator and
\* its negation the values, with no overlap and no gap.  (explainRollout, the comparisons)
CutsAreExact == SharesAreExact /\ NegationsPartition

\* A value given offline comes back as it was given, when asked for with a default of
\* its type (the empty text counts as missing), and the browser half of an offline server
\* serves what the server serves.  (native-values.ts, browser-half.ts)
OfflineValuesAreKept ==
    input.side = "offline" /\ at = "done" /\ served # Nothing =>
        /\ JsonShapeOf(input.inCode) = JsonShapeOf(input.value) /\ input.value # [text |-> Empty]
           => reported.value = input.value /\ ~reported.usedDefault
        /\ \A given \in BrowserHalf({}, {}, {"offline"}, [key \in {"key"} |-> served]).values :
              NativeValueConfigStates(given["key"]) = {served}

\* The in-code default is returned with a reason that is an error, and without the ids
\* of the value that was not used; any other value has the type of the default.  The
\* resolution of an OpenFeature provider names a variant for a value that was served, and
\* the one to look at (an error, or DEFAULT without a variant) for one that was not.
\* (parseConfigValue, evaluationOf, resolution.ts)
DefaultsCarryNothing ==
    at = "done" =>
        LET resolution == ResolutionOf(reported) IN
        IF reported.usedDefault
        THEN /\ reported.value = input.inCode
             /\ reported.reason \notin {"found-match", "rollout-skipped-no-identifier", "cached"}
             /\ reported.valueId \cup reported.variation \cup reported.share = {}
             /\ resolution.variant = {}
             /\ resolution.errorCode = {} <=> reported.reason = "value-missing"
        ELSE /\ JsonShapeOf(reported.value) = JsonShapeOf(input.inCode)
             /\ reported.reason \in {"found-match", "rollout-skipped-no-identifier", "cached"}
             /\ resolution.errorCode = {}
             /\ resolution.variant = {} <=> served.valueId \cup served.variation = {}
             /\ resolution.reason = "CACHED" <=> input.side = "client" /\ input.cached

\* What is asked for is either the value that was served or the in-code default, and says
\* which.  (the two parts above)
ValuesAreKept == OfflineValuesAreKept /\ DefaultsCarryNothing
=============================================================================
