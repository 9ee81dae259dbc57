---------------------------- MODULE ConfigValues ----------------------------
(***************************************************************************)
(* Values between the server and the code that asks for them: reading a    *)
(* served text as the type of the in-code default, encoding the values of  *)
(* an offline or a test client as served texts, handing the values of an   *)
(* offline server to the browser, and resolutions of OpenFeature.          *)
(***************************************************************************)
EXTENDS Comparisons

CONSTANTS
    BooleanIn,  \* per text, what it spells in any case
    JsonIn,     \* per text, what JSON.parse reads
    JsonTextOf,  \* per array or object, a set with its text if JSON can hold its contents
    UnsafeIntegers,  \* integers a number does not hold exactly
    KindTexts   \* the texts that are well-formed context kinds

ASSUME ValuesAssumption == \A t \in Blank : BooleanIn[t] = {} /\ JsonIn[t] = {}

\* What String and JSON.stringify write is read back.
ASSUME RoundTripAssumption ==
    /\ BooleanIn["true"] = {TRUE} /\ BooleanIn["false"] = {FALSE} /\ Empty \notin {"true", "false"}
    /\ \A n \in DOMAIN Spelling : /\ n \in Int /\ Spelling[n] # Empty
                                 /\ NumberIn[Spelling[n]] = {n}
    /\ \A v \in DOMAIN JsonTextOf : \A t \in JsonTextOf[v] :
          t # Empty /\ JsonIn[t] = {v} /\ JsonTextOf[v] = {t}

ConfigTypes == {"custom", "boolean", "string", "integer", "float", "enum", "url", "json"}
Reasons == {"found-match", "rollout-skipped-no-identifier", "config-state-missing",
            "client-not-ready", "type-mismatch", "value-missing", "invalid-number",
            "invalid-json", "invalid-boolean", "cached"}

\* A config state: `value` is a set with the served text, valueId, variation and share
\* are sets with the one it was served with.
ConfigState(type, value, valueId, variation, share) ==
    [type |-> type, value |-> value, valueId |-> valueId, variation |-> variation, share |-> share]

----------------------------------------------------------------------------
(* parseConfigValue.                                                       *)

JsonShapeOf(value) == CHOOSE kind \in DOMAIN value : TRUE

\* Dropping the fraction of a number, in halves.
Trunc(number) == IF number >= 0 THEN (number \div 2) * 2 ELSE -((-number) \div 2) * 2

NotReadableAsString == {"boolean", "integer", "float"}

Parsed(value) == [value |-> value, usedDefault |-> FALSE, reason |-> "found-match"]
InCodeDefault(default, reason) == [value |-> default, usedDefault |-> TRUE, reason |-> reason]
ParsedOr(values, default, reason) ==
    IF values = {} THEN InCodeDefault(default, reason) ELSE Parsed(CHOOSE v \in values : TRUE)

ParseJson(text, default) ==
    IF Has(default, "text") THEN Parsed([text |-> text])
    ELSE IF JsonIn[text] = {} THEN InCodeDefault(default, "invalid-json")
    ELSE ParsedOr({v \in JsonIn[text] : v # Null /\ JsonShapeOf(v) = JsonShapeOf(default)},
                  default, "type-mismatch")

ReadAs(text, type, default) ==
    CASE type = "json" -> ParseJson(text, default)
      [] type \notin NotReadableAsString \cup {"json"} /\ Has(default, "text") ->
            Parsed([text |-> text])
      [] type \in {"boolean", "string", "enum"} /\ Has(default, "flag") ->
            ParsedOr({[flag |-> b] : b \in BooleanIn[text]}, default, "invalid-boolean")
      [] type = "integer" /\ Has(default, "number") ->
            ParsedOr({[number |-> Trunc(n)] : n \in NumberIn[text]}, default, "invalid-number")
      [] type \in {"float", "enum", "string"} /\ Has(default, "number") ->
            ParsedOr({[number |-> n] : n \in NumberIn[text]}, default, "invalid-number")
      [] OTHER -> InCodeDefault(default, "type-mismatch")

ParseValueAndReason(state, default) ==
    IF state.value \subseteq {Empty} THEN InCodeDefault(default, "value-missing")
    ELSE ReadAs(CHOOSE t \in state.value : TRUE, state.type, default)

WithIds(read, valueId, variation, share) ==
    [value |-> read.value, usedDefault |-> read.usedDefault, reason |-> read.reason,
     valueId |-> valueId, variation |-> variation, share |-> share]

\* What was served with the value comes along only if the value is used.
ParseConfigValueWithIds(state, default) ==
    WithIds(ParseValueAndReason(state, default), state.valueId, state.variation, state.share)

ParseConfigValue(state, default) ==
    LET read == ParseValueAndReason(state, default) IN
    IF read.usedDefault THEN WithIds(read, {}, {}, {})
    ELSE WithIds(read, state.valueId, state.variation, state.share)

----------------------------------------------------------------------------
(* encodeNativeValue and decodeNativeValue: a set with the result, empty   *)
(* when the value is refused (not finite, not safe, not JSON).             *)

EncodeTruncated(number) == {[type |-> "integer", value |-> Spelling[Trunc(number)]]}

EncodeNumber(number) ==
    IF number % 2 = 1 THEN {[type |-> "float", value |-> Spelling[number]]}
    ELSE IF number \in UnsafeIntegers THEN {}
    ELSE {[type |-> "integer", value |-> Spelling[number]]}

EncodeNativeValue(value) ==
    IF Has(value, "flag") THEN {[type |-> "boolean", value |-> RenderScalar(value)]}
    ELSE IF Has(value, "number") THEN EncodeNumber(value.number)
    ELSE IF Has(value, "text") THEN {[type |-> "string", value |-> value.text]}
    ELSE IF Has(value, "items") \/ Has(value, "members")
         THEN {[type |-> "json", value |-> t] : t \in JsonTextOf[value]}
    ELSE {}

DecodeNativeValue(type, text) ==
    CASE type = "boolean" -> [flag |-> text = "true"]
      [] type \in {"integer", "float"} -> [number |-> CHOOSE n \in NumberIn[text] : TRUE]
      [] type = "json" -> CHOOSE v \in JsonIn[text] : TRUE
      [] OTHER -> [text |-> text]

\* The config state an offline or test client serves for a value; the server's is the
\* same, evaluated from a config without rules.
NativeValueConfigStates(value) ==
    {ConfigState(e.type, {e.value}, {}, {}, {}) : e \in EncodeNativeValue(value)}

\* What the browser half of an application is given: the values the server served, when
\* it was given none itself and the server is offline.
DecideBrowserHalfSource(mode, values, serverMode) ==
    IF mode # {} \/ values # {} THEN "as-given"
    ELSE IF serverMode = {"offline"} THEN "inherit-offline" ELSE "connect"

\* What an application may give as a value: its one field is named after its kind.
IsNative(value) ==
    \/ value \in [text : Texts] \cup [number : DOMAIN Spelling] \cup [flag : BOOLEAN] \cup {Null}
    \/ value \in DOMAIN JsonTextOf /\ DOMAIN value \in {{"items"}, {"members"}}

HoldsAValue(state) == state.value # {}
OfflineValueOf(state) == DecodeNativeValue(state.type, CHOOSE t \in state.value : TRUE)

\* The connection of the browser half: a set with its mode and a function from config
\* keys to the values it is given; `configs` are the states the server evaluated.
BrowserHalf(mode, values, serverMode, configs) ==
    CASE DecideBrowserHalfSource(mode, values, serverMode) = "as-given" ->
            [mode |-> mode, values |-> values]
      [] DecideBrowserHalfSource(mode, values, serverMode) = "inherit-offline" ->
            [mode |-> {"offline"},
             values |-> {[k \in {k \in DOMAIN configs : HoldsAValue(configs[k])} |->
                             OfflineValueOf(configs[k])]}]
      [] OTHER -> [mode |-> {}, values |-> {}]

----------------------------------------------------------------------------
(* What an OpenFeature provider makes of an evaluation.                    *)

VariantOf(evaluation) ==
    IF evaluation.variation # {} THEN evaluation.variation ELSE evaluation.valueId

Resolved(evaluation, variant, standardReason, errorCode) ==
    [value |-> evaluation.value, variant |-> variant,
     reason |-> standardReason, errorCode |-> errorCode]

FailedResolution(evaluation, errorCode) == Resolved(evaluation, {}, "ERROR", {errorCode})

ResolutionOf(evaluation) ==
    CASE evaluation.reason = "found-match" ->
            Resolved(evaluation, VariantOf(evaluation), "TARGETING_MATCH", {})
      [] evaluation.reason = "rollout-skipped-no-identifier" ->
            Resolved(evaluation, VariantOf(evaluation), "DEFAULT", {})
      [] evaluation.reason = "cached" -> Resolved(evaluation, VariantOf(evaluation), "CACHED", {})
      [] evaluation.reason = "value-missing" -> Resolved(evaluation, {}, "DEFAULT", {})
      [] evaluation.reason = "config-state-missing" -> FailedResolution(evaluation, "FLAG_NOT_FOUND")
      [] evaluation.reason = "client-not-ready" -> FailedResolution(evaluation, "PROVIDER_NOT_READY")
      [] OTHER -> FailedResolution(evaluation, "TYPE_MISMATCH")

----------------------------------------------------------------------------
(* Contexts.  A kind is a set with its text, or empty; a kind that is no   *)
(* text, or one with other characters, makes the context ignored.          *)

IsAcceptedKind(kind) == kind \subseteq KindTexts

\* The context evaluated (none when the one supplied is ignored).
NoContext == [id |-> {}, name |-> {}, kind |-> {}, traits |-> << >>]
AdmittedContextAsKindless(context) ==
    IF IsAcceptedKind(context.kind) THEN context ELSE [context EXCEPT !.kind = {}]
AdmittedContext(context) ==
    IF IsAcceptedKind(context.kind) THEN context ELSE NoContext
=============================================================================
