----------------------------- MODULE Comparisons -----------------------------
(***************************************************************************)
(* How one attribute condition of a targeting rule is decided: what it     *)
(* resolves to in a context, and the comparison of each target type.       *)
(*                                                                         *)
(* A text is an atom.  What number, version or date a text spells and      *)
(* which texts it starts and ends with are constants: a set with the one   *)
(* thing it spells, or the empty set.  Versions and dates are numbered in  *)
(* their order, numbers are counted in halves.  A JSON value has one field *)
(* named after its kind.  Operators are written as toLowerCase leaves them. *)
(***************************************************************************)
EXTENDS Integers, SequencesExt

CONSTANTS
    Texts,       \* texts of contexts and targets
    Empty,       \* the empty text
    Blank,       \* texts that trim to it
    NumberIn,    \* per text, what Number reads, if the text is decimal and finite
    VersionIn,   \* per text, what semver.coerce reads
    DateIn,      \* per text, what DateTime.fromISO reads in UTC
    StartsWith,  \* per text, the texts it starts with
    EndsWith,    \* per text, the texts it ends with
    Spelling     \* per number, the text String makes of it

ASSUME TextsAssumption ==
    /\ Empty \in Blank /\ Blank \subseteq Texts
    /\ \A t \in Texts : {Empty, t} \subseteq StartsWith[t] \cap EndsWith[t]
    /\ \A t \in Texts : \A n, m \in NumberIn[t] : n \in Int /\ n = m
    /\ \A t \in Texts : \A n, m \in VersionIn[t] : n \in Int /\ n = m
    /\ \A t \in Blank : NumberIn[t] = {} /\ DateIn[t] = {} /\ VersionIn[t] = {}

\* The two results of resolve that are no JSON value.
Absent == [absent |-> TRUE]
UnknownAttribute == [unknown |-> TRUE]
Null == [null |-> TRUE]

Has(value, kind) == kind \in DOMAIN value

IsScalar(value) == Has(value, "text") \/ Has(value, "number") \/ Has(value, "flag")

RenderScalar(value) ==
    IF Has(value, "text") THEN value.text
    ELSE IF Has(value, "number") THEN Spelling[value.number]
    ELSE IF value.flag THEN "true" ELSE "false"

\* Values without a text form render as the empty text, and so does an absent one.
Render(value) == IF IsScalar(value) THEN RenderScalar(value) ELSE Empty

ResolvedTypeOf(value) ==
    CASE Has(value, "unknown") -> "unknown-attribute"
      [] Has(value, "absent") -> "absent"
      [] IsScalar(value) -> "scalar"
      [] Has(value, "items") -> "array"
      [] OTHER -> "object"

----------------------------------------------------------------------------
(* The comparisons.  A missing first target satisfies no single-target     *)
(* operator; an operator of another type satisfies nothing.                *)

InOrder(value, operator, target) ==
    CASE operator = "<" -> value < target
      [] operator = "<=" -> value <= target
      [] operator = ">" -> value > target
      [] operator = ">=" -> value >= target
      [] OTHER -> FALSE

First(targets) == IF targets = <<>> THEN {} ELSE {targets[1]}

CompareTextCovered(value, operator, targets) ==
    LET texts == Range(targets) IN
    CASE operator \in {"=", "equals"} -> First(targets) = {value}
      [] operator \in {"!=", "does not equal"} -> First(targets) \notin {{}, {value}}
      [] operator = "is one of" -> value \in texts
      [] operator = "is not one of" -> value \notin texts
      [] operator = "starts with any of" -> texts \cap StartsWith[value] # {}
      [] operator = "does not start with any of" -> \E t \in texts : t \notin StartsWith[value]
      [] operator = "ends with any of" -> texts \cap EndsWith[value] # {}
      [] operator = "does not end with any of" -> texts \cap EndsWith[value] = {}
      [] OTHER -> FALSE

CompareText(value, operator, targets) ==
    LET texts == Range(targets) IN
    CASE operator \in {"=", "equals"} -> First(targets) = {value}
      [] operator \in {"!=", "does not equal"} -> First(targets) \notin {{}, {value}}
      [] operator = "is one of" -> value \in texts
      [] operator = "is not one of" -> value \notin texts
      [] operator = "starts with any of" -> texts \cap StartsWith[value] # {}
      [] operator = "does not start with any of" -> texts \cap StartsWith[value] = {}
      [] operator = "ends with any of" -> texts \cap EndsWith[value] # {}
      [] operator = "does not end with any of" -> texts \cap EndsWith[value] = {}
      [] OTHER -> FALSE

\* Booleans are no numbers here, whatever their spelling.
ParseFinite(value) ==
    IF Has(value, "number") THEN {value.number}
    ELSE IF Has(value, "text") THEN NumberIn[value.text] ELSE {}

CompareNumeric(value, operator, targets) ==
    LET given == ParseFinite(value)
        target == UNION {NumberIn[t] : t \in First(targets)}
    IN  IF given = {} THEN operator \in {"!=", "does not equal"}
        ELSE /\ target # {}
             /\ CASE operator \in {"=", "equals"} -> given = target
                  [] operator \in {"!=", "does not equal"} -> given # target
                  [] OTHER -> \E v \in given, t \in target : InOrder(v, operator, t)

\* An operand that cannot be coerced is equal to nothing and in no order.
CompareSemver(value, operator, targets) ==
    LET version == VersionIn[value]
        SameVersion(texts) == \E t \in texts : version # {} /\ version = VersionIn[t]
    IN  IF value \in Blank THEN operator = "is not one of"
        ELSE CASE operator = "=" -> SameVersion(First(targets))
               [] operator = "is one of" -> SameVersion(Range(targets))
               [] operator = "is not one of" -> ~SameVersion(Range(targets))
               [] OTHER -> \E v \in version, t \in UNION {VersionIn[f] : f \in First(targets)} :
                               InOrder(v, operator, t)

CompareDate(value, operator, targets) ==
    \E d \in DateIn[value], t \in UNION {DateIn[f] : f \in First(targets)} :
        \/ operator = "is after" /\ d > t
        \/ operator = "is before" /\ d < t

\* Elements are matched by their text; nested values and nulls have none.
CompareArray(value, operator, targets) ==
    LET elements == IF Has(value, "items")
                    THEN {RenderScalar(v) : v \in {e \in Range(value.items) : IsScalar(e)}}
                    ELSE {}
    IN  \/ operator = "contains any of" /\ elements \cap Range(targets) # {}
        \/ operator = "does not contain any of" /\ elements \cap Range(targets) = {}

----------------------------------------------------------------------------
(* Where the value compared comes from.                                    *)

EffectiveKind(context) == IF context.kind = {} THEN {"user"} ELSE context.kind

\* Follow one reference token: a member of an object, or an element by its index.
Step(found, token) ==
    UNION {IF Has(v, "items")
           THEN {v.items[n] : n \in {n \in 1 .. Len(v.items) : ToString(n - 1) = token}}
           ELSE IF Has(v, "members") /\ token \in DOMAIN v.members THEN {v.members[token]} ELSE {}
           : v \in found}

\* A pointer is the sequence of its tokens; one that does not start with a slash or
\* holds a malformed escape is Malformed.
Malformed == <<"~">>
ResolveJsonPointer(pointer, document) ==
    IF pointer = Malformed THEN {} ELSE FoldLeft(Step, {document}, pointer)

OrAbsent(found) == IF found \subseteq {Null} THEN Absent ELSE CHOOSE v \in found : TRUE
TextOrAbsent(texts) == OrAbsent({[text |-> t] : t \in texts})

\* A condition on a trait without a pointer reads nothing.  The fields of a context and
\* of its metadata are optional: the set of the text they have, or the empty set.
ResolveAttribute(condition, context, metadata) ==
    CASE condition.attribute = "identifier" -> TextOrAbsent(context.id)
      [] condition.attribute = "name" -> TextOrAbsent(context.name)
      [] condition.attribute = "kind" -> TextOrAbsent(EffectiveKind(context))
      [] condition.attribute = "appName" -> TextOrAbsent(metadata.appName)
      [] condition.attribute = "appVersion" -> TextOrAbsent(metadata.appVersion)
      [] condition.attribute = "traits" ->
            IF condition.trait = <<>> THEN Absent
            ELSE OrAbsent(ResolveJsonPointer(condition.trait, [members |-> context.traits]))
      [] OTHER -> UnknownAttribute

Compare(condition, value) ==
    LET operator == condition.operator
        targets == condition.targetValues
    IN  CASE condition.targetType = "text" -> CompareText(Render(value), operator, targets)
          [] condition.targetType = "number" -> CompareNumeric(value, operator, targets)
          [] condition.targetType = "datetime" -> CompareDate(Render(value), operator, targets)
          [] condition.targetType = "semver" -> CompareSemver(Render(value), operator, targets)
          [] condition.targetType = "array" -> CompareArray(value, operator, targets)
          [] OTHER -> FALSE

\* An operator the payload left out throws, except where it is not lower-cased.
NoOperator == "undefined"
OutcomeFor(condition, value) ==
    IF ResolvedTypeOf(value) = "unknown-attribute" THEN "not-matched"
    ELSE IF condition.operator = NoOperator /\ condition.targetType # "datetime" THEN "errored"
    ELSE IF Compare(condition, value) THEN "matched" ELSE "not-matched"
ConditionOutcome(condition, context, metadata) ==
    OutcomeFor(condition, ResolveAttribute(condition, context, metadata))

----------------------------------------------------------------------------
(* The operators the types list, and their negations.                      *)

Operators == [
    text |-> {"equals", "does not equal", "is one of", "is not one of", "starts with any of",
              "does not start with any of", "ends with any of", "does not end with any of"},
    number |-> {"=", "!=", ">", ">=", "<", "<="},
    semver |-> {"is one of", "is not one of", ">", ">=", "<", "<="},
    datetime |-> {"is before", "is after"},
    array |-> {"contains any of", "does not contain any of"}]

Negation == [operator \in {"equals", "is one of", "starts with any of", "ends with any of", "=",
                           "contains any of", "<", ">"} |->
    CASE operator = "equals" -> "does not equal"
      [] operator = "is one of" -> "is not one of"
      [] operator = "starts with any of" -> "does not start with any of"
      [] operator = "ends with any of" -> "does not end with any of"
      [] operator = "contains any of" -> "does not contain any of"
      [] operator = "=" -> "!="
      [] operator = "<" -> ">="
      [] operator = ">" -> "<="]
=============================================================================
