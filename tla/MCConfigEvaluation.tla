------------------------- MODULE MCConfigEvaluation -------------------------
(* Inputs of ConfigEvaluation, and what the libraries read in their texts. *)
EXTENDS ConfigEvaluation

Numerals == {"1", "1.5", "2", "9007199254740993"}
MCTexts == Numerals \cup {"", " ", "x1", "2026-01-01", "2026-02-30", "true", "TRUE", "false", "user",
                          "org", "Org", "[1]", "{}", "null"}
MCBlank == {"", " "}
MCNumberIn == [t \in MCTexts |-> CASE t = "1" -> {2} [] t = "1.5" -> {3} [] t = "2" -> {4}
                                   [] t = "9007199254740993" -> {99998} [] OTHER -> {}]
MCVersionIn == [t \in MCTexts |-> CASE t \in {"1", "x1", "[1]"} -> {1} [] t = "1.5" -> {2}
                                    [] t = "2" -> {3} [] t \in {"2026-01-01", "2026-02-30"} -> {4}
                                    [] t = "9007199254740993" -> {} [] OTHER -> {}]
MCDateIn == [t \in MCTexts |-> IF t = "2026-01-01" THEN {1} ELSE {}]
MCStartsWith == [t \in MCTexts |-> {"", t} \cup
    (CASE t = "1.5" -> {"1"} [] t \in {"2026-01-01", "2026-02-30"} -> {"2"} [] OTHER -> {})]
MCEndsWith == [t \in MCTexts |-> {"", t} \cup (IF t \in {"x1", "2026-01-01"} THEN {"1"} ELSE {})]
MCSpelling == [n \in {2, 3, 4, 99998} |-> CHOOSE t \in Numerals : MCNumberIn[t] = {n}]
MCBooleanIn == [t \in MCTexts |-> IF t = "false" THEN {FALSE}
                                     ELSE IF t \in {"true", "TRUE"} THEN {TRUE} ELSE {}]

One == [items |-> <<[number |-> 2]>>]
NoMembers == [members |-> << >>]
MCJsonIn == [t \in MCTexts |->
    CASE t \in Numerals -> {[number |-> CHOOSE n \in MCNumberIn[t] : TRUE]}
      [] t \in {"true", "false"} -> {[flag |-> t = "true"]} [] t = "null" -> {Null}
      [] t = "[1]" -> {One} [] t = "{}" -> {NoMembers} [] OTHER -> {}]
MCJsonTextOf == [v \in {One, NoMembers} |-> IF v = One THEN {"[1]"} ELSE {"{}"}]
MCUnsafeIntegers == {99998}
MCKindTexts == {"user", "org"}

----------------------------------------------------------------------------
Scalars == {[text |-> t] : t \in {"", " ", "1", "1.5", "x1", "2026-01-01", "true"}}
           \cup {[number |-> 3], [flag |-> TRUE]}
TraitValues == Scalars \cup {Null, One, NoMembers,
                             [items |-> <<[text |-> "x1"], Null, One>>], [items |-> <<>>]}
Traits == {[t |-> v, o |-> [items |-> <<[members |-> [k |-> v]]>>]] : v \in TraitValues}
WithTraits == {[id |-> {"user"}, name |-> {}, kind |-> {}, traits |-> t] : t \in Traits}
Bare(id, kind) == [id |-> id, name |-> {"x1"}, kind |-> kind, traits |-> << >>]

On(attribute, trait, operator, type, targets) ==
    [kind |-> "attribute", attribute |-> attribute, trait |-> trait, operator |-> operator,
     targetType |-> type, targetValues |-> targets]
InSegment(operator, id) == [kind |-> "segment", operator |-> operator, segmentId |-> id]
Targets == {<<>>, <<"">>, <<"1">>, <<"1.5", "1">>, <<"x1", "2">>, <<"2026-02-30">>, <<"2026-01-01">>}
TraitConditions == {On("traits", p, op, type, t) :
    type \in DOMAIN Operators, op \in UNION {Operators[k] : k \in DOMAIN Operators},
    t \in Targets, p \in {<<"t">>, <<"o", "0", "k">>}}
Attributes == {On(a, <<>>, op, "text", <<"x1", "user">>) : op \in {"equals", "is one of", NoOperator},
    a \in {"identifier", "name", "kind", "appName", "appVersion", "traits", "other"}}
    \cup {On("traits", p, "equals", "text", <<"">>) : p \in {Malformed, <<"o", "1">>, <<"t", "k">>}}

Rule(id, type, order, conditions, target, value, percentages) ==
    [id |-> id, type |-> type, order |-> order, conditions |-> conditions, target |-> target,
     value |-> value, valueId |-> {id}, variation |-> {id}, percentages |-> percentages]
Share(percentage, value) ==
    [percentage |-> percentage, value |-> value, valueId |-> {"share"}, variation |-> {}]
ConfigOf(rules) ==
    [type |-> "string", rules |-> rules, variations |-> {"r1", "default"},
     default |-> Serving({"1.5"}, {"default"}, {"default"}, {})]

Matching(value) == Rule("r1", "conditional", {1}, <<>>, "value", value, {})
Holding(c) == [Matching({"1"}) EXCEPT !.conditions = <<c>>]
AnyText == On("kind", <<>>, "is not one of", "text", <<>>)
Throwing == On("name", <<>>, NoOperator, "text", <<>>)
Rollout(shares) == Rule("r3", "percentage", {1}, <<>>, "percentage", {}, shares)
SomeRules == {
    Matching({"2"}), Matching({}),
    [Holding(InSegment("in", "s")) EXCEPT !.id = "r2"],
    [Holding(InSegment("not in", "s")) EXCEPT !.id = "r2"],
    [Holding(InSegment("not in", "gone")) EXCEPT !.id = "r2"],
    [Holding(AnyText) EXCEPT !.conditions = <<AnyText, Throwing, AnyText>>],
    [Holding(On("name", <<>>, "equals", "text", <<"2">>)) EXCEPT !.conditions = <<@[1], Throwing>>],
    [Rule("r4", "conditional", {2}, <<AnyText>>, "percentage", {}, {<<Share(4, {"1"})>>})
        EXCEPT !.order = {}],
    Rollout({}), Rollout({<<Share(0, {"1"}), Share(1, {}), Share(2, {"2"})>>})}
Orders == {{1}, {2}, {}}
RuleLists == {<<>>} \cup {<<[r EXCEPT !.order = o], s>> : r \in SomeRules, o \in Orders, s \in SomeRules}
    \cup {<<r, [s EXCEPT !.order = {2}], [t EXCEPT !.order = {1}]>> :
             r \in SomeRules, s \in {Matching({"2"})}, t \in SomeRules}

IsUser == On("identifier", <<>>, "equals", "text", <<"user">>)
SegmentMaps == {[s \in {"s"} |-> g] : g \in {<<>>, <<<<Throwing>>>>, <<<<IsUser>>, <<Throwing>>>>,
                                             <<<<InSegment("in", "s")>>>>}}
Metadata == [appName |-> {"x1"}, appVersion |-> {}]

Ask(configs, contexts, segments, buckets, defaults) ==
    [side : {"server"}, config : configs, context : contexts, metadata : {Metadata},
     segments : segments, bucket : buckets, inCode : defaults, ready : {TRUE}]

AtomDefaults == {[text |-> "x1"], [number |-> 3], [flag |-> FALSE], NoMembers, [items |-> <<>>]}
MCInputs ==
    Ask({{ConfigOf(<<Holding(c)>>)} : c \in TraitConditions}, WithTraits, {<< >>}, {0}, {[text |-> "x1"]})
    \cup Ask({{ConfigOf(<<Holding(c)>>)} : c \in Attributes},
             {Bare({"user"}, {}), Bare({}, {"org"}), Bare({"user"}, {"Org"})}, {<< >>}, {0}, {[number |-> 2]})
    \cup Ask({{ConfigOf(rules)} : rules \in RuleLists} \cup {{}},
             {Bare({"user"}, {}), Bare({}, {}), Bare({"user"}, {"Org"})}, SegmentMaps, {1, 3}, {[number |-> 2]})
    \cup [side : {"client"}, state : {{}} \cup {{ConfigState(type, value, {"v"}, {"r1"}, {})} :
             type \in ConfigTypes, value \in {{}} \cup {{t} : t \in MCTexts}},
          cached : BOOLEAN, ready : BOOLEAN, inCode : AtomDefaults \cup {InvalidDefault}]
    \cup [side : {"offline"}, inCode : AtomDefaults, ready : {TRUE},
          options : {o \in ClientOptions({}) : ClientPlan(o).kind = "stay-offline" /\ o.url = "none"},
          value : (AtomDefaults \ {[items |-> <<>>]}) \cup
                  {One, Null, [text |-> ""], [number |-> 2], [number |-> 99998], [flag |-> TRUE]}]
=============================================================================
