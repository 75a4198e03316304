----------------------------- MODULE Assertions -----------------------------
(***************************************************************************)
(* test_suite/acts/assertions.py: whether an assertion holds of a value.    *)
(*                                                                         *)
(* An assertion is itself a value: an object is operators and field names   *)
(* in one map, an array asserts by position, anything else is equality.     *)
(* The result is whether there is no failure; the failures' paths and       *)
(* messages, and the count of checks, which decide nothing, are left out.   *)
(***************************************************************************)
EXTENDS Substitution

CONSTANTS
    Fold,      \* header names and their lower-case spelling
    Pattern    \* per text operator, the pairs of an argument and a text it holds of

TypeName   == {"string", "number", "boolean", "array", "object", "null"}
Comparison == {"gte", "lte", "gt", "lt"}
Counting   == {"count", "count_gte", "count_lte"}
OnText     == {"contains", "matches", "starts_with", "ends_with"}
OnPresence == {"exists", "absent"}

LEAF_OPERATORS == {"type", "one_of"} \cup OnPresence \cup OnText \cup Comparison \cup Counting
COMBINATORS    == {"all_of", "any_of", "not"}
OPERATORS      == LEAF_OPERATORS \cup COMBINATORS \cup {"items"}

(* Does the argument fit the operator?  If not, the key is a field's name. *)
Accepts(name, argument) ==
    CASE name = "type" -> argument[1] = "string" /\ argument[2] \in TypeName
      [] name \in OnPresence -> argument[1] = "boolean"
      [] name \in OnText -> Text(argument)
      [] name \in Comparison \cup Counting -> argument[1] = "number"
      [] name = "one_of" -> Array(argument)
      [] name \in {"all_of", "any_of"} -> Array(argument) /\ argument[2] # <<>>
      [] name = "not" -> TRUE
      [] name = "items" -> Array(argument) \/ Object(argument)

Operator(key, argument) == key \in OPERATORS /\ Accepts(key, argument)

-----------------------------------------------------------------------------
(* Equality.  Python's == takes True for 1 inside an array or an object; the  *)
(* guard of _same looks at the two values themselves only.                    *)
RECURSIVE Loose(_)
Loose(v) ==
    CASE v[1] = "boolean" -> <<"number", IF v[2] THEN 1 ELSE 0>>
      [] Array(v)  -> <<"array", [i \in 1..Len(v[2]) |-> Loose(v[2][i])]>>
      [] Object(v) -> <<"object", [k \in DOMAIN v[2] |-> Loose(v[2][k])]>>
      [] OTHER -> v

Same(actual, expected) ==
    /\ (actual[1] = "boolean") = (expected[1] = "boolean")
    /\ expected # Fresh
    /\ Loose(actual) = Loose(expected)

Compare(name, n, bound) ==
    CASE name \in {"gte", "count_gte"} -> n >= bound
      [] name \in {"lte", "count_lte"} -> n <= bound
      [] name = "gt" -> n > bound
      [] name = "lt" -> n < bound
      [] name = "count" -> n = bound

OfType(v, name) ==
    CASE name = "string" -> Text(v)
      [] name = "object" -> Object(v)
      [] OTHER -> v[1] = name

(* Mutant: a field that is not there reads as null. *)
MemberOrNull(actual, key) ==
    IF Object(actual) /\ key \in DOMAIN actual[2] THEN actual[2][key] ELSE <<"null", 0>>

(* A field of an object; a header's name is looked up in lower case. *)
Member(actual, key) ==
    LET name == IF actual[1] = "headers" /\ key \in DOMAIN Fold THEN Fold[key] ELSE key
    IN  IF Object(actual) /\ name \in DOMAIN actual[2] THEN actual[2][name] ELSE MISSING

-----------------------------------------------------------------------------
RECURSIVE Evaluate(_, _)

(* one_of: a member that is an object is an assertion, any other a value. *)
OneOf(options, actual) ==
    \E i \in DOMAIN options :
        IF Object(options[i]) THEN Evaluate(options[i], actual) ELSE Same(actual, options[i])

Holds(name, argument, actual) ==
    CASE name = "type"   -> OfType(actual, argument[2])
      [] name = "exists" -> (actual # MISSING) = argument[2]
      [] name = "absent" -> (actual = MISSING) = argument[2]
      [] name \in OnText ->
            \/ Text(actual) /\ <<argument[2], actual[2]>> \in Pattern[name]
            \/ name = "contains" /\ Array(actual) /\ argument \in Range(actual[2])
      [] name \in Comparison -> actual[1] = "number" /\ Compare(name, actual[2], argument[2])
      [] name \in Counting -> Array(actual) /\ Compare(name, Len(actual[2]), argument[2])
      [] name = "one_of" -> OneOf(argument[2], actual)

ApplyLeaf(name, argument, actual) ==
    (actual # MISSING \/ name \in OnPresence) /\ Holds(name, argument, actual)

Positional(assertions, actual) ==
    /\ Array(actual) /\ Len(actual[2]) >= Len(assertions)
    /\ \A i \in DOMAIN assertions : Evaluate(assertions[i], actual[2][i])

ApplyItems(argument, actual) ==
    IF Array(argument) THEN Positional(argument[2], actual)
    ELSE Array(actual) /\ \A i \in DOMAIN actual[2] : Evaluate(argument, actual[2][i])

ApplyOperator(name, argument, actual) ==
    CASE name \in LEAF_OPERATORS -> ApplyLeaf(name, argument, actual)
      [] name = "all_of" -> \A i \in DOMAIN argument[2] : Evaluate(argument[2][i], actual)
      [] name = "any_of" -> \E i \in DOMAIN argument[2] : Evaluate(argument[2][i], actual)
      [] name = "not"    -> ~Evaluate(argument, actual)
      [] name = "items"  -> ApplyItems(argument, actual)

EvaluateMap(node, actual) ==
    \A key \in DOMAIN node :
        IF Operator(key, node[key]) THEN ApplyOperator(key, node[key], actual)
        ELSE Evaluate(node[key], Member(actual, key))

EvaluateExact(expected, actual) == actual # MISSING /\ Same(actual, expected)

Evaluate(assertion, actual) ==
    CASE Object(assertion) -> EvaluateMap(assertion[2], actual)
      [] Array(assertion)  -> Positional(assertion[2], actual)
      [] OTHER -> EvaluateExact(assertion, actual)

-----------------------------------------------------------------------------
(* Expect blocks *)

(* The response's headers in lower case; none at all is an empty map. *)
Folded(headers) ==
    <<"headers", [k \in {IF h \in DOMAIN Fold THEN Fold[h] ELSE h : h \in DOMAIN headers} |->
        headers[CHOOSE h \in DOMAIN headers : k = IF h \in DOMAIN Fold THEN Fold[h] ELSE h]]>>

EvaluateHeaders(headers, actual) == EvaluateMap(headers, Folded(actual))

(* The fields of expect_error that are declared; `observed' lacks what the    *)
(* answer gave nothing to map to.                                             *)
EvaluateError(expected, observed) ==
    \A name \in DOMAIN expected : Evaluate(expected[name], Member(observed, name))

(* Mutant: `all' of no places at all holds. *)
CollectionOfNothing(mode, path, match, source) ==
    LET reached == ReadPathAll(source, path)
        passed  == {i \in DOMAIN reached : EvaluateMap(match, reached[i].value)}
    IN  CASE mode = "all"  -> passed = DOMAIN reached
          [] mode = "any"  -> passed # {}
          [] mode = "none" -> passed = {}

(* A quantifier over the places a wildcard path reaches. *)
EvaluateCollection(mode, path, match, source) ==
    LET reached == ReadPathAll(source, path)
        passed  == {i \in DOMAIN reached : EvaluateMap(match, reached[i].value)}
    IN  IF reached = <<>> THEN mode = "none"
        ELSE CASE mode = "all"  -> passed = DOMAIN reached
               [] mode = "any"  -> passed # {}
               [] mode = "none" -> passed = {}

(* evaluate_named: `path' narrows the source first. *)
EvaluateNamed(named, source) ==
    LET value == ReadPath(source, named.path)
    IN  IF named.mode = "match" THEN Evaluate(named.match, value)
        ELSE EvaluateCollection(named.mode, named.each, named.match[2], value)
=============================================================================
