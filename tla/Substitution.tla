---------------------------- MODULE Substitution ----------------------------
(***************************************************************************)
(* test_suite/acts/variables.py: the references of a value, and the value   *)
(* with what a scope holds in their place.                                  *)
(***************************************************************************)
EXTENDS Variables

RECURSIVE References(_), Substitute(_, _)

References(node) ==
    CASE node[1] \in {"ref", "text"} -> {node[2]}
      [] Array(node)  -> UNION {References(node[2][i]) : i \in DOMAIN node[2]}
      [] Object(node) -> UNION {References(node[2][k]) : k \in DOMAIN node[2]}
      [] OTHER -> {}

Resolvable(scope, node) == \A r \in References(node) : Resolve(scope, r) # MISSING

(* substitute, of a node whose references are all resolvable: one that is     *)
(* the whole text keeps its type, one among other words is spelled out.       *)
Substitute(scope, node) ==
    CASE node[1] = "ref"  -> Resolve(scope, node[2])
      [] node[1] = "text" -> <<"spelled", Resolve(scope, node[2])>>
      [] Array(node)  -> <<"array", [i \in 1..Len(node[2]) |-> Substitute(scope, node[2][i])]>>
      [] Object(node) -> <<"object", [k \in DOMAIN node[2] |-> Substitute(scope, node[2][k])]>>
      [] OTHER -> node
=============================================================================
