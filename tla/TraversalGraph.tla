-------------------------- MODULE TraversalGraph --------------------------
(***************************************************************************)
(* The graphs of the traversal scenarios: test_suite/scenarios/topology.py *)
(* and the pure parts of test_suite/__init__.py.                           *)
(*                                                                         *)
(* `sdks' is a sequence of agents, each named once, the entry agent first. *)
(* `edges' is a sequence of pairs of positions counted from 0, as in        *)
(* "0->1", or None for an edge list that was not given.                     *)
(***************************************************************************)
EXTENDS Naturals, Sequences, FiniteSets

CONSTANT None

ASSUME NoneAssumption == None \notin Seq(Nat \X Nat)

MinNodes == 2

Agents(sdks) == {sdks[i] : i \in DOMAIN sdks}

(* The edge list of a named topology for n agents. *)
TopologyToEdges(topology, n) ==
    CASE topology = "star"  -> [i \in 1..(n - 1) |-> <<0, i>>] \o [i \in 1..(n - 1) |-> <<i, 0>>]
      [] topology = "chain" -> [i \in 1..n |-> <<i - 1, i % n>>]
      [] topology = "euler" -> None

(* The elements of s at positions S, in their order.                        *)
Picked(s, S) ==
    [n \in 1..Cardinality(S) |-> s[CHOOSE i \in S : Cardinality({j \in S : j <= i}) = n]]

Kept(sdks, usable) == Picked(sdks, {i \in DOMAIN sdks : sdks[i] \in usable})

(* Whether a scenario can still run when only `usable' agents are there ...  *)
Survives(sdks, topology, edges, usable) ==
    /\ Len(Kept(sdks, usable)) >= MinNodes
    /\ Len(Kept(sdks, usable)) < Len(sdks) => edges = None \/ topology # None

(* ... and the agents and edges it then has. *)
RestrictToAvailable(sdks, topology, edges, usable) ==
    LET kept == Kept(sdks, usable)
    IN  [sdks  |-> kept,
         edges |-> IF topology # None THEN TopologyToEdges(topology, Len(kept)) ELSE edges]

-----------------------------------------------------------------------------
(* An index outside sdks is a ValueError. *)
InRange(edges, sdks) ==
    \A k \in DOMAIN edges : edges[k][1] < Len(sdks) /\ edges[k][2] < Len(sdks)

ParseEdges(edges, sdks) ==
    [k \in DOMAIN edges |-> <<sdks[edges[k][1] + 1], sdks[edges[k][2] + 1]>>]

(* The complete digraph, row by row: every agent to every other. *)
Mesh(sdks) ==
    LET others == Len(sdks) - 1
    IN  [k \in 1..(Len(sdks) * others) |->
            LET row == ((k - 1) \div others) + 1
                at  == ((k - 1) % others) + 1
            IN  <<sdks[row], sdks[IF at < row THEN at ELSE at + 1]>>]

(* An empty list counts as no list: `if edges'. *)
Given(edges) == edges \notin {None, <<>>}

TargetEdges(edges, sdks) == IF Given(edges) THEN ParseEdges(edges, sdks) ELSE Mesh(sdks)

InDegree(E, u)  == Cardinality({k \in DOMAIN E : E[k][2] = u})
OutDegree(E, u) == Cardinality({k \in DOMAIN E : E[k][1] = u})

Balanced(E, sdks) == \A u \in Agents(sdks) : InDegree(E, u) = OutDegree(E, u)

(* create_test_suite raises no ValueError. *)
Traversable(sdks, edges) ==
    /\ Given(edges) => InRange(edges, sdks)
    /\ Balanced(TargetEdges(edges, sdks), sdks)

-----------------------------------------------------------------------------
(* Mutant: the positions of the scenario are kept. *)
MapEdgesByPosition(edges, sdks, sub) ==
    Picked(edges, {k \in DOMAIN edges : edges[k][1] < Len(sub) /\ edges[k][2] < Len(sub)})

(* Edges between agents of sub, with their positions there. *)
MapEdges(edges, sdks, sub) ==
    LET placed == ParseEdges(edges, sdks)
        inside == Picked(placed, {k \in DOMAIN placed : /\ placed[k][1] \in Agents(sub)
                                                       /\ placed[k][2] \in Agents(sub)})
        at(u)  == (CHOOSE i \in DOMAIN sub : sub[i] = u) - 1
    IN  [k \in DOMAIN inside |-> <<at(inside[k][1]), at(inside[k][2])>>]

(* The subtests of a scenario with build_subtests; a list with a bad index   *)
(* has none.                                                                 *)
ValidSubgraphs(sdks, edges) ==
    LET sub(S) == [sdks  |-> Picked(sdks, S \cup {1}),
                   edges |-> IF edges = None THEN None
                             ELSE MapEdges(edges, sdks, Picked(sdks, S \cup {1}))]
    IN  IF edges # None /\ ~InRange(edges, sdks) THEN {}
        ELSE {g \in {sub(S) : S \in (SUBSET (2..Len(sdks))) \ {{}}} :
                  Traversable(g.sdks, g.edges)}

=============================================================================
