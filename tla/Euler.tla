------------------------------- MODULE Euler -------------------------------
(***************************************************************************)
(* _euler_traversal_with_hierholzer of test_suite/__init__.py, one loop    *)
(* iteration a step: the edge list is verified, the agents with edges are   *)
(* decomposed into components, each component is walked by Hierholzer's     *)
(* algorithm, the entry agent's first.                                      *)
(***************************************************************************)
EXTENDS TraversalGraph

CONSTANT Input   \* the scenarios' graphs: records of sdks and edges

(* There is an entry agent, and agents are named once (resolver.py). *)
ASSUME InputAssumption ==
    \A i \in Input :
        /\ i.sdks \in Seq(Agents(i.sdks)) \ {<<>>}
        /\ \A m, n \in DOMAIN i.sdks : i.sdks[m] = i.sdks[n] => m = n
        /\ None \notin Agents(i.sdks)
        /\ i.edges # None => i.edges \in Seq(Nat \X Nat)

VARIABLES
    sdks, edges,   \* the input
    pc,
    adj,           \* per agent, the positions of its edges that are not yet walked
    frontier,      \* `stack' of the component search
    comp,          \* the component under construction
    comps,         \* components still to be walked
    stack,         \* the walk so far
    walk,          \* comp_circuit, reversed as it is built
    circuits

eulerVars == <<sdks, edges, pc, adj, frontier, comp, comps, stack, walk, circuits>>

Target == TargetEdges(edges, sdks)

NoComponent == [first |-> None, nodes |-> {}]

Init ==
    /\ \E i \in Input : sdks = i.sdks /\ edges = i.edges
    /\ pc = "verify"
    /\ adj = [u \in Agents(sdks) |-> {}]
    /\ frontier = {} /\ comp = NoComponent /\ comps = <<>>
    /\ stack = <<>> /\ walk = <<>> /\ circuits = <<>>

-----------------------------------------------------------------------------
(* ValueError: a bad index or an unbalanced agent. *)
Refuse ==
    /\ pc = "verify" /\ ~Traversable(sdks, edges)
    /\ pc' = "refused"
    /\ UNCHANGED <<sdks, edges, adj, frontier, comp, comps, stack, walk, circuits>>

Accept ==
    /\ pc = "verify" /\ Traversable(sdks, edges)
    /\ adj' = [u \in Agents(sdks) |-> {k \in DOMAIN Target : Target[k][1] = u}]
    /\ pc' = "decompose"
    /\ UNCHANGED <<sdks, edges, frontier, comp, comps, stack, walk, circuits>>

-----------------------------------------------------------------------------
(* undirected_adj. *)
Neighbours(u) ==
    {v \in Agents(sdks) : \E k \in DOMAIN Target : Target[k] \in {<<u, v>>, <<v, u>>}}

Visited == UNION {comps[k].nodes : k \in DOMAIN comps}

(* Positions of the agents with edges that are in no component yet. *)
Unvisited == {i \in DOMAIN sdks : OutDegree(Target, sdks[i]) > 0 /\ sdks[i] \notin Visited}

OpenComponent ==
    /\ pc = "decompose" /\ comp = NoComponent
    /\ \E i \in Unvisited :
          /\ \A j \in Unvisited : i <= j
          /\ comp' = [first |-> sdks[i], nodes |-> {}]
          /\ frontier' = {sdks[i]}
    /\ UNCHANGED <<sdks, edges, pc, adj, comps, stack, walk, circuits>>

(* Python's sets have no order: any agent of the frontier may be next. *)
VisitAgent ==
    /\ pc = "decompose"
    /\ \E u \in frontier :
          /\ comp' = [comp EXCEPT !.nodes = @ \cup {u}]
          /\ frontier' = (frontier \cup Neighbours(u)) \ (comp.nodes \cup {u})
    /\ UNCHANGED <<sdks, edges, pc, adj, comps, stack, walk, circuits>>

CloseComponent ==
    /\ pc = "decompose" /\ comp # NoComponent /\ frontier = {}
    /\ comps' = Append(comps, comp)
    /\ comp' = NoComponent
    /\ UNCHANGED <<sdks, edges, pc, adj, frontier, stack, walk, circuits>>

(* components.sort: the entry agent's first, the others in their order. *)
SortedComponents ==
    LET entry == {k \in DOMAIN comps : sdks[1] \in comps[k].nodes}
    IN  IF entry = {} THEN comps
        ELSE LET k == CHOOSE k \in entry : TRUE   \* components are disjoint: the only one
             IN  [n \in DOMAIN comps |->
                     comps[IF n = 1 THEN k ELSE IF n <= k THEN n - 1 ELSE n]]

(* Without components the circuit is the entry agent alone. *)
Decomposed ==
    /\ pc = "decompose" /\ comp = NoComponent /\ Unvisited = {}
    /\ comps' = SortedComponents
    /\ circuits' = IF comps = <<>> THEN <<<<sdks[1]>>>> ELSE <<>>
    /\ pc' = IF comps = <<>> THEN "done" ELSE "walk"
    /\ UNCHANGED <<sdks, edges, adj, frontier, comp, stack, walk>>

-----------------------------------------------------------------------------
StartOf(c) == IF sdks[1] \in c.nodes THEN sdks[1] ELSE c.first

Top == stack[Len(stack)]

Pop(s) == SubSeq(s, 1, Len(s) - 1)

OpenWalk ==
    /\ pc = "walk" /\ stack = <<>> /\ comps # <<>>
    /\ stack' = <<StartOf(Head(comps))>>
    /\ comps' = Tail(comps)
    /\ UNCHANGED <<sdks, edges, pc, adj, frontier, comp, walk, circuits>>

(* adj[u].pop(): the last of u's edges in the list. *)
Advance ==
    /\ pc = "walk" /\ stack # <<>>
    /\ \E k \in adj[Top] :
          /\ \A j \in adj[Top] : j <= k
          /\ stack' = Append(stack, Target[k][2])
          /\ adj' = [adj EXCEPT ![Top] = @ \ {k}]
    /\ UNCHANGED <<sdks, edges, pc, frontier, comp, comps, walk, circuits>>

(* Mutant: an agent left on the way back is not recorded. *)
RetreatUnrecorded ==
    /\ pc = "walk" /\ Len(stack) > 1 /\ adj[Top] = {}
    /\ stack' = Pop(stack)
    /\ UNCHANGED <<sdks, edges, pc, adj, frontier, comp, comps, walk, circuits>>

Retreat ==
    /\ pc = "walk" /\ Len(stack) > 1 /\ adj[Top] = {}
    /\ walk' = <<Top>> \o walk
    /\ stack' = Pop(stack)
    /\ UNCHANGED <<sdks, edges, pc, adj, frontier, comp, comps, circuits>>

(* The last agent leaves the stack: the circuit is complete. *)
CloseWalk ==
    /\ pc = "walk" /\ Len(stack) = 1 /\ adj[Top] = {}
    /\ circuits' = Append(circuits, <<Top>> \o walk)
    /\ stack' = <<>> /\ walk' = <<>>
    /\ pc' = IF comps = <<>> THEN "done" ELSE "walk"
    /\ UNCHANGED <<sdks, edges, adj, frontier, comp, comps>>

EulerNext ==
    \/ Refuse \/ Accept
    \/ OpenComponent \/ VisitAgent \/ CloseComponent \/ Decomposed
    \/ OpenWalk \/ Advance \/ Retreat \/ CloseWalk

EulerSpec == Init /\ [][EulerNext]_eulerVars

-----------------------------------------------------------------------------
(* Step <<k, i>> leads from place i of walk k to the next. *)
Steps(ws) == UNION {{<<k, i>> : i \in 1..(Len(ws[k]) - 1)} : k \in DOMAIN ws}

StepsBetween(ws, u, v) == {s \in Steps(ws) : ws[s[1]][s[2]] = u /\ ws[s[1]][s[2] + 1] = v}

EdgesBetween(u, v) == {k \in DOMAIN Target : Target[k] = <<u, v>>}

(* "covering all directed edges exactly once" (__init__.py:247): the         *)
(* finished circuits are closed and use every edge as often as it is given.  *)
WalksEachEdgeOnce ==
    pc = "done" =>
        /\ \A k \in DOMAIN circuits : circuits[k][1] = circuits[k][Len(circuits[k])]
        /\ \A u, v \in Agents(sdks) :
              Cardinality(StepsBetween(circuits, u, v)) = Cardinality(EdgesBetween(u, v))

(* A refusal is the graph's fault: its edges cannot be arranged into closed   *)
(* walks, i.e. no permutation continues every edge by one that starts where    *)
(* it ends.  (__init__.py:77-107 decides by degrees.)                         *)
Arrangeable ==
    \E p \in [DOMAIN Target -> DOMAIN Target] :
        /\ \A i, j \in DOMAIN Target : p[i] = p[j] => i = j
        /\ \A i \in DOMAIN Target : Target[i][2] = Target[p[i]][1]

RefusedForCause ==
    pc = "refused" => (Given(edges) /\ ~InRange(edges, sdks)) \/ ~Arrangeable

(* The components found are apart: the circuit of one walks no agent of       *)
(* another, so the agents of two circuits are distinct (__init__.py:48-74).   *)
CircuitsApart ==
    \A k, m \in DOMAIN circuits :
        k # m => Agents(circuits[k]) \cap Agents(circuits[m]) = {}

(* What the walk promises of every digraph (create_test_suite).               *)
EulerPromise == WalksEachEdgeOnce /\ CircuitsApart /\ RefusedForCause
=============================================================================
