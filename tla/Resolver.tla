------------------------------ MODULE Resolver ------------------------------
(***************************************************************************)
(* test_suite/scenarios/resolver.py and exclusions.py: what a batch of      *)
(* declarations becomes.                                                    *)
(*                                                                         *)
(* A declaration of traversal/v1 is a record of name, when (the SUTs of       *)
(* test_when, or None), includeSut, ownLines, peers (a sequence, or None for  *)
(* `all'), together, topology, edges, subtests and variants, the sequence of  *)
(* its transport sets; behaviours and streaming multiply in the same way.     *)
(* A legacy one has name, sdks, edges and subtests.  `legacy' tells which.    *)
(***************************************************************************)
EXTENDS TraversalGraph, Functions

CONSTANTS
    SUT,      \* the agent `current'
    Lines,    \* the agents of matrix.yaml in its order
    Speaks,   \* per agent of the matrix, the transports of its line
    SdkOf,    \* per agent of the matrix, its SDK
    Rules     \* known_failures.yaml: agents, transports, suts, unless

ASSUME MatrixAssumption ==
    /\ Lines \in Seq(Range(Lines))
    /\ SUT \notin Range(Lines)
    /\ DOMAIN Speaks = Range(Lines) /\ DOMAIN SdkOf = Range(Lines)

(* test_when; without a sut_sdk nothing is filtered. *)
Unwanted(d, sut) == d.when # None /\ sut # None /\ sut \notin d.when

(* Exclusion.matches, of the pair of the SUT and one peer; an empty field is  *)
(* any.                                                                       *)
Matches(e, agent, transports, sut) ==
    /\ e.agents = {} \/ e.agents \cap {SUT, agent} # {}
    /\ e.transports = {} \/ e.transports \cap transports # {}
    /\ e.suts = {} \/ sut \in e.suts
    /\ sut \notin e.unless

Excluded(agent, transports, sut) ==
    agent # SUT /\ \E e \in Rules : Matches(e, agent, transports, sut)

-----------------------------------------------------------------------------
(* _own_lines: the lines of the SUT's own SDK that the author did not name.   *)
OwnLines(d, transports, sut) ==
    Kept(Lines, {p \in Range(Lines) : /\ d.ownLines /\ SdkOf[p] = sut
                                      /\ p \notin Range(d.peers)
                                      /\ d.together => transports \subseteq Speaks[p]})

PeerIds(d, transports, sut) ==
    IF d.peers = None
    THEN Kept(Lines, {p \in Range(Lines) : d.together => transports \subseteq Speaks[p]})
    ELSE d.peers \o OwnLines(d, transports, sut)

UnknownPeer(d) == d.peers # None /\ ~(Range(d.peers) \subseteq Range(Lines))

(* _groups: all peers that speak every transport together, or each peer that  *)
(* speaks one of them by itself.                                              *)
Groups(d, transports, sut) ==
    LET entry == IF d.includeSut THEN <<SUT>> ELSE <<>>
        peers == PeerIds(d, transports, sut)
        able  == Kept(peers, {p \in Range(peers) :
                                 IF d.together THEN transports \subseteq Speaks[p]
                                 ELSE transports \cap Speaks[p] # {}})
    IN  IF d.together
        THEN <<[sdks |-> entry \o able, used |-> transports, peer |-> None]>>
        ELSE [k \in DOMAIN able |-> [sdks |-> Append(entry, able[k]),
                                     used |-> transports \cap Speaks[able[k]],
                                     peer |-> able[k]]]

(* _name: only an axis that varies is in it.  A name is a sequence of words, a   *)
(* word a set of strings: one, or the transports joined by "+".  Separators are  *)
(* left out, and {peer} only is another place for that word.                   *)
NameOf(d, group) ==
    d.name \o (IF group.peer = None THEN <<>> ELSE <<{group.peer}>>)
           \o (IF Len(d.variants) > 1 THEN <<group.used>> ELSE <<>>)

(* One group, bound: what it loses, whether it runs, and the scenario if so.   *)
(* `at' is the scenario's place: declaration, variant and group.             *)
Bind(at, d, group, sut) ==
    LET kept     == {a \in Agents(group.sdks) : ~Excluded(a, group.used, sut)}
        topology == IF d.edges # None THEN None ELSE d.topology
        rest     == RestrictToAvailable(group.sdks, topology, d.edges, kept)
    IN  [name     |-> NameOf(d, group),
         sdks     |-> group.sdks,
         dropped  |-> Agents(group.sdks) \ kept,
         runs     |-> Survives(group.sdks, topology, d.edges, kept),
         scenario |-> [at |-> at, name |-> NameOf(d, group), sdks |-> rest.sdks,
                       edges |-> rest.edges, topology |-> topology, subtests |-> d.subtests]]

(* _expand. *)
Expand(i, d, sut) ==
    UNION {LET groups == Groups(d, d.variants[v], sut)
           IN  {Bind(<<i, v, k>>, d, groups[k], sut) : k \in DOMAIN groups} :
           v \in DOMAIN d.variants}

FromLegacy(i, d) ==
    [at |-> <<i, 1, 1>>, name |-> d.name, sdks |-> d.sdks, edges |-> d.edges,
     topology |-> None, subtests |-> d.subtests]

-----------------------------------------------------------------------------
(* resolve_all over a batch: the scenarios that run, the names skipped, the    *)
(* agents trimmed from which name, or a ResolutionError.                      *)
Wanted(batch, sut) ==
    {i \in DOMAIN batch : ~batch[i].legacy /\ ~Unwanted(batch[i], sut)}

Bound(batch, sut) == UNION {Expand(i, batch[i], sut) : i \in Wanted(batch, sut)}

(* The list of scenarios, as a set: its order is that of the places.          *)
Scenarios(batch, sut) ==
    {FromLegacy(i, batch[i]) : i \in {j \in DOMAIN batch : batch[j].legacy}}
        \cup {b.scenario : b \in {x \in Bound(batch, sut) : x.runs}}

Before(p, q) ==
    \/ p[1] < q[1]
    \/ p[1] = q[1] /\ p[2] < q[2]
    \/ p[1] = q[1] /\ p[2] = q[2] /\ p[3] < q[3]

SkippedAtResolution(batch, sut) ==
    {b.name : b \in {x \in Bound(batch, sut) : x.dropped # {} /\ ~x.runs}}

TrimmedAtResolution(batch, sut) ==
    UNION {{<<b.name, a>> : a \in b.dropped} : b \in {x \in Bound(batch, sut) : x.runs}}

(* Mutant: names are not compared. *)
AmbiguousNever(batch, sut) == FALSE

Ambiguous(batch, sut) ==
    \E s, t \in Scenarios(batch, sut) : s # t /\ s.name = t.name

ResolutionError(batch, sut) ==
    \/ \E i \in Wanted(batch, sut) : UnknownPeer(batch[i])
    \/ \E b \in Bound(batch, sut) : Len(b.sdks) < MinNodes
    \/ Ambiguous(batch, sut)

=============================================================================
