--------------------------- MODULE TraversalProofs ---------------------------
(***************************************************************************)
(* For every graph: the circuits are closed, walk every edge as often as    *)
(* it is given, and share no agent; a graph is refused only if its edges    *)
(* cannot be arranged into closed walks.                                    *)
(*                                                                         *)
(* The inductive invariant of Hierholzer's algorithm: while a component is  *)
(* walked there is an agent, the anchor, from which the last way back was   *)
(* taken.  The edges not yet walked are balanced but for one that is still  *)
(* to come into the anchor and one still to leave the top of the stack, and *)
(* the edge from the anchor to the first agent of the way back is the only  *)
(* one walked that is neither in the stack nor in the way back.             *)
(***************************************************************************)
EXTENDS Traversal, FiniteSetTheorems, TLAPS

Graph == \E i \in Input : sdks = i.sdks /\ edges = i.edges

Closed(E, S) == \A k \in DOMAIN E : E[k][1] \in S <=> E[k][2] \in S

(* The least closed set of A around x: the agents of its component.         *)
Reached(E, A, x) == {y \in A : \A S \in SUBSET A : x \in S /\ Closed(E, S) => y \in S}

Reach(x) == Reached(Target, Agents(sdks), x)

HasEdge(S) == \E k \in DOMAIN Target : Target[k][1] \in S

(* The edges that are not yet walked. *)
Left == {k \in DOMAIN Target : k \in adj[Target[k][1]]}

LeftInto(x)       == {k \in Left : Target[k][2] = x}
LeftBetween(u, v) == {k \in Left : Target[k] = <<u, v>>}

PairsIn(s, u, v) == {i \in 1..(Len(s) - 1) : s[i] = u /\ s[i + 1] = v}

Current == IF stack = <<>> THEN {} ELSE Reach(stack[1])

-----------------------------------------------------------------------------
Component == [first : Agents(sdks), nodes : SUBSET Agents(sdks)]

Typed ==
    /\ pc \in {"verify", "refused", "decompose", "walk", "done"}
    /\ adj \in [Agents(sdks) -> SUBSET Nat]
    /\ \A u \in Agents(sdks) : \A k \in adj[u] : k \in DOMAIN Target /\ Target[k][1] = u
    /\ comps \in Seq(Component)
    /\ stack \in Seq(Agents(sdks)) /\ walk \in Seq(Agents(sdks))
    /\ circuits \in Seq(Seq(Agents(sdks)) \ {<<>>})

Phased ==
    /\ pc = "refused" => ~Traversable(sdks, edges)
    /\ pc \in {"decompose", "walk", "done"} => Traversable(sdks, edges)
    /\ pc \in {"verify", "refused", "decompose"} => stack = <<>> /\ circuits = <<>>
    /\ pc \in {"verify", "refused"} => comps = <<>> /\ comp = NoComponent /\ frontier = {}
    /\ pc = "done" => comps = <<>> /\ stack = <<>> /\ circuits # <<>>
    /\ stack = <<>> => walk = <<>>

(* The search of a component stays within it and misses no neighbour.       *)
Searched ==
    pc = "decompose" =>
        /\ Left = DOMAIN Target
        /\ comp = NoComponent => frontier = {}
        /\ comp # NoComponent =>
              /\ comp \in Component /\ frontier \subseteq Agents(sdks)
              /\ HasEdge({comp.first}) /\ comp.first \notin Visited
              /\ comp.first \in comp.nodes \cup frontier
              /\ comp.nodes \cup frontier \subseteq Reach(comp.first)
              /\ \A u \in comp.nodes : Neighbours(u) \subseteq comp.nodes \cup frontier

EntryAlone == circuits = <<<<sdks[1]>>>> /\ Target = <<>>

Whole ==
    /\ \A k \in DOMAIN comps : comps[k].nodes = Reach(comps[k].first) /\ HasEdge({comps[k].first})
    /\ \A k \in DOMAIN circuits :
          /\ Agents(circuits[k]) = Reach(circuits[k][1])
          /\ circuits[k][1] = circuits[k][Len(circuits[k])]
          /\ sdks[1] \in Agents(circuits[k]) => circuits[k][1] = sdks[1]
          /\ HasEdge(Agents(circuits[k])) \/ EntryAlone

KeptApart ==
    /\ \A k, m \in DOMAIN comps : k # m => comps[k].nodes \cap comps[m].nodes = {}
    /\ \A k \in DOMAIN comps, m \in DOMAIN circuits : comps[k].nodes \cap Agents(circuits[m]) = {}
    /\ CircuitsApart
    /\ \A k \in DOMAIN comps : comps[k].nodes \cap Current = {}
    /\ \A m \in DOMAIN circuits : Agents(circuits[m]) \cap Current = {}

WalkedWithin ==
    /\ stack # <<>> =>
          /\ Agents(stack) \cup Agents(walk) \subseteq Current
          /\ sdks[1] \in Current => stack[1] = sdks[1]
          /\ HasEdge(Current)
          /\ walk # <<>> => walk[Len(walk)] = stack[1]
          /\ \A x \in Agents(walk) : adj[x] = {}
    /\ pc \in {"walk", "done"} => \A k \in Left : Target[k][1] \in Visited \cup Current

-----------------------------------------------------------------------------
One(b) == IF b THEN 1 ELSE 0

Residue(a) ==
    \A x \in Agents(sdks) :
        Cardinality(LeftInto(x)) + One(stack # <<>> /\ x = Top)
        = Cardinality(adj[x]) + One(stack # <<>> /\ x = a)

Counted(a) ==
    \A u, v \in Agents(sdks) :
        /\ IsFiniteSet(StepsBetween(circuits, u, v))
        /\ Cardinality(StepsBetween(circuits, u, v))
           + Cardinality(PairsIn(stack, u, v)) + Cardinality(PairsIn(walk, u, v))
           + One(walk # <<>> /\ u = a /\ v = walk[1]) + Cardinality(LeftBetween(u, v))
           = Cardinality(EdgesBetween(u, v))

Anchor(a) ==
    /\ stack # <<>> /\ walk = <<>> => a = stack[1]
    /\ Residue(a) /\ Counted(a)

Anchored == pc \in {"decompose", "walk", "done"} => \E a \in Agents(sdks) : Anchor(a)

EulerInv ==
    Graph /\ Typed /\ Phased /\ Searched /\ Whole /\ KeptApart /\ WalkedWithin /\ Anchored

-----------------------------------------------------------------------------
(* Counting. *)
LEMMA SameSize ==
    ASSUME NEW S, NEW T, IsFiniteSet(S), NEW f \in [S -> T],
           \A x, y \in S : f[x] = f[y] => x = y,
           \A z \in T : \E x \in S : f[x] = z
    PROVE  IsFiniteSet(T) /\ Cardinality(T) = Cardinality(S)
<1>1. f \in Injection(S, T)
  BY DEF Injection, IsInjective
<1>2. f \in Surjection(S, T)
  BY DEF Surjection
<1> QED  BY <1>1, <1>2, FS_Bijection DEF Bijection, ExistsBijection

LEMMA IndicesFinite == ASSUME NEW A, NEW s \in Seq(A) PROVE IsFiniteSet(DOMAIN s)
  BY FS_Interval

LEMMA PairsFinite ==
    ASSUME NEW A, NEW s \in Seq(A), NEW u, NEW v
    PROVE  IsFiniteSet(PairsIn(s, u, v)) /\ Cardinality(PairsIn(s, u, v)) \in Nat
<1>1. PairsIn(s, u, v) \in SUBSET (1..(Len(s) - 1))
  BY DEF PairsIn
<1>2. IsFiniteSet(1..(Len(s) - 1))
  BY FS_Interval
<1> QED  BY <1>1, <1>2, FS_Subset, FS_CardinalityType

LEMMA PairsAppend ==
    ASSUME NEW A, NEW s \in Seq(A), s # <<>>, NEW x \in A, NEW u, NEW v
    PROVE  Cardinality(PairsIn(Append(s, x), u, v))
           = Cardinality(PairsIn(s, u, v)) + One(s[Len(s)] = u /\ x = v)
<1>1. Len(s) \in Nat /\ Len(s) > 0
  OBVIOUS
<1>2. PairsIn(Append(s, x), u, v)
      = IF s[Len(s)] = u /\ x = v THEN PairsIn(s, u, v) \cup {Len(s)} ELSE PairsIn(s, u, v)
  BY <1>1 DEF PairsIn
<1>3. Len(s) \notin PairsIn(s, u, v)
  BY <1>1 DEF PairsIn
<1>4. IsFiniteSet(PairsIn(s, u, v)) /\ Cardinality(PairsIn(s, u, v)) \in Nat
  BY PairsFinite
<1>5. Cardinality(PairsIn(s, u, v) \cup {Len(s)}) = Cardinality(PairsIn(s, u, v)) + 1
  BY <1>3, <1>4, FS_AddElement
<1> QED  BY <1>2, <1>4, <1>5 DEF One

LEMMA PairsPrepend ==
    ASSUME NEW A, NEW w \in Seq(A), NEW x \in A, NEW u, NEW v
    PROVE  Cardinality(PairsIn(<<x>> \o w, u, v))
           = Cardinality(PairsIn(w, u, v)) + One(w # <<>> /\ x = u /\ w[1] = v)
<1> DEFINE P == PairsIn(w, u, v)
           Q == {i + 1 : i \in P}
           f == [i \in P |-> i + 1]
<1>1. Len(w) \in Nat /\ P \subseteq Nat \ {0} /\ (w # <<>> => Len(w) > 0)
  BY DEF PairsIn
<1>2. f \in [P -> Q] /\ IsFiniteSet(P)
  BY PairsFinite
<1>3. (\A i, j \in P : f[i] = f[j] => i = j) /\ \A k \in Q : \E i \in P : f[i] = k
  BY <1>1
<1>4. IsFiniteSet(Q) /\ Cardinality(Q) = Cardinality(P)
  <2> HIDE DEF P, Q, f
  <2> QED  BY <1>2, <1>3, SameSize
<1>5. PairsIn(<<x>> \o w, u, v) = IF w # <<>> /\ x = u /\ w[1] = v THEN Q \cup {1} ELSE Q
  <2>1. Len(<<x>> \o w) = Len(w) + 1 /\ (<<x>> \o w)[1] = x
    OBVIOUS
  <2>2. \A i \in 2..(Len(w) + 1) : (<<x>> \o w)[i] = w[i - 1]
    OBVIOUS
  <2>3. \A k \in 2..Len(w) : k \in PairsIn(<<x>> \o w, u, v) <=> k - 1 \in P
    BY <2>1, <2>2, <1>1 DEF PairsIn
  <2>4. \A k : k \in Q <=> k \in 2..Len(w) /\ k - 1 \in P
    BY <1>1 DEF PairsIn
  <2>5. 1 \in PairsIn(<<x>> \o w, u, v) <=> w # <<>> /\ x = u /\ w[1] = v
    BY <2>1, <2>2, <1>1 DEF PairsIn
  <2>6. PairsIn(<<x>> \o w, u, v) \subseteq 1..Len(w)
    BY <2>1, <1>1 DEF PairsIn
  <2>7. \A k \in 1..Len(w) : k = 1 \/ k \in 2..Len(w)
    BY <1>1
  <2>8. Q \subseteq 2..Len(w) /\ 1 \notin 2..Len(w)
    BY <2>4
  <2> DEFINE R == PairsIn(<<x>> \o w, u, v)
  <2>9. \A k : k \in R <=> k \in Q \/ (k = 1 /\ 1 \in R)
    <3> HIDE DEF P, Q, R
    <3> QED  BY <2>3, <2>4, <2>6, <2>7, <2>8 DEF R
  <2> HIDE DEF P, Q, R
  <2>10. R = IF 1 \in R THEN Q \cup {1} ELSE Q
    BY <2>9
  <2> QED  BY <2>5, <2>10 DEF R
<1>6. 1 \notin Q
  BY <1>1
<1> HIDE DEF Q
<1>7. Cardinality(P) \in Nat
  BY PairsFinite
<1>8. Cardinality(Q \cup {1}) = Cardinality(P) + 1
  BY <1>4, <1>6, FS_AddElement
<1> QED  BY <1>4, <1>5, <1>7, <1>8 DEF One

LEMMA StepsAppend ==
    ASSUME NEW A, NEW ws \in Seq(Seq(A)), NEW c \in Seq(A), NEW u, NEW v,
           IsFiniteSet(StepsBetween(ws, u, v))
    PROVE  /\ IsFiniteSet(StepsBetween(Append(ws, c), u, v))
           /\ Cardinality(StepsBetween(Append(ws, c), u, v))
              = Cardinality(StepsBetween(ws, u, v)) + Cardinality(PairsIn(c, u, v))
<1> DEFINE P == PairsIn(c, u, v)
           n == Len(ws) + 1
           Q == {<<n, i>> : i \in P}
           f == [i \in P |-> <<n, i>>]
<1>1. f \in [P -> Q] /\ IsFiniteSet(P)
  BY PairsFinite
<1>2. (\A i, j \in P : f[i] = f[j] => i = j) /\ \A k \in Q : \E i \in P : f[i] = k
  OBVIOUS
<1>3. IsFiniteSet(Q) /\ Cardinality(Q) = Cardinality(P)
  <2> HIDE DEF P, Q, f
  <2> QED  BY <1>1, <1>2, SameSize
<1>4. StepsBetween(Append(ws, c), u, v) = StepsBetween(ws, u, v) \cup Q
  <2>1. DOMAIN Append(ws, c) = DOMAIN ws \cup {n} /\ n \notin DOMAIN ws
    OBVIOUS
  <2>2. Append(ws, c)[n] = c /\ \A k \in DOMAIN ws : Append(ws, c)[k] = ws[k]
    OBVIOUS
  <2>3. Steps(Append(ws, c)) = Steps(ws) \cup {<<n, i>> : i \in 1..(Len(c) - 1)}
    <3> DEFINE W == Append(ws, c)
               last == {<<n, i>> : i \in 1..(Len(c) - 1)}
    <3>1. \A s : s \in Steps(W) <=> \E k \in DOMAIN W : \E i \in 1..(Len(W[k]) - 1) : s = <<k, i>>
      BY DEF Steps
    <3>2. \A s : s \in Steps(ws) <=> \E k \in DOMAIN ws : \E i \in 1..(Len(ws[k]) - 1) : s = <<k, i>>
      BY DEF Steps
    <3>3. \A s : s \in last <=> \E i \in 1..(Len(c) - 1) : s = <<n, i>>
      OBVIOUS
    <3>4. /\ \A k : k \in DOMAIN W <=> k \in DOMAIN ws \/ k = n
          /\ W[n] = c
          /\ \A k \in DOMAIN ws : W[k] = ws[k]
      BY <2>1, <2>2
    <3> HIDE DEF P, Q, f, n, W, last
    <3>5. \A s : s \in Steps(W) <=> s \in Steps(ws) \/ s \in last
      <4> SUFFICES ASSUME NEW s PROVE s \in Steps(W) <=> s \in Steps(ws) \/ s \in last
        OBVIOUS
      <4>1. ASSUME s \in Steps(W) PROVE s \in Steps(ws) \/ s \in last
        <5>1. PICK k \in DOMAIN W : \E i \in 1..(Len(W[k]) - 1) : s = <<k, i>>
          BY <3>1, <4>1
        <5>2. CASE k = n
          <6>1. s \in last
            BY <3>3, <3>4, <5>1, <5>2
          <6> QED  BY <6>1
        <5>3. CASE k \in DOMAIN ws
          <6>1. W[k] = ws[k]
            BY <3>4, <5>3
          <6>2. s \in Steps(ws)
            BY <3>2, <5>1, <5>3, <6>1
          <6> QED  BY <6>2
        <5> QED  BY <3>4, <5>2, <5>3
      <4>2. ASSUME s \in Steps(ws) PROVE s \in Steps(W)
        <5>1. PICK k \in DOMAIN ws : \E i \in 1..(Len(ws[k]) - 1) : s = <<k, i>>
          BY <3>2, <4>2
        <5>2. k \in DOMAIN W /\ W[k] = ws[k]
          BY <3>4
        <5> QED  BY <3>1, <5>1, <5>2
      <4>3. ASSUME s \in last PROVE s \in Steps(W)
        <5>1. n \in DOMAIN W /\ W[n] = c
          BY <3>4
        <5>2. \E i \in 1..(Len(W[n]) - 1) : s = <<n, i>>
          BY <3>3, <4>3, <5>1
        <5> QED  BY <3>1, <5>1, <5>2
      <4> QED  BY <4>1, <4>2, <4>3
    <3>6. Steps(W) = Steps(ws) \cup last
      BY <3>5
    <3> QED  BY <3>6 DEF W, last
  <2>4. \A s \in Steps(ws) : s[1] \in DOMAIN ws
    BY DEF Steps
  <2> DEFINE between(s) == Append(ws, c)[s[1]][s[2]] = u /\ Append(ws, c)[s[1]][s[2] + 1] = v
  <2>5. {s \in Steps(ws) : between(s)} = StepsBetween(ws, u, v)
    BY <2>2, <2>4 DEF StepsBetween
  <2>6. {s \in {<<n, i>> : i \in 1..(Len(c) - 1)} : between(s)} = Q
    <3>1. \A i \in 1..(Len(c) - 1) : between(<<n, i>>) <=> i \in P
      BY <2>2 DEF PairsIn
    <3>2. P \subseteq 1..(Len(c) - 1)
      BY DEF PairsIn
    <3> HIDE DEF n, between, P
    <3> QED  BY <3>1, <3>2
  <2>7. StepsBetween(Append(ws, c), u, v) = {s \in Steps(Append(ws, c)) : between(s)}
    BY DEF StepsBetween
  <2> HIDE DEF n, between, Q
  <2> QED  BY <2>3, <2>5, <2>6, <2>7
<1>5. StepsBetween(ws, u, v) \cap Q = {}
  BY DEF StepsBetween, Steps
<1> HIDE DEF P, Q
<1>6. Cardinality(StepsBetween(ws, u, v)) \in Nat /\ Cardinality(P) \in Nat
  BY PairsFinite, FS_CardinalityType DEF P
<1>7. /\ IsFiniteSet(StepsBetween(ws, u, v) \cup Q)
      /\ Cardinality(StepsBetween(ws, u, v) \cup Q)
         = Cardinality(StepsBetween(ws, u, v)) + Cardinality(Q) - Cardinality(StepsBetween(ws, u, v) \cap Q)
  BY <1>3, FS_Union
<1>8. Cardinality(StepsBetween(ws, u, v) \cap Q) = 0
  BY <1>5, FS_EmptySet
<1> QED  BY <1>3, <1>4, <1>6, <1>7, <1>8 DEF P

-----------------------------------------------------------------------------
(* Components. *)
LEMMA ReachedBasics ==
    ASSUME NEW A, NEW E \in Seq(A \X A), NEW x \in A
    PROVE  /\ x \in Reached(E, A, x) /\ Reached(E, A, x) \subseteq A
           /\ Closed(E, Reached(E, A, x))
           /\ \A S \in SUBSET A : x \in S /\ Closed(E, S) => Reached(E, A, x) \subseteq S
<1>1. Closed(E, Reached(E, A, x))
  <2> SUFFICES ASSUME NEW k \in DOMAIN E
               PROVE  E[k][1] \in Reached(E, A, x) <=> E[k][2] \in Reached(E, A, x)
    BY DEF Closed
  <2>1. E[k][1] \in A /\ E[k][2] \in A
    OBVIOUS
  <2>2. \A S \in SUBSET A : Closed(E, S) => (E[k][1] \in S <=> E[k][2] \in S)
    BY DEF Closed
  <2> QED  BY <2>1, <2>2 DEF Reached
<1> QED  BY <1>1 DEF Reached

LEMMA ReachedSame ==
    ASSUME NEW A, NEW E \in Seq(A \X A), NEW x \in A, NEW y \in Reached(E, A, x)
    PROVE  Reached(E, A, y) = Reached(E, A, x)
<1>1. y \in A /\ Reached(E, A, y) \subseteq Reached(E, A, x)
  BY ReachedBasics
<1>2. x \in Reached(E, A, y)
  <2> DEFINE S == A \ Reached(E, A, y)
  <2>1. \A k \in DOMAIN E : E[k][1] \in A /\ E[k][2] \in A
    OBVIOUS
  <2>2. Closed(E, S)
    BY <1>1, <2>1, ReachedBasics DEF Closed
  <2>3. y \in Reached(E, A, y)
    BY <1>1, ReachedBasics
  <2> QED  BY <2>2, <2>3 DEF Reached
<1>3. Reached(E, A, y) \in SUBSET A /\ Closed(E, Reached(E, A, y))
  BY <1>1, ReachedBasics
<1>4. Reached(E, A, x) \subseteq Reached(E, A, y)
  BY <1>2, <1>3, ReachedBasics
<1> QED  BY <1>1, <1>4

LEMMA ReachedApart ==
    ASSUME NEW A, NEW E \in Seq(A \X A), NEW x \in A, NEW y \in A, x \notin Reached(E, A, y)
    PROVE  Reached(E, A, x) \cap Reached(E, A, y) = {}
  BY ReachedBasics, ReachedSame

-----------------------------------------------------------------------------
(* The edge list. *)
LEMMA MeshTyped ==
    ASSUME NEW s, s \in Seq(Agents(s)), s # <<>>
    PROVE  Mesh(s) \in Seq(Agents(s) \X Agents(s))
<1> DEFINE m == Len(s) - 1
           row(k) == ((k - 1) \div m) + 1
           at(k)  == ((k - 1) % m) + 1
<1>1. Len(s) \in Nat /\ m \in Nat /\ Len(s) = m + 1 /\ Len(s) * m \in Nat
  OBVIOUS
<1>2. \A k \in 1..(Len(s) * m) :
         row(k) \in 1..Len(s) /\ (IF at(k) < row(k) THEN at(k) ELSE at(k) + 1) \in 1..Len(s)
  <2> SUFFICES ASSUME NEW k \in 1..(Len(s) * m)
               PROVE  row(k) \in 1..Len(s) /\ at(k) \in 1..m
    BY <1>1
  <2>1. m > 0
    BY <1>1
  <2> DEFINE q == (k - 1) \div m
             d == (k - 1) % m
  <2>2. q \in Nat /\ d \in Nat /\ d < m /\ k - 1 = m * q + d
    BY <1>1, <2>1
  <2> HIDE DEF q, d
  <2>3. m * q < Len(s) * m
    BY <1>1, <2>1, <2>2
  <2>4. q < Len(s)
    BY <1>1, <2>1, <2>2, <2>3
  <2> QED  BY <1>1, <2>2, <2>4 DEF q, d
<1>3. \A i \in 1..Len(s) : s[i] \in Agents(s)
  BY DEF Agents
<1> DEFINE e(k) == <<s[row(k)], s[IF at(k) < row(k) THEN at(k) ELSE at(k) + 1]>>
<1>4. Mesh(s) = [k \in 1..(Len(s) * m) |-> e(k)]
  BY DEF Mesh
<1>5. \A k \in 1..(Len(s) * m) : e(k) \in Agents(s) \X Agents(s)
  <2> HIDE DEF row, at
  <2> QED  BY <1>2, <1>3
<1> HIDE DEF e, m
<1> QED  BY <1>1, <1>4, <1>5

(* The graph's agents and edges, once its indices are in range. *)
LEMMA GraphTyped ==
    ASSUME Graph
    PROVE  /\ sdks \in Seq(Agents(sdks)) /\ sdks # <<>> /\ None \notin Agents(sdks)
           /\ sdks[1] \in Agents(sdks)
           /\ \A m, n \in DOMAIN sdks : sdks[m] = sdks[n] => m = n
           /\ (Given(edges) => InRange(edges, sdks)) => Target \in Seq(Agents(sdks) \X Agents(sdks))
<1>1. /\ sdks \in Seq(Agents(sdks)) /\ sdks # <<>> /\ None \notin Agents(sdks)
      /\ \A m, n \in DOMAIN sdks : sdks[m] = sdks[n] => m = n
      /\ edges # None => edges \in Seq(Nat \X Nat)
  BY InputAssumption DEF Graph
<1>2. sdks[1] \in Agents(sdks)
  BY <1>1 DEF Agents
<1>3. ASSUME Given(edges), InRange(edges, sdks)
      PROVE  Target \in Seq(Agents(sdks) \X Agents(sdks))
  <2>1. edges \in Seq(Nat \X Nat)
    BY <1>1, <1>3 DEF Given
  <2>2. \A k \in DOMAIN edges : /\ edges[k][1] + 1 \in DOMAIN sdks
                                /\ edges[k][2] + 1 \in DOMAIN sdks
    BY <1>1, <1>3, <2>1 DEF InRange
  <2>3. Target = [k \in DOMAIN edges |-> <<sdks[edges[k][1] + 1], sdks[edges[k][2] + 1]>>]
    BY <1>3 DEF Target, TargetEdges, ParseEdges
  <2>4. \A k \in DOMAIN edges : <<sdks[edges[k][1] + 1], sdks[edges[k][2] + 1]>>
                                   \in Agents(sdks) \X Agents(sdks)
    BY <2>2 DEF Agents
  <2>5. DOMAIN edges = 1..Len(edges) /\ Len(edges) \in Nat
    BY <2>1
  <2> QED  BY <2>3, <2>4, <2>5
<1>4. CASE ~Given(edges)
  BY <1>1, <1>4, MeshTyped DEF Target, TargetEdges
<1> QED  BY <1>1, <1>2, <1>3, <1>4

(* A permutation of the edges that continues every edge pairs the edges     *)
(* into an agent with those out of it.                                      *)
LEMMA ArrangeableBalances ==
    ASSUME Graph, Given(edges) => InRange(edges, sdks), Arrangeable
    PROVE  Balanced(Target, sdks)
<1> DEFINE D == DOMAIN Target
<1>1. IsFiniteSet(D)
  BY GraphTyped, IndicesFinite
<1>2. PICK p \in [D -> D] : /\ \A i, j \in D : p[i] = p[j] => i = j
                            /\ \A i \in D : Target[i][2] = Target[p[i]][1]
  BY DEF Arrangeable
<1>3. p \in Surjection(D, D)
  <2>1. p \in Injection(D, D)
    BY <1>2 DEF Injection, IsInjective
  <2> QED  BY <1>1, <2>1, FS_Injection
<1> SUFFICES ASSUME NEW u \in Agents(sdks)
             PROVE  InDegree(Target, u) = OutDegree(Target, u)
  BY DEF Balanced
<1> DEFINE I == {k \in D : Target[k][2] = u}
           O == {k \in D : Target[k][1] = u}
           f == [k \in I |-> p[k]]
<1>4. f \in [I -> O] /\ \A i, j \in I : f[i] = f[j] => i = j
  BY <1>2
<1>5. \A k \in O : \E i \in I : f[i] = k
  BY <1>2, <1>3 DEF Surjection
<1>6. IsFiniteSet(I)
  BY <1>1, FS_Subset
<1> QED
  <2> HIDE DEF I, O, f
  <2>1. Cardinality(I) = Cardinality(O)
    BY <1>4, <1>5, <1>6, SameSize
  <2> QED  BY <2>1 DEF InDegree, OutDegree, I, O

-----------------------------------------------------------------------------
LEMMA EulerInit == Init => EulerInv
<1> SUFFICES ASSUME Init PROVE EulerInv
  OBVIOUS
<1>1. Graph /\ Typed /\ Phased
  BY DEF Init, Graph, Typed, Phased
<1>2. Searched /\ Whole /\ KeptApart /\ WalkedWithin /\ Anchored
  BY DEF Init, Searched, Whole, KeptApart, CircuitsApart, WalkedWithin, Anchored
<1> QED  BY <1>1, <1>2 DEF EulerInv

LEMMA SameGraph ==
    ASSUME Graph, sdks' = sdks, edges' = edges
    PROVE  /\ Graph' /\ Target' = Target /\ Traversable(sdks, edges)' = Traversable(sdks, edges)
           /\ \A x : Reach(x)' = Reach(x)
<1>1. Target' = Target
  BY DEF Target
<1> QED  BY <1>1 DEF Graph, Reach

LEMMA UsableGraph ==
    ASSUME EulerInv, pc \in {"decompose", "walk", "done"}
    PROVE  /\ Target \in Seq(Agents(sdks) \X Agents(sdks)) /\ Balanced(Target, sdks)
           /\ sdks \in Seq(Agents(sdks)) /\ sdks[1] \in Agents(sdks)
  BY GraphTyped DEF EulerInv, Phased, Traversable, Target

(* Nothing that is counted changes. *)
LEMMA StillAnchored ==
    ASSUME Graph, Anchored, UNCHANGED <<sdks, edges, adj, stack, walk, circuits>>,
           pc \in {"decompose", "walk", "done"}
    PROVE  Anchored'
<1>1. Target' = Target
  BY SameGraph
<1>2. Left' = Left
  BY <1>1 DEF Left
<1>3. ASSUME NEW a \in Agents(sdks), Anchor(a) PROVE Anchor(a)'
  <2>1. Residue(a)'
    BY <1>1, <1>2, <1>3 DEF Anchor, Residue, LeftInto, Top
  <2>2. Counted(a)'
    <3>1. \A u, v : LeftBetween(u, v)' = LeftBetween(u, v) /\ EdgesBetween(u, v)' = EdgesBetween(u, v)
      BY <1>1, <1>2 DEF LeftBetween, EdgesBetween
    <3> QED  BY <1>3, <3>1 DEF Anchor, Counted, One
  <2> QED  BY <1>3, <2>1, <2>2 DEF Anchor
<1> QED  BY <1>3 DEF Anchored

LEMMA EdgesFinite ==
    ASSUME NEW A, Target \in Seq(A)
    PROVE  \A S \in SUBSET DOMAIN Target : IsFiniteSet(S) /\ Cardinality(S) \in Nat
  BY IndicesFinite, FS_Subset, FS_CardinalityType

LEMMA RefuseKeeps == EulerInv /\ Refuse => EulerInv'
<1> SUFFICES ASSUME EulerInv, Refuse PROVE EulerInv'
  OBVIOUS
<1>1. /\ Graph' /\ Target' = Target /\ Traversable(sdks, edges)' = Traversable(sdks, edges)
      /\ \A x : Reach(x)' = Reach(x)
  BY SameGraph DEF EulerInv, Refuse
<1>2. Typed' /\ Phased'
  BY <1>1 DEF EulerInv, Refuse, Typed, Phased, Component
<1>3. Searched' /\ Whole' /\ KeptApart' /\ WalkedWithin' /\ Anchored'
  BY <1>1 DEF EulerInv, Refuse, Phased, Searched, Whole, KeptApart, CircuitsApart, WalkedWithin, Anchored
<1> QED  BY <1>1, <1>2, <1>3 DEF EulerInv

LEMMA AcceptKeeps == EulerInv /\ Accept => EulerInv'
<1> SUFFICES ASSUME EulerInv, Accept PROVE EulerInv'
  OBVIOUS
<1>1. /\ Graph' /\ Target' = Target /\ Traversable(sdks, edges)' = Traversable(sdks, edges)
      /\ \A x : Reach(x)' = Reach(x)
  BY SameGraph DEF EulerInv, Accept
<1>2. /\ Target \in Seq(Agents(sdks) \X Agents(sdks)) /\ Balanced(Target, sdks)
      /\ sdks[1] \in Agents(sdks)
  BY GraphTyped DEF EulerInv, Accept, Traversable, Target
<1>3. /\ stack = <<>> /\ walk = <<>> /\ circuits = <<>>
      /\ comps = <<>> /\ comp = NoComponent /\ frontier = {}
  BY DEF EulerInv, Phased, Accept
<1>4. adj' = [u \in Agents(sdks) |-> {k \in DOMAIN Target : Target[k][1] = u}]
  BY DEF Accept
<1>5. Typed' /\ Phased'
  <2>1. adj' \in [Agents(sdks) -> SUBSET Nat]
    BY <1>2, <1>4
  <2> QED  BY <1>1, <1>3, <1>4, <2>1 DEF Accept, EulerInv, Typed, Phased, Component
<1>6. Left' = DOMAIN Target
  <2>1. \A k \in DOMAIN Target : Target[k][1] \in Agents(sdks)
    BY <1>2
  <2> QED  BY <1>1, <1>4, <2>1 DEF Left
<1>7. Searched' /\ Whole' /\ KeptApart' /\ WalkedWithin'
  BY <1>1, <1>3, <1>6
     DEF Accept, Searched, Whole, KeptApart, CircuitsApart, WalkedWithin
<1>8. Anchor(sdks[1])'
  <2>1. Residue(sdks[1])'
    <3> SUFFICES ASSUME NEW x \in Agents(sdks)
                 PROVE  Cardinality(LeftInto(x)') = Cardinality(adj'[x])
      BY <1>3, FS_CardinalityType DEF Residue, One, Accept
    <3>1. LeftInto(x)' = {k \in DOMAIN Target : Target[k][2] = x}
      BY <1>1, <1>6 DEF LeftInto
    <3> QED  BY <3>1, <1>2, <1>4 DEF Balanced, InDegree, OutDegree
  <2>2. Counted(sdks[1])'
    <3>1. ASSUME NEW u \in Agents(sdks), NEW v \in Agents(sdks)
          PROVE  /\ Cardinality(StepsBetween(<<>>, u, v)) = 0 /\ IsFiniteSet(StepsBetween(<<>>, u, v))
                 /\ Cardinality(PairsIn(<<>>, u, v)) = 0
                 /\ LeftBetween(u, v)' = EdgesBetween(u, v) /\ EdgesBetween(u, v)' = EdgesBetween(u, v)
                 /\ Cardinality(EdgesBetween(u, v)) \in Nat
      <4>1. StepsBetween(<<>>, u, v) = {}
        BY DEF StepsBetween, Steps
      <4>2. PairsIn(<<>>, u, v) = {}
        BY DEF PairsIn
      <4>3. LeftBetween(u, v)' = EdgesBetween(u, v) /\ EdgesBetween(u, v)' = EdgesBetween(u, v)
        BY <1>1, <1>6 DEF LeftBetween, EdgesBetween
      <4>4. Cardinality(EdgesBetween(u, v)) \in Nat
        BY EdgesFinite, <1>2 DEF EdgesBetween
      <4> QED  BY <4>1, <4>2, <4>3, <4>4, FS_EmptySet
    <3> QED  BY <1>3, <3>1 DEF Counted, One, Accept
  <2> QED  BY <1>3, <2>1, <2>2 DEF Anchor, Accept
<1> QED  BY <1>1, <1>2, <1>5, <1>7, <1>8 DEF EulerInv, Anchored, Accept

-----------------------------------------------------------------------------
(* The search leaves the walk alone. *)
LEMMA SearchFrame ==
    ASSUME EulerInv, pc = "decompose",
           UNCHANGED <<sdks, edges, adj, stack, walk, circuits>>, comps' \in Seq(Component)
    PROVE  /\ Graph' /\ Target' = Target /\ Traversable(sdks, edges)' = Traversable(sdks, edges)
           /\ \A x : Reach(x)' = Reach(x)
           /\ Left' = DOMAIN Target /\ stack = <<>> /\ walk = <<>> /\ circuits = <<>>
           /\ (pc' \in {"decompose", "walk"} => Typed' /\ Phased' /\ Anchored')
<1>1. /\ Graph' /\ Target' = Target /\ Traversable(sdks, edges)' = Traversable(sdks, edges)
      /\ \A x : Reach(x)' = Reach(x)
  BY SameGraph DEF EulerInv
<1>2. Left' = DOMAIN Target
  BY <1>1 DEF EulerInv, Searched, Left
<1>3. stack = <<>> /\ walk = <<>> /\ circuits = <<>>
  BY DEF EulerInv, Phased
<1>4. ASSUME pc' \in {"decompose", "walk"} PROVE Typed' /\ Phased'
  BY <1>1, <1>3, <1>4 DEF EulerInv, Typed, Phased, Component
<1>5. ASSUME pc' \in {"decompose", "walk"} PROVE Anchored'
  BY <1>5, StillAnchored DEF EulerInv
<1> QED  BY <1>1, <1>2, <1>3, <1>4, <1>5

LEMMA OpenComponentKeeps == EulerInv /\ OpenComponent => EulerInv'
<1> SUFFICES ASSUME EulerInv, OpenComponent PROVE EulerInv'
  OBVIOUS
<1>1. /\ Graph' /\ Target' = Target /\ \A x : Reach(x)' = Reach(x)
      /\ Left' = DOMAIN Target /\ stack = <<>> /\ circuits = <<>>
      /\ Typed' /\ Phased' /\ Anchored'
  BY SearchFrame DEF OpenComponent, EulerInv, Typed
<1>2. PICK i \in Unvisited : comp' = [first |-> sdks[i], nodes |-> {}] /\ frontier' = {sdks[i]}
  BY DEF OpenComponent
<1>3. /\ Target \in Seq(Agents(sdks) \X Agents(sdks)) /\ None \notin Agents(sdks)
      /\ sdks[i] \in Agents(sdks)
  BY UsableGraph, GraphTyped, <1>2 DEF OpenComponent, Unvisited, Agents, EulerInv
<1>4. sdks[i] \notin Visited /\ HasEdge({sdks[i]})
  <2>1. OutDegree(Target, sdks[i]) > 0
    BY <1>2 DEF Unvisited
  <2>2. {k \in DOMAIN Target : Target[k][1] = sdks[i]} # {}
    BY <2>1, FS_EmptySet DEF OutDegree
  <2> QED  BY <1>2, <2>2 DEF Unvisited, HasEdge
<1>5. sdks[i] \in Reach(sdks[i])
  BY <1>3, ReachedBasics DEF Reach
<1>6. Searched'
  <2>1. comp' \in Component /\ comp'.first = sdks[i] /\ comp'.nodes = {} /\ comp' # NoComponent
    BY <1>2, <1>3 DEF Component, NoComponent
  <2>2. HasEdge({sdks[i]})' /\ Visited' = Visited /\ Component' = Component
    BY <1>1, <1>4 DEF HasEdge, Visited, OpenComponent, Component
  <2> QED  BY <1>1, <1>2, <1>3, <1>4, <1>5, <2>1, <2>2 DEF Searched, OpenComponent
<1>7. Whole' /\ KeptApart' /\ WalkedWithin'
  BY <1>1 DEF EulerInv, OpenComponent, Whole, HasEdge, KeptApart, CircuitsApart, WalkedWithin, Current
<1> QED  BY <1>1, <1>6, <1>7 DEF EulerInv

LEMMA VisitAgentKeeps == EulerInv /\ VisitAgent => EulerInv'
<1> SUFFICES ASSUME EulerInv, VisitAgent PROVE EulerInv'
  OBVIOUS
<1>1. /\ Graph' /\ Target' = Target /\ \A x : Reach(x)' = Reach(x)
      /\ Left' = DOMAIN Target /\ stack = <<>> /\ circuits = <<>>
      /\ Typed' /\ Phased' /\ Anchored'
  BY SearchFrame DEF VisitAgent, EulerInv, Typed
<1>2. PICK u \in frontier : /\ comp' = [comp EXCEPT !.nodes = @ \cup {u}]
                            /\ frontier' = (frontier \cup Neighbours(u)) \ (comp.nodes \cup {u})
  BY DEF VisitAgent
<1>3. Target \in Seq(Agents(sdks) \X Agents(sdks))
  BY UsableGraph DEF VisitAgent
<1>4. /\ comp # NoComponent /\ comp \in Component /\ frontier \subseteq Agents(sdks)
      /\ HasEdge({comp.first}) /\ comp.first \notin Visited
      /\ comp.first \in comp.nodes \cup frontier
      /\ comp.nodes \cup frontier \subseteq Reach(comp.first)
      /\ \A w \in comp.nodes : Neighbours(w) \subseteq comp.nodes \cup frontier
  BY <1>2 DEF EulerInv, Searched, VisitAgent
<1>5. /\ comp'.first = comp.first /\ comp'.nodes = comp.nodes \cup {u}
      /\ comp' \in Component /\ comp.first \in Agents(sdks) /\ comp' # NoComponent
  BY <1>2, <1>4 DEF Component, NoComponent
<1>6. Neighbours(u) \subseteq Reach(comp.first)
  <2>1. Closed(Target, Reach(comp.first))
    BY <1>3, <1>5, ReachedBasics DEF Reach
  <2> QED  BY <1>2, <1>4, <2>1 DEF Neighbours, Closed
<1>7. \A w : Neighbours(w)' = Neighbours(w)
  BY <1>1 DEF Neighbours, VisitAgent
<1>8. Visited' = Visited /\ HasEdge({comp.first})' /\ Component' = Component
  BY <1>1, <1>4 DEF Visited, HasEdge, VisitAgent, Component
<1>9. Neighbours(u) \subseteq Agents(sdks)
  BY DEF Neighbours
<1>10. frontier' \subseteq Agents(sdks) /\ comp'.nodes \cup frontier' = comp.nodes \cup frontier \cup Neighbours(u)
  BY <1>2, <1>4, <1>5, <1>9
<1>11. Searched'
  <2>1. \A w \in comp'.nodes : Neighbours(w)' \subseteq comp'.nodes \cup frontier'
    BY <1>4, <1>5, <1>7, <1>10
  <2>2. comp'.nodes \cup frontier' \subseteq Reach(comp.first)
    BY <1>4, <1>6, <1>10
  <2>3. comp'.first \in comp'.nodes \cup frontier'
    BY <1>4, <1>5, <1>10
  <2> QED  BY <1>1, <1>4, <1>5, <1>8, <1>10, <2>1, <2>2, <2>3 DEF Searched, VisitAgent
<1>12. Whole' /\ KeptApart' /\ WalkedWithin'
  BY <1>1 DEF EulerInv, VisitAgent, Whole, HasEdge, KeptApart, CircuitsApart, WalkedWithin, Current
<1> QED  BY <1>1, <1>11, <1>12 DEF EulerInv

LEMMA CloseComponentKeeps == EulerInv /\ CloseComponent => EulerInv'
<1> SUFFICES ASSUME EulerInv, CloseComponent PROVE EulerInv'
  OBVIOUS
<1>1. /\ comp # NoComponent /\ frontier = {} /\ comp \in Component
      /\ HasEdge({comp.first}) /\ comp.first \notin Visited
      /\ comp.first \in comp.nodes
      /\ comp.nodes \subseteq Reach(comp.first)
      /\ \A u \in comp.nodes : Neighbours(u) \subseteq comp.nodes
  BY DEF EulerInv, Searched, CloseComponent
<1>2. /\ comps \in Seq(Component) /\ comps' = Append(comps, comp) /\ comp' = NoComponent
      /\ comp.first \in Agents(sdks) /\ comp.nodes \subseteq Agents(sdks)
  BY <1>1 DEF EulerInv, Typed, CloseComponent, Component
<1>3. /\ Graph' /\ Target' = Target /\ \A x : Reach(x)' = Reach(x)
      /\ Left' = DOMAIN Target /\ stack = <<>> /\ circuits = <<>>
      /\ Typed' /\ Phased' /\ Anchored'
  <2>1. comps' \in Seq(Component)
    BY <1>1, <1>2
  <2> QED  BY <2>1, SearchFrame DEF CloseComponent
<1>4. Target \in Seq(Agents(sdks) \X Agents(sdks))
  BY UsableGraph DEF CloseComponent
<1>5. comp.nodes = Reach(comp.first)
  <2>1. Closed(Target, comp.nodes)
    <3> SUFFICES ASSUME NEW k \in DOMAIN Target
                 PROVE  Target[k][1] \in comp.nodes <=> Target[k][2] \in comp.nodes
      BY DEF Closed
    <3>1. /\ Target[k][1] \in Agents(sdks) /\ Target[k][2] \in Agents(sdks)
          /\ Target[k] = <<Target[k][1], Target[k][2]>>
      BY <1>4
    <3>2. Target[k][2] \in Neighbours(Target[k][1]) /\ Target[k][1] \in Neighbours(Target[k][2])
      BY <3>1 DEF Neighbours
    <3> QED  BY <1>1, <3>2
  <2> QED  BY <1>1, <1>2, <1>4, <2>1, ReachedBasics DEF Reach
<1>6. \A k \in DOMAIN comps : comps[k].nodes \cap comp.nodes = {}
  <2> SUFFICES ASSUME NEW k \in DOMAIN comps PROVE comps[k].nodes \cap comp.nodes = {}
    OBVIOUS
  <2>1. comps[k].nodes = Reach(comps[k].first) /\ comps[k].first \in Agents(sdks)
    <3>1. comps[k] \in Component
      BY <1>2
    <3> QED  BY <3>1 DEF EulerInv, Whole, Component
  <2>2. comp.first \notin Reach(comps[k].first)
    BY <1>1, <2>1 DEF Visited
  <2> QED  BY <1>2, <1>4, <1>5, <2>1, <2>2, ReachedApart DEF Reach
<1>7. /\ DOMAIN comps' = DOMAIN comps \cup {Len(comps) + 1} /\ comps'[Len(comps) + 1] = comp
      /\ \A k \in DOMAIN comps : comps'[k] = comps[k]
  BY <1>2
<1>8. Searched'
  BY <1>2, <1>3, <1>1 DEF Searched, CloseComponent
<1>9. Whole'
  <2>1. \A k \in DOMAIN comps' :
           comps'[k].nodes = Reach(comps'[k].first) /\ HasEdge({comps'[k].first})
    BY <1>1, <1>5, <1>7 DEF EulerInv, Whole
  <2> QED  BY <1>3, <2>1 DEF Whole, HasEdge, CloseComponent
<1>10. KeptApart'
  <2>1. \A k, m \in DOMAIN comps' : k # m => comps'[k].nodes \cap comps'[m].nodes = {}
    BY <1>6, <1>7 DEF EulerInv, KeptApart
  <2> QED  BY <1>3, <2>1 DEF KeptApart, CircuitsApart, Current, CloseComponent
<1>11. WalkedWithin'
  BY <1>3 DEF CloseComponent, WalkedWithin
<1> QED  BY <1>3, <1>8, <1>9, <1>10, <1>11 DEF EulerInv

(* Sorting rearranges the components. *)
LEMMA SortedSame ==
    ASSUME NEW C, comps \in Seq(C)
    PROVE  /\ SortedComponents \in Seq(C) /\ DOMAIN SortedComponents = DOMAIN comps
           /\ \E p \in [DOMAIN comps -> DOMAIN comps] :
                 /\ \A n \in DOMAIN comps : SortedComponents[n] = comps[p[n]]
                 /\ \A m, n \in DOMAIN comps : p[m] = p[n] => m = n
                 /\ \A k \in DOMAIN comps : \E n \in DOMAIN comps : p[n] = k
<1> DEFINE entry == {k \in DOMAIN comps : sdks[1] \in comps[k].nodes}
           c == CHOOSE k \in entry : TRUE
<1>1. CASE entry = {}
  <2>1. SortedComponents = comps
    BY <1>1 DEF SortedComponents
  <2> DEFINE p == [n \in DOMAIN comps |-> n]
  <2> QED  BY <2>1, p \in [DOMAIN comps -> DOMAIN comps]
<1>2. CASE entry # {}
  <2>1. c \in DOMAIN comps
    BY <1>2
  <2> DEFINE p == [n \in DOMAIN comps |-> IF n = 1 THEN c ELSE IF n <= c THEN n - 1 ELSE n]
  <2>2. SortedComponents = [n \in DOMAIN comps |-> comps[p[n]]]
    BY <1>2 DEF SortedComponents
  <2> HIDE DEF c
  <2>3. DOMAIN comps = 1..Len(comps) /\ Len(comps) \in Nat
    OBVIOUS
  <2>4. p \in [DOMAIN comps -> DOMAIN comps]
    BY <2>1, <2>3
  <2>5. \A m, n \in DOMAIN comps : p[m] = p[n] => m = n
    BY <2>1, <2>3
  <2>6. \A k \in DOMAIN comps : \E n \in DOMAIN comps : p[n] = k
    <3> SUFFICES ASSUME NEW k \in DOMAIN comps PROVE \E n \in DOMAIN comps : p[n] = k
      OBVIOUS
    <3>1. CASE k = c
      BY <2>1, <2>3, <3>1
    <3>2. CASE k < c
      BY <2>1, <2>3, <3>2, k + 1 \in DOMAIN comps
    <3>3. CASE k > c
      BY <2>1, <2>3, <3>3
    <3> QED  BY <2>1, <2>3, <3>1, <3>2, <3>3
  <2>7. SortedComponents \in Seq(C)
    BY <2>2, <2>3, <2>4
  <2> QED  BY <2>2, <2>4, <2>5, <2>6, <2>7
<1> QED  BY <1>1, <1>2

LEMMA DecomposedKeeps == EulerInv /\ Decomposed => EulerInv'
<1> SUFFICES ASSUME EulerInv, Decomposed PROVE EulerInv'
  OBVIOUS
<1>1. /\ pc = "decompose" /\ Unvisited = {} /\ comps' = SortedComponents
      /\ circuits' = (IF comps = <<>> THEN <<<<sdks[1]>>>> ELSE <<>>)
      /\ pc' = (IF comps = <<>> THEN "done" ELSE "walk")
      /\ UNCHANGED <<sdks, edges, adj, frontier, comp, stack, walk>>
  BY DEF Decomposed
<1>2. /\ Target \in Seq(Agents(sdks) \X Agents(sdks))
      /\ sdks \in Seq(Agents(sdks)) /\ sdks[1] \in Agents(sdks)
  BY <1>1, UsableGraph
<1>3. comps \in Seq(Component) /\ stack = <<>> /\ walk = <<>> /\ circuits = <<>> /\ Left = DOMAIN Target
  BY <1>1 DEF EulerInv, Typed, Phased, Searched
<1>4. /\ Graph' /\ Target' = Target /\ \A x : Reach(x)' = Reach(x)
      /\ Traversable(sdks, edges)' = Traversable(sdks, edges)
  BY <1>1, SameGraph DEF EulerInv
<1>5. PICK p \in [DOMAIN comps -> DOMAIN comps] :
         /\ \A n \in DOMAIN comps : comps'[n] = comps[p[n]]
         /\ \A m, n \in DOMAIN comps : p[m] = p[n] => m = n
         /\ \A k \in DOMAIN comps : \E n \in DOMAIN comps : p[n] = k
  BY <1>1, <1>3, SortedSame
<1>6. comps' \in Seq(Component) /\ DOMAIN comps' = DOMAIN comps
  BY <1>1, <1>3, SortedSame
<1>7. \A k \in DOMAIN Target : Target[k][1] \in Visited
  <2> SUFFICES ASSUME NEW k \in DOMAIN Target PROVE Target[k][1] \in Visited
    OBVIOUS
  <2>1. PICK i \in DOMAIN sdks : sdks[i] = Target[k][1]
    BY <1>2 DEF Agents
  <2> DEFINE O == {j \in DOMAIN Target : Target[j][1] = sdks[i]}
  <2>2. O # {} /\ IsFiniteSet(O) /\ Cardinality(O) \in Nat
    BY <1>2, <2>1, EdgesFinite
  <2>3. OutDegree(Target, sdks[i]) > 0
    <3> HIDE DEF O
    <3>1. Cardinality(O) > 0
      BY <2>2, FS_EmptySet
    <3> QED  BY <3>1 DEF OutDegree, O
  <2> QED  BY <1>1, <2>1, <2>3 DEF Unvisited
<1>8. CASE comps = <<>>
  <2>1. DOMAIN Target = {} /\ Target = <<>>
    <3>1. Visited = {}
      BY <1>8 DEF Visited
    <3>2. DOMAIN Target = {}
      BY <1>7, <3>1
    <3> QED  BY <1>2, <3>2
  <2>2. circuits' = <<<<sdks[1]>>>> /\ pc' = "done" /\ comps' = <<>> /\ Left' = {}
    BY <1>1, <1>4, <1>6, <1>8, <2>1 DEF Left
  <2>3. Typed' /\ Phased'
    <3>1. circuits' \in Seq(Seq(Agents(sdks)) \ {<<>>})
      BY <1>2, <2>2
    <3>2. comps' \in Seq(Component') /\ stack' = <<>> /\ walk' = <<>>
      BY <1>1, <1>3, <2>2
    <3>3. Typed'
      BY <1>1, <1>3, <1>4, <2>2, <3>1, <3>2 DEF EulerInv, Typed
    <3> QED  BY <1>1, <1>3, <1>4, <2>2, <3>2, <3>3 DEF EulerInv, Phased
  <2>4. Searched' /\ WalkedWithin' /\ KeptApart'
    BY <1>1, <1>3, <2>2 DEF Searched, WalkedWithin, KeptApart, CircuitsApart, Current
  <2>5. Whole'
    <3>1. Reach(sdks[1]) = {sdks[1]}
      <4>1. Closed(Target, {sdks[1]})
        BY <2>1 DEF Closed
      <4>2. {sdks[1]} \in SUBSET Agents(sdks)
        BY <1>2
      <4>3. Reach(sdks[1]) \subseteq {sdks[1]} /\ sdks[1] \in Reach(sdks[1])
        <5>1. sdks[1] \in Agents(sdks)
          BY <1>2
        <5>2. sdks[1] \in Reach(sdks[1])
          BY <5>1 DEF Reach, Reached
        <5>3. \A y \in Reach(sdks[1]) : y \in {sdks[1]}
          BY <4>1, <4>2 DEF Reach, Reached
        <5> QED  BY <5>2, <5>3
      <4> QED  BY <4>3
    <3>2. Agents(<<sdks[1]>>) = {sdks[1]}
      BY DEF Agents
    <3>3. /\ DOMAIN circuits' = {1} /\ circuits'[1] = <<sdks[1]>>
          /\ circuits'[1][1] = sdks[1] /\ circuits'[1][Len(circuits'[1])] = sdks[1]
      BY <2>2
    <3>4. Reach(sdks[1])' = {sdks[1]} /\ DOMAIN comps' = {}
      BY <1>1, <1>4, <2>2, <3>1
    <3>5. Reached(Target', Agents(sdks'), circuits'[1][1]) = {sdks[1]}
      BY <1>1, <1>4, <3>1, <3>3 DEF Reach
    <3>6. \A k \in DOMAIN circuits' : k = 1
      BY <3>3
    <3>7. \A k \in DOMAIN circuits' :
             /\ Agents(circuits'[k]) = Reached(Target', Agents(sdks'), circuits'[k][1])
             /\ circuits'[k][1] = circuits'[k][Len(circuits'[k])] /\ circuits'[k][1] = sdks'[1]
      BY <1>1, <3>2, <3>3, <3>5, <3>6
    <3>8. circuits' = <<<<sdks'[1]>>>> /\ Target' = <<>>
      BY <1>1, <1>4, <2>1, <2>2
    <3>9. EntryAlone'
      BY <3>8 DEF EntryAlone
    <3> QED  BY <3>4, <3>7, <3>9 DEF Whole, Reach, HasEdge
  <2>6. Anchor(sdks[1])'
    <3>1. Residue(sdks[1])'
      <4>1. \A x \in Agents(sdks) : LeftInto(x)' = {} /\ adj[x] = {}
        BY <2>1, <2>2 DEF LeftInto, EulerInv, Typed
      <4> QED  BY <1>1, <1>3, <4>1, FS_EmptySet DEF Residue, One
    <3>2. Counted(sdks[1])'
      <4>1. \A u, v : StepsBetween(circuits', u, v) = {} /\ PairsIn(<<>>, u, v) = {}
        BY <2>2 DEF StepsBetween, Steps, PairsIn
      <4>2. \A u, v : LeftBetween(u, v)' = {} /\ EdgesBetween(u, v)' = {}
        BY <1>4, <2>1, <2>2 DEF LeftBetween, EdgesBetween
      <4>3. stack' = <<>> /\ walk' = <<>>
        BY <1>1, <1>3
      <4>4. Cardinality({}) = 0 /\ IsFiniteSet({})
        BY FS_EmptySet
      <4>5. \A u, v : /\ Cardinality(StepsBetween(circuits', u, v)) = 0
                      /\ IsFiniteSet(StepsBetween(circuits', u, v))
                      /\ Cardinality(PairsIn(stack', u, v)) = 0 /\ Cardinality(PairsIn(walk', u, v)) = 0
                      /\ Cardinality(LeftBetween(u, v)') = 0 /\ Cardinality(EdgesBetween(u, v)') = 0
        BY <4>1, <4>2, <4>3, <4>4
      <4> QED  BY <4>3, <4>5 DEF Counted, One
    <3> QED  BY <1>1, <1>3, <3>1, <3>2 DEF Anchor
  <2> QED  BY <1>1, <1>2, <1>4, <2>3, <2>4, <2>5, <2>6 DEF EulerInv, Anchored
<1>9. CASE comps # <<>>
  <2>1. circuits' = circuits /\ pc' = "walk"
    BY <1>1, <1>3, <1>9
  <2>2. Typed' /\ Phased' /\ Anchored' /\ Left' = DOMAIN Target
    BY <1>1, <1>6, <2>1, SearchFrame
  <2>3. Visited' = Visited
    BY <1>5, <1>6 DEF Visited
  <2>4. Searched' /\ WalkedWithin'
    BY <1>1, <1>3, <1>4, <1>7, <2>1, <2>2, <2>3 DEF Searched, WalkedWithin
  <2>5. Whole'
    <3>1. \A n \in DOMAIN comps' :
             comps'[n].nodes = Reach(comps'[n].first) /\ HasEdge({comps'[n].first})
      <4> SUFFICES ASSUME NEW n \in DOMAIN comps'
                   PROVE  comps'[n].nodes = Reach(comps'[n].first) /\ HasEdge({comps'[n].first})
        OBVIOUS
      <4>1. p[n] \in DOMAIN comps /\ comps'[n] = comps[p[n]]
        BY <1>5, <1>6
      <4>2. comps[p[n]].nodes = Reach(comps[p[n]].first) /\ HasEdge({comps[p[n]].first})
        BY <4>1 DEF EulerInv, Whole
      <4> QED  BY <4>1, <4>2
    <3>2. DOMAIN circuits' = {}
      BY <1>3, <2>1
    <3> QED  BY <1>4, <3>1, <3>2 DEF Whole, HasEdge
  <2>6. KeptApart'
    <3>1. DOMAIN circuits' = {} /\ Current' = {}
      BY <1>1, <1>3, <2>1 DEF Current
    <3>2. \A k, m \in DOMAIN comps : k # m => comps[k].nodes \cap comps[m].nodes = {}
      BY DEF EulerInv, KeptApart
    <3>3. \A k, m \in DOMAIN comps' : k # m => comps'[k].nodes \cap comps'[m].nodes = {}
      <4> SUFFICES ASSUME NEW k \in DOMAIN comps', NEW m \in DOMAIN comps', k # m
                   PROVE  comps'[k].nodes \cap comps'[m].nodes = {}
        OBVIOUS
      <4>1. p[k] \in DOMAIN comps /\ p[m] \in DOMAIN comps /\ p[k] # p[m]
        BY <1>5, <1>6
      <4>2. comps'[k] = comps[p[k]] /\ comps'[m] = comps[p[m]]
        BY <1>5, <1>6
      <4> QED  BY <3>2, <4>1, <4>2
    <3> QED  BY <3>1, <3>3 DEF KeptApart, CircuitsApart
  <2> QED  BY <1>4, <2>2, <2>4, <2>5, <2>6 DEF EulerInv
<1> QED  BY <1>8, <1>9

-----------------------------------------------------------------------------
(* The walk of a component. *)
LEMMA LeftFinite ==
    ASSUME EulerInv, pc = "walk"
    PROVE  \A u, v \in Agents(sdks) :
              /\ IsFiniteSet(adj[u]) /\ Cardinality(adj[u]) \in Nat
              /\ IsFiniteSet(LeftInto(u)) /\ Cardinality(LeftInto(u)) \in Nat
              /\ IsFiniteSet(LeftBetween(u, v)) /\ Cardinality(LeftBetween(u, v)) \in Nat
<1>1. Target \in Seq(Agents(sdks) \X Agents(sdks))
  BY UsableGraph
<1>2. \A u \in Agents(sdks) : adj[u] \in SUBSET DOMAIN Target
  BY DEF EulerInv, Typed
<1>3. \A u, v : LeftInto(u) \in SUBSET DOMAIN Target /\ LeftBetween(u, v) \in SUBSET DOMAIN Target
  BY DEF LeftInto, LeftBetween, Left
<1> QED  BY <1>1, <1>2, <1>3, EdgesFinite

LEMMA WalkTyped ==
    ASSUME EulerInv, pc = "walk", stack # <<>>
    PROVE  /\ stack \in Seq(Agents(sdks)) /\ walk \in Seq(Agents(sdks)) /\ Len(stack) \in Nat \ {0}
           /\ Top \in Agents(sdks) /\ Top \in Current /\ stack[1] \in Agents(sdks)
           /\ Current = Reach(stack[1])
           /\ Closed(Target, Current) /\ Current \subseteq Agents(sdks)
<1>1. stack \in Seq(Agents(sdks)) /\ walk \in Seq(Agents(sdks))
  BY DEF EulerInv, Typed
<1>2. Len(stack) \in Nat \ {0} /\ Top \in Agents(sdks) /\ Top \in Agents(stack) /\ stack[1] \in Agents(sdks)
  BY <1>1 DEF Top, Agents
<1>3. Top \in Current /\ Current = Reach(stack[1])
  BY <1>2 DEF EulerInv, WalkedWithin, Current
<1> QED  BY <1>1, <1>2, <1>3, UsableGraph, ReachedBasics DEF Reach

LEMMA OpenWalkKeeps == EulerInv /\ OpenWalk => EulerInv'
<1> SUFFICES ASSUME EulerInv, OpenWalk PROVE EulerInv'
  OBVIOUS
<1>1. /\ pc = "walk" /\ stack = <<>> /\ walk = <<>> /\ comps # <<>> /\ comps \in Seq(Component)
      /\ stack' = <<StartOf(comps[1])>> /\ comps' = Tail(comps)
      /\ UNCHANGED <<sdks, edges, pc, adj, frontier, comp, walk, circuits>>
  BY DEF OpenWalk, EulerInv, Typed, Phased
<1>2. /\ Graph' /\ Target' = Target /\ \A x : Reach(x)' = Reach(x)
      /\ Traversable(sdks, edges)' = Traversable(sdks, edges)
  BY <1>1, SameGraph DEF EulerInv
<1>3. /\ Target \in Seq(Agents(sdks) \X Agents(sdks)) /\ sdks[1] \in Agents(sdks)
  BY <1>1, UsableGraph
<1>4. 1 \in DOMAIN comps /\ comps[1].nodes = Reach(comps[1].first) /\ comps[1].first \in Agents(sdks)
      /\ HasEdge({comps[1].first})
  <2>1. 1 \in DOMAIN comps /\ comps[1] \in Component
    BY <1>1
  <2> QED  BY <2>1 DEF EulerInv, Whole, Component
<1>5. PICK start \in Agents(sdks) :
         /\ start = StartOf(comps[1])
         /\ start \in comps[1].nodes /\ (sdks[1] \in comps[1].nodes => start = sdks[1])
         /\ comps[1].first \in comps[1].nodes
  BY <1>3, <1>4, ReachedBasics DEF StartOf, Reach
<1>6. Reach(start) = comps[1].nodes
  BY <1>3, <1>4, <1>5, ReachedSame DEF Reach
<1>7. stack'[1] = start /\ stack' # <<>> /\ Len(stack') = 1 /\ stack' \in Seq(Agents(sdks))
  BY <1>1, <1>5
<1>8. Current' = comps[1].nodes /\ Current = {}
  BY <1>1, <1>2, <1>6, <1>7 DEF Current, Reach
<1>9. /\ comps' \in Seq(Component) /\ Component' = Component
      /\ \A k \in DOMAIN comps' : k + 1 \in DOMAIN comps /\ k + 1 # 1 /\ comps'[k] = comps[k + 1]
  BY <1>1 DEF Component
<1>10. Typed' /\ Phased'
  BY <1>1, <1>2, <1>7, <1>9 DEF EulerInv, Typed, Phased
<1>11. Searched'
  BY <1>1 DEF Searched
<1>12. Whole'
  <2>1. \A n \in DOMAIN comps' : comps'[n].nodes = Reach(comps'[n].first) /\ HasEdge({comps'[n].first})
    BY <1>9 DEF EulerInv, Whole
  <2> QED  BY <1>1, <1>2, <2>1 DEF EulerInv, Whole, HasEdge, EntryAlone
<1>13. KeptApart'
  <2>1. \A k, m \in DOMAIN comps' : k # m => comps'[k].nodes \cap comps'[m].nodes = {}
    BY <1>9 DEF EulerInv, KeptApart
  <2>2. \A k \in DOMAIN comps' :
           /\ comps'[k].nodes \cap comps[1].nodes = {}
           /\ \A m \in DOMAIN circuits : comps'[k].nodes \cap Agents(circuits[m]) = {}
    BY <1>4, <1>9 DEF EulerInv, KeptApart
  <2>3. \A m \in DOMAIN circuits : Agents(circuits[m]) \cap comps[1].nodes = {}
    BY <1>4 DEF EulerInv, KeptApart
  <2>4. CircuitsApart'
    BY <1>1 DEF EulerInv, KeptApart, CircuitsApart
  <2> QED  BY <1>1, <1>8, <2>1, <2>2, <2>3, <2>4 DEF KeptApart
<1>14. Left' = Left
  BY <1>1, <1>2 DEF Left
<1>15. WalkedWithin'
  <2>1. Agents(stack') = {start} /\ Agents(walk') = {}
    BY <1>1, <1>7 DEF Agents
  <2>2. \E k \in DOMAIN Target' : Target'[k][1] \in Current'
    BY <1>2, <1>4, <1>5, <1>8 DEF HasEdge
  <2>3. Visited \subseteq Visited' \cup comps[1].nodes
    <3> SUFFICES ASSUME NEW k \in DOMAIN comps, k # 1 PROVE comps[k].nodes \subseteq Visited'
      BY DEF Visited
    <3>1. k - 1 \in DOMAIN comps' /\ comps'[k - 1] = comps[k]
      BY <1>1
    <3> QED  BY <3>1 DEF Visited
  <2>4. \A k \in Left : Target[k][1] \in Visited
    BY <1>1, <1>8 DEF EulerInv, WalkedWithin
  <2>5. \A k \in Left' : Target'[k][1] \in Visited' \cup Current'
    BY <1>2, <1>8, <1>14, <2>3, <2>4
  <2>6. Agents(stack') \cup Agents(walk') \subseteq Current' /\ (sdks'[1] \in Current' => stack'[1] = sdks'[1])
    BY <1>1, <1>5, <1>7, <1>8, <2>1
  <2>7. walk' = <<>> /\ \A x : x \notin Agents(walk')
    BY <1>1, <2>1
  <2> QED  BY <2>2, <2>5, <2>6, <2>7 DEF WalkedWithin, HasEdge
<1>16. Anchor(start)'
  <2>1. PICK a \in Agents(sdks) : Anchor(a)
    BY <1>1 DEF EulerInv, Anchored
  <2>2. Residue(start)'
    <3> SUFFICES ASSUME NEW x \in Agents(sdks)
                 PROVE  Cardinality(LeftInto(x)') + One(stack' # <<>> /\ x = Top')
                        = Cardinality(adj'[x]) + One(stack' # <<>> /\ x = start)
      BY <1>1 DEF Residue
    <3>1. Top' = start
      BY <1>7 DEF Top
    <3>2. Cardinality(LeftInto(x)) = Cardinality(adj[x])
      BY <1>1, <2>1, LeftFinite DEF Anchor, Residue, One
    <3>3. LeftInto(x)' = LeftInto(x)
      BY <1>2, <1>14 DEF LeftInto
    <3> QED  BY <1>1, <3>1, <3>2, <3>3
  <2>3. Counted(start)'
    <3>1. \A u, v : PairsIn(stack', u, v) = PairsIn(stack, u, v)
      BY <1>1, <1>7 DEF PairsIn
    <3>2. \A u, v : LeftBetween(u, v)' = LeftBetween(u, v) /\ EdgesBetween(u, v)' = EdgesBetween(u, v)
      BY <1>2, <1>14 DEF LeftBetween, EdgesBetween
    <3> QED  BY <1>1, <2>1, <3>1, <3>2 DEF Anchor, Counted, One
  <2> QED  BY <1>1, <1>7, <2>2, <2>3 DEF Anchor
<1> QED  BY <1>1, <1>2, <1>5, <1>10, <1>11, <1>12, <1>13, <1>15, <1>16 DEF EulerInv, Anchored

(* One edge less is left. *)
OneEdgeLess(w, e) ==
    /\ e \in DOMAIN Target /\ Target[e][1] = w /\ Target[e][2] \in Agents(sdks)
    /\ Left' = Left \ {e} /\ e \in Left
    /\ \A x \in Agents(sdks) :
          /\ Cardinality(adj'[x]) = Cardinality(adj[x]) - One(x = w)
          /\ Cardinality(LeftInto(x)') = Cardinality(LeftInto(x)) - One(x = Target[e][2])
    /\ \A u, v \in Agents(sdks) :
          Cardinality(LeftBetween(u, v)')
          = Cardinality(LeftBetween(u, v)) - One(u = w /\ v = Target[e][2])

LEMMA EdgeWalked ==
    ASSUME EulerInv, pc = "walk", NEW w \in Agents(sdks), NEW e \in adj[w],
           adj' = [adj EXCEPT ![w] = @ \ {e}], sdks' = sdks, edges' = edges
    PROVE  OneEdgeLess(w, e)
<1>1. Target' = Target
  BY SameGraph DEF EulerInv
<1>2. Target \in Seq(Agents(sdks) \X Agents(sdks))
  BY UsableGraph
<1>3. e \in DOMAIN Target /\ Target[e][1] = w /\ adj \in [Agents(sdks) -> SUBSET Nat]
  BY DEF EulerInv, Typed
<1>4. Target[e][2] \in Agents(sdks) /\ Target[e] = <<w, Target[e][2]>>
  BY <1>2, <1>3
<1>5. Left' = Left \ {e} /\ e \in Left
  <2>1. \A k \in DOMAIN Target : Target[k][1] \in Agents(sdks)
    BY <1>2
  <2>2. \A k \in DOMAIN Target : k \in adj'[Target[k][1]] <=> k \in adj[Target[k][1]] /\ k # e
    BY <1>3, <2>1
  <2> QED  BY <1>1, <1>3, <2>2 DEF Left
<1>6. ASSUME NEW x \in Agents(sdks)
      PROVE  /\ Cardinality(adj'[x]) = Cardinality(adj[x]) - One(x = w)
             /\ Cardinality(LeftInto(x)') = Cardinality(LeftInto(x)) - One(x = Target[e][2])
  <2>1. adj'[x] = IF x = w THEN adj[x] \ {e} ELSE adj[x]
    BY <1>3
  <2>2. LeftInto(x)' = LeftInto(x) \ {e} /\ (e \in LeftInto(x) <=> x = Target[e][2])
    BY <1>1, <1>3, <1>5 DEF LeftInto
  <2>3. Cardinality(adj[x] \ {e}) = IF e \in adj[x] THEN Cardinality(adj[x]) - 1 ELSE Cardinality(adj[x])
    BY LeftFinite, FS_RemoveElement
  <2>4. Cardinality(LeftInto(x) \ {e})
        = IF e \in LeftInto(x) THEN Cardinality(LeftInto(x)) - 1 ELSE Cardinality(LeftInto(x))
    BY LeftFinite, FS_RemoveElement
  <2>5. Cardinality(adj[x]) \in Nat /\ Cardinality(LeftInto(x)) \in Nat
    BY LeftFinite
  <2> QED  BY <2>1, <2>2, <2>3, <2>4, <2>5 DEF One
<1>7. ASSUME NEW u \in Agents(sdks), NEW v \in Agents(sdks)
      PROVE  Cardinality(LeftBetween(u, v)')
             = Cardinality(LeftBetween(u, v)) - One(u = w /\ v = Target[e][2])
  <2>1. /\ LeftBetween(u, v)' = LeftBetween(u, v) \ {e}
        /\ e \in LeftBetween(u, v) <=> u = w /\ v = Target[e][2]
    BY <1>1, <1>4, <1>5 DEF LeftBetween
  <2>2. Cardinality(LeftBetween(u, v) \ {e})
        = IF e \in LeftBetween(u, v) THEN Cardinality(LeftBetween(u, v)) - 1
                                     ELSE Cardinality(LeftBetween(u, v))
    BY LeftFinite, FS_RemoveElement
  <2>3. Cardinality(LeftBetween(u, v)) \in Nat
    BY LeftFinite
  <2> QED  BY <2>1, <2>2, <2>3 DEF One
<1> QED  BY <1>3, <1>4, <1>5, <1>6, <1>7 DEF OneEdgeLess

LEMMA AdvanceKeeps == EulerInv /\ Advance => EulerInv'
<1> SUFFICES ASSUME EulerInv, Advance PROVE EulerInv'
  OBVIOUS
<1>1. PICK e \in adj[Top] : /\ stack' = Append(stack, Target[e][2])
                            /\ adj' = [adj EXCEPT ![Top] = @ \ {e}]
  BY DEF Advance
<1>2. /\ pc = "walk" /\ stack # <<>>
      /\ UNCHANGED <<sdks, edges, pc, frontier, comp, comps, walk, circuits>>
  BY DEF Advance
<1>3. /\ Graph' /\ Target' = Target /\ \A x : Reach(x)' = Reach(x)
      /\ Traversable(sdks, edges)' = Traversable(sdks, edges)
  BY <1>2, SameGraph DEF EulerInv
<1>4. /\ stack \in Seq(Agents(sdks)) /\ walk \in Seq(Agents(sdks)) /\ Len(stack) \in Nat \ {0}
      /\ Top \in Agents(sdks) /\ Top \in Current /\ stack[1] \in Agents(sdks)
      /\ Current = Reach(stack[1]) /\ Closed(Target, Current)
  BY <1>2, WalkTyped
<1>5. PICK w \in Agents(sdks) : w = Top
  BY <1>4
<1>6. OneEdgeLess(w, e)
  <2>1. e \in adj[w] /\ adj' = [adj EXCEPT ![w] = @ \ {e}]
    BY <1>1, <1>5
  <2>2. sdks' = sdks /\ edges' = edges
    BY <1>2
  <2> QED  BY <1>2, <2>1, <2>2, EdgeWalked
<1>7. PICK v \in Agents(sdks) : v = Target[e][2]
  BY <1>6 DEF OneEdgeLess
<1>8. /\ e \in DOMAIN Target /\ Target[e][1] = w /\ Left' = Left \ {e}
      /\ \A x \in Agents(sdks) :
            /\ Cardinality(adj'[x]) = Cardinality(adj[x]) - One(x = w)
            /\ Cardinality(LeftInto(x)') = Cardinality(LeftInto(x)) - One(x = v)
      /\ \A x, y \in Agents(sdks) :
            Cardinality(LeftBetween(x, y)') = Cardinality(LeftBetween(x, y)) - One(x = w /\ y = v)
  BY <1>6, <1>7 DEF OneEdgeLess
<1>9. /\ stack' = Append(stack, v) /\ stack' \in Seq(Agents(sdks)) /\ stack' # <<>>
      /\ stack'[1] = stack[1] /\ Top' = v /\ Agents(stack') = Agents(stack) \cup {v}
  <2>1. stack' = Append(stack, v) /\ stack' \in Seq(Agents(sdks)) /\ Len(stack') = Len(stack) + 1
    BY <1>1, <1>4, <1>7
  <2>2. stack'[Len(stack) + 1] = v /\ \A i \in 1..Len(stack) : stack'[i] = stack[i]
    BY <1>4, <2>1
  <2>3. stack' # <<>> /\ stack'[1] = stack[1] /\ Top' = v
    BY <1>4, <2>1, <2>2 DEF Top
  <2>4. DOMAIN stack' = 1..(Len(stack) + 1) /\ DOMAIN stack = 1..Len(stack)
    BY <1>4, <2>1
  <2>5. Agents(stack') = Agents(stack) \cup {v}
    BY <1>4, <2>2, <2>4 DEF Agents
  <2> QED  BY <2>1, <2>3, <2>5
<1>10. Current' = Current
  BY <1>2, <1>3, <1>9 DEF Current, Reach
<1>11. v \in Current
  BY <1>4, <1>7, <1>5, <1>8 DEF Closed
<1>12. Typed' /\ Phased'
  <2>1. adj' \in [Agents(sdks) -> SUBSET Nat]
    BY <1>1, <1>4 DEF EulerInv, Typed
  <2>2. \A u \in Agents(sdks) : adj'[u] \subseteq adj[u]
    BY <1>1, <1>4 DEF EulerInv, Typed
  <2> QED  BY <1>2, <1>3, <1>9, <2>1, <2>2 DEF EulerInv, Typed, Phased, Component
<1>13. Searched' /\ Whole'
  BY <1>2, <1>3 DEF EulerInv, Searched, Whole, HasEdge, EntryAlone
<1>14. KeptApart'
  BY <1>2, <1>10 DEF EulerInv, KeptApart, CircuitsApart
<1>15. WalkedWithin'
  <2>1. Visited' = Visited /\ \A k \in Left' : k \in Left
    BY <1>2, <1>8 DEF Visited
  <2>2. \A u \in Agents(walk) : adj'[u] = {}
    <3>1. \A u \in Agents(walk) : adj[u] = {}
      BY <1>2 DEF EulerInv, WalkedWithin
    <3>2. Agents(walk) \subseteq Agents(sdks)
      BY <1>4 DEF Agents
    <3>3. adj \in [Agents(sdks) -> SUBSET Nat]
      BY DEF EulerInv, Typed
    <3> QED  BY <1>1, <1>4, <3>1, <3>2, <3>3
  <2>3. Agents(stack') \cup Agents(walk') \subseteq Current'
    BY <1>2, <1>9, <1>10, <1>11 DEF EulerInv, WalkedWithin
  <2> QED  BY <1>2, <1>3, <1>9, <1>10, <2>1, <2>2, <2>3 DEF EulerInv, WalkedWithin, HasEdge
<1>16. PICK a \in Agents(sdks) : Anchor(a)
  BY <1>2 DEF EulerInv, Anchored
<1>17. Residue(a)'
  <2> SUFFICES ASSUME NEW x \in Agents(sdks)
               PROVE  Cardinality(LeftInto(x)') + One(x = v) = Cardinality(adj'[x]) + One(x = a)
    BY <1>2, <1>9 DEF Residue, One
  <2>1. Cardinality(LeftInto(x)) + One(x = w) = Cardinality(adj[x]) + One(x = a)
    BY <1>2, <1>5, <1>16 DEF Anchor, Residue, One
  <2>2. Cardinality(adj[x]) \in Nat /\ Cardinality(LeftInto(x)) \in Nat
    BY <1>2, LeftFinite
  <2> QED  BY <1>8, <2>1, <2>2 DEF One
<1>18. Counted(a)'
  <2> SUFFICES ASSUME NEW x \in Agents(sdks), NEW y \in Agents(sdks)
               PROVE  /\ IsFiniteSet(StepsBetween(circuits', x, y))
                      /\ Cardinality(StepsBetween(circuits', x, y))
                         + Cardinality(PairsIn(stack', x, y)) + Cardinality(PairsIn(walk', x, y))
                         + One(walk' # <<>> /\ x = a /\ y = walk'[1]) + Cardinality(LeftBetween(x, y)')
                         = Cardinality(EdgesBetween(x, y)')
    BY <1>2 DEF Counted
  <2>1. Cardinality(PairsIn(stack', x, y)) = Cardinality(PairsIn(stack, x, y)) + One(w = x /\ v = y)
    BY <1>2, <1>4, <1>5, <1>9, PairsAppend DEF Top
  <2>2. Cardinality(LeftBetween(x, y)) \in Nat /\ Cardinality(PairsIn(stack, x, y)) \in Nat
    BY <1>2, <1>4, LeftFinite, PairsFinite
  <2>3. /\ Cardinality(StepsBetween(circuits, x, y)) \in Nat
        /\ Cardinality(PairsIn(walk, x, y)) \in Nat
    BY <1>4, <1>16, PairsFinite, FS_CardinalityType DEF Anchor, Counted
  <2>4. EdgesBetween(x, y)' = EdgesBetween(x, y)
    BY <1>3 DEF EdgesBetween
  <2>5. /\ IsFiniteSet(StepsBetween(circuits, x, y))
        /\ Cardinality(StepsBetween(circuits, x, y))
           + Cardinality(PairsIn(stack, x, y)) + Cardinality(PairsIn(walk, x, y))
           + One(walk # <<>> /\ x = a /\ y = walk[1]) + Cardinality(LeftBetween(x, y))
           = Cardinality(EdgesBetween(x, y))
    BY <1>16 DEF Anchor, Counted
  <2>6. One(w = x /\ v = y) = One(x = w /\ y = v)
    BY DEF One
  <2>7. Cardinality(LeftBetween(x, y)') = Cardinality(LeftBetween(x, y)) - One(x = w /\ y = v)
    BY <1>8
  <2>8. /\ One(walk' # <<>> /\ x = a /\ y = walk'[1]) = One(walk # <<>> /\ x = a /\ y = walk[1])
        /\ One(walk # <<>> /\ x = a /\ y = walk[1]) \in Nat /\ One(x = w /\ y = v) \in Nat
    BY <1>2 DEF One
  <2> QED  BY <1>2, <2>1, <2>2, <2>3, <2>4, <2>5, <2>6, <2>7, <2>8
<1>19. Anchor(a)'
  BY <1>2, <1>9, <1>16, <1>17, <1>18 DEF Anchor
<1> QED  BY <1>2, <1>3, <1>12, <1>13, <1>14, <1>15, <1>19 DEF EulerInv, Anchored

LEMMA SequenceEquality ==
    ASSUME NEW A, NEW s \in Seq(A), NEW t \in Seq(A), Len(s) = Len(t),
           \A i \in 1..Len(s) : s[i] = t[i]
    PROVE  s = t
  OBVIOUS

LEMMA Popped ==
    ASSUME NEW A, NEW s \in Seq(A), Len(s) > 1
    PROVE  /\ Pop(s) \in Seq(A) /\ Len(Pop(s)) = Len(s) - 1 /\ Pop(s) # <<>>
           /\ \A i \in 1..(Len(s) - 1) : Pop(s)[i] = s[i]
           /\ s = Append(Pop(s), s[Len(s)]) /\ s[Len(s)] \in A
<1>1. Len(s) \in Nat /\ Len(s) - 1 \in Nat /\ \A i \in 1..Len(s) : s[i] \in A
  OBVIOUS
<1>2. /\ Pop(s) \in Seq(A) /\ Len(Pop(s)) = Len(s) - 1
      /\ \A i \in 1..(Len(s) - 1) : Pop(s)[i] = s[i]
  BY <1>1 DEF Pop
<1>3. Append(Pop(s), s[Len(s)]) \in Seq(A) /\ Len(Append(Pop(s), s[Len(s)])) = Len(s)
  BY <1>1, <1>2
<1>4. \A i \in 1..Len(s) : Append(Pop(s), s[Len(s)])[i] = s[i]
  BY <1>1, <1>2
<1> HIDE DEF Pop
<1>5. s = Append(Pop(s), s[Len(s)])
  BY <1>3, <1>4, SequenceEquality
<1> QED  BY <1>1, <1>2, <1>5

(* Nothing is left into or out of the anchor when the way ends there.       *)
LEMMA EndsAtAnchor ==
    ASSUME EulerInv, pc = "walk", stack # <<>>, adj[Top] = {},
           NEW a \in Agents(sdks), Anchor(a)
    PROVE  /\ Top = a
           /\ \A x \in Agents(sdks) : Cardinality(LeftInto(x)) = Cardinality(adj[x])
<1>1. Top \in Agents(sdks)
  BY WalkTyped
<1>2. Cardinality(adj[Top]) = 0
  BY FS_EmptySet
<1>3. \A x \in Agents(sdks) : Cardinality(LeftInto(x)) + One(stack # <<>> /\ x = Top)
                              = Cardinality(adj[x]) + One(stack # <<>> /\ x = a)
  BY DEF Anchor, Residue
<1>4. \A x \in Agents(sdks) : Cardinality(LeftInto(x)) \in Nat /\ Cardinality(adj[x]) \in Nat
  BY LeftFinite
<1>5. Top = a
  <2>1. Cardinality(LeftInto(Top)) + 1 = Cardinality(adj[Top]) + One(stack # <<>> /\ Top = a)
    BY <1>1, <1>3 DEF One
  <2>2. Cardinality(LeftInto(Top)) \in Nat
    BY <1>1, <1>4
  <2> QED  BY <1>2, <2>1, <2>2 DEF One
<1> QED  BY <1>3, <1>4, <1>5 DEF One

LEMMA RetreatKeeps == EulerInv /\ Retreat => EulerInv'
<1> SUFFICES ASSUME EulerInv, Retreat PROVE EulerInv'
  OBVIOUS
<1>1. /\ pc = "walk" /\ Len(stack) > 1 /\ adj[Top] = {}
      /\ walk' = <<Top>> \o walk /\ stack' = Pop(stack)
      /\ UNCHANGED <<sdks, edges, pc, adj, frontier, comp, comps, circuits>>
  BY DEF Retreat
<1>2. stack # <<>>
  BY <1>1
<1>3. /\ Graph' /\ Target' = Target /\ \A x : Reach(x)' = Reach(x)
      /\ Traversable(sdks, edges)' = Traversable(sdks, edges)
  BY <1>1, SameGraph DEF EulerInv
<1>4. /\ stack \in Seq(Agents(sdks)) /\ walk \in Seq(Agents(sdks)) /\ Len(stack) \in Nat \ {0}
      /\ Top \in Agents(sdks) /\ Top \in Current /\ stack[1] \in Agents(sdks)
      /\ Current = Reach(stack[1])
  BY <1>1, <1>2, WalkTyped
<1>5. PICK t \in Agents(sdks) : t = Top
  BY <1>4
<1>6. /\ stack' \in Seq(Agents(sdks)) /\ Len(stack') = Len(stack) - 1 /\ stack' # <<>>
      /\ \A i \in 1..(Len(stack) - 1) : stack'[i] = stack[i]
      /\ stack = Append(stack', t)
  BY <1>1, <1>4, <1>5, Popped DEF Top
<1>7. stack'[1] = stack[1] /\ Top' \in Agents(sdks) /\ Agents(stack') \subseteq Agents(stack)
  <2>1. Len(stack') \in Nat \ {0}
    BY <1>6
  <2>2. Top' \in Agents(sdks)
    BY <1>6, <2>1 DEF Top
  <2> QED  BY <1>1, <1>4, <1>6, <2>1, <2>2 DEF Agents
<1>8. PICK b \in Agents(sdks) : b = Top'
  BY <1>7
<1>9. /\ walk' = <<t>> \o walk /\ walk' \in Seq(Agents(sdks)) /\ walk' # <<>> /\ walk'[1] = t
      /\ walk # <<>> => walk'[Len(walk')] = walk[Len(walk)]
      /\ walk = <<>> => walk'[Len(walk')] = t
      /\ Agents(walk') = {t} \cup Agents(walk)
  <2>1. walk' = <<t>> \o walk /\ walk' \in Seq(Agents(sdks)) /\ Len(walk') = Len(walk) + 1
    BY <1>1, <1>4, <1>5
  <2>2. walk'[1] = t /\ \A i \in 1..Len(walk) : walk'[i + 1] = walk[i]
    BY <1>4, <2>1
  <2>3. Agents(walk') = {t} \cup Agents(walk)
    <3>1. DOMAIN walk' = 1..(Len(walk) + 1) /\ DOMAIN walk = 1..Len(walk) /\ Len(walk) \in Nat
      BY <1>4, <2>1
    <3>2. \A j \in DOMAIN walk' : j = 1 \/ (j - 1 \in DOMAIN walk /\ walk'[j] = walk[j - 1])
      BY <2>2, <3>1
    <3>3. \A i \in DOMAIN walk : i + 1 \in DOMAIN walk' /\ walk'[i + 1] = walk[i]
      BY <2>2, <3>1
    <3>4. 1 \in DOMAIN walk'
      BY <3>1
    <3> QED  BY <2>2, <3>2, <3>3, <3>4 DEF Agents
  <2> QED  BY <1>4, <2>1, <2>2, <2>3
<1>10. Current' = Current /\ Left' = Left
  BY <1>1, <1>2, <1>3, <1>6, <1>7 DEF Current, Reach, Left
<1>11. PICK a \in Agents(sdks) : Anchor(a)
  BY <1>1 DEF EulerInv, Anchored
<1>12. t = a /\ \A x \in Agents(sdks) : Cardinality(LeftInto(x)) = Cardinality(adj[x])
  BY <1>1, <1>2, <1>5, <1>11, EndsAtAnchor
<1>13. Typed' /\ Phased'
  BY <1>1, <1>3, <1>6, <1>9 DEF EulerInv, Typed, Phased, Component
<1>14. Searched' /\ Whole'
  BY <1>1, <1>3 DEF EulerInv, Searched, Whole, HasEdge, EntryAlone
<1>15. KeptApart'
  BY <1>1, <1>10 DEF EulerInv, KeptApart, CircuitsApart
<1>16. WalkedWithin'
  <2>1. Visited' = Visited
    BY <1>1 DEF Visited
  <2>2. \A u \in Agents(walk') : adj'[u] = {}
    BY <1>1, <1>2, <1>5, <1>9 DEF EulerInv, WalkedWithin
  <2>3. Agents(stack') \cup Agents(walk') \subseteq Current'
    BY <1>2, <1>4, <1>5, <1>7, <1>9, <1>10 DEF EulerInv, WalkedWithin
  <2>4. walk'[Len(walk')] = stack'[1]
    <3>1. walk = <<>> => a = stack[1]
      BY <1>2, <1>11 DEF Anchor
    <3>2. walk # <<>> => walk[Len(walk)] = stack[1]
      BY <1>2 DEF EulerInv, WalkedWithin
    <3> QED  BY <1>7, <1>9, <1>12, <3>1, <3>2
  <2>5. sdks'[1] \in Current' => stack'[1] = sdks'[1]
    BY <1>1, <1>2, <1>7, <1>10 DEF EulerInv, WalkedWithin
  <2>6. \E k \in DOMAIN Target' : Target'[k][1] \in Current'
    BY <1>2, <1>3, <1>10 DEF EulerInv, WalkedWithin, HasEdge
  <2>7. \A k \in Left' : Target'[k][1] \in Visited' \cup Current'
    BY <1>1, <1>3, <1>10, <2>1 DEF EulerInv, WalkedWithin
  <2> QED  BY <2>2, <2>3, <2>4, <2>5, <2>6, <2>7 DEF WalkedWithin, HasEdge
<1>17. Residue(b)'
  <2>1. \A x : LeftInto(x)' = LeftInto(x)
    BY <1>3, <1>10 DEF LeftInto
  <2> QED  BY <1>1, <1>8, <1>12, <2>1 DEF Residue, One
<1>18. Counted(b)'
  <2> SUFFICES ASSUME NEW x \in Agents(sdks), NEW y \in Agents(sdks)
               PROVE  /\ IsFiniteSet(StepsBetween(circuits', x, y))
                      /\ Cardinality(StepsBetween(circuits', x, y))
                         + Cardinality(PairsIn(stack', x, y)) + Cardinality(PairsIn(walk', x, y))
                         + One(walk' # <<>> /\ x = b /\ y = walk'[1]) + Cardinality(LeftBetween(x, y)')
                         = Cardinality(EdgesBetween(x, y)')
    BY <1>1 DEF Counted
  <2>1. Cardinality(PairsIn(stack, x, y)) = Cardinality(PairsIn(stack', x, y)) + One(b = x /\ t = y)
    BY <1>6, <1>8, PairsAppend DEF Top
  <2>2. Cardinality(PairsIn(walk', x, y))
        = Cardinality(PairsIn(walk, x, y)) + One(walk # <<>> /\ t = x /\ walk[1] = y)
    BY <1>4, <1>9, PairsPrepend
  <2>3. /\ Cardinality(StepsBetween(circuits, x, y)) \in Nat
        /\ Cardinality(PairsIn(walk, x, y)) \in Nat /\ Cardinality(PairsIn(stack', x, y)) \in Nat
        /\ Cardinality(LeftBetween(x, y)) \in Nat
    BY <1>1, <1>4, <1>6, <1>11, LeftFinite, PairsFinite, FS_CardinalityType DEF Anchor, Counted
  <2>4. EdgesBetween(x, y)' = EdgesBetween(x, y) /\ LeftBetween(x, y)' = LeftBetween(x, y)
    BY <1>3, <1>10 DEF EdgesBetween, LeftBetween
  <2>5. /\ IsFiniteSet(StepsBetween(circuits, x, y))
        /\ Cardinality(StepsBetween(circuits, x, y))
           + Cardinality(PairsIn(stack, x, y)) + Cardinality(PairsIn(walk, x, y))
           + One(walk # <<>> /\ x = a /\ y = walk[1]) + Cardinality(LeftBetween(x, y))
           = Cardinality(EdgesBetween(x, y))
    BY <1>11 DEF Anchor, Counted
  <2>6. /\ One(walk # <<>> /\ t = x /\ walk[1] = y) = One(walk # <<>> /\ x = a /\ y = walk[1])
        /\ One(walk' # <<>> /\ x = b /\ y = walk'[1]) = One(b = x /\ t = y)
        /\ One(walk # <<>> /\ x = a /\ y = walk[1]) \in Nat /\ One(b = x /\ t = y) \in Nat
    BY <1>9, <1>12 DEF One
  <2> QED  BY <1>1, <2>1, <2>2, <2>3, <2>4, <2>5, <2>6
<1>19. Anchor(b)'
  BY <1>9, <1>17, <1>18 DEF Anchor
<1> QED  BY <1>1, <1>3, <1>8, <1>13, <1>14, <1>15, <1>16, <1>19 DEF EulerInv, Anchored

(* A step of a walk joins two of its agents. *)
LEMMA StepJoins ==
    ASSUME NEW A, NEW ws \in Seq(Seq(A)), NEW u, NEW v, NEW s \in StepsBetween(ws, u, v)
    PROVE  s[1] \in DOMAIN ws /\ u \in Agents(ws[s[1]]) /\ v \in Agents(ws[s[1]])
<1>1. PICK k \in DOMAIN ws : \E i \in 1..(Len(ws[k]) - 1) : s = <<k, i>>
  BY DEF StepsBetween, Steps
<1>2. PICK i \in 1..(Len(ws[k]) - 1) : s = <<k, i>>
  BY <1>1
<1>3. ws[k][i] = u /\ ws[k][i + 1] = v
  BY <1>2 DEF StepsBetween
<1>4. ws[k] \in Seq(A) /\ i \in DOMAIN ws[k] /\ i + 1 \in DOMAIN ws[k]
  BY <1>1, <1>2
<1> QED  BY <1>2, <1>3, <1>4 DEF Agents

(* An edge that is not left has been walked, if walks and edges left add up. *)
LEMMA WalkedSomewhere ==
    ASSUME EulerInv, pc = "walk", NEW ws, NEW k \in DOMAIN Target, k \notin Left,
           NEW u \in Agents(sdks), NEW v \in Agents(sdks), Target[k] = <<u, v>>,
           IsFiniteSet(StepsBetween(ws, u, v)),
           Cardinality(StepsBetween(ws, u, v)) + Cardinality(LeftBetween(u, v))
               = Cardinality(EdgesBetween(u, v))
    PROVE  \E s : s \in StepsBetween(ws, u, v)
<1>1. LeftBetween(u, v) \in SUBSET EdgesBetween(u, v) /\ LeftBetween(u, v) # EdgesBetween(u, v)
  BY DEF LeftBetween, EdgesBetween, Left
<1>2. IsFiniteSet(EdgesBetween(u, v)) /\ Cardinality(EdgesBetween(u, v)) \in Nat
  BY UsableGraph, EdgesFinite DEF EdgesBetween
<1>3. Cardinality(LeftBetween(u, v)) < Cardinality(EdgesBetween(u, v)) /\ Cardinality(LeftBetween(u, v)) \in Nat
  <2>1. /\ Cardinality(LeftBetween(u, v)) <= Cardinality(EdgesBetween(u, v))
        /\ Cardinality(EdgesBetween(u, v)) # Cardinality(LeftBetween(u, v))
    BY <1>1, <1>2, FS_Subset
  <2>2. Cardinality(LeftBetween(u, v)) \in Nat
    BY LeftFinite
  <2> QED  BY <1>2, <2>1, <2>2
<1>4. Cardinality(StepsBetween(ws, u, v)) # 0
  BY <1>2, <1>3
<1> QED  BY <1>4, FS_EmptySet

LEMMA CloseWalkKeeps == EulerInv /\ CloseWalk => EulerInv'
<1> SUFFICES ASSUME EulerInv, CloseWalk PROVE EulerInv'
  OBVIOUS
<1>1. /\ pc = "walk" /\ Len(stack) = 1 /\ adj[Top] = {}
      /\ circuits' = Append(circuits, <<Top>> \o walk) /\ stack' = <<>> /\ walk' = <<>>
      /\ pc' = (IF comps = <<>> THEN "done" ELSE "walk")
      /\ UNCHANGED <<sdks, edges, adj, frontier, comp, comps>>
  BY DEF CloseWalk
<1>2. stack # <<>> /\ Top = stack[1]
  <2>1. Len(<<>>) = 0
    OBVIOUS
  <2>2. stack # <<>>
    <3> SUFFICES ASSUME stack = <<>> PROVE FALSE
      OBVIOUS
    <3>1. Len(stack) = 0
      BY <2>1
    <3> QED  BY <1>1, <3>1
  <2>3. Top = stack[1]
    BY <1>1 DEF Top
  <2> QED  BY <2>2, <2>3
<1>3. /\ Graph' /\ Target' = Target /\ \A x : Reach(x)' = Reach(x)
      /\ Traversable(sdks, edges)' = Traversable(sdks, edges)
  BY <1>1, SameGraph DEF EulerInv
<1>4. /\ stack \in Seq(Agents(sdks)) /\ walk \in Seq(Agents(sdks))
      /\ Top \in Agents(sdks) /\ Top \in Current /\ Current = Reach(stack[1])
      /\ Target \in Seq(Agents(sdks) \X Agents(sdks))
  BY <1>1, <1>2, WalkTyped, UsableGraph
<1>5. circuits \in Seq(Seq(Agents(sdks)) \ {<<>>}) /\ circuits \in Seq(Seq(Agents(sdks)))
  BY DEF EulerInv, Typed
<1>6. PICK t \in Agents(sdks) : t = Top
  BY <1>4
<1> DEFINE C == <<t>> \o walk
<1>7. /\ C \in Seq(Agents(sdks)) /\ C # <<>> /\ C[1] = t /\ Agents(C) = {t} \cup Agents(walk)
      /\ walk = <<>> => C[Len(C)] = t
      /\ walk # <<>> => C[Len(C)] = walk[Len(walk)]
  <2>1. C \in Seq(Agents(sdks)) /\ Len(C) = Len(walk) + 1 /\ Len(walk) \in Nat
    BY <1>4
  <2>2. C[1] = t /\ \A i \in 1..Len(walk) : C[i + 1] = walk[i]
    BY <1>4
  <2> HIDE DEF C
  <2>3. Agents(C) = {t} \cup Agents(walk)
    <3>1. DOMAIN C = 1..(Len(walk) + 1) /\ DOMAIN walk = 1..Len(walk)
      BY <1>4, <2>1
    <3>2. \A j \in DOMAIN C : j = 1 \/ (j - 1 \in DOMAIN walk /\ C[j] = walk[j - 1])
      BY <2>1, <2>2, <3>1
    <3>3. \A i \in DOMAIN walk : i + 1 \in DOMAIN C /\ C[i + 1] = walk[i]
      BY <2>1, <2>2, <3>1
    <3>4. 1 \in DOMAIN C
      BY <2>1, <3>1
    <3> QED  BY <2>2, <3>2, <3>3, <3>4 DEF Agents
  <2> QED  BY <1>4, <2>1, <2>2, <2>3
<1>8. /\ circuits' \in Seq(Seq(Agents(sdks)) \ {<<>>}) /\ circuits' \in Seq(Seq(Agents(sdks)))
      /\ DOMAIN circuits' = DOMAIN circuits \cup {Len(circuits) + 1}
      /\ Len(circuits) + 1 \notin DOMAIN circuits
      /\ circuits'[Len(circuits) + 1] = C
      /\ \A k \in DOMAIN circuits : circuits'[k] = circuits[k]
  <2>1. circuits' = Append(circuits, C)
    BY <1>1, <1>6
  <2> HIDE DEF C
  <2> QED  BY <1>5, <1>7, <2>1
<1>9. PICK a \in Agents(sdks) : Anchor(a)
  BY <1>1 DEF EulerInv, Anchored
<1>10. t = a /\ \A x \in Agents(sdks) : Cardinality(LeftInto(x)) = Cardinality(adj[x])
  BY <1>1, <1>2, <1>6, <1>9, EndsAtAnchor
<1>11. \A x \in Agents(C) : x \in Agents(sdks) /\ x \in Current /\ adj[x] = {} /\ LeftInto(x) = {}
  <2> SUFFICES ASSUME NEW x \in Agents(C)
               PROVE  x \in Agents(sdks) /\ x \in Current /\ adj[x] = {} /\ LeftInto(x) = {}
    OBVIOUS
  <2>1. x \in Agents(sdks)
    BY <1>4, <1>7 DEF Agents
  <2>2. x \in Current /\ adj[x] = {}
    BY <1>1, <1>2, <1>4, <1>6, <1>7 DEF EulerInv, WalkedWithin
  <2>3. Cardinality(LeftInto(x)) = 0 /\ IsFiniteSet(LeftInto(x))
    BY <1>1, <1>10, <2>1, <2>2, LeftFinite, FS_EmptySet
  <2> QED  BY <2>1, <2>2, <2>3, FS_EmptySet
<1>12. \A x, y \in Agents(sdks) :
          /\ IsFiniteSet(StepsBetween(circuits', x, y))
          /\ Cardinality(StepsBetween(circuits', x, y)) + Cardinality(LeftBetween(x, y))
             = Cardinality(EdgesBetween(x, y))
          /\ Cardinality(StepsBetween(circuits', x, y)) \in Nat
          /\ Cardinality(LeftBetween(x, y)) \in Nat
  <2> SUFFICES ASSUME NEW x \in Agents(sdks), NEW y \in Agents(sdks)
               PROVE  /\ IsFiniteSet(StepsBetween(circuits', x, y))
                      /\ Cardinality(StepsBetween(circuits', x, y)) + Cardinality(LeftBetween(x, y))
                         = Cardinality(EdgesBetween(x, y))
                      /\ Cardinality(StepsBetween(circuits', x, y)) \in Nat
                      /\ Cardinality(LeftBetween(x, y)) \in Nat
    OBVIOUS
  <2>1. /\ IsFiniteSet(StepsBetween(circuits, x, y))
        /\ Cardinality(StepsBetween(circuits, x, y))
           + Cardinality(PairsIn(stack, x, y)) + Cardinality(PairsIn(walk, x, y))
           + One(walk # <<>> /\ x = a /\ y = walk[1]) + Cardinality(LeftBetween(x, y))
           = Cardinality(EdgesBetween(x, y))
    BY <1>9 DEF Anchor, Counted
  <2>2. /\ IsFiniteSet(StepsBetween(circuits', x, y))
        /\ Cardinality(StepsBetween(circuits', x, y))
           = Cardinality(StepsBetween(circuits, x, y)) + Cardinality(PairsIn(C, x, y))
    <3>1. circuits' = Append(circuits, C)
      BY <1>1, <1>6
    <3> HIDE DEF C
    <3> QED  BY <1>5, <1>7, <2>1, <3>1, StepsAppend
  <2>3. Cardinality(PairsIn(C, x, y))
        = Cardinality(PairsIn(walk, x, y)) + One(walk # <<>> /\ t = x /\ walk[1] = y)
    BY <1>4, PairsPrepend
  <2>4. Cardinality(PairsIn(stack, x, y)) = 0
    BY <1>1, FS_EmptySet DEF PairsIn
  <2>5. /\ Cardinality(StepsBetween(circuits, x, y)) \in Nat /\ Cardinality(LeftBetween(x, y)) \in Nat
        /\ Cardinality(PairsIn(walk, x, y)) \in Nat
    BY <1>1, <1>4, <2>1, LeftFinite, PairsFinite, FS_CardinalityType
  <2>6. /\ One(walk # <<>> /\ t = x /\ walk[1] = y) = One(walk # <<>> /\ x = a /\ y = walk[1])
        /\ One(walk # <<>> /\ x = a /\ y = walk[1]) \in Nat
    BY <1>10 DEF One
  <2> HIDE DEF C
  <2> QED  BY <2>1, <2>2, <2>3, <2>4, <2>5, <2>6
<1> HIDE DEF C
<1>13. Closed(Target, Agents(C))
  <2> SUFFICES ASSUME NEW k \in DOMAIN Target
               PROVE  Target[k][1] \in Agents(C) <=> Target[k][2] \in Agents(C)
    BY DEF Closed
  <2>1. PICK u \in Agents(sdks), v \in Agents(sdks) : Target[k] = <<u, v>>
    BY <1>4
  <2>2. ASSUME u \in Agents(C) \/ v \in Agents(C) PROVE u \in Agents(C) /\ v \in Agents(C)
    <3>1. k \notin Left
      BY <1>11, <2>1, <2>2 DEF Left, LeftInto
    <3>2. PICK s : s \in StepsBetween(circuits', u, v)
      BY <1>1, <1>12, <2>1, <3>1, WalkedSomewhere
    <3>3. s[1] \in DOMAIN circuits' /\ u \in Agents(circuits'[s[1]]) /\ v \in Agents(circuits'[s[1]])
      BY <1>8, <3>2, StepJoins
    <3>4. s[1] \notin DOMAIN circuits
      BY <1>8, <1>11, <2>2, <3>3 DEF EulerInv, KeptApart
    <3> QED  BY <1>8, <3>3, <3>4
  <2> QED  BY <2>1, <2>2
<1>14. Agents(C) = Current
  <2>1. Agents(C) \in SUBSET Agents(sdks) /\ t \in Agents(C) /\ Current = Reach(t)
    BY <1>2, <1>4, <1>6, <1>7, <1>11
  <2>2. Current \subseteq Agents(C)
    BY <1>4, <1>13, <2>1, ReachedBasics DEF Reach
  <2> QED  BY <1>11, <2>2
<1>15. Current' = {} /\ Left' = Left /\ Visited' = Visited
  BY <1>1, <1>3 DEF Current, Left, Visited
<1>16. Typed' /\ Phased'
  <2>1. Typed'
    BY <1>1, <1>3, <1>8 DEF EulerInv, Typed, Component
  <2> QED  BY <1>1, <1>3, <2>1 DEF EulerInv, Phased
<1>17. Searched'
  BY <1>1 DEF Searched
<1>18. Whole'
  <2>1. \A n \in DOMAIN comps' : comps'[n].nodes = Reach(comps'[n].first) /\ HasEdge({comps'[n].first})
    BY <1>1 DEF EulerInv, Whole
  <2>2. HasEdge(Current) /\ ~EntryAlone
    BY <1>2 DEF EulerInv, WalkedWithin, HasEdge, EntryAlone
  <2>3. C[1] = C[Len(C)] /\ (sdks[1] \in Current => C[1] = sdks[1]) /\ C[1] = stack[1]
    <3>1. walk # <<>> => walk[Len(walk)] = stack[1]
      BY <1>2 DEF EulerInv, WalkedWithin
    <3>2. sdks[1] \in Current => stack[1] = sdks[1]
      BY <1>2 DEF EulerInv, WalkedWithin
    <3> QED  BY <1>2, <1>6, <1>7, <3>1, <3>2
  <2>4. ASSUME NEW m \in DOMAIN circuits'
        PROVE  /\ Agents(circuits'[m]) = Reach(circuits'[m][1])
               /\ circuits'[m][1] = circuits'[m][Len(circuits'[m])]
               /\ sdks[1] \in Agents(circuits'[m]) => circuits'[m][1] = sdks[1]
               /\ HasEdge(Agents(circuits'[m]))
    <3>1. CASE m \in DOMAIN circuits
      BY <1>8, <2>2, <3>1 DEF EulerInv, Whole
    <3>2. CASE m = Len(circuits) + 1
      BY <1>4, <1>8, <1>14, <2>2, <2>3, <3>2
    <3> QED  BY <1>8, <3>1, <3>2
  <2> QED  BY <1>1, <1>3, <2>1, <2>4 DEF Whole, HasEdge
<1>19. KeptApart'
  <2>1. \A k \in DOMAIN comps, m \in DOMAIN circuits' : comps[k].nodes \cap Agents(circuits'[m]) = {}
    BY <1>8, <1>14 DEF EulerInv, KeptApart
  <2>2. \A k, m \in DOMAIN circuits' : k # m => Agents(circuits'[k]) \cap Agents(circuits'[m]) = {}
    BY <1>8, <1>14 DEF EulerInv, KeptApart, CircuitsApart
  <2> QED  BY <1>1, <1>15, <2>1, <2>2 DEF EulerInv, KeptApart, CircuitsApart
<1>20. WalkedWithin'
  <2>1. \A k \in Left : Target[k][1] \in Visited
    BY <1>1, <1>11, <1>14 DEF EulerInv, WalkedWithin, Left
  <2> QED  BY <1>1, <1>3, <1>15, <2>1 DEF WalkedWithin
<1>21. Residue(t)'
  <2>1. \A x : LeftInto(x)' = LeftInto(x)
    BY <1>3, <1>15 DEF LeftInto
  <2>2. \A x \in Agents(sdks) : Cardinality(LeftInto(x)) = Cardinality(adj[x]) /\ Cardinality(adj[x]) \in Nat
    BY <1>1, <1>10, LeftFinite
  <2> QED  BY <1>1, <2>1, <2>2 DEF Residue, One
<1>22. Counted(t)'
  <2> SUFFICES ASSUME NEW x \in Agents(sdks), NEW y \in Agents(sdks)
               PROVE  /\ IsFiniteSet(StepsBetween(circuits', x, y))
                      /\ Cardinality(StepsBetween(circuits', x, y))
                         + Cardinality(PairsIn(stack', x, y)) + Cardinality(PairsIn(walk', x, y))
                         + One(walk' # <<>> /\ x = t /\ y = walk'[1]) + Cardinality(LeftBetween(x, y)')
                         = Cardinality(EdgesBetween(x, y)')
    BY <1>1 DEF Counted
  <2>1. PairsIn(stack', x, y) = {} /\ PairsIn(walk', x, y) = {}
    BY <1>1 DEF PairsIn
  <2>2. One(walk' # <<>> /\ x = t /\ y = walk'[1]) = 0
    BY <1>1 DEF One
  <2>3. EdgesBetween(x, y)' = EdgesBetween(x, y) /\ LeftBetween(x, y)' = LeftBetween(x, y)
    BY <1>3, <1>15 DEF EdgesBetween, LeftBetween
  <2>4. Cardinality(PairsIn(stack', x, y)) = 0 /\ Cardinality(PairsIn(walk', x, y)) = 0
    BY <2>1, FS_EmptySet
  <2>5. /\ IsFiniteSet(StepsBetween(circuits', x, y))
        /\ Cardinality(StepsBetween(circuits', x, y)) + Cardinality(LeftBetween(x, y))
             = Cardinality(EdgesBetween(x, y))
        /\ Cardinality(StepsBetween(circuits', x, y)) \in Nat
        /\ Cardinality(LeftBetween(x, y)) \in Nat
    BY <1>12
  <2> QED  BY <2>2, <2>3, <2>4, <2>5
<1>23. Anchor(t)'
  BY <1>1, <1>21, <1>22 DEF Anchor
<1> QED  BY <1>1, <1>3, <1>16, <1>17, <1>18, <1>19, <1>20, <1>23 DEF EulerInv, Anchored

-----------------------------------------------------------------------------
LEMMA EulerStep == EulerInv /\ [EulerNext]_eulerVars => EulerInv'
<1>1. EulerInv /\ UNCHANGED eulerVars => EulerInv'
  <2> SUFFICES ASSUME EulerInv, UNCHANGED eulerVars PROVE EulerInv'
    OBVIOUS
  <2>1. UNCHANGED <<sdks, edges, pc, adj, frontier, comp, comps, stack, walk, circuits>>
    BY DEF eulerVars
  <2>2. /\ Graph' /\ Target' = Target /\ \A x : Reach(x)' = Reach(x)
        /\ Traversable(sdks, edges)' = Traversable(sdks, edges)
    BY <2>1, SameGraph DEF EulerInv
  <2>3. Left' = Left /\ Visited' = Visited /\ Current' = Current
    BY <2>1, <2>2 DEF Left, Visited, Current, Reach
  <2>4. Typed' /\ Phased'
    BY <2>1, <2>2 DEF EulerInv, Typed, Phased, Component
  <2>5. Searched'
    BY <2>1, <2>2, <2>3 DEF EulerInv, Searched, HasEdge, Neighbours, Component
  <2>6. Whole' /\ KeptApart'
    BY <2>1, <2>2, <2>3 DEF EulerInv, Whole, HasEdge, EntryAlone, KeptApart, CircuitsApart
  <2>7. WalkedWithin'
    BY <2>1, <2>2, <2>3 DEF EulerInv, WalkedWithin, HasEdge
  <2>8. Anchored'
    BY <2>1, StillAnchored DEF EulerInv, Anchored
  <2> QED  BY <2>2, <2>4, <2>5, <2>6, <2>7, <2>8 DEF EulerInv
<1> QED  BY <1>1, RefuseKeeps, AcceptKeeps, OpenComponentKeeps, VisitAgentKeeps, CloseComponentKeeps,
            DecomposedKeeps, OpenWalkKeeps, AdvanceKeeps, RetreatKeeps, CloseWalkKeeps DEF EulerNext

LEMMA EulerInvPromises == EulerInv => EulerPromise
<1> SUFFICES ASSUME EulerInv PROVE EulerPromise
  OBVIOUS
<1>1. WalksEachEdgeOnce
  <2> SUFFICES ASSUME pc = "done",  NEW u \in Agents(sdks), NEW v \in Agents(sdks)
               PROVE  Cardinality(StepsBetween(circuits, u, v)) = Cardinality(EdgesBetween(u, v))
    BY DEF WalksEachEdgeOnce, EulerInv, Whole
  <2>1. stack = <<>> /\ walk = <<>> /\ comps = <<>>
    BY DEF EulerInv, Phased
  <2>2. Left = {}
    BY <2>1 DEF EulerInv, WalkedWithin, Visited, Current
  <2>3. PICK a \in Agents(sdks) : Anchor(a)
    BY DEF EulerInv, Anchored
  <2>4. /\ Cardinality(PairsIn(stack, u, v)) = 0 /\ Cardinality(PairsIn(walk, u, v)) = 0
        /\ Cardinality(LeftBetween(u, v)) = 0
    <3>1. PairsIn(stack, u, v) = {} /\ PairsIn(walk, u, v) = {} /\ LeftBetween(u, v) = {}
      BY <2>1, <2>2 DEF PairsIn, LeftBetween
    <3> QED  BY <3>1, FS_EmptySet
  <2>5. /\ IsFiniteSet(StepsBetween(circuits, u, v))
        /\ Cardinality(StepsBetween(circuits, u, v))
           + Cardinality(PairsIn(stack, u, v)) + Cardinality(PairsIn(walk, u, v))
           + One(walk # <<>> /\ u = a /\ v = walk[1]) + Cardinality(LeftBetween(u, v))
           = Cardinality(EdgesBetween(u, v))
    BY <2>3 DEF Anchor, Counted
  <2>6. One(walk # <<>> /\ u = a /\ v = walk[1]) = 0
    BY <2>1 DEF One
  <2>7. Cardinality(StepsBetween(circuits, u, v)) \in Nat
    BY <2>5, FS_CardinalityType
  <2> QED  BY <2>4, <2>5, <2>6, <2>7
<1>2. CircuitsApart
  BY DEF EulerInv, KeptApart
<1>3. RefusedForCause
  <2> SUFFICES ASSUME pc = "refused", Given(edges) => InRange(edges, sdks), Arrangeable
               PROVE  FALSE
    BY DEF RefusedForCause
  <2>1. Graph /\ ~Traversable(sdks, edges)
    BY DEF EulerInv, Phased
  <2> QED  BY <2>1, ArrangeableBalances DEF Traversable, Target
<1> QED  BY <1>1, <1>2, <1>3 DEF EulerPromise

(* Hierholzer's algorithm keeps its promise for every graph                 *)
(* (__init__.py:236-322): its circuits walk every edge as often as it is     *)
(* given, no two share an agent, and a refusal is the graph's fault.         *)
THEOREM EulerPromiseKept == EulerSpec => []EulerPromise
  BY EulerInit, EulerStep, EulerInvPromises, PTL DEF EulerSpec

-----------------------------------------------------------------------------
(* A traversal builds its instruction as Euler says.                        *)
LEMMA TStepIsEulerStep == [TNext]_allVars => [EulerNext]_eulerVars
  BY DEF TNext, Own, Begin, ServerReady, ServerFails, Build, Built, Send, Answered, Read, Deadline,
         Teardown, TakeHop, EndChain, HopFails, Reply, Push, allVars

(* create_test_suite inside the traversal (testlib.py:386-411) is the walk   *)
(* of Euler, whatever else the traversal does meanwhile.                      *)
THEOREM TraversalBuildsAsEuler == TSpec => EulerSpec
<1>1. TInit => Init
  BY DEF TInit
<1> QED  BY <1>1, TStepIsEulerStep, PTL DEF TSpec, EulerSpec

(* Nobody is attached but by edges: one circuit, the entry agent's.         *)
LEMMA OneCircuit ==
    ASSUME EulerInv, pc = "done", Attached
    PROVE  /\ DOMAIN circuits = {1} /\ Len(circuits) = 1 /\ circuits[1][1] = sdks[1]
           /\ circuits[1] \in Seq(Agents(sdks)) \ {<<>>}
<1>1. /\ circuits \in Seq(Seq(Agents(sdks)) \ {<<>>}) /\ circuits \in Seq(Seq(Agents(sdks)))
      /\ circuits # <<>> /\ comps = <<>> /\ stack = <<>>
  BY DEF EulerInv, Typed, Phased
<1>2. /\ Target \in Seq(Agents(sdks) \X Agents(sdks)) /\ sdks[1] \in Agents(sdks)
  BY UsableGraph
<1>3. \A S \in SUBSET Agents(sdks) : sdks[1] \in S /\ Closed(Target, S)
                                     => \A k \in DOMAIN Target : Target[k][1] \in S
  BY DEF Attached, Closed
<1>4. \E m \in DOMAIN circuits : sdks[1] \in Agents(circuits[m])
  <2> SUFFICES ASSUME \A m \in DOMAIN circuits : sdks[1] \notin Agents(circuits[m])
               PROVE  FALSE
    OBVIOUS
  <2>1. Closed(Target, {sdks[1]})
    <3> SUFFICES ASSUME NEW k \in DOMAIN Target,
                        Target[k][1] = sdks[1] \/ Target[k][2] = sdks[1]
                 PROVE  FALSE
      BY DEF Closed
    <3>1. PICK u \in Agents(sdks), v \in Agents(sdks) : Target[k] = <<u, v>>
      BY <1>2
    <3>2. Cardinality(StepsBetween(circuits, u, v)) = Cardinality(EdgesBetween(u, v))
      BY EulerInvPromises DEF EulerPromise, WalksEachEdgeOnce
    <3>3. Cardinality(EdgesBetween(u, v)) # 0
      <4>1. k \in EdgesBetween(u, v) /\ IsFiniteSet(EdgesBetween(u, v))
        BY <1>2, <3>1, EdgesFinite DEF EdgesBetween
      <4> QED  BY <4>1, FS_EmptySet
    <3>4. PICK s : s \in StepsBetween(circuits, u, v)
      BY <3>2, <3>3, FS_EmptySet
    <3>5. s[1] \in DOMAIN circuits /\ u \in Agents(circuits[s[1]]) /\ v \in Agents(circuits[s[1]])
      BY <1>1, <3>4, StepJoins
    <3> QED  BY <3>1, <3>5
  <2>2. \A k \in DOMAIN Target : Target[k][1] = sdks[1]
    BY <1>2, <1>3, <2>1
  <2>3. 1 \in DOMAIN circuits
    BY <1>1
  <2>4. ~HasEdge(Agents(circuits[1]))
    BY <2>2, <2>3 DEF HasEdge
  <2>5. circuits = <<<<sdks[1]>>>>
    BY <2>3, <2>4 DEF EulerInv, Whole, EntryAlone
  <2>6. circuits[1] = <<sdks[1]>>
    BY <2>5
  <2>7. sdks[1] \in Agents(circuits[1])
    BY <2>6 DEF Agents
  <2> QED  BY <2>3, <2>7
<1>5. PICK m \in DOMAIN circuits : sdks[1] \in Agents(circuits[m])
  BY <1>4
<1>6. circuits[m][1] = sdks[1] /\ Agents(circuits[m]) = Reach(circuits[m][1])
  BY <1>5 DEF EulerInv, Whole
<1>7. \A k \in DOMAIN Target : Target[k][1] \in Agents(circuits[m])
  <2>1. Closed(Target, Agents(circuits[m])) /\ Agents(circuits[m]) \in SUBSET Agents(sdks)
    BY <1>2, <1>6, ReachedBasics DEF Reach
  <2> QED  BY <1>3, <1>5, <2>1
<1>8. \A j \in DOMAIN circuits : j = m
  <2> SUFFICES ASSUME NEW j \in DOMAIN circuits, j # m PROVE FALSE
    OBVIOUS
  <2>1. Agents(circuits[j]) \cap Agents(circuits[m]) = {}
    BY DEF EulerInv, KeptApart, CircuitsApart
  <2>2. ~HasEdge(Agents(circuits[j]))
    BY <1>7, <2>1 DEF HasEdge
  <2>3. circuits = <<<<sdks[1]>>>>
    BY <2>2 DEF EulerInv, Whole, EntryAlone
  <2>4. DOMAIN circuits = {1}
    BY <2>3
  <2> QED  BY <2>4
<1>9. DOMAIN circuits = 1..Len(circuits) /\ Len(circuits) \in Nat
  BY <1>1
<1>10. Len(circuits) = 1 /\ m = 1
  <2>1. 1 \in DOMAIN circuits /\ Len(circuits) \in DOMAIN circuits
    BY <1>1, <1>9
  <2> QED  BY <1>8, <2>1
<1> QED  BY <1>1, <1>6, <1>9, <1>10

-----------------------------------------------------------------------------
(* The instruction is built, and stays as it is. *)
Instructed == protocols = 0 \/ pc = "done"

TravInv ==
    /\ protocols \in Nat
    /\ phase \in {"begin", "starting", "build", "send", "wait", "read"} => verdict = Nothing
    /\ phase \in {"begin", "starting", "build"} => reply = Nothing
    /\ phase \in {"send", "wait", "read"} \/ reply # Nothing => Instructed
    /\ verdict = "pass" => Instructed /\ \A k \in 1..Chains : Terminated(k)

LEMMA ChainsTyped ==
    ASSUME EulerInv, protocols \in Nat, pc = "done"
    PROVE  /\ Len(circuits) \in Nat \ {0} /\ Chains \in Nat
           /\ protocols > 0 => Chains > 0
           /\ \A k \in 1..Chains : Hops(k) \in Nat
<1>1. circuits \in Seq(Seq(Agents(sdks)) \ {<<>>}) /\ circuits # <<>>
  BY DEF EulerInv, Typed, Phased
<1>2. Len(circuits) \in Nat \ {0}
  BY <1>1
<1>3. Chains \in Nat /\ (protocols > 0 => Chains > 0)
  BY <1>2 DEF Chains
<1>4. \A k \in 1..Chains : Hops(k) \in Nat
  <2> TAKE k \in 1..Chains
  <2> DEFINE m == ((k - 1) % Len(circuits)) + 1
  <2>1. m \in 1..Len(circuits)
    BY <1>2, <1>3
  <2>2. circuits[m] \in Seq(Agents(sdks)) \ {<<>>}
    BY <1>1, <2>1
  <2>3. Hops(k) = Len(circuits[m]) - 1
    BY DEF Hops, Circuit
  <2> HIDE DEF m
  <2> QED  BY <2>2, <2>3
<1> QED  BY <1>2, <1>3, <1>4

(* Without protocols there are no chains either. *)
LEMMA NoChains == EulerInv /\ protocols = 0 => Chains = 0
<1> SUFFICES ASSUME EulerInv, protocols = 0 PROVE Chains = 0
  OBVIOUS
<1>1. Len(circuits) \in Nat
  BY DEF EulerInv, Typed
<1> QED  BY <1>1 DEF Chains

(* The state a chain begins with ends in the terminal token of its transport. *)
LEMMA PushTerminates ==
    ASSUME EulerInv, protocols \in Nat, Instructed, NEW texts, PushVerdict(texts),
           NEW k \in 1..Chains
    PROVE  Terminated(k)
<1>1. Hops(k) \in Nat
  <2>1. CASE protocols = 0
    BY <2>1, NoChains
  <2>2. CASE pc = "done"
    BY <2>2, ChainsTyped
  <2> QED  BY <2>1, <2>2 DEF Instructed
<1>2. <<k, 0>> \in States
  BY <1>1 DEF States
<1>3. PICK t \in texts : TextHas(t, <<k, 0>>)
  BY <1>2 DEF PushVerdict
<1>4. CASE EndsOf(t, k)
  BY <1>4 DEF EndsOf, Terminated
<1>5. CASE \E m \in 1..Chains : Transport(m) = Transport(k) /\ EndsOf(t, m)
  BY <1>5 DEF EndsOf, Terminated
<1> QED  BY <1>3, <1>4, <1>5 DEF TextHas

-----------------------------------------------------------------------------
LEMMA TravInit == TInit => TravInv
<1> SUFFICES ASSUME TInit PROVE TravInv
  OBVIOUS
<1>1. protocols \in Nat
  BY CaseAssumption DEF TInit
<1> QED  BY <1>1 DEF TInit, TravInv, Nothing

LEMMA SameChains ==
    ASSUME circuits' = circuits, protocols' = protocols
    PROVE  Chains' = Chains
  BY DEF Chains

LEMMA SameTermination ==
    ASSUME circuits' = circuits, protocols' = protocols, reached' = reached
    PROVE  \A k : Terminated(k)' <=> Terminated(k)
<1>1. Chains' = Chains /\ \A k : Hops(k)' = Hops(k) /\ Transport(k)' = Transport(k)
  BY DEF Chains, Hops, Circuit, Transport
<1> QED  BY <1>1 DEF Terminated, Ended

(* Nothing has come or gone while the instruction is built. *)
LEMMA BuildKeeps == TravInv /\ Build => TravInv'
<1> SUFFICES ASSUME TravInv, Build PROVE TravInv'
  OBVIOUS
<1>1. /\ phase = "build" /\ phase' = phase /\ reply = Nothing /\ reply' = reply
      /\ verdict = Nothing /\ verdict' = verdict /\ protocols' = protocols
  BY DEF Build, runVars, TravInv
<1> QED  BY <1>1 DEF TravInv, Nothing

(* The agents walk while there is no verdict yet. *)
LEMMA WalkKeeps == TravInv /\ (TakeHop \/ EndChain \/ HopFails \/ Reply) => TravInv'
<1> SUFFICES ASSUME TravInv, TakeHop \/ EndChain \/ HopFails \/ Reply PROVE TravInv'
  OBVIOUS
<1>1. /\ phase = "wait" /\ phase' = phase /\ pc' = pc /\ protocols' = protocols
      /\ verdict' = verdict
  BY DEF TakeHop, EndChain, HopFails, Reply, Walking, eulerVars
<1>2. verdict = Nothing /\ Instructed /\ protocols \in Nat
  BY <1>1 DEF TravInv
<1> QED  BY <1>1, <1>2 DEF TravInv, Instructed, Nothing

(* Either check passes only a walk that came to the end of every transport.  *)
LEMMA VerdictKeeps == EulerInv /\ TravInv /\ (Answered \/ Read) => TravInv'
<1> SUFFICES ASSUME EulerInv, TravInv, Answered \/ Read PROVE TravInv'
  OBVIOUS
<1>1. /\ pc' = pc /\ protocols' = protocols /\ circuits' = circuits /\ reached' = reached
      /\ reply' = reply /\ phase \in {"wait", "read"}
      /\ phase' = "teardown" \/ (phase' = "read" /\ verdict' = verdict)
  BY DEF Answered, Read, eulerVars
<1>2. protocols \in Nat /\ Instructed /\ verdict = Nothing
  BY <1>1 DEF TravInv
<1>3. ASSUME verdict' = "pass" PROVE \A k \in 1..Chains : Terminated(k)
  <2>1. CASE Answered
    <3>1. TokensFound
      BY <1>2, <1>3, <2>1 DEF Answered, Verdict, Nothing
    <3> QED  BY <3>1 DEF TokensFound
  <2>2. CASE Read
    <3>1. PICK texts \in {stored, {}} : PushVerdict(texts)
      BY <1>3, <2>2 DEF Read, Verdict
    <3> QED  BY <1>2, <3>1, PushTerminates
  <2> QED  BY <2>1, <2>2
<1>4. Chains' = Chains /\ \A k : Terminated(k)' <=> Terminated(k)
  BY <1>1, SameChains, SameTermination
<1>5. Instructed' /\ protocols' \in Nat
  BY <1>1, <1>2 DEF Instructed
<1>6. verdict' = "pass" => \A k \in 1..Chains' : Terminated(k)'
  BY <1>3, <1>4
<1> QED  BY <1>1, <1>2, <1>5, <1>6 DEF TravInv

(* The others leave the walk alone and pass nothing.                         *)
LEMMA OthersKeep ==
    ASSUME TravInv, UNCHANGED eulerVars,
           \/ Begin \/ ServerReady \/ ServerFails \/ Built \/ Send \/ Deadline \/ Teardown
           \/ (\E t \in Tasks : Push(t)) \/ UNCHANGED runVars
    PROVE  TravInv'
<1>1. pc' = pc /\ circuits' = circuits /\ protocols' = protocols /\ reached' = reached
  BY DEF eulerVars, runVars, Begin, ServerReady, ServerFails, Built, Send, Deadline, Teardown, Push
<1>2. Chains' = Chains /\ \A k : Terminated(k)' <=> Terminated(k)
  BY <1>1, SameChains, SameTermination
<1>3. Instructed' <=> Instructed
  BY <1>1 DEF Instructed
<1>4. (\A k \in 1..Chains : Terminated(k))' <=> \A k \in 1..Chains : Terminated(k)
  BY <1>2
<1>5. CASE Begin \/ ServerReady \/ ServerFails \/ UNCHANGED runVars
  BY <1>1, <1>3, <1>4, <1>5 DEF TravInv, Begin, ServerReady, ServerFails, runVars, Nothing
<1>6. CASE Built
  BY <1>1, <1>3, <1>4, <1>6 DEF TravInv, Built, Unbuilt, Instructed, Nothing
<1>7. CASE Send \/ Deadline \/ Teardown
  BY <1>1, <1>3, <1>4, <1>7 DEF TravInv, Send, Deadline, Teardown, Nothing
<1>8. CASE \E t \in Tasks : Push(t)
  BY <1>1, <1>3, <1>4, <1>8 DEF TravInv, Push
<1> QED  BY <1>5, <1>6, <1>7, <1>8

LEMMA TravStep == EulerInv /\ TravInv /\ [TNext]_allVars => TravInv'
<1> SUFFICES ASSUME EulerInv, TravInv, [TNext]_allVars PROVE TravInv'
  OBVIOUS
<1>1. CASE UNCHANGED eulerVars
  BY <1>1, OthersKeep, WalkKeeps, VerdictKeeps, BuildKeeps DEF TNext, Own, allVars
<1>2. CASE ~UNCHANGED eulerVars
  <2>1. Build
    BY <1>2 DEF TNext, Own, Begin, ServerReady, ServerFails, Built, Send, Answered, Read, Deadline,
         Teardown, TakeHop, EndChain, HopFails, Reply, Push, allVars
  <2> QED  BY <2>1, BuildKeeps
<1> QED  BY <1>1, <1>2

LEMMA TraversalInvariant == TSpec => [](EulerInv /\ TravInv)
<1>1. TInit => EulerInv /\ TravInv
  BY EulerInit, TravInit DEF TInit
<1> QED  BY <1>1, TStepIsEulerStep, EulerStep, TravStep, PTL DEF TSpec

-----------------------------------------------------------------------------
(* With one circuit, chain k is its walk over transport k. *)
LEMMA OneChainPerTransport ==
    ASSUME Len(circuits) = 1, protocols \in Nat
    PROVE  /\ Chains = protocols
           /\ \A k \in 1..Chains : Circuit(k) = circuits[1] /\ Transport(k) = k
<1>1. Chains = protocols
  BY DEF Chains
<1>2. ASSUME NEW k \in 1..protocols
      PROVE  Circuit(k) = circuits[1] /\ Transport(k) = k
  <2>1. (k - 1) % 1 = 0 /\ (k - 1) \div 1 = k - 1
    OBVIOUS
  <2> QED  BY <2>1 DEF Circuit, Transport
<1> QED  BY <1>1, <1>2

LEMMA StepsOfOne ==
    ASSUME NEW A, NEW c \in Seq(A), NEW u, NEW v
    PROVE  Cardinality(StepsBetween(Append(<<>>, c), u, v)) = Cardinality(PairsIn(c, u, v))
<1> DEFINE ws == <<>>
<1>1. ws \in Seq(Seq(A))
  OBVIOUS
<1>2. StepsBetween(ws, u, v) = {}
  BY DEF StepsBetween, Steps
<1>3. IsFiniteSet(StepsBetween(ws, u, v)) /\ Cardinality(StepsBetween(ws, u, v)) = 0
  BY <1>2, FS_EmptySet
<1> HIDE DEF ws
<1>4. Cardinality(StepsBetween(Append(ws, c), u, v)) = 0 + Cardinality(PairsIn(c, u, v))
  BY <1>1, <1>3, StepsAppend
<1>5. Cardinality(PairsIn(c, u, v)) \in Nat
  BY PairsFinite
<1>6. Cardinality(StepsBetween(Append(ws, c), u, v)) = Cardinality(PairsIn(c, u, v))
  BY <1>4, <1>5
<1> QED  BY <1>6 DEF ws

LEMMA CallsAreSteps ==
    ASSUME EulerInv, TravInv, verdict = "pass", Attached,
           NEW u \in Agents(sdks), NEW v \in Agents(sdks), NEW p \in 1..protocols
    PROVE  {h \in Hop : /\ Made(h) /\ Transport(h[1]) = p
                        /\ Caller(h) = u /\ Callee(h) = v}
           = {<<p, i>> : i \in PairsIn(circuits[1], u, v)}
<1>1. protocols \in Nat /\ protocols > 0 /\ pc = "done" /\ \A k \in 1..Chains : Terminated(k)
  BY DEF TravInv, Instructed
<1>2. /\ Len(circuits) = 1 /\ circuits[1][1] = sdks[1]
      /\ circuits[1] \in Seq(Agents(sdks)) \ {<<>>}
  BY <1>1, OneCircuit
<1>3. /\ Chains = protocols
      /\ \A k \in 1..Chains : Circuit(k) = circuits[1] /\ Transport(k) = k
  BY <1>1, <1>2, OneChainPerTransport
<1>4. \A k \in 1..Chains : Ended(k) /\ Hops(k) = Len(circuits[1]) - 1
  BY <1>1, <1>3 DEF Terminated, Hops
<1> DEFINE n == Len(circuits[1]) - 1
           P == PairsIn(circuits[1], u, v)
           calls == {h \in Hop : /\ Made(h) /\ Transport(h[1]) = p
                                 /\ Caller(h) = u /\ Callee(h) = v}
<1>5. ASSUME NEW i \in 1..n
      PROVE  Caller(<<p, i>>) = circuits[1][i] /\ Callee(<<p, i>>) = circuits[1][i + 1]
  BY <1>2, <1>3 DEF Caller, Callee
<1>6. Hop = {<<k, i>> : k \in 1..Chains, i \in 1..n}
  <2>1. \A k \in 1..Chains : {<<k, i>> : i \in 1..Hops(k)} = {<<k, i>> : i \in 1..n}
    BY <1>4
  <2>2. Hop = UNION {{<<k, i>> : i \in 1..n} : k \in 1..Chains}
    BY <2>1 DEF Hop
  <2> QED  BY <2>2
<1>7. P \subseteq 1..n /\ p \in 1..Chains
  BY <1>3 DEF PairsIn
<1>8. \A i \in 1..n : i \in P <=> circuits[1][i] = u /\ circuits[1][i + 1] = v
  BY DEF PairsIn
<1> HIDE DEF n, P
<1>9. ASSUME NEW h \in calls PROVE h \in {<<p, i>> : i \in P}
  <2>1. PICK k \in 1..Chains, i \in 1..n : h = <<k, i>>
    BY <1>6, <1>9
  <2>2. Transport(k) = p /\ Caller(h) = u /\ Callee(h) = v
    BY <1>9, <2>1
  <2>3. k = p
    BY <1>3, <2>2
  <2>4. i \in P
    BY <1>5, <1>8, <2>1, <2>2, <2>3
  <2> QED  BY <2>1, <2>3, <2>4
<1>10. ASSUME NEW i \in P PROVE <<p, i>> \in calls
  <2>1. i \in 1..n /\ <<p, i>> \in Hop
    BY <1>6, <1>7, <1>10
  <2>2. Caller(<<p, i>>) = u /\ Callee(<<p, i>>) = v
    BY <1>5, <1>8, <1>10, <2>1
  <2>3. Ended(p) /\ i <= Hops(p) /\ Transport(p) = p
    BY <1>3, <1>4, <1>7, <2>1 DEF n
  <2>4. Made(<<p, i>>)
    BY <2>3 DEF Made, Ended
  <2> QED  BY <2>1, <2>2, <2>3, <2>4
<1> HIDE DEF calls
<1>11. calls = {<<p, i>> : i \in P}
  BY <1>9, <1>10
<1> QED  BY <1>11 DEF calls, P

LEMMA InvWalksGraph == EulerInv /\ TravInv => PassWalksGraph
<1> SUFFICES ASSUME EulerInv, TravInv, verdict = "pass", Attached,
                    NEW u \in Agents(sdks), NEW v \in Agents(sdks), NEW p \in 1..protocols
             PROVE  Cardinality({h \in Hop : /\ Made(h) /\ Transport(h[1]) = p
                                             /\ Caller(h) = u /\ Callee(h) = v})
                    = Cardinality(EdgesBetween(u, v))
  BY DEF PassWalksGraph
<1> DEFINE c == circuits[1]
           P == PairsIn(c, u, v)
           Q == {<<p, i>> : i \in P}
           f == [i \in P |-> <<p, i>>]
<1>1. pc = "done"
  BY DEF TravInv, Instructed
<1>2. /\ Len(circuits) = 1 /\ c \in Seq(Agents(sdks))
      /\ circuits \in Seq(Seq(Agents(sdks)) \ {<<>>})
  BY <1>1, OneCircuit DEF EulerInv, Typed
<1>3. IsFiniteSet(P) /\ Cardinality(P) \in Nat
  BY <1>2, PairsFinite
<1>4. Cardinality(Q) = Cardinality(P)
  <2>1. f \in [P -> Q]
    OBVIOUS
  <2>2. (\A i, j \in P : f[i] = f[j] => i = j) /\ \A h \in Q : \E i \in P : f[i] = h
    OBVIOUS
  <2> HIDE DEF P, Q, f
  <2> QED  BY <1>3, <2>1, <2>2, SameSize
<1>5. Cardinality(StepsBetween(circuits, u, v)) = Cardinality(P)
  <2>1. circuits = Append(<<>>, c)
    BY <1>2
  <2>2. Cardinality(StepsBetween(Append(<<>>, c), u, v)) = Cardinality(P)
    BY <1>2, StepsOfOne
  <2> QED  BY <2>1, <2>2
<1>6. Cardinality(StepsBetween(circuits, u, v)) = Cardinality(EdgesBetween(u, v))
  BY <1>1, EulerInvPromises DEF EulerPromise, WalksEachEdgeOnce
<1> HIDE DEF P
<1> QED  BY <1>4, <1>5, <1>6, CallsAreSteps DEF P

(* For every graph, whatever the agents, the store and the deadline do: a    *)
(* traversal that passes had each edge called by its own agent, and answered, *)
(* as often as the scenario gives it, over every transport: the tokens and    *)
(* states that are looked for leave no gap (testlib.py:257-327).              *)
THEOREM PassWalksGraphAlways == TSpec => []PassWalksGraph
  BY TraversalInvariant, InvWalksGraph, PTL

=============================================================================
