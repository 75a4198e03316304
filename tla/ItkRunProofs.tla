---------------------------- MODULE ItkRunProofs ----------------------------
(***************************************************************************)
(* POST /run for every matrix, known failures, batches and requests: only   *)
(* the holder of _execution_lock has agents, results are kept, graphs are   *)
(* walked as authored, and what is lost is reported.                        *)
(***************************************************************************)
EXTENDS ItkRun, FiniteSetTheorems, TLAPS

(* Where run_scenarios is inside `async with _execution_lock'. *)
Inside == {"plan", "start", "select", "execute"}

(* The lock's holder is inside and agents exist inside only.  Neither part is  *)
(* inductive without the other: TakeLock has to find nobody inside.           *)
LockInv ==
    /\ DOMAIN pc = Request /\ DOMAIN agents = Request
    /\ \A r \in Request : pc[r] \in Inside => lock = r
    /\ \A r \in Request : agents[r] # {} => pc[r] \in Inside

-----------------------------------------------------------------------------
(* Leaving the handler, by its end or by an exception, gives up the agents     *)
(* before anybody else can get the lock (run_scenarios, _run_locked).          *)
LEMMA AnswerKeeps ==
    ASSUME LockInv, NEW r \in Request, NEW answer, Answer(r, answer)
    PROVE  LockInv'
  <1>1. DOMAIN pc' = Request /\ DOMAIN agents' = Request
    BY DEF LockInv, Answer
  <1>2. ASSUME NEW q \in Request
        PROVE  /\ pc'[q] \in Inside => lock' = q
               /\ agents'[q] # {} => pc'[q] \in Inside
    <2>1. CASE q = r
      <3>1. pc'[q] = "answered" /\ agents'[q] = {}
        BY <2>1 DEF LockInv, Answer
      <3> QED
        BY <3>1 DEF Inside
    <2>2. CASE q # r
      <3>1. pc'[q] = pc[q] /\ agents'[q] = agents[q]
        BY <2>2 DEF LockInv, Answer
      <3>2. lock = q => lock' = q
        BY <2>2 DEF Answer
      <3> QED
        BY <3>1, <3>2 DEF LockInv
    <2> QED
      BY <2>1, <2>2
  <1> QED
    BY <1>1, <1>2 DEF LockInv

(* Moving on inside the handler keeps the lock; agents are touched by their    *)
(* owner alone.                                                               *)
LEMMA MoveKeeps ==
    ASSUME LockInv, NEW r \in Request, NEW to \in Inside, pc[r] \in Inside,
           pc' = [pc EXCEPT ![r] = to], lock' = lock,
           DOMAIN agents' = Request,
           \A q \in Request \ {r} : agents'[q] = agents[q]
    PROVE  LockInv'
  <1>1. ASSUME NEW q \in Request
        PROVE  /\ pc'[q] \in Inside => lock' = q
               /\ agents'[q] # {} => pc'[q] \in Inside
    <2>1. CASE q = r
      BY <2>1 DEF LockInv
    <2>2. CASE q # r
      BY <2>2 DEF LockInv
    <2> QED
      BY <2>1, <2>2
  <1> QED
    BY <1>1 DEF LockInv

-----------------------------------------------------------------------------
LEMMA LockInit == Init => LockInv
  BY DEF Init, LockInv, Inside

LEMMA LockStep == LockInv /\ [Next]_vars => LockInv'
  <1> SUFFICES ASSUME LockInv, [Next]_vars PROVE LockInv'
    OBVIOUS
  <1>1. CASE UNCHANGED vars
    BY <1>1 DEF vars, LockInv
  <1>2. ASSUME NEW r \in Request, Serve(r) PROVE LockInv'
    <2>1. CASE Reject(r)
      BY <2>1, AnswerKeeps DEF Reject
    <2>2. CASE Prepare(r)
      <3>1. pc[r] = "idle" /\ pc' = [pc EXCEPT ![r] = "lock"] /\ UNCHANGED <<lock, agents>>
        BY <2>2 DEF Prepare
      <3> QED
        BY <3>1 DEF LockInv, Inside
    <2>3. CASE PlanFails(r)
      <3>1. PICK code \in {400, 502} : Answer(r, Error(code))
        BY <2>3 DEF PlanFails
      <3> QED
        BY <3>1, AnswerKeeps
    <2>4. CASE Plan(r)
      <3>1. pc[r] \in Inside /\ pc' = [pc EXCEPT ![r] = "start"] /\ UNCHANGED <<lock, agents>>
        BY <2>4 DEF Plan, Inside
      <3> QED
        BY <3>1, MoveKeeps DEF Inside, LockInv
    <2>5. CASE StartAll(r)
      <3>1. PICK up \in SUBSET Planned(r) : agents' = [agents EXCEPT ![r] = up]
        BY <2>5 DEF StartAll
      <3>2. pc[r] \in Inside /\ pc' = [pc EXCEPT ![r] = "select"] /\ lock' = lock
        BY <2>5 DEF StartAll, Inside
      <3>3. DOMAIN agents' = Request /\ \A q \in Request \ {r} : agents'[q] = agents[q]
        BY <3>1 DEF LockInv
      <3> QED
        BY <3>2, <3>3, MoveKeeps DEF Inside
    <2>6. CASE StartAllRaises(r)
      BY <2>6, AnswerKeeps DEF StartAllRaises
    <2>7. CASE Select(r)
      <3>1. pc[r] \in Inside /\ pc' = [pc EXCEPT ![r] = "execute"] /\ UNCHANGED <<lock, agents>>
        BY <2>7 DEF Select, Inside
      <3> QED
        BY <3>1, MoveKeeps DEF Inside, LockInv
    <2>8. CASE NothingToTest(r)
      BY <2>8, AnswerKeeps DEF NothingToTest
    <2>9. CASE Execute(r)
      BY <2>9 DEF Execute, LockInv
    <2>10. CASE Respond(r)
      BY <2>10, AnswerKeeps DEF Respond
    <2> QED
      BY <1>2, <2>1, <2>2, <2>3, <2>4, <2>5, <2>6, <2>7, <2>8, <2>9, <2>10 DEF Serve
  <1>3. ASSUME NEW r \in Request, TakeLock(r) PROVE LockInv'
    <2>1. \A q \in Request : pc[q] \notin Inside /\ agents[q] = {}
      BY <1>3, RequestAssumption DEF TakeLock, LockInv
    <2>2. pc' = [pc EXCEPT ![r] = "plan"] /\ lock' = r /\ agents' = agents
      BY <1>3 DEF TakeLock
    <2> QED
      BY <2>1, <2>2 DEF LockInv, Inside
  <1> QED
    BY <1>1, <1>2, <1>3 DEF Next

-----------------------------------------------------------------------------
(* "A run owns a whole cluster ... Two at once would contend"                  *)
(* (itk_runner.py:135-137): for any requests and bodies, agents are up only     *)
(* for the holder of _execution_lock.                                         *)
THEOREM LockSound == Spec => []ClusterUnderLock
  <1>1. LockInv => ClusterUnderLock
    BY DEF LockInv, ClusterUnderLock
  <1> QED
    BY LockInit, LockStep, <1>1, PTL DEF Spec

-----------------------------------------------------------------------------
(* Choosing from a list by position: as many as there are positions, those    *)
(* elements and no others.                                                    *)
UpTo(S, i) == {j \in S : j <= i}

LEMMA RankExists ==
    ASSUME NEW S \in SUBSET Nat, IsFiniteSet(S), NEW n \in 1..Cardinality(S)
    PROVE  /\ \E i \in S : Cardinality(UpTo(S, i)) = n
           /\ \A i, j \in S : Cardinality(UpTo(S, i)) = Cardinality(UpTo(S, j)) => i = j
<1> DEFINE T == 1..Cardinality(S)
           f == [i \in S |-> Cardinality(UpTo(S, i))]
<1>1. Cardinality(S) \in Nat
  BY FS_CardinalityType
<1>2. ASSUME NEW i \in S
      PROVE  /\ IsFiniteSet(UpTo(S, i)) /\ Cardinality(UpTo(S, i)) \in T
  <2>1. UpTo(S, i) \in SUBSET S /\ i \in UpTo(S, i)
    BY DEF UpTo
  <2>2. IsFiniteSet(UpTo(S, i)) /\ Cardinality(UpTo(S, i)) <= Cardinality(S)
    BY <2>1, FS_Subset
  <2>3. Cardinality(UpTo(S, i)) \in Nat /\ Cardinality(UpTo(S, i)) # 0
    BY <2>1, <2>2, FS_CardinalityType, FS_EmptySet
  <2> QED  BY <1>1, <2>2, <2>3
<1>3. ASSUME NEW i \in S, NEW j \in S, i < j
      PROVE  Cardinality(UpTo(S, i)) # Cardinality(UpTo(S, j))
  <2>1. UpTo(S, i) \in SUBSET UpTo(S, j)
    <3>1. \A k \in S : k <= i => k <= j
      <4> TAKE k \in S
      <4>1. i \in Nat /\ j \in Nat /\ k \in Nat
        OBVIOUS
      <4> QED  BY <1>3, <4>1
    <3> QED  BY <3>1 DEF UpTo
  <2>2. j \in UpTo(S, j) /\ j \notin UpTo(S, i)
    BY <1>3 DEF UpTo
  <2> QED  BY <1>2, <2>1, <2>2, FS_Subset
<1>4. \A i, j \in S : Cardinality(UpTo(S, i)) = Cardinality(UpTo(S, j)) => i = j
  <2> SUFFICES ASSUME NEW i \in S, NEW j \in S, i # j,
                      Cardinality(UpTo(S, i)) = Cardinality(UpTo(S, j))
               PROVE  FALSE
    OBVIOUS
  <2>1. i < j \/ j < i
    OBVIOUS
  <2> QED  BY <1>3, <2>1
<1>5. f \in Injection(S, T)
  BY <1>2, <1>4 DEF Injection, IsInjective
<1>6. IsFiniteSet(T) /\ Cardinality(T) = Cardinality(S)
  BY <1>1, FS_Interval
<1>7. f \in Surjection(S, T)
  <2> HIDE DEF f, T
  <2> QED  BY <1>5, <1>6, FS_Injection
<1>8. \E i \in S : f[i] = n
  BY <1>7 DEF Surjection
<1> QED  BY <1>4, <1>8

(* Place n of the choice is the position that has n of them up to itself.     *)
At(S, n) == CHOOSE i \in S : Cardinality({j \in S : j <= i}) = n

Chosen(s, S) == {s[i] : i \in S}

LEMMA PickedFrom ==
    ASSUME NEW A, NEW s \in Seq(A), NEW S \in SUBSET DOMAIN s
    PROVE  /\ IsFiniteSet(S) /\ Cardinality(S) \in Nat
           /\ DOMAIN Picked(s, S) = 1..Cardinality(S)
           /\ \A n \in 1..Cardinality(S) : At(S, n) \in S /\ Picked(s, S)[n] = s[At(S, n)]
           /\ \A m, n \in 1..Cardinality(S) : At(S, m) = At(S, n) => m = n
           /\ \A i \in S : \E n \in 1..Cardinality(S) : At(S, n) = i
           /\ Picked(s, S) \in Seq(Chosen(s, S))
           /\ Len(Picked(s, S)) = Cardinality(S)
           /\ Agents(Picked(s, S)) = Chosen(s, S)
<1>1. S \in SUBSET Nat /\ IsFiniteSet(S) /\ Cardinality(S) \in Nat
  <2>1. IsFiniteSet(DOMAIN s) /\ DOMAIN s \subseteq Nat
    BY FS_Interval
  <2> QED  BY <2>1, FS_Subset, FS_CardinalityType
<1>2. \A n \in 1..Cardinality(S) : \E i \in S : Cardinality({j \in S : j <= i}) = n
  BY <1>1, RankExists DEF UpTo
<1>3. \A n \in 1..Cardinality(S) : At(S, n) \in S /\ Cardinality({j \in S : j <= At(S, n)}) = n
  BY <1>2 DEF At
<1>4. \A n \in 1..Cardinality(S) : Picked(s, S)[n] = s[At(S, n)]
  BY DEF Picked, At
<1>5. \A m, n \in 1..Cardinality(S) : At(S, m) = At(S, n) => m = n
  BY <1>3
<1>6. ASSUME NEW i \in S PROVE \E n \in 1..Cardinality(S) : At(S, n) = i
  <2> DEFINE n == Cardinality(UpTo(S, i))
  <2>1. UpTo(S, i) \in SUBSET S /\ i \in UpTo(S, i)
    BY <1>1 DEF UpTo
  <2>2. IsFiniteSet(UpTo(S, i)) /\ n <= Cardinality(S)
    BY <1>1, <2>1, FS_Subset
  <2>3. n \in Nat /\ n # 0
    BY <2>1, <2>2, FS_CardinalityType, FS_EmptySet
  <2>4. n \in 1..Cardinality(S)
    BY <1>1, <2>2, <2>3
  <2>5. At(S, n) \in S /\ Cardinality(UpTo(S, At(S, n))) = n
    BY <1>3, <2>4 DEF UpTo
  <2>6. At(S, n) = i
    BY <1>1, <2>4, <2>5, RankExists
  <2> QED  BY <2>4, <2>6
<1>7. /\ DOMAIN Picked(s, S) = 1..Cardinality(S)
      /\ Picked(s, S) \in Seq(Chosen(s, S)) /\ Len(Picked(s, S)) = Cardinality(S)
  <2>1. Picked(s, S) \in [1..Cardinality(S) -> Chosen(s, S)]
    BY <1>3 DEF Picked, At, Chosen
  <2> QED  BY <1>1, <2>1
<1>8. Agents(Picked(s, S)) = Chosen(s, S)
  <2> DEFINE p == Picked(s, S)
  <2>1. \A n \in DOMAIN p : \E i \in S : p[n] = s[i]
    BY <1>3, <1>4, <1>7
  <2>2. \A i \in S : \E n \in DOMAIN p : p[n] = s[i]
    BY <1>4, <1>6, <1>7
  <2> HIDE DEF p
  <2>3. Agents(p) = Chosen(s, S)
    BY <2>1, <2>2 DEF Agents, Chosen
  <2> QED  BY <2>3 DEF p
<1> QED  BY <1>1, <1>3, <1>4, <1>5, <1>6, <1>7, <1>8

LEMMA KeptFrom ==
    ASSUME NEW s, s \in Seq(Agents(s)), NEW U
    PROVE  /\ Kept(s, U) \in Seq(Agents(Kept(s, U)))
           /\ Agents(Kept(s, U)) = Agents(s) \cap U
           /\ Len(Kept(s, U)) \in Nat /\ Len(Kept(s, U)) <= Len(s)
           /\ Agents(s) \subseteq U => Len(Kept(s, U)) = Len(s)
<1> DEFINE S == {i \in DOMAIN s : s[i] \in U}
<1>1. /\ S \in SUBSET DOMAIN s /\ Kept(s, U) = Picked(s, S)
  BY DEF Kept
<1>2. Chosen(s, S) = Agents(s) \cap U
  BY DEF Agents, Chosen
<1>3. /\ IsFiniteSet(DOMAIN s) /\ Cardinality(DOMAIN s) = Len(s) /\ Len(s) \in Nat
  <2>1. DOMAIN s = 1..Len(s) /\ Len(s) \in Nat
    OBVIOUS
  <2> QED  BY <2>1, FS_Interval
<1>4. Cardinality(S) <= Len(s)
  BY <1>1, <1>3, FS_Subset
<1>5. Agents(s) \subseteq U => S = DOMAIN s
  BY DEF Agents
<1> HIDE DEF S
<1>6. /\ Picked(s, S) \in Seq(Chosen(s, S)) /\ Len(Picked(s, S)) = Cardinality(S)
      /\ Agents(Picked(s, S)) = Chosen(s, S) /\ Cardinality(S) \in Nat
  BY <1>1, PickedFrom
<1> QED  BY <1>1, <1>2, <1>3, <1>4, <1>5, <1>6

-----------------------------------------------------------------------------
(* Lists of agents. *)
LEMMA OwnElements == ASSUME NEW A, NEW s \in Seq(A) PROVE s \in Seq(Agents(s)) /\ Range(s) = Agents(s)
<1>1. s \in [1..Len(s) -> Agents(s)] /\ Len(s) \in Nat
  BY DEF Agents
<1> QED  BY <1>1 DEF Range, Agents

LEMMA Joined ==
    ASSUME NEW s, NEW t, s \in Seq(Agents(s)), t \in Seq(Agents(t))
    PROVE  s \o t \in Seq(Agents(s \o t)) /\ Agents(s \o t) = Agents(s) \cup Agents(t)
<1>1. s \in Seq(Agents(s) \cup Agents(t)) /\ t \in Seq(Agents(s) \cup Agents(t))
  OBVIOUS
<1>2. s \o t \in Seq(Agents(s) \cup Agents(t))
  BY <1>1
<1>3. /\ Len(s) \in Nat /\ Len(t) \in Nat /\ DOMAIN s = 1..Len(s) /\ DOMAIN t = 1..Len(t)
      /\ DOMAIN (s \o t) = 1..(Len(s) + Len(t))
      /\ \A i \in 1..(Len(s) + Len(t)) : (s \o t)[i] = IF i <= Len(s) THEN s[i] ELSE t[i - Len(s)]
  BY <1>1
<1>4. \A i \in DOMAIN (s \o t) : (s \o t)[i] \in Agents(s) \cup Agents(t)
  BY <1>2
<1>5. \A i \in DOMAIN s : i \in DOMAIN (s \o t) /\ (s \o t)[i] = s[i]
  BY <1>3
<1>6. \A i \in DOMAIN t : i + Len(s) \in DOMAIN (s \o t) /\ (s \o t)[i + Len(s)] = t[i]
  BY <1>3
<1>7. Agents(s \o t) = Agents(s) \cup Agents(t)
  <2> DEFINE w == s \o t
  <2>1. Agents(w) \subseteq Agents(s) \cup Agents(t)
    BY <1>4 DEF Agents
  <2>2. Agents(s) \subseteq Agents(w) /\ Agents(t) \subseteq Agents(w)
    BY <1>5, <1>6 DEF Agents
  <2> QED  BY <2>1, <2>2
<1> QED  BY <1>2, OwnElements, <1>7

-----------------------------------------------------------------------------
(* What a declaration becomes. *)
IsList(s) == s \in Seq(Agents(s))

Listed(d) == d.peers = None \/ IsList(d.peers)

LEMMA ShortLists ==
    ASSUME NEW a, NEW b
    PROVE  /\ IsList(<<>>) /\ IsList(<<a>>) /\ IsList(<<a, b>>)
           /\ a \in Agents(<<a>>) /\ b \in Agents(<<a, b>>)
<1>1. <<>> \in Seq({}) /\ <<a>> \in Seq({a}) /\ <<a, b>> \in Seq({a, b})
  OBVIOUS
<1>2. DOMAIN <<a>> = {1} /\ <<a>>[1] = a /\ 2 \in DOMAIN <<a, b>> /\ <<a, b>>[2] = b
  OBVIOUS
<1>3. a \in Agents(<<a>>) /\ b \in Agents(<<a, b>>)
  BY <1>2 DEF Agents
<1> QED  BY <1>1, <1>3, OwnElements DEF IsList

LEMMA Appended ==
    ASSUME NEW s, s \in Seq(Agents(s)), NEW a
    PROVE  Append(s, a) \in Seq(Agents(Append(s, a))) /\ a \in Agents(Append(s, a))
<1>1. s \in Seq(Agents(s) \cup {a})
  OBVIOUS
<1>2. /\ Append(s, a) \in Seq(Agents(s) \cup {a})
      /\ Len(s) \in Nat /\ Len(s) + 1 \in DOMAIN Append(s, a) /\ Append(s, a)[Len(s) + 1] = a
  BY <1>1
<1> QED  BY <1>2, OwnElements DEF Agents

(* The lines that can be peers, and those that join as the SUT's own.          *)
Able(d, ts) == {p \in Range(Lines) : d.together => ts \subseteq Speaks[p]}

Own(d, ts, sut) ==
    {p \in Range(Lines) : /\ d.ownLines /\ SdkOf[p] = sut
                          /\ p \notin Range(d.peers)
                          /\ d.together => ts \subseteq Speaks[p]}

LEMMA PeersListed ==
    ASSUME NEW d, Listed(d), NEW ts, NEW sut
    PROVE  /\ IsList(PeerIds(d, ts, sut))
           /\ d.peers = None => Agents(PeerIds(d, ts, sut)) = Able(d, ts)
           /\ d.peers # None => Agents(PeerIds(d, ts, sut)) = Agents(d.peers) \cup Own(d, ts, sut)
<1>1. IsList(Lines) /\ Range(Lines) = Agents(Lines)
  BY MatrixAssumption, OwnElements DEF IsList
<1>2. \A U \in SUBSET Range(Lines) : IsList(Kept(Lines, U)) /\ Agents(Kept(Lines, U)) = U
  <2> TAKE U \in SUBSET Range(Lines)
  <2>1. IsList(Kept(Lines, U)) /\ Agents(Kept(Lines, U)) = Agents(Lines) \cap U
    BY <1>1, KeptFrom DEF IsList
  <2>2. Agents(Lines) \cap U = U
    BY <1>1
  <2> QED  BY <2>1, <2>2
<1>3. CASE d.peers = None
  <2>1. PeerIds(d, ts, sut) = Kept(Lines, Able(d, ts))
    BY <1>3 DEF PeerIds, Able
  <2>2. Able(d, ts) \in SUBSET Range(Lines)
    BY DEF Able
  <2> QED  BY <1>2, <1>3, <2>1, <2>2
<1>4. CASE d.peers # None
  <2>1. OwnLines(d, ts, sut) = Kept(Lines, Own(d, ts, sut))
    BY DEF OwnLines, Own
  <2>2. Own(d, ts, sut) \in SUBSET Range(Lines)
    BY DEF Own
  <2>3. IsList(OwnLines(d, ts, sut)) /\ Agents(OwnLines(d, ts, sut)) = Own(d, ts, sut)
    BY <1>2, <2>1, <2>2
  <2>4. IsList(d.peers) /\ PeerIds(d, ts, sut) = d.peers \o OwnLines(d, ts, sut)
    BY <1>4 DEF Listed, PeerIds
  <2>5. IsList(PeerIds(d, ts, sut))
    BY <2>3, <2>4, Joined DEF IsList
  <2>6. Agents(PeerIds(d, ts, sut)) = Agents(d.peers) \cup Agents(OwnLines(d, ts, sut))
    BY <2>3, <2>4, Joined DEF IsList
  <2> QED  BY <1>4, <2>3, <2>5, <2>6
<1> QED  BY <1>3, <1>4

LEMMA GroupsListed ==
    ASSUME NEW d, Listed(d), NEW ts, NEW sut
    PROVE  /\ \A k \in DOMAIN Groups(d, ts, sut) : IsList(Groups(d, ts, sut)[k].sdks)
           /\ \A p \in Agents(PeerIds(d, ts, sut)) :
                 /\ d.together /\ ts \subseteq Speaks[p] =>
                       \E k \in DOMAIN Groups(d, ts, sut) :
                           /\ Groups(d, ts, sut)[k].used = ts /\ Groups(d, ts, sut)[k].peer = None
                           /\ p \in Agents(Groups(d, ts, sut)[k].sdks)
                 /\ ~d.together /\ ts \cap Speaks[p] # {} =>
                       \E k \in DOMAIN Groups(d, ts, sut) :
                           /\ Groups(d, ts, sut)[k].used = ts \cap Speaks[p]
                           /\ Groups(d, ts, sut)[k].peer = p
                           /\ p \in Agents(Groups(d, ts, sut)[k].sdks)
<1> DEFINE entry == IF d.includeSut THEN <<SUT>> ELSE <<>>
           peers == PeerIds(d, ts, sut)
           U     == {p \in Range(peers) : IF d.together THEN ts \subseteq Speaks[p]
                                          ELSE ts \cap Speaks[p] # {}}
           able  == Kept(peers, U)
<1>1. IsList(entry)
  BY ShortLists
<1>2. IsList(peers) /\ Range(peers) = Agents(peers)
  BY PeersListed, OwnElements DEF IsList
<1>3. IsList(able) /\ Agents(able) = U
  <2>1. IsList(able) /\ Agents(able) = Agents(peers) \cap U
    BY <1>2, KeptFrom DEF IsList
  <2> QED  BY <1>2, <2>1
<1>4. CASE d.together
  <2>1. Groups(d, ts, sut) = <<[sdks |-> entry \o able, used |-> ts, peer |-> None]>>
    BY <1>4 DEF Groups
  <2> DEFINE g == [sdks |-> entry \o able, used |-> ts, peer |-> None]
  <2>2. IsList(g.sdks) /\ \A p \in U : p \in Agents(g.sdks)
    <3>1. g.sdks = entry \o able
      OBVIOUS
    <3> HIDE DEF entry, able, U, g
    <3> QED  BY <1>1, <1>3, <3>1, Joined DEF IsList
  <2>3. DOMAIN Groups(d, ts, sut) = {1} /\ Groups(d, ts, sut)[1] = g
    BY <2>1
  <2>4. \A p \in Agents(peers) : ts \subseteq Speaks[p] => p \in U
    BY <1>2, <1>4
  <2>5. g.used = ts /\ g.peer = None
    OBVIOUS
  <2> HIDE DEF g, U, able
  <2> QED  BY <1>4, <2>2, <2>3, <2>4, <2>5
<1>5. CASE ~d.together
  <2>1. Groups(d, ts, sut) = [k \in DOMAIN able |-> [sdks |-> Append(entry, able[k]),
                                                    used |-> ts \cap Speaks[able[k]],
                                                    peer |-> able[k]]]
    BY <1>5 DEF Groups
  <2>2. ASSUME NEW p PROVE IsList(Append(entry, p)) /\ p \in Agents(Append(entry, p))
    BY <1>1, Appended DEF IsList
  <2>3. \A p \in Agents(peers) : ts \cap Speaks[p] # {} => \E k \in DOMAIN able : able[k] = p
    BY <1>2, <1>3, <1>5 DEF Agents
  <2> HIDE DEF able, entry, peers, U
  <2>4. DOMAIN Groups(d, ts, sut) = DOMAIN able
    BY <2>1
  <2>5. ASSUME NEW k \in DOMAIN able
        PROVE  /\ Groups(d, ts, sut)[k].sdks = Append(entry, able[k])
               /\ Groups(d, ts, sut)[k].used = ts \cap Speaks[able[k]]
               /\ Groups(d, ts, sut)[k].peer = able[k]
    BY <2>1
  <2>6. \A k \in DOMAIN Groups(d, ts, sut) : IsList(Groups(d, ts, sut)[k].sdks)
    BY <2>2, <2>4, <2>5
  <2>7. ASSUME NEW p \in Agents(peers), ts \cap Speaks[p] # {}
        PROVE  \E k \in DOMAIN Groups(d, ts, sut) :
                   /\ Groups(d, ts, sut)[k].used = ts \cap Speaks[p]
                   /\ Groups(d, ts, sut)[k].peer = p
                   /\ p \in Agents(Groups(d, ts, sut)[k].sdks)
    <3>1. PICK k \in DOMAIN able : able[k] = p
      BY <2>3, <2>7
    <3> QED  BY <2>2, <2>4, <2>5, <3>1
  <2> QED  BY <1>5, <2>6, <2>7 DEF peers
<1> QED  BY <1>4, <1>5

-----------------------------------------------------------------------------
(* The scenarios of a body list their agents, and cover what it asks for.      *)
LEMMA Binding ==
    ASSUME NEW at, NEW d, NEW g, NEW sut, IsList(g.sdks)
    PROVE  LET x == Bind(at, d, g, sut)
           IN  /\ x.name = NameOf(d, g) /\ x.scenario.name = NameOf(d, g) /\ x.sdks = g.sdks
               /\ IsList(x.scenario.sdks)
               /\ Agents(x.scenario.sdks) = Agents(g.sdks) \ x.dropped
               /\ x.dropped = {} /\ ~x.runs => Len(x.sdks) < MinNodes
<1> DEFINE x == Bind(at, d, g, sut)
           kept == {a \in Agents(g.sdks) : ~Excluded(a, g.used, sut)}
           topology == IF d.edges # None THEN None ELSE d.topology
<1>1. /\ x.name = NameOf(d, g) /\ x.scenario.name = NameOf(d, g) /\ x.sdks = g.sdks
      /\ x.scenario.sdks = Kept(g.sdks, kept)
      /\ x.dropped = Agents(g.sdks) \ kept
      /\ x.runs = Survives(g.sdks, topology, d.edges, kept)
  BY DEF Bind, RestrictToAvailable
<1>2. /\ IsList(Kept(g.sdks, kept)) /\ Agents(Kept(g.sdks, kept)) = Agents(g.sdks) \cap kept
      /\ Len(Kept(g.sdks, kept)) \in Nat
      /\ Agents(g.sdks) \subseteq kept => Len(Kept(g.sdks, kept)) = Len(g.sdks)
  BY KeptFrom DEF IsList
<1>3. Len(g.sdks) \in Nat
  BY DEF IsList
<1> HIDE DEF x, kept, topology
<1>4. Agents(x.scenario.sdks) = Agents(g.sdks) \ x.dropped
  BY <1>1, <1>2
<1>5. x.dropped = {} /\ ~x.runs => Len(x.sdks) < MinNodes
  <2> SUFFICES ASSUME x.dropped = {}, ~x.runs PROVE Len(x.sdks) < MinNodes
    OBVIOUS
  <2>1. Len(Kept(g.sdks, kept)) = Len(g.sdks)
    BY <1>1, <1>2
  <2>2. ~(Len(g.sdks) >= MinNodes)
    BY <1>1, <1>3, <2>1 DEF Survives
  <2> QED  BY <1>1, <1>3, <2>2 DEF MinNodes
<1> QED  BY <1>1, <1>2, <1>4, <1>5 DEF x

LEMMA DeclarationsListed ==
    ASSUME NEW b \in DOMAIN Batch, NEW i \in DOMAIN Batch[b].tests
    PROVE  IF Batch[b].tests[i].legacy THEN IsList(Batch[b].tests[i].sdks)
           ELSE Listed(Batch[b].tests[i])
<1> DEFINE d == Batch[b].tests[i]
<1>1. IF d.legacy THEN d.sdks \in Seq(Agents(d.sdks))
      ELSE d.peers = None \/ d.peers \in Seq(Agents(d.peers))
  BY BatchAssumption
<1> HIDE DEF d
<1>2. IF d.legacy THEN IsList(d.sdks) ELSE Listed(d)
  BY <1>1 DEF IsList, Listed
<1> QED  BY <1>2 DEF d

LEMMA ScenariosListed ==
    ASSUME NEW b \in DOMAIN Batch, NEW s \in Resolved[b]
    PROVE  IsList(s.sdks)
<1> DEFINE tests == Batch[b].tests
           sut   == Batch[b].sut_sdk
<1>1. s \in Scenarios(tests, sut)
  BY DEF Resolved
<1>2. CASE \E i \in DOMAIN tests : tests[i].legacy /\ s = FromLegacy(i, tests[i])
  <2>1. PICK i \in DOMAIN tests : tests[i].legacy /\ s = FromLegacy(i, tests[i])
    BY <1>2
  <2>2. s.sdks = tests[i].sdks
    BY <2>1 DEF FromLegacy
  <2> QED  BY <2>1, <2>2, DeclarationsListed
<1>3. CASE \E x \in Bound(tests, sut) : s = x.scenario
  <2>1. PICK x \in Bound(tests, sut) : s = x.scenario
    BY <1>3
  <2>2. PICK i \in Wanted(tests, sut) : x \in Expand(i, tests[i], sut)
    BY <2>1 DEF Bound
  <2> DEFINE d == tests[i]
  <2>3. PICK v \in DOMAIN d.variants :
            \E k \in DOMAIN Groups(d, d.variants[v], sut) :
                x = Bind(<<i, v, k>>, d, Groups(d, d.variants[v], sut)[k], sut)
    BY <2>2 DEF Expand
  <2>4. PICK k \in DOMAIN Groups(d, d.variants[v], sut) :
            x = Bind(<<i, v, k>>, d, Groups(d, d.variants[v], sut)[k], sut)
    BY <2>3
  <2>5. i \in DOMAIN tests /\ ~tests[i].legacy
    BY DEF Wanted
  <2>6. Listed(d)
    BY <2>5, DeclarationsListed
  <2>7. IsList(Groups(d, d.variants[v], sut)[k].sdks)
    BY <2>6, GroupsListed
  <2> HIDE DEF d, tests, sut
  <2> QED  BY <2>1, <2>4, <2>7, Binding
<1> QED  BY <1>1, <1>2, <1>3 DEF Scenarios

(* A group of a variant is a scenario to run (_expand).                    *)
LEMMA Expanded ==
    ASSUME NEW i, NEW d, NEW sut, NEW v \in DOMAIN d.variants,
           NEW k \in DOMAIN Groups(d, d.variants[v], sut)
    PROVE  Bind(<<i, v, k>>, d, Groups(d, d.variants[v], sut)[k], sut) \in Expand(i, d, sut)
  BY DEF Expand

(* What is owed is in a scenario that was prepared (resolve_all): it is neither  *)
(* trimmed nor skipped, and too small a group refuses the body.               *)
LEMMA OwedIsPrepared ==
    ASSUME NEW b \in DOMAIN Batch, b \notin Malformed, NEW m \in Owed[b]
    PROVE  \E s \in Resolved[b] : s.name = m.name /\ m.peer \in Agents(s.sdks)
<1> DEFINE tests == Batch[b].tests
           sut   == Batch[b].sut_sdk
<1>1. /\ m.name \notin SkippedAtResolution(tests, sut)
      /\ <<m.name, m.peer>> \notin TrimmedAtResolution(tests, sut)
      /\ \E i \in DOMAIN tests : /\ tests[i].legacy \/ i \in Wanted(tests, sut)
                                /\ m \in Meant(tests[i], sut)
  BY DEF Owed
<1>2. Resolved[b] = Scenarios(tests, sut)
  BY DEF Resolved
<1>3. ~ResolutionError(tests, sut)
  BY DEF Malformed
<1>4. PICK i \in DOMAIN tests : /\ tests[i].legacy \/ i \in Wanted(tests, sut)
                               /\ m \in Meant(tests[i], sut)
  BY <1>1
<1> DEFINE d == tests[i]
<1>5. CASE d.legacy
  <2>1. m \in {[name |-> d.name, peer |-> a] : a \in Range(d.sdks)}
    BY <1>4, <1>5 DEF Meant
  <2>2. FromLegacy(i, d) \in Resolved[b]
    BY <1>2, <1>5 DEF Scenarios
  <2>3. FromLegacy(i, d).name = d.name /\ FromLegacy(i, d).sdks = d.sdks
    BY DEF FromLegacy
  <2>4. m.name = d.name /\ m.peer \in Range(d.sdks)
    <3> HIDE DEF d
    <3> QED  BY <2>1
  <2>5. Range(d.sdks) = Agents(d.sdks)
    BY DEF Range, Agents
  <2> HIDE DEF d
  <2> QED  BY <2>2, <2>3, <2>4, <2>5
<1>6. CASE ~d.legacy
  <2>1. i \in Wanted(tests, sut) /\ Listed(d)
    BY <1>4, <1>6, DeclarationsListed
  <2> DEFINE peers == IF d.peers = None THEN Range(Lines)
                      ELSE Range(d.peers) \cup {p \in Range(Lines) : d.ownLines /\ SdkOf[p] = sut}
             able(ts) == {p \in peers : IF d.together THEN ts \subseteq Speaks[p]
                                        ELSE ts \cap Speaks[p] # {}}
             name(ts, p) == IF d.together THEN NameOf(d, [used |-> ts, peer |-> None])
                            ELSE NameOf(d, [used |-> ts \cap Speaks[p], peer |-> p])
  <2>2. PICK ts \in Range(d.variants) : m \in {[name |-> name(ts, p), peer |-> p] : p \in able(ts)}
    BY <1>4, <1>6 DEF Meant
  <2>3. PICK p \in able(ts) : m = [name |-> name(ts, p), peer |-> p]
    BY <2>2
  <2>4. PICK v \in DOMAIN d.variants : d.variants[v] = ts
    BY DEF Range
  <2>5. p \in Agents(PeerIds(d, ts, sut))
    <3>1. CASE d.peers = None
      <4>1. p \in Able(d, ts)
        BY <3>1 DEF Able
      <4> QED  BY <2>1, <3>1, <4>1, PeersListed
    <3>2. CASE d.peers # None
      <4>1. p \in Range(d.peers) \/ p \in Own(d, ts, sut)
        BY <3>2 DEF Own
      <4>2. Range(d.peers) = Agents(d.peers)
        BY DEF Range, Agents
      <4> HIDE DEF d
      <4> QED  BY <2>1, <3>2, <4>1, <4>2, PeersListed
    <3> QED  BY <3>1, <3>2
  <2> DEFINE groups == Groups(d, ts, sut)
  <2>6. PICK k \in DOMAIN groups :
            /\ groups[k].used = IF d.together THEN ts ELSE ts \cap Speaks[p]
            /\ groups[k].peer = IF d.together THEN None ELSE p
            /\ p \in Agents(groups[k].sdks)
    <3>1. CASE d.together
      <4>1. ts \subseteq Speaks[p]
        BY <3>1
      <4> HIDE DEF d
      <4> QED  BY <2>1, <2>5, <3>1, <4>1, GroupsListed
    <3>2. CASE ~d.together
      <4>1. ts \cap Speaks[p] # {}
        BY <3>2
      <4> HIDE DEF d
      <4> QED  BY <2>1, <2>5, <3>2, <4>1, GroupsListed
    <3> QED  BY <3>1, <3>2
  <2>7. IsList(groups[k].sdks)
    BY <2>1, GroupsListed
  <2>8. m.name = NameOf(d, groups[k]) /\ m.peer = p
    <3>1. m.name = name(ts, p) /\ m.peer = p
      BY <2>3
    <3>2. name(ts, p) = NameOf(d, groups[k])
      BY <2>6 DEF NameOf
    <3> QED  BY <3>1, <3>2
  <2> DEFINE x == Bind(<<i, v, k>>, d, groups[k], sut)
  <2>9. x \in Bound(tests, sut)
    <3>1. x \in Expand(i, d, sut)
      <4> HIDE DEF d
      <4> QED  BY <2>4, Expanded
    <3> QED  BY <2>1, <3>1 DEF Bound
  <2>10. /\ x.name = m.name /\ x.scenario.name = m.name
         /\ Agents(x.scenario.sdks) = Agents(groups[k].sdks) \ x.dropped
         /\ x.dropped = {} /\ ~x.runs => Len(x.sdks) < MinNodes
    <3> HIDE DEF d, groups, able, peers, name
    <3> QED  BY <2>7, <2>8, Binding
  <2> HIDE DEF x, d, groups, able, peers, name
  <2>11. ~(Len(x.sdks) < MinNodes)
    BY <1>3, <2>9 DEF ResolutionError
  <2>12. x.runs
    BY <1>1, <2>9, <2>10, <2>11 DEF SkippedAtResolution
  <2>13. x.scenario \in Resolved[b]
    BY <1>2, <2>9, <2>12 DEF Scenarios
  <2>14. m.peer \notin x.dropped
    BY <1>1, <2>9, <2>10, <2>12 DEF TrimmedAtResolution
  <2> QED  BY <2>6, <2>8, <2>10, <2>13, <2>14
<1> QED  BY <1>5, <1>6

-----------------------------------------------------------------------------
(* What of a scenario runs with the agents that are up.                       *)
LEMMA GraphListed ==
    ASSUME NEW s, IsList(s.sdks), NEW up
    PROVE  IsList(Graph(s, up).sdks) /\ Agents(Graph(s, up).sdks) = Agents(s.sdks) \cap up
<1>1. CASE Lost(s, up) = {}
  <2>1. Graph(s, up).sdks = s.sdks
    BY <1>1 DEF Graph
  <2>2. Agents(s.sdks) \cap up = Agents(s.sdks)
    BY <1>1 DEF Lost
  <2> QED  BY <2>1, <2>2
<1>2. CASE Lost(s, up) # {}
  <2>1. Graph(s, up).sdks = Kept(s.sdks, up)
    BY <1>2 DEF Graph, RestrictToAvailable
  <2> QED  BY <2>1, KeptFrom DEF IsList
<1> QED  BY <1>1, <1>2

LEMMA PickedList ==
    ASSUME NEW s, IsList(s), NEW S \in SUBSET DOMAIN s
    PROVE  /\ IsFiniteSet(S) /\ Cardinality(S) \in Nat /\ Len(Picked(s, S)) = Cardinality(S)
           /\ IsList(Picked(s, S)) /\ Agents(Picked(s, S)) = Chosen(s, S)
<1>1. s \in Seq(Agents(s))
  BY DEF IsList
<1>2. /\ IsFiniteSet(S) /\ Cardinality(S) \in Nat /\ Len(Picked(s, S)) = Cardinality(S)
      /\ Picked(s, S) \in Seq(Chosen(s, S)) /\ Agents(Picked(s, S)) = Chosen(s, S)
  BY <1>1, PickedFrom
<1> QED  BY <1>2 DEF IsList

(* The subsets of two agents (combinations(range(n), 2)).                  *)
LEMMA PairSize ==
    ASSUME NEW a, NEW b, a # b
    PROVE  Cardinality({a, b}) = 2
<1> DEFINE A == {b}
           B == {a, b}
<1>1. Cardinality(A) = 1 /\ IsFiniteSet(A) /\ a \notin A
  BY FS_Singleton
<1>2. A \cup {a} = B
  OBVIOUS
<1> HIDE DEF A, B
<1>3. Cardinality(A \cup {a}) = 1 + 1
  BY <1>1, FS_AddElement
<1> QED  BY <1>2, <1>3 DEF B

(* A subtest has the entry agent and one other at least; its agents determine   *)
(* its edges.                                                                 *)
LEMMA Subgraph ==
    ASSUME NEW sdks, IsList(sdks), NEW edges, NEW g \in ValidSubgraphs(sdks, edges)
    PROVE  /\ g.edges = IF edges = None THEN None ELSE MapEdges(edges, sdks, g.sdks)
           /\ edges # None => InRange(edges, sdks)
           /\ \E S \in SUBSET DOMAIN sdks :
                 /\ g.sdks = Picked(sdks, S)
                 /\ Cardinality(S) \in Nat /\ Cardinality(S) >= 2
                 /\ IsFiniteSet(S) /\ Len(g.sdks) = Cardinality(S)
<1> DEFINE sub(S) == [sdks  |-> Picked(sdks, S \cup {1}),
                      edges |-> IF edges = None THEN None
                                ELSE MapEdges(edges, sdks, Picked(sdks, S \cup {1}))]
<1>1. /\ edges # None => InRange(edges, sdks)
      /\ \E S \in (SUBSET (2..Len(sdks))) \ {{}} : g = sub(S)
  BY DEF ValidSubgraphs
<1>2. PICK S \in (SUBSET (2..Len(sdks))) \ {{}} : g = sub(S)
  BY <1>1
<1> DEFINE T == S \cup {1}
<1>3. g.sdks = Picked(sdks, T)
  BY <1>2
<1>4. g.edges = IF edges = None THEN None ELSE MapEdges(edges, sdks, g.sdks)
  BY <1>2
<1>5. DOMAIN sdks = 1..Len(sdks) /\ Len(sdks) \in Nat
  BY DEF IsList
<1>6. PICK i \in S : i \in 2..Len(sdks)
  OBVIOUS
<1>7. T \in SUBSET DOMAIN sdks
  BY <1>5, <1>6
<1>8. IsFiniteSet(T) /\ Cardinality(T) \in Nat /\ Len(g.sdks) = Cardinality(T)
  <2> HIDE DEF T, sub
  <2>1. /\ IsFiniteSet(T) /\ Cardinality(T) \in Nat
        /\ Len(Picked(sdks, T)) = Cardinality(T)
    BY <1>7, PickedList
  <2> QED  BY <1>3, <2>1
<1>9. Cardinality(T) >= 2
  <2>1. {1, i} \in SUBSET T /\ i # 1
    BY <1>6
  <2>2. Cardinality({1, i}) = 2
    BY <2>1, PairSize
  <2>3. Cardinality({1, i}) <= Cardinality(T)
    BY <1>8, <2>1, FS_Subset
  <2> HIDE DEF T
  <2> QED  BY <1>8, <2>2, <2>3
<1> HIDE DEF T, sub
<1> QED  BY <1>1, <1>3, <1>4, <1>7, <1>8, <1>9

-----------------------------------------------------------------------------
(* A request by the values of its variables.                                  *)
PlannedOf(b) == UNION {Agents(s.sdks) : s \in Resolved[b]}

RunsOf(b, up) ==
    {[scenario |-> s, graph |-> Graph(s, up)] : s \in {x \in Resolved[b] : Runs(x, up)}}

TrimmedOf(b, up) ==
    UNION {{<<s.name, a>> : a \in Lost(s, up)} : s \in {x \in Resolved[b] : Runs(x, up)}}

SkippedOf(b, up) == {s.name : s \in {x \in Resolved[b] : ~Runs(x, up)}}

IsResult(x, run, t) ==
    x.name = run.scenario.name /\ x.sub = t.sub /\ x.sdks = t.sdks /\ x.edges = t.edges

(* All results are of scenarios that have run; if no name collides with a subtest *)
(* these have all of theirs.                                                  *)
Executing(b, up, lost, left, trim, skip, res) ==
    /\ SUT \notin lost /\ RunsOf(b, up) # {} /\ left \subseteq RunsOf(b, up)
    /\ trim = TrimmedOf(b, up) /\ skip = SkippedOf(b, up)
    /\ \A x \in res : \E run \in RunsOf(b, up) \ left :
           \E t \in Tests(run.scenario, run.graph) : IsResult(x, run, t)
    /\ KeysApart => \A run \in RunsOf(b, up) \ left : \A t \in Tests(run.scenario, run.graph) :
           \E x \in res : IsResult(x, run, t)

Good(p, b, up, lost, left, trim, skip, res) ==
    /\ b \in DOMAIN Batch
    /\ p \in {"lock"} \cup Inside => b \notin Malformed
    /\ p \in {"idle", "lock", "plan", "start", "select"} => res = {}
    /\ p \in {"select", "execute"} => up \subseteq PlannedOf(b) /\ lost = PlannedOf(b) \ up
    /\ p = "execute" => Executing(b, up, lost, left, trim, skip, res)

RunInv ==
    /\ DOMAIN body = Request /\ DOMAIN pc = Request /\ DOMAIN agents = Request
    /\ DOMAIN missing = Request /\ DOMAIN todo = Request /\ DOMAIN trimmed = Request
    /\ DOMAIN skipped = Request /\ DOMAIN results = Request /\ DOMAIN response = Request
    /\ \A r \in Request : Good(pc[r], body[r], agents[r], missing[r], todo[r], trimmed[r],
                              skipped[r], results[r])

LEMMA ByValues ==
    ASSUME NEW r \in Request
    PROVE  /\ Prepared(r) = Resolved[body[r]] /\ Planned(r) = PlannedOf(body[r])
           /\ Runnable(r) = RunsOf(body[r], agents[r])
           /\ Trimmed(r) = TrimmedOf(body[r], agents[r])
           /\ Skipped(r) = SkippedOf(body[r], agents[r])
  BY DEF Prepared, Planned, PlannedOf, Runnable, RunsOf, Trimmed, TrimmedOf, Skipped, SkippedOf

(* A scenario is told from another by its name (_check_unique).               *)
LEMMA OneOfAName ==
    ASSUME NEW b \in DOMAIN Batch, b \notin Malformed, NEW s \in Resolved[b], NEW t \in Resolved[b],
           s.name = t.name
    PROVE  s = t
  BY DEF Malformed, ResolutionError, Ambiguous, Resolved

LEMMA RunOf ==
    ASSUME NEW b, NEW up, NEW run \in RunsOf(b, up)
    PROVE  /\ run.scenario \in Resolved[b] /\ Runs(run.scenario, up)
           /\ run.graph = Graph(run.scenario, up)
           /\ run = [scenario |-> run.scenario, graph |-> Graph(run.scenario, up)]
  BY DEF RunsOf

-----------------------------------------------------------------------------
(* Names are lists of words, and so are the agents of a subtest.                *)
Worded(s) == s \in Seq(Range(s))

LEMMA WordsOf == ASSUME NEW A, NEW s \in Seq(A) PROVE Worded(s)
  BY OwnElements DEF Worded

LEMMA JoinedWords ==
    ASSUME NEW A, NEW s \in Seq(A), NEW t \in Seq(A)
    PROVE  /\ s \o t \in Seq(A) /\ Len(s \o t) = Len(s) + Len(t) /\ Len(s) \in Nat /\ Len(t) \in Nat
           /\ \A i \in 1..Len(s) : (s \o t)[i] = s[i]
           /\ \A i \in 1..Len(t) : (s \o t)[Len(s) + i] = t[i]
  OBVIOUS

LEMMA SameWords ==
    ASSUME NEW A, NEW B, NEW s \in Seq(A), NEW t \in Seq(B), Len(s) = Len(t),
           \A i \in 1..Len(s) : s[i] = t[i]
    PROVE  s = t
  OBVIOUS

LEMMA MoreWords == ASSUME NEW A, NEW B, A \subseteq B, NEW s \in Seq(A) PROVE s \in Seq(B)
  OBVIOUS

LEMMA OneWord == ASSUME NEW A, NEW a \in A PROVE <<a>> \in Seq(A) /\ <<>> \in Seq(A)
  OBVIOUS

LEMMA NameWords ==
    ASSUME NEW d, Worded(d.name), NEW g
    PROVE  Worded(NameOf(d, g))
<1> DEFINE peer == IF g.peer = None THEN <<>> ELSE <<{g.peer}>>
           used == IF Len(d.variants) > 1 THEN <<g.used>> ELSE <<>>
           A    == Range(d.name) \cup {{g.peer}, g.used}
<1>1. d.name \in Seq(A) /\ peer \in Seq(A) /\ used \in Seq(A)
  <2>1. d.name \in Seq(A)
    BY DEF Worded
  <2>2. {g.peer} \in A /\ g.used \in A
    OBVIOUS
  <2> HIDE DEF A
  <2>3. peer \in Seq(A)
    BY <2>2, OneWord
  <2>4. used \in Seq(A)
    BY <2>2, OneWord
  <2> QED  BY <2>1, <2>3, <2>4
<1>2. NameOf(d, g) = d.name \o peer \o used
  BY DEF NameOf
<1> HIDE DEF A, peer, used
<1>3. d.name \o peer \o used \in Seq(A)
  BY <1>1, JoinedWords
<1> QED  BY <1>2, <1>3, WordsOf

LEMMA ScenarioNames ==
    ASSUME NEW b \in DOMAIN Batch, NEW s \in Resolved[b]
    PROVE  Worded(s.name)
<1> DEFINE tests == Batch[b].tests
           sut   == Batch[b].sut_sdk
<1>1. s \in Scenarios(tests, sut)
  BY DEF Resolved
<1>2. \A i \in DOMAIN tests : Worded(tests[i].name)
  BY BatchAssumption DEF Worded
<1>3. CASE \E i \in DOMAIN tests : s = FromLegacy(i, tests[i])
  BY <1>2, <1>3 DEF FromLegacy
<1>4. CASE \E x \in Bound(tests, sut) : s = x.scenario
  <2>1. PICK x \in Bound(tests, sut) : s = x.scenario
    BY <1>4
  <2>2. PICK i \in Wanted(tests, sut) : x \in Expand(i, tests[i], sut)
    BY <2>1 DEF Bound
  <2> DEFINE d == tests[i]
  <2>3. \E at, g : x = Bind(at, d, g, sut)
    BY <2>2 DEF Expand
  <2>4. PICK at, g : x = Bind(at, d, g, sut)
    BY <2>3
  <2>5. s.name = NameOf(d, g)
    BY <2>1, <2>4 DEF Bind
  <2>6. Worded(d.name)
    BY <1>2 DEF Wanted
  <2> QED  BY <2>5, <2>6, NameWords
<1> QED  BY <1>1, <1>3, <1>4 DEF Scenarios

LEMMA TestWords ==
    ASSUME NEW s, NEW g, IsList(g.sdks), NEW t \in Tests(s, g)
    PROVE  Worded(t.sub) /\ (t.sub # <<>> => s.subtests)
<1>1. CASE ~s.subtests
  <2>1. t.sub = <<>>
    BY <1>1 DEF Tests
  <2>2. <<>> \in Seq({})
    OBVIOUS
  <2> QED  BY <2>1, <2>2, WordsOf
<1>2. CASE s.subtests
  <2>1. PICK x \in ValidSubgraphs(g.sdks, g.edges) : t.sub = <<>> \/ t.sub = x.sdks
    BY <1>2 DEF Tests
  <2>2. PICK S \in SUBSET DOMAIN g.sdks : x.sdks = Picked(g.sdks, S)
    BY Subgraph
  <2>3. IsList(x.sdks)
    BY <2>2, PickedList
  <2>4. <<>> \in Seq({})
    OBVIOUS
  <2>5. Worded(x.sdks) /\ Worded(<<>>)
    BY <2>3, <2>4, WordsOf DEF IsList
  <2> QED  BY <1>2, <2>1, <2>5
<1> QED  BY <1>1, <1>2

(* The string of a subtest, word by word.                                     *)
LEMMA KeyWords ==
    ASSUME NEW x, Worded(x.name), Worded(x.sub), x.sub # <<>>
    PROVE  /\ Len(x.name) \in Nat /\ Len(x.sub) \in Nat
           /\ Key(x) \in Seq(Range(Key(x))) /\ Len(Key(x)) = Len(x.name) + 1 + Len(x.sub)
           /\ \A i \in 1..Len(x.name) : Key(x)[i] = x.name[i]
           /\ Key(x)[Len(x.name) + 1] = {"sub"}
<1> DEFINE name  == x.name
           tail  == [k \in DOMAIN x.sub |-> {x.sub[k]}]
           mark  == <<{"sub"}>>
           A     == Range(name) \cup Range(tail) \cup {{"sub"}}
<1>1. Key(x) = name \o mark \o tail
  BY DEF Key
<1>2. DOMAIN x.sub = 1..Len(x.sub) /\ Len(x.sub) \in Nat
  BY DEF Worded
<1>3. tail \in [1..Len(x.sub) -> Range(tail)]
  BY <1>2 DEF Range
<1>4. tail \in Seq(A) /\ Len(tail) = Len(x.sub)
  <2> HIDE DEF tail
  <2> QED  BY <1>2, <1>3
<1>5. name \in Seq(A) /\ mark \in Seq(A) /\ Len(mark) = 1 /\ mark[1] = {"sub"}
  <2>1. name \in Seq(A)
    <3>1. x.name \in Seq(Range(x.name)) /\ Range(x.name) \subseteq A
      BY DEF Worded
    <3> HIDE DEF A
    <3> QED  BY <3>1, MoreWords
  <2>2. mark \in Seq(A)
    <3>1. {"sub"} \in A
      OBVIOUS
    <3> HIDE DEF A
    <3> QED  BY <3>1, OneWord
  <2>3. Len(mark) = 1 /\ mark[1] = {"sub"}
    OBVIOUS
  <2> HIDE DEF name, mark, A
  <2> QED  BY <2>1, <2>2, <2>3
<1> HIDE DEF tail, mark, A, name
<1> DEFINE front == name \o mark
<1>6. front \in Seq(A) /\ Len(front) = Len(name) + 1 /\ Len(name) \in Nat
  <2>1. name \in Seq(A) /\ mark \in Seq(A)
    BY <1>5
  <2>2. name \o mark \in Seq(A) /\ Len(name \o mark) = Len(name) + Len(mark) /\ Len(name) \in Nat
    BY ONLY <2>1, JoinedWords
  <2>3. front \in Seq(A) /\ Len(front) = Len(name) + Len(mark)
    BY <2>2
  <2> HIDE DEF front
  <2> QED  BY <1>5, <2>2, <2>3
<1>7. (\A i \in 1..Len(name) : front[i] = name[i]) /\ front[Len(name) + 1] = {"sub"}
  <2>1. name \in Seq(A) /\ mark \in Seq(A)
    BY <1>5
  <2>2. /\ \A i \in 1..Len(name) : (name \o mark)[i] = name[i]
        /\ \A i \in 1..Len(mark) : (name \o mark)[Len(name) + i] = mark[i]
    BY ONLY <2>1, JoinedWords
  <2>3. 1 \in 1..Len(mark)
    BY <1>5
  <2> QED  BY <1>5, <2>2, <2>3
<1> HIDE DEF front
<1>8. /\ front \o tail \in Seq(A)
      /\ Len(front \o tail) = Len(name) + 1 + Len(x.sub)
      /\ \A i \in 1..(Len(name) + 1) : (front \o tail)[i] = front[i]
  <2>1. /\ front \o tail \in Seq(A) /\ Len(front \o tail) = Len(front) + Len(tail)
        /\ \A i \in 1..Len(front) : (front \o tail)[i] = front[i]
    BY <1>4, <1>6, JoinedWords
  <2> QED  BY <1>4, <1>6, <2>1
<1>9. Key(x) = front \o tail
  BY <1>1 DEF front
<1>10. Worded(Key(x))
  BY <1>8, <1>9, WordsOf
<1>11. \A i \in 1..Len(name) : i \in 1..(Len(name) + 1)
  BY <1>6
<1>12. Len(name) + 1 \in 1..(Len(name) + 1)
  BY <1>6
<1> QED  BY <1>2, <1>6, <1>7, <1>8, <1>9, <1>10, <1>11, <1>12 DEF name, Worded

(* A run's tests have words for names, and only subtests have a second part.   *)
LEMMA ResultWords ==
    ASSUME NEW b \in DOMAIN Batch, NEW up, NEW run \in RunsOf(b, up),
           NEW t \in Tests(run.scenario, run.graph), NEW x, IsResult(x, run, t)
    PROVE  /\ run.scenario \in Resolved[b] /\ x.name = run.scenario.name
           /\ Worded(x.name) /\ Worded(x.sub) /\ (x.sub # <<>> => run.scenario.subtests)
<1>1. run.scenario \in Resolved[b] /\ run.graph = Graph(run.scenario, up)
  BY RunOf
<1>2. IsList(run.graph.sdks)
  BY <1>1, ScenariosListed, GraphListed
<1>3. Worded(t.sub) /\ (t.sub # <<>> => run.scenario.subtests)
  BY <1>2, TestWords
<1>4. Worded(run.scenario.name)
  BY <1>1, ScenarioNames
<1> QED  BY <1>1, <1>3, <1>4 DEF IsResult

(* One string would say that the longer of two names is that of a subtest.     *)
LEMMA LongerKey ==
    ASSUME KeysApart, NEW b \in DOMAIN Batch, b \notin Malformed,
           NEW s \in Resolved[b], NEW t \in Resolved[b],
           NEW x, x.name = s.name, Worded(x.name), Worded(x.sub), x.sub # <<>> => s.subtests,
           NEW y, y.name = t.name, Worded(y.name), Worded(y.sub),
           Key(x) = Key(y), Len(x.name) < Len(y.name)
    PROVE  FALSE
<1>1. Len(x.name) \in Nat /\ Len(y.name) \in Nat
  BY DEF Worded
<1>2. x.sub # <<>>
  <2> SUFFICES ASSUME x.sub = <<>> PROVE FALSE
    OBVIOUS
  <2>1. Key(x) = x.name
    BY DEF Key
  <2>2. CASE y.sub = <<>>
    <3>1. Key(y) = y.name
      BY <2>2 DEF Key
    <3>2. x.name = y.name
      BY <2>1, <3>1
    <3>3. Len(x.name) = Len(y.name)
      BY <3>2
    <3> QED  BY <1>1, <3>3
  <2>3. CASE y.sub # <<>>
    <3>1. Len(Key(y)) = Len(y.name) + 1 + Len(y.sub) /\ Len(y.sub) \in Nat
      BY <2>3, KeyWords
    <3>2. Len(x.name) = Len(y.name) + 1 + Len(y.sub)
      BY <2>1, <3>1
    <3>3. \A i, j, k \in Nat : i = j + 1 + k => ~(i < j)
      OBVIOUS
    <3> QED  BY <1>1, <3>1, <3>2, <3>3
  <2> QED  BY <2>2, <2>3
<1>3. /\ \A i \in 1..Len(x.name) : Key(x)[i] = x.name[i]
      /\ Key(x)[Len(x.name) + 1] = {"sub"}
  BY <1>2, KeyWords
<1>4. \A i \in 1..Len(y.name) : Key(y)[i] = y.name[i]
  <2>1. CASE y.sub = <<>>
    BY <2>1 DEF Key
  <2>2. CASE y.sub # <<>>
    BY <2>2, KeyWords
  <2> QED  BY <2>1, <2>2
<1>5. NamedLikeSubtest(t, s)
  <2>1. Len(x.name) + 1 \in 1..Len(y.name) /\ \A i \in 1..Len(x.name) : i \in 1..Len(y.name)
    BY <1>1
  <2>2. s.subtests /\ Len(t.name) > Len(s.name)
    BY <1>1, <1>2
  <2>3. \A i \in 1..Len(s.name) : t.name[i] = s.name[i]
    BY <1>3, <1>4, <2>1
  <2>4. t.name[Len(s.name) + 1] = {"sub"}
    BY <1>3, <1>4, <2>1
  <2> QED  BY <2>2, <2>3, <2>4 DEF NamedLikeSubtest
<1> QED  BY <1>5 DEF KeysApart

LEMMA KeysDiffer ==
    ASSUME KeysApart, NEW b \in DOMAIN Batch, b \notin Malformed, NEW up,
           NEW old \in RunsOf(b, up), NEW run \in RunsOf(b, up), old # run,
           NEW t \in Tests(old.scenario, old.graph), NEW x, IsResult(x, old, t),
           NEW u \in Tests(run.scenario, run.graph), NEW y, IsResult(y, run, u)
    PROVE  Key(x) # Key(y)
<1> SUFFICES ASSUME Key(x) = Key(y) PROVE FALSE
  OBVIOUS
<1>1. /\ old.scenario \in Resolved[b] /\ x.name = old.scenario.name
      /\ Worded(x.name) /\ Worded(x.sub) /\ (x.sub # <<>> => old.scenario.subtests)
  BY ResultWords
<1>2. /\ run.scenario \in Resolved[b] /\ y.name = run.scenario.name
      /\ Worded(y.name) /\ Worded(y.sub) /\ (y.sub # <<>> => run.scenario.subtests)
  BY ResultWords
<1>3. ~(Len(x.name) < Len(y.name))
  BY <1>1, <1>2, LongerKey
<1>4. ~(Len(y.name) < Len(x.name))
  BY <1>1, <1>2, LongerKey
<1>5. Len(x.name) = Len(y.name) /\ Len(x.name) \in Nat
  <2>1. Len(x.name) \in Nat /\ Len(y.name) \in Nat
    BY <1>1, <1>2 DEF Worded
  <2> QED  BY <1>3, <1>4, <2>1
<1>6. \A i \in 1..Len(x.name) : Key(x)[i] = x.name[i]
  <2>1. CASE x.sub = <<>>
    BY <2>1 DEF Key
  <2>2. CASE x.sub # <<>>
    BY <1>1, <2>2, KeyWords
  <2> QED  BY <2>1, <2>2
<1>7. \A i \in 1..Len(y.name) : Key(y)[i] = y.name[i]
  <2>1. CASE y.sub = <<>>
    BY <2>1 DEF Key
  <2>2. CASE y.sub # <<>>
    <3>1. Worded(y.name) /\ Worded(y.sub)
      BY <1>2
    <3> QED  BY <2>2, <3>1, KeyWords
  <2> QED  BY <2>1, <2>2
<1>8. x.name = y.name
  <2>1. \A i \in 1..Len(x.name) : x.name[i] = y.name[i]
    BY <1>5, <1>6, <1>7
  <2>2. x.name \in Seq(Range(x.name)) /\ y.name \in Seq(Range(y.name))
    BY <1>1, <1>2 DEF Worded
  <2> QED  BY ONLY <1>5, <2>1, <2>2, SameWords
<1>9. old.scenario = run.scenario
  BY <1>1, <1>2, <1>8, OneOfAName
<1> QED  BY <1>9, RunOf

-----------------------------------------------------------------------------
(* One more scenario is run: its results are those of its tests, and they take  *)
(* the place of others under their keys (run_scenarios).                       *)
ResultsOf(run, new) ==
    /\ \A x \in new : \E t \in Tests(run.scenario, run.graph) : IsResult(x, run, t)
    /\ \A t \in Tests(run.scenario, run.graph) : \E x \in new : IsResult(x, run, t)

Stored(res, new) == new \cup {x \in res : \A y \in new : Key(y) # Key(x)}

LEMMA OneMore ==
    ASSUME NEW b \in DOMAIN Batch, b \notin Malformed, NEW up, NEW lost, NEW left, NEW trim, NEW skip,
           NEW res, Executing(b, up, lost, left, trim, skip, res),
           NEW run \in left, NEW new, ResultsOf(run, new)
    PROVE  Executing(b, up, lost, left \ {run}, trim, skip, Stored(res, new))
<1>1. run \in RunsOf(b, up) /\ left \subseteq RunsOf(b, up)
  BY DEF Executing
<1>2. ASSUME NEW x \in Stored(res, new)
      PROVE  \E old \in RunsOf(b, up) \ (left \ {run}) :
                 \E t \in Tests(old.scenario, old.graph) : IsResult(x, old, t)
  <2>1. CASE x \in res
    BY <2>1 DEF Executing
  <2>2. CASE x \in new
    BY <1>1, <2>2 DEF ResultsOf
  <2> QED  BY <2>1, <2>2 DEF Stored
<1>3. ASSUME KeysApart, NEW old \in RunsOf(b, up) \ (left \ {run}),
             NEW t \in Tests(old.scenario, old.graph)
      PROVE  \E x \in Stored(res, new) : IsResult(x, old, t)
  <2>1. CASE old = run
    BY <2>1 DEF ResultsOf, Stored
  <2>2. CASE old # run
    <3>1. PICK x \in res : IsResult(x, old, t)
      BY <1>3, <2>2 DEF Executing
    <3>2. ASSUME NEW y \in new PROVE Key(y) # Key(x)
      <4>1. PICK u \in Tests(run.scenario, run.graph) : IsResult(y, run, u)
        BY DEF ResultsOf
      <4> QED  BY <1>1, <1>3, <2>2, <3>1, <4>1, KeysDiffer
    <3>3. x \in Stored(res, new)
      BY <3>2 DEF Stored
    <3> QED  BY <3>1, <3>3
  <2> QED  BY <2>1, <2>2
<1> QED  BY <1>1, <1>2, <1>3 DEF Executing

LEMMA RunInit == Init => RunInv
<1> SUFFICES ASSUME Init PROVE RunInv
  OBVIOUS
<1>1. body \in [Request -> DOMAIN Batch]
  BY DEF Init
<1>2. \A r \in Request : pc[r] = "idle" /\ results[r] = {}
  BY DEF Init
<1>3. ASSUME NEW r \in Request
      PROVE Good(pc[r], body[r], agents[r], missing[r], todo[r], trimmed[r], skipped[r], results[r])
  <2> QED  BY <1>1, <1>2 DEF Good, Inside
<1> QED  BY <1>1, <1>3 DEF RunInv, Init

(* An answer leaves the results as they are, and the others alone.             *)
LEMMA AnswerKeepsRuns ==
    ASSUME RunInv, NEW r \in Request, NEW answer, Answer(r, answer),
           UNCHANGED <<body, missing, todo, trimmed, skipped, results>>
    PROVE  RunInv'
<1>1. /\ DOMAIN response' = Request /\ DOMAIN pc' = Request /\ DOMAIN agents' = Request
      /\ pc'[r] = "answered"
      /\ \A q \in Request \ {r} : pc'[q] = pc[q] /\ agents'[q] = agents[q]
  BY DEF Answer, RunInv
<1>2. ASSUME NEW q \in Request
      PROVE  Good(pc'[q], body'[q], agents'[q], missing'[q], todo'[q], trimmed'[q], skipped'[q], results'[q])
  <2>0. Good(pc[q], body[q], agents[q], missing[q], todo[q], trimmed[q], skipped[q], results[q])
    BY DEF RunInv
  <2>1. CASE q = r
    BY <1>1, <2>0, <2>1 DEF Good, Inside
  <2>2. CASE q # r
    BY <1>1, <2>0, <2>2
  <2> QED  BY <2>1, <2>2
<1> QED  BY <1>1, <1>2 DEF RunInv

(* So does a step that changes variables of one request only, if it is good.   *)
LEMMA OneKeepsRuns ==
    ASSUME RunInv, NEW r \in Request,
           DOMAIN body' = Request, DOMAIN pc' = Request, DOMAIN agents' = Request,
           DOMAIN missing' = Request, DOMAIN todo' = Request, DOMAIN trimmed' = Request,
           DOMAIN skipped' = Request, DOMAIN results' = Request, DOMAIN response' = Request,
           \A q \in Request \ {r} :
               /\ pc'[q] = pc[q] /\ body'[q] = body[q] /\ agents'[q] = agents[q]
               /\ missing'[q] = missing[q] /\ todo'[q] = todo[q] /\ trimmed'[q] = trimmed[q]
               /\ skipped'[q] = skipped[q] /\ results'[q] = results[q],
           Good(pc'[r], body'[r], agents'[r], missing'[r], todo'[r], trimmed'[r], skipped'[r], results'[r])
    PROVE  RunInv'
<1>1. ASSUME NEW q \in Request
      PROVE  Good(pc'[q], body'[q], agents'[q], missing'[q], todo'[q], trimmed'[q], skipped'[q], results'[q])
  <2>1. CASE q = r
    BY <2>1
  <2>2. CASE q # r
    BY <2>2 DEF RunInv
  <2> QED  BY <2>1, <2>2
<1> QED  BY <1>1 DEF RunInv

LEMMA SelectKeepsRuns == ASSUME RunInv, NEW r \in Request, Select(r) PROVE RunInv'
<1>1. /\ pc[r] = "select" /\ SUT \notin missing[r] /\ Runnable(r) # {}
      /\ todo' = [todo EXCEPT ![r] = Runnable(r)]
      /\ trimmed' = [trimmed EXCEPT ![r] = Trimmed(r)]
      /\ skipped' = [skipped EXCEPT ![r] = Skipped(r)]
      /\ pc' = [pc EXCEPT ![r] = "execute"]
      /\ UNCHANGED <<body, lock, agents, missing, results, response>>
  BY DEF Select
<1>2. Good(pc[r], body[r], agents[r], missing[r], todo[r], trimmed[r], skipped[r], results[r])
  BY DEF RunInv
<1>3. /\ DOMAIN todo' = Request /\ DOMAIN trimmed' = Request /\ DOMAIN skipped' = Request
      /\ DOMAIN pc' = Request
      /\ todo'[r] = RunsOf(body[r], agents[r]) /\ trimmed'[r] = TrimmedOf(body[r], agents[r])
      /\ skipped'[r] = SkippedOf(body[r], agents[r]) /\ pc'[r] = "execute"
      /\ \A q \in Request \ {r} : /\ pc'[q] = pc[q] /\ todo'[q] = todo[q]
                                 /\ trimmed'[q] = trimmed[q] /\ skipped'[q] = skipped[q]
  BY <1>1, ByValues DEF RunInv
<1>4. Executing(body[r], agents[r], missing[r], todo'[r], trimmed'[r], skipped'[r], {})
  BY <1>1, <1>3, ByValues DEF Executing
<1>5. Good(pc'[r], body'[r], agents'[r], missing'[r], todo'[r], trimmed'[r], skipped'[r], results'[r])
  <2>1. results'[r] = {} /\ results[r] = {}
    BY <1>1, <1>2 DEF Good
  <2>2. /\ body'[r] = body[r] /\ agents'[r] = agents[r] /\ missing'[r] = missing[r]
        /\ body[r] \in DOMAIN Batch /\ body[r] \notin Malformed
        /\ agents[r] \subseteq PlannedOf(body[r]) /\ missing[r] = PlannedOf(body[r]) \ agents[r]
    BY <1>1, <1>2, <2>1 DEF Good, Inside
  <2> QED  BY <1>3, <1>4, <2>1, <2>2 DEF Good
<1> QED  BY <1>1, <1>3, <1>5, OneKeepsRuns DEF RunInv

LEMMA ExecuteKeepsRuns == ASSUME RunInv, NEW r \in Request, Execute(r) PROVE RunInv'
<1>1. PICK run \in todo[r] :
          \E passed \in [Tests(run.scenario, run.graph) -> BOOLEAN] :
             LET new == {[name |-> run.scenario.name, sub |-> t.sub, passed |-> passed[t],
                          sdks |-> t.sdks, edges |-> t.edges] : t \in Tests(run.scenario, run.graph)}
             IN
             /\ results' = [results EXCEPT ![r] =
                    new \cup {x \in @ : \A y \in new : Key(y) # Key(x)}]
             /\ todo' = [todo EXCEPT ![r] = @ \ {run}]
  BY DEF Execute
<1> DEFINE tests == Tests(run.scenario, run.graph)
<1>2. PICK passed \in [tests -> BOOLEAN] :
          LET new == {[name |-> run.scenario.name, sub |-> t.sub, passed |-> passed[t],
                       sdks |-> t.sdks, edges |-> t.edges] : t \in tests}
          IN
          /\ results' = [results EXCEPT ![r] =
                 new \cup {x \in @ : \A y \in new : Key(y) # Key(x)}]
          /\ todo' = [todo EXCEPT ![r] = @ \ {run}]
  BY <1>1
<1> DEFINE new == {[name |-> run.scenario.name, sub |-> t.sub, passed |-> passed[t],
                    sdks |-> t.sdks, edges |-> t.edges] : t \in tests}
<1>3. /\ pc[r] = "execute"
      /\ UNCHANGED <<body, pc, lock, agents, missing, trimmed, skipped, response>>
  BY DEF Execute
<1>4. Good(pc[r], body[r], agents[r], missing[r], todo[r], trimmed[r], skipped[r], results[r])
  BY DEF RunInv
<1>5. /\ body[r] \in DOMAIN Batch /\ body[r] \notin Malformed
      /\ Executing(body[r], agents[r], missing[r], todo[r], trimmed[r], skipped[r], results[r])
  BY <1>3, <1>4 DEF Good, Inside
<1>6. \A x \in new : \E t \in tests : IsResult(x, run, t)
  BY DEF IsResult
<1>7. \A t \in tests : \E x \in new : IsResult(x, run, t)
  <2> TAKE t \in tests
  <2> DEFINE x == [name |-> run.scenario.name, sub |-> t.sub, passed |-> passed[t],
                   sdks |-> t.sdks, edges |-> t.edges]
  <2>1. x \in new /\ IsResult(x, run, t)
    BY DEF IsResult
  <2> HIDE DEF x
  <2> QED  BY <2>1
<1>8. /\ results'[r] = Stored(results[r], new) /\ todo'[r] = todo[r] \ {run}
       /\ DOMAIN results' = Request /\ DOMAIN todo' = Request
       /\ \A q \in Request \ {r} : results'[q] = results[q] /\ todo'[q] = todo[q]
  BY <1>2 DEF RunInv, Stored
<1> HIDE DEF new
<1>9. Executing(body[r], agents[r], missing[r], todo'[r], trimmed[r], skipped[r], results'[r])
  <2>1. run \in todo[r] /\ ResultsOf(run, new)
    BY <1>6, <1>7 DEF ResultsOf
  <2>2. Executing(body[r], agents[r], missing[r], todo[r] \ {run}, trimmed[r], skipped[r],
                  Stored(results[r], new))
    BY <1>5, <2>1, OneMore
  <2> QED  BY <1>8, <2>2
<1>10. Good(pc'[r], body'[r], agents'[r], missing'[r], todo'[r], trimmed'[r], skipped'[r], results'[r])
  <2>1. /\ pc'[r] = pc[r] /\ body'[r] = body[r] /\ agents'[r] = agents[r] /\ missing'[r] = missing[r]
        /\ trimmed'[r] = trimmed[r] /\ skipped'[r] = skipped[r]
    BY <1>3
  <2> QED  BY <1>3, <1>4, <1>9, <2>1 DEF Good
<1> QED  BY <1>3, <1>8, <1>10, OneKeepsRuns DEF RunInv

LEMMA StartKeepsRuns == ASSUME RunInv, NEW r \in Request, StartAll(r) PROVE RunInv'
<1>1. PICK up \in SUBSET Planned(r) :
          /\ agents' = [agents EXCEPT ![r] = up]
          /\ missing' = [missing EXCEPT ![r] = Planned(r) \ up]
  BY DEF StartAll
<1>2. /\ pc[r] = "start" /\ pc' = [pc EXCEPT ![r] = "select"]
      /\ UNCHANGED <<body, lock, todo, trimmed, skipped, results, response>>
  BY DEF StartAll
<1>3. Good(pc[r], body[r], agents[r], missing[r], todo[r], trimmed[r], skipped[r], results[r])
  BY DEF RunInv
<1>4. /\ DOMAIN agents' = Request /\ DOMAIN missing' = Request /\ DOMAIN pc' = Request
      /\ agents'[r] = up /\ missing'[r] = PlannedOf(body[r]) \ up /\ pc'[r] = "select"
      /\ up \subseteq PlannedOf(body[r])
      /\ \A q \in Request \ {r} : /\ pc'[q] = pc[q] /\ agents'[q] = agents[q]
                                 /\ missing'[q] = missing[q]
  BY <1>1, <1>2, ByValues DEF RunInv
<1>5. Good(pc'[r], body'[r], agents'[r], missing'[r], todo'[r], trimmed'[r], skipped'[r], results'[r])
  <2>1. body'[r] = body[r] /\ results'[r] = results[r]
    BY <1>2
  <2>2. /\ body[r] \in DOMAIN Batch /\ body[r] \notin Malformed /\ results[r] = {}
    BY <1>2, <1>3 DEF Good, Inside
  <2> QED  BY <1>4, <2>1, <2>2 DEF Good
<1> QED  BY <1>2, <1>4, <1>5, OneKeepsRuns DEF RunInv

(* Moves that only advance the handler on its way to the agents.              *)
LEMMA AdvanceKeepsRuns ==
    ASSUME RunInv, NEW r \in Request, NEW to \in {"lock", "plan", "start"},
           pc[r] \in {"idle", "lock", "plan"}, pc[r] = "idle" => body[r] \notin Malformed,
           pc' = [pc EXCEPT ![r] = to],
           UNCHANGED <<body, agents, missing, todo, trimmed, skipped, results, response>>
    PROVE  RunInv'
<1>1. Good(pc[r], body[r], agents[r], missing[r], todo[r], trimmed[r], skipped[r], results[r])
  BY DEF RunInv
<1>2. /\ DOMAIN pc' = Request /\ pc'[r] = to
      /\ \A q \in Request \ {r} : pc'[q] = pc[q]
  BY DEF RunInv
<1>3. Good(pc'[r], body'[r], agents'[r], missing'[r], todo'[r], trimmed'[r], skipped'[r], results'[r])
  <2>1. /\ body[r] \in DOMAIN Batch /\ body[r] \notin Malformed /\ results[r] = {}
    BY <1>1 DEF Good, Inside
  <2>2. body'[r] = body[r] /\ results'[r] = results[r]
    OBVIOUS
  <2> QED  BY <1>2, <2>1, <2>2 DEF Good, Inside
<1> QED  BY <1>2, <1>3, OneKeepsRuns DEF RunInv

LEMMA RunStep == RunInv /\ [Next]_vars => RunInv'
<1> SUFFICES ASSUME RunInv, [Next]_vars PROVE RunInv'
  OBVIOUS
<1>1. CASE UNCHANGED vars
  BY <1>1 DEF vars, RunInv
<1>2. ASSUME NEW r \in Request, Serve(r) PROVE RunInv'
  <2>1. CASE Reject(r)
    BY <2>1, AnswerKeepsRuns DEF Reject
  <2>2. CASE Prepare(r)
    BY <2>2, AdvanceKeepsRuns DEF Prepare
  <2>3. CASE PlanFails(r)
    <3>1. PICK code \in {400, 502} : Answer(r, Error(code))
      BY <2>3 DEF PlanFails
    <3> QED  BY <2>3, <3>1, AnswerKeepsRuns DEF PlanFails
  <2>4. CASE Plan(r)
    BY <2>4, AdvanceKeepsRuns DEF Plan
  <2>5. CASE StartAll(r)
    BY <2>5, StartKeepsRuns
  <2>6. CASE StartAllRaises(r)
    BY <2>6, AnswerKeepsRuns DEF StartAllRaises
  <2>7. CASE Select(r)
    BY <2>7, SelectKeepsRuns
  <2>8. CASE NothingToTest(r)
    BY <2>8, AnswerKeepsRuns DEF NothingToTest
  <2>9. CASE Execute(r)
    BY <2>9, ExecuteKeepsRuns
  <2>10. CASE Respond(r)
    BY <2>10, AnswerKeepsRuns DEF Respond
  <2> QED
    BY <1>2, <2>1, <2>2, <2>3, <2>4, <2>5, <2>6, <2>7, <2>8, <2>9, <2>10 DEF Serve
<1>3. ASSUME NEW r \in Request, TakeLock(r) PROVE RunInv'
  BY <1>3, AdvanceKeepsRuns DEF TakeLock
<1> QED
  BY <1>1, <1>2, <1>3 DEF Next

LEMMA RunsStayGood == Spec => []RunInv
  BY RunInit, RunStep, PTL DEF Spec

(* A duplicate name in the batch is refused (resolver.py:158-165) and subtests   *)
(* are named by their agents: whatever the requests are, no result of a run     *)
(* overwrites another in the dictionary that is keyed by one string, unless a     *)
(* scenario is named like a subtest of another one, which nothing refuses.       *)
THEOREM ResultsStay ==
    ASSUME KeysApart
    PROVE  Spec => []ResultsKept
<1>1. RunInv => ResultsKept
  <2> SUFFICES ASSUME RunInv, NEW r \in Request, pc[r] = "execute",
                      NEW run \in Runnable(r) \ todo[r], NEW t \in Tests(run.scenario, run.graph)
               PROVE  \E x \in results[r] : /\ x.name = run.scenario.name /\ x.sub = t.sub
                                           /\ x.sdks = t.sdks /\ x.edges = t.edges
    BY DEF ResultsKept
  <2>1. Good(pc[r], body[r], agents[r], missing[r], todo[r], trimmed[r], skipped[r], results[r])
    BY DEF RunInv
  <2>2. Executing(body[r], agents[r], missing[r], todo[r], trimmed[r], skipped[r], results[r])
    BY <2>1 DEF Good
  <2>3. run \in RunsOf(body[r], agents[r]) \ todo[r]
    BY ByValues
  <2>4. \E x \in results[r] : IsResult(x, run, t)
    BY <2>2, <2>3 DEF Executing
  <2> QED  BY <2>4 DEF IsResult
<1> QED  BY <1>1, RunsStayGood, PTL

-----------------------------------------------------------------------------
(* What an answer says, once all tests are done.                              *)
Answers(b, resp) ==
    resp.status = 200 =>
        /\ \A m \in Owed[b] :
              \/ \E x \in resp.results : x.name = m.name /\ m.peer \in Range(x.sdks)
              \/ \E report \in resp.startup :
                    m.name \in report.skipped \/ <<m.name, m.peer>> \in report.trimmed
        /\ resp.allPassed =>
              /\ resp.results # {}
              /\ \A x \in resp.results, s \in Resolved[b] :
                    x.name = s.name /\ SUT \in Range(s.sdks) => SUT \in Range(x.sdks) \/ x.sub # <<>>

ReportInv == \A r \in Request : pc[r] = "answered" => Answers(body[r], response[r])

(* The tests of a scenario have its agents, if the subtests do.               *)
LEMMA TestsCover ==
    ASSUME SubtestsCovered, NEW b \in DOMAIN Batch, b \notin Malformed, NEW up \in SUBSET PlannedOf(b),
           NEW run \in RunsOf(b, up)
    PROVE  /\ Tests(run.scenario, run.graph) # {}
           /\ \A a \in Agents(run.graph.sdks) :
                 \E t \in Tests(run.scenario, run.graph) : a \in Agents(t.sdks)
<1> DEFINE s == run.scenario
           g == run.graph
<1>1. s \in Resolved[b] /\ Runs(s, up) /\ g = Graph(s, up)
  BY RunOf
<1>2. CASE ~s.subtests
  <2>1. Tests(s, g) = {[sub |-> <<>>, sdks |-> g.sdks, edges |-> g.edges]}
    BY <1>2 DEF Tests
  <2> HIDE DEF s, g
  <2>2. Tests(s, g) # {} /\ \A t \in Tests(s, g) : t.sdks = g.sdks
    BY <2>1
  <2>3. Tests(s, g) # {} /\ \A a \in Agents(g.sdks) : \E t \in Tests(s, g) : a \in Agents(t.sdks)
    BY <2>2
  <2> QED  BY <2>3 DEF s, g
<1>3. CASE s.subtests
  <2> DEFINE subs == ValidSubgraphs(g.sdks, g.edges)
             test(x) == [sub |-> IF Len(x.sdks) = Len(g.sdks) THEN <<>> ELSE x.sdks,
                         sdks |-> x.sdks, edges |-> x.edges]
  <2>1. subs # {} /\ Agents(g.sdks) \subseteq UNION {Agents(x.sdks) : x \in subs}
    BY <1>1, <1>3 DEF SubtestsCovered, PlannedOf
  <2>2. Tests(s, g) = {test(x) : x \in subs}
    BY <1>3 DEF Tests
  <2> HIDE DEF subs
  <2>3. \A x \in subs : test(x) \in Tests(s, g) /\ test(x).sdks = x.sdks
    BY <2>2
  <2> HIDE DEF test, s, g
  <2>4. Tests(s, g) # {}
    BY <2>1, <2>3
  <2>5. ASSUME NEW a \in Agents(g.sdks)
        PROVE  \E t \in Tests(s, g) : a \in Agents(t.sdks)
    <3>1. PICK x \in subs : a \in Agents(x.sdks)
      BY <2>1
    <3>2. test(x) \in Tests(s, g) /\ a \in Agents(test(x).sdks)
      BY <2>3, <3>1
    <3> QED  BY <3>2
  <2> QED  BY <2>4, <2>5 DEF s, g
<1> QED  BY <1>2, <1>3

(* A test that is not named as a part has all agents of its graph.            *)
LEMMA WholeTest ==
    ASSUME NEW s, NEW g, IsList(g.sdks), NEW t \in Tests(s, g), t.sub = <<>>
    PROVE  Agents(t.sdks) = Agents(g.sdks)
<1>1. CASE ~s.subtests
  BY <1>1 DEF Tests
<1>2. CASE s.subtests
  <2> DEFINE test(x) == [sub |-> IF Len(x.sdks) = Len(g.sdks) THEN <<>> ELSE x.sdks,
                         sdks |-> x.sdks, edges |-> x.edges]
             subs == ValidSubgraphs(g.sdks, g.edges)
  <2>1. Tests(s, g) = {test(x) : x \in subs}
    BY <1>2 DEF Tests
  <2>2. PICK x \in subs : t = test(x)
    BY <2>1
  <2>3. PICK S \in SUBSET DOMAIN g.sdks :
            /\ x.sdks = Picked(g.sdks, S)
            /\ Cardinality(S) \in Nat /\ Cardinality(S) >= 2
            /\ IsFiniteSet(S) /\ Len(x.sdks) = Cardinality(S)
    BY Subgraph
  <2>4. Cardinality(S) = Len(g.sdks)
    <3>1. x.sdks # <<>>
      BY <2>3
    <3> QED  BY <2>2, <2>3, <3>1
  <2>5. DOMAIN g.sdks = 1..Len(g.sdks) /\ Len(g.sdks) \in Nat /\ g.sdks \in Seq(Agents(g.sdks))
    BY DEF IsList
  <2>6. IsFiniteSet(DOMAIN g.sdks) /\ Cardinality(DOMAIN g.sdks) = Len(g.sdks)
    BY <2>5, FS_Interval
  <2>7. S = DOMAIN g.sdks
    BY <2>4, <2>6, FS_Subset
  <2>8. Agents(x.sdks) = Agents(g.sdks)
    <3>1. Agents(Picked(g.sdks, S)) = Chosen(g.sdks, S)
      BY PickedList
    <3>2. Agents(g.sdks) = Chosen(g.sdks, S)
      BY <2>7 DEF Agents, Chosen
    <3> QED  BY <2>3, <3>1, <3>2
  <2> QED  BY <2>2, <2>8
<1> QED  BY <1>1, <1>2

LEMMA SutTested ==
    ASSUME NEW b \in DOMAIN Batch, b \notin Malformed, NEW up, SUT \notin PlannedOf(b) \ up,
           NEW run \in RunsOf(b, up), SUT \in Agents(run.scenario.sdks),
           NEW t \in Tests(run.scenario, run.graph), t.sub = <<>>
    PROVE  SUT \in Agents(t.sdks)
<1>1. run.scenario \in Resolved[b] /\ run.graph = Graph(run.scenario, up)
  BY RunOf
<1>2. IsList(run.scenario.sdks)
  BY <1>1, ScenariosListed
<1>3. /\ IsList(run.graph.sdks)
      /\ Agents(run.graph.sdks) = Agents(run.scenario.sdks) \cap up
  BY <1>1, <1>2, GraphListed
<1>4. SUT \in up
  BY <1>1 DEF PlannedOf
<1>5. Agents(t.sdks) = Agents(run.graph.sdks)
  BY <1>3, WholeTest
<1> QED  BY <1>3, <1>4, <1>5

(* Once everything has run, whoever is owed a result has one or is reported:   *)
(* a lost agent makes dropped_peers non-empty, so the report is there.         *)
LEMMA ServedAnswers ==
    ASSUME SubtestsCovered, KeysApart, NEW b \in DOMAIN Batch, b \notin Malformed,
           NEW up \in SUBSET PlannedOf(b), NEW lost, lost = PlannedOf(b) \ up, NEW trim, NEW skip, NEW res,
           Executing(b, up, lost, {}, trim, skip, res), NEW r
    PROVE  Answers(b, Served(r, res, lost, trim, skip))
<1> DEFINE resp == Served(r, res, lost, trim, skip)
           report == [dropped |-> lost, trimmed |-> trim, skipped |-> skip, total |-> FALSE]
<1>1. /\ resp.results = res /\ resp.startup = IF lost = {} THEN {} ELSE {report}
      /\ report.skipped = skip /\ report.trimmed = trim
  BY DEF Served
<1> HIDE DEF resp, report
<1>2. ASSUME NEW m \in Owed[b]
      PROVE  \/ \E x \in res : x.name = m.name /\ m.peer \in Range(x.sdks)
             \/ lost # {} /\ (m.name \in skip \/ <<m.name, m.peer>> \in trim)
  <2>1. PICK s \in Resolved[b] : s.name = m.name /\ m.peer \in Agents(s.sdks)
    BY OwedIsPrepared
  <2>2. m.peer \in PlannedOf(b)
    BY <2>1 DEF PlannedOf
  <2>3. CASE ~Runs(s, up)
    <3>1. m.name \in skip
      BY <2>1, <2>3 DEF Executing, SkippedOf
    <3>2. PICK a \in Lost(s, up) : TRUE
      BY <2>3 DEF Runs
    <3>3. a \in lost
      BY <3>2 DEF Lost, PlannedOf
    <3> QED  BY <3>1, <3>3
  <2>4. CASE Runs(s, up) /\ m.peer \notin up
    <3>1. m.peer \in Lost(s, up) /\ m.peer \in lost
      BY <2>1, <2>2, <2>4 DEF Lost
    <3>2. <<m.name, m.peer>> \in trim
      BY <2>1, <2>4, <3>1 DEF Executing, TrimmedOf
    <3> QED  BY <3>1, <3>2
  <2>5. CASE Runs(s, up) /\ m.peer \in up
    <3> DEFINE run == [scenario |-> s, graph |-> Graph(s, up)]
    <3>1. run \in RunsOf(b, up) /\ run.scenario = s /\ run.graph = Graph(s, up)
      BY <2>5 DEF RunsOf
    <3> HIDE DEF run
    <3>2. IsList(s.sdks)
      BY ScenariosListed
    <3>3. m.peer \in Agents(run.graph.sdks)
      BY <2>1, <2>5, <3>1, <3>2, GraphListed
    <3>4. PICK t \in Tests(run.scenario, run.graph) : m.peer \in Agents(t.sdks)
      BY <3>1, <3>3, TestsCover
    <3>5. PICK x \in res : IsResult(x, run, t)
      BY <3>1 DEF Executing
    <3>6. x.name = m.name /\ x.sdks = t.sdks
      BY <2>1, <3>1, <3>5 DEF IsResult
    <3> QED  BY <3>4, <3>6 DEF Range, Agents
  <2> QED  BY <2>3, <2>4, <2>5
<1>3. res # {}
  <2>1. PICK run \in RunsOf(b, up) : TRUE
    BY DEF Executing
  <2>2. PICK t \in Tests(run.scenario, run.graph) : TRUE
    BY TestsCover
  <2> QED  BY <2>1, <2>2 DEF Executing
<1>4. ASSUME NEW x \in res, NEW s \in Resolved[b], x.name = s.name, SUT \in Range(s.sdks), x.sub = <<>>
      PROVE  SUT \in Range(x.sdks)
  <2>1. PICK run \in RunsOf(b, up) : \E t \in Tests(run.scenario, run.graph) : IsResult(x, run, t)
    BY DEF Executing
  <2>2. PICK t \in Tests(run.scenario, run.graph) : IsResult(x, run, t)
    BY <2>1
  <2>3. run.scenario \in Resolved[b] /\ run.scenario.name = s.name
    BY <1>4, <2>1, <2>2, RunOf DEF IsResult
  <2>4. run.scenario = s
    BY <2>3, OneOfAName
  <2>5. SUT \in Agents(run.scenario.sdks) /\ t.sub = <<>> /\ x.sdks = t.sdks
    BY <1>4, <2>2, <2>4 DEF IsResult, Range, Agents
  <2>6. SUT \notin PlannedOf(b) \ up
    BY DEF Executing
  <2>7. SUT \in Agents(t.sdks)
    BY <2>1, <2>5, <2>6, SutTested
  <2> QED  BY <2>5, <2>7 DEF Range, Agents
<1> QED  BY <1>1, <1>2, <1>3, <1>4 DEF Answers, resp

(* A cluster that cannot be used fails every scenario, each with all its agents. *)
LEMMA FailureAnswers ==
    ASSUME NEW r \in Request, body[r] \in DOMAIN Batch, body[r] \notin Malformed, NEW lost
    PROVE  Answers(body[r], ClusterFailure(r, lost))
<1> DEFINE b == body[r]
           resp == ClusterFailure(r, lost)
           failed(s) == [name |-> s.name, sub |-> <<>>, passed |-> FALSE, sdks |-> s.sdks,
                         edges |-> s.edges]
<1>1. resp.results = {failed(s) : s \in Resolved[b]} /\ resp.allPassed = FALSE
  BY DEF ClusterFailure, Prepared
<1>2. ASSUME NEW m \in Owed[b]
      PROVE  \E x \in resp.results : x.name = m.name /\ m.peer \in Range(x.sdks)
  <2>1. PICK s \in Resolved[b] : s.name = m.name /\ m.peer \in Agents(s.sdks)
    BY OwedIsPrepared
  <2>2. failed(s).name = s.name /\ failed(s).sdks = s.sdks
    OBVIOUS
  <2> HIDE DEF failed, resp
  <2>3. failed(s) \in resp.results
    BY <1>1
  <2> QED  BY <2>1, <2>2, <2>3 DEF Range, Agents
<1> HIDE DEF resp
<1>3. Answers(b, resp)
  BY <1>1, <1>2 DEF Answers
<1> QED  BY <1>3 DEF resp

LEMMA AnswerReports ==
    ASSUME RunInv, ReportInv, NEW r \in Request, NEW answer, Answer(r, answer), body' = body,
           Answers(body[r], answer)
    PROVE  ReportInv'
<1>1. /\ response'[r] = answer
      /\ \A q \in Request \ {r} : pc'[q] = pc[q] /\ response'[q] = response[q]
  BY DEF Answer, RunInv
<1>2. ASSUME NEW q \in Request, pc'[q] = "answered" PROVE Answers(body'[q], response'[q])
  <2>1. CASE q = r
    BY <1>1, <2>1
  <2>2. CASE q # r
    BY <1>1, <1>2, <2>2 DEF ReportInv
  <2> QED  BY <2>1, <2>2
<1> QED  BY <1>2 DEF ReportInv

LEMMA MoveReports ==
    ASSUME RunInv, ReportInv, NEW r \in Request, NEW to, to # "answered", pc' = [pc EXCEPT ![r] = to],
           UNCHANGED <<body, response>>
    PROVE  ReportInv'
  BY DEF RunInv, ReportInv

LEMMA ErrorAnswers == ASSUME NEW b, NEW code, code # 200 PROVE Answers(b, Error(code))
  BY DEF Answers, Error

LEMMA ReportStep == SubtestsCovered /\ KeysApart /\ RunInv /\ ReportInv /\ [Next]_vars => ReportInv'
<1> SUFFICES ASSUME SubtestsCovered, KeysApart, RunInv, ReportInv, [Next]_vars PROVE ReportInv'
  OBVIOUS
<1>1. CASE UNCHANGED vars
  BY <1>1 DEF vars, ReportInv
<1>2. ASSUME NEW r \in Request, Serve(r) PROVE ReportInv'
  <2>0. Good(pc[r], body[r], agents[r], missing[r], todo[r], trimmed[r], skipped[r], results[r])
    BY DEF RunInv
  <2>1. CASE Reject(r)
    BY <2>1, AnswerReports, ErrorAnswers DEF Reject
  <2>2. CASE Prepare(r)
    BY <2>2, MoveReports DEF Prepare
  <2>3. CASE PlanFails(r)
    <3>1. PICK code \in {400, 502} : Answer(r, Error(code))
      BY <2>3 DEF PlanFails
    <3>2. body' = body
      BY <2>3 DEF PlanFails
    <3> QED  BY <3>1, <3>2, AnswerReports, ErrorAnswers
  <2>4. CASE Plan(r)
    BY <2>4, MoveReports DEF Plan
  <2>5. CASE StartAll(r)
    BY <2>5, MoveReports DEF StartAll
  <2>6. CASE StartAllRaises(r)
    BY <2>6, AnswerReports, ErrorAnswers DEF StartAllRaises
  <2>7. CASE Select(r)
    BY <2>7, MoveReports DEF Select
  <2>8. CASE NothingToTest(r)
    <3>1. body[r] \in DOMAIN Batch /\ body[r] \notin Malformed
      BY <2>0, <2>8 DEF NothingToTest, Good, Inside
    <3>2. Answers(body[r], ClusterFailure(r, missing[r]))
      BY <3>1, FailureAnswers
    <3>3. Answer(r, ClusterFailure(r, missing[r])) /\ body' = body
      BY <2>8 DEF NothingToTest
    <3> QED  BY <3>2, <3>3, AnswerReports
  <2>9. CASE Execute(r)
    BY <2>9 DEF Execute, ReportInv
  <2>10. CASE Respond(r)
    <3>1. /\ pc[r] = "execute" /\ todo[r] = {} /\ body' = body
          /\ Answer(r, Served(r, results[r], missing[r], trimmed[r], skipped[r]))
      BY <2>10 DEF Respond
    <3>2. /\ body[r] \in DOMAIN Batch /\ body[r] \notin Malformed
          /\ agents[r] \in SUBSET PlannedOf(body[r])
          /\ missing[r] = PlannedOf(body[r]) \ agents[r]
          /\ Executing(body[r], agents[r], missing[r], {}, trimmed[r], skipped[r], results[r])
      BY <2>0, <3>1 DEF Good, Inside
    <3>3. Answers(body[r], Served(r, results[r], missing[r], trimmed[r], skipped[r]))
      BY <3>2, ServedAnswers
    <3> QED  BY <3>1, <3>3, AnswerReports
  <2> QED
    BY <1>2, <2>1, <2>2, <2>3, <2>4, <2>5, <2>6, <2>7, <2>8, <2>9, <2>10 DEF Serve
<1>3. ASSUME NEW r \in Request, TakeLock(r) PROVE ReportInv'
  BY <1>3, MoveReports DEF TakeLock
<1> QED
  BY <1>1, <1>2, <1>3 DEF Next

LEMMA ReportsStayTrue ==
    ASSUME SubtestsCovered, KeysApart
    PROVE  Spec => [](RunInv /\ ReportInv)
<1>1. Init => ReportInv
  BY DEF Init, ReportInv
<1> QED  BY <1>1, RunInit, RunStep, ReportStep, PTL DEF Spec

(* "a run that quietly tests less than the file describes and still goes green  *)
(* is the failure mode this pipeline exists to prevent" (itk_runner.py:82-84):   *)
(* with any matrix, known failures, batches and requests, and whatever agents   *)
(* stay down, every agent of every declared scenario is tested or reported      *)
(* lost.  The subtests must not lose an agent themselves, which they can as the    *)
(* run itk_vanishing shows, and no scenario may be named like one.             *)
THEOREM LossIsReported ==
    ASSUME SubtestsCovered, KeysApart
    PROVE  Spec => []LossReported
<1>1. RunInv /\ ReportInv => LossReported
  <2> SUFFICES ASSUME RunInv, ReportInv, NEW r \in Request, Completed(r), NEW m \in Owed[body[r]]
               PROVE  Ran(r, m) \/ Reported(r, m)
    BY DEF LossReported
  <2> QED  BY DEF Completed, ReportInv, Answers, Ran, Reported
<1> QED  BY <1>1, ReportsStayTrue, PTL

(* all() of no results is True (itk_service_v2.py), but the ClusterStartupError *)
(* of _select_runnable and the trimming of scenarios see to it that a green      *)
(* response has a result, and tested the code under test wherever it was         *)
(* declared.                                                                  *)
THEOREM GreenIsTested ==
    ASSUME SubtestsCovered, KeysApart
    PROVE  Spec => []GreenMeansTested
<1>1. RunInv /\ ReportInv => GreenMeansTested
  <2> SUFFICES ASSUME RunInv, ReportInv, NEW r \in Request, Completed(r), response[r].allPassed
               PROVE  /\ response[r].results # {}
                      /\ \A x \in response[r].results, s \in Prepared(r) :
                            x.name = s.name /\ SUT \in Range(s.sdks) => SUT \in Range(x.sdks) \/ x.sub # <<>>
    BY DEF GreenMeansTested
  <2>1. Answers(body[r], response[r]) /\ response[r].status = 200
    BY DEF Completed, ReportInv
  <2> QED  BY <2>1 DEF Answers, Prepared
<1> QED  BY <1>1, ReportsStayTrue, PTL

-----------------------------------------------------------------------------
(* One edge list is in another if it finds its edges there, at other places.   *)
Embedding(E, F) ==
    {h \in Injection(DOMAIN E, DOMAIN F) : \A k \in DOMAIN E : F[h[k]] = E[k]}

Count(E, e) == Cardinality({k \in DOMAIN E : E[k] = e})

LEMMA EmbeddedIsFewer ==
    ASSUME NEW E, NEW F, IsFiniteSet(DOMAIN F), Embedding(E, F) # {}, NEW e
    PROVE  Count(E, e) <= Count(F, e)
<1> DEFINE S == {k \in DOMAIN E : E[k] = e}
           T == {k \in DOMAIN F : F[k] = e}
<1>1. PICK h \in Embedding(E, F) : TRUE
  OBVIOUS
<1>2. /\ h \in [DOMAIN E -> DOMAIN F] /\ \A k \in DOMAIN E : F[h[k]] = E[k]
      /\ \A j, k \in DOMAIN E : h[j] = h[k] => j = k
  BY DEF Embedding, Injection, IsInjective
<1> DEFINE g == [k \in S |-> h[k]]
<1>3. g \in Injection(S, T)
  BY <1>2 DEF Injection, IsInjective
<1>4. IsFiniteSet(T)
  BY FS_Subset
<1> HIDE DEF S, T, g
<1>5. Cardinality(S) <= Cardinality(T)
  BY <1>3, <1>4, FS_Injection
<1> QED  BY <1>5 DEF S, T, Count

LEMMA EmbeddedInItself == ASSUME NEW E PROVE Embedding(E, E) # {}
<1> DEFINE h == [k \in DOMAIN E |-> k]
<1>1. h \in Embedding(E, E)
  BY DEF Embedding, Injection, IsInjective
<1> QED  BY <1>1

LEMMA EmbeddedTwice ==
    ASSUME NEW E, NEW F, NEW G, Embedding(E, F) # {}, Embedding(F, G) # {}
    PROVE  Embedding(E, G) # {}
<1>1. PICK h \in Embedding(E, F), g \in Embedding(F, G) : TRUE
  OBVIOUS
<1>2. /\ h \in [DOMAIN E -> DOMAIN F] /\ \A k \in DOMAIN E : F[h[k]] = E[k]
      /\ \A j, k \in DOMAIN E : h[j] = h[k] => j = k
      /\ g \in [DOMAIN F -> DOMAIN G] /\ \A k \in DOMAIN F : G[g[k]] = F[k]
      /\ \A j, k \in DOMAIN F : g[j] = g[k] => j = k
  BY DEF Embedding, Injection, IsInjective
<1> DEFINE f == [k \in DOMAIN E |-> g[h[k]]]
<1>3. f \in [DOMAIN E -> DOMAIN G] /\ \A k \in DOMAIN E : G[f[k]] = E[k]
  BY <1>2
<1>4. \A j, k \in DOMAIN E : f[j] = f[k] => j = k
  BY <1>2
<1>5. f \in Embedding(E, G)
  <2> HIDE DEF f
  <2> QED  BY <1>3, <1>4 DEF Embedding, Injection, IsInjective
<1> QED  BY <1>5

LEMMA PickedIsEmbedded ==
    ASSUME NEW A, NEW E \in Seq(A), NEW K \in SUBSET DOMAIN E
    PROVE  Embedding(Picked(E, K), E) # {}
<1> DEFINE h == [n \in 1..Cardinality(K) |-> At(K, n)]
<1>1. /\ DOMAIN Picked(E, K) = 1..Cardinality(K)
      /\ \A n \in 1..Cardinality(K) : At(K, n) \in K /\ Picked(E, K)[n] = E[At(K, n)]
      /\ \A m, n \in 1..Cardinality(K) : At(K, m) = At(K, n) => m = n
  BY PickedFrom
<1>2. h \in Embedding(Picked(E, K), E)
  BY <1>1 DEF Embedding, Injection, IsInjective
<1> QED  BY <1>2

(* The complete digraph: place k of its list is the edge from the agent at Row  *)
(* to the one at Col, and every pair of two places is one k.                   *)
Row(n, k) == ((k - 1) \div (n - 1)) + 1

Col(n, k) == LET at == ((k - 1) % (n - 1)) + 1 IN IF at < Row(n, k) THEN at ELSE at + 1

LEMMA MeshPlaces ==
    ASSUME NEW n \in Nat
    PROVE  /\ \A k \in 1..(n * (n - 1)) :
                 Row(n, k) \in 1..n /\ Col(n, k) \in 1..n /\ Row(n, k) # Col(n, k)
           /\ \A j, k \in 1..(n * (n - 1)) : Row(n, j) = Row(n, k) /\ Col(n, j) = Col(n, k) => j = k
           /\ \A u, v \in 1..n : u # v =>
                 \E k \in 1..(n * (n - 1)) : Row(n, k) = u /\ Col(n, k) = v
<1>1. CASE n < 2
  <2>1. n = 0 \/ n = 1
    BY <1>1
  <2>2. n * (n - 1) = 0
    BY <2>1
  <2> QED  BY <2>1, <2>2
<1>2. CASE n >= 2
  <2> DEFINE m == n - 1
             q(k) == (k - 1) \div m
             d(k) == (k - 1) % m
  <2>1. m \in Nat /\ m > 0 /\ n = m + 1 /\ n * m \in Nat
    BY <1>2
  <2>2. ASSUME NEW k \in 1..(n * m)
        PROVE  q(k) \in Nat /\ d(k) \in Nat /\ d(k) < m /\ k - 1 = m * q(k) + d(k) /\ q(k) < n
    <3>1. k - 1 \in Nat /\ k - 1 < n * m
      BY <2>1
    <3>2. q(k) \in Nat /\ d(k) \in Nat /\ d(k) < m /\ k - 1 = m * q(k) + d(k)
      <4> HIDE DEF m
      <4> QED  BY <2>1, <3>1
    <3> HIDE DEF q, d, m
    <3>3. m * q(k) < n * m
      BY <2>1, <3>1, <3>2
    <3>4. q(k) < n
      BY <2>1, <3>2, <3>3
    <3> QED  BY <3>2, <3>4
  <2>3. ASSUME NEW k \in 1..(n * m)
        PROVE  Row(n, k) = q(k) + 1 /\ Col(n, k) = IF d(k) < q(k) THEN d(k) + 1 ELSE d(k) + 2
    <3>1. Row(n, k) = q(k) + 1 /\ Col(n, k) = IF d(k) + 1 < Row(n, k) THEN d(k) + 1 ELSE d(k) + 1 + 1
      BY DEF Row, Col
    <3>2. q(k) \in Nat /\ d(k) \in Nat
      BY <2>2
    <3>3. \A x, y \in Nat : (x + 1 < y + 1 <=> x < y) /\ x + 1 + 1 = x + 2
      OBVIOUS
    <3> HIDE DEF q, d, m
    <3>4. d(k) + 1 < Row(n, k) <=> d(k) < q(k)
      BY <3>1, <3>2, <3>3
    <3> QED  BY <3>1, <3>2, <3>3, <3>4
  <2>4. \A a, b, c, e \in Nat : c < m /\ e < m /\ m * a + c = m * b + e => a = b /\ c = e
    <3> SUFFICES ASSUME NEW a \in Nat, NEW b \in Nat, NEW c \in Nat, NEW e \in Nat,
                        c < m, e < m, m * a + c = m * b + e
                 PROVE  a = b /\ c = e
      OBVIOUS
    <3> HIDE DEF m
    <3>1. ~(a < b)
      <4> SUFFICES ASSUME a + 1 <= b PROVE FALSE
        OBVIOUS
      <4>1. m * (a + 1) <= m * b /\ m * (a + 1) = m * a + m
        BY <2>1
      <4>2. m * a \in Nat /\ m * b \in Nat
        BY <2>1
      <4> QED  BY <2>1, <4>1, <4>2
    <3>2. ~(b < a)
      <4> SUFFICES ASSUME b + 1 <= a PROVE FALSE
        OBVIOUS
      <4>1. m * (b + 1) <= m * a /\ m * (b + 1) = m * b + m
        BY <2>1
      <4>2. m * a \in Nat /\ m * b \in Nat
        BY <2>1
      <4> QED  BY <2>1, <4>1, <4>2
    <3>3. a = b
      BY <3>1, <3>2
    <3>4. m * a \in Nat
      BY <2>1
    <3> QED  BY <3>3, <3>4
  <2>5. ASSUME NEW u \in 1..n, NEW v \in 1..n, u # v
        PROVE  \E k \in 1..(n * m) : Row(n, k) = u /\ Col(n, k) = v
    <3> DEFINE c == IF v < u THEN v - 1 ELSE v - 2
               k == m * (u - 1) + c + 1
    <3>1. c \in Nat /\ c < m /\ u - 1 \in Nat /\ u - 1 <= m
      BY <2>1, <2>5
    <3>2. m * (u - 1) \in Nat /\ m * (u - 1) <= m * m /\ n * m = m * m + m
      <4> HIDE DEF m
      <4> QED  BY <2>1, <3>1
    <3>3. k \in 1..(n * m) /\ k - 1 = m * (u - 1) + c
      <4> HIDE DEF m, c
      <4> QED  BY <2>1, <3>1, <3>2
    <3> HIDE DEF k
    <3>4. q(k) = u - 1 /\ d(k) = c
      <4> HIDE DEF q, d, m, c
      <4>1. q(k) \in Nat /\ d(k) \in Nat /\ d(k) < m /\ m * q(k) + d(k) = m * (u - 1) + c
        BY <2>2, <3>3
      <4> QED  BY <2>4, <3>1, <4>1
    <3>5. Row(n, k) = u /\ Col(n, k) = v
      <4>1. Row(n, k) = q(k) + 1 /\ Col(n, k) = IF d(k) < q(k) THEN d(k) + 1 ELSE d(k) + 2
        BY <2>3, <3>3
      <4> HIDE DEF q, d
      <4> QED  BY <2>5, <3>4, <4>1
    <3> QED  BY <3>3, <3>5
  <2>6. ASSUME NEW j \in 1..(n * m), NEW k \in 1..(n * m), Row(n, j) = Row(n, k), Col(n, j) = Col(n, k)
        PROVE  j = k
    <3> HIDE DEF q, d, m
    <3>1. q(j) = q(k) /\ d(j) = d(k)
      BY <2>2, <2>3, <2>6
    <3> QED  BY <2>1, <2>2, <3>1
  <2>7. ASSUME NEW k \in 1..(n * m)
        PROVE  Row(n, k) \in 1..n /\ Col(n, k) \in 1..n /\ Row(n, k) # Col(n, k)
    <3> HIDE DEF q, d
    <3> QED  BY <2>1, <2>2, <2>3
  <2> QED  BY <2>5, <2>6, <2>7
<1> QED  BY <1>1, <1>2

LEMMA MeshIs ==
    ASSUME NEW s
    PROVE  /\ DOMAIN Mesh(s) = 1..(Len(s) * (Len(s) - 1))
           /\ \A k \in 1..(Len(s) * (Len(s) - 1)) :
                 Mesh(s)[k] = <<s[Row(Len(s), k)], s[Col(Len(s), k)]>>
  BY DEF Mesh, Row, Col

(* The complete digraph of some agents is in that of all.                     *)
LEMMA MeshIsEmbedded ==
    ASSUME NEW s, IsList(s), NEW S \in SUBSET DOMAIN s
    PROVE  Embedding(Mesh(Picked(s, S)), Mesh(s)) # {}
<1> DEFINE p == Picked(s, S)
           n == Cardinality(S)
           N == Len(s)
<1>1. s \in Seq(Agents(s)) /\ N \in Nat /\ DOMAIN s = 1..N
  BY DEF IsList
<1>2. /\ n \in Nat /\ Len(p) = n
      /\ \A i \in 1..n : At(S, i) \in S /\ p[i] = s[At(S, i)]
      /\ \A i, j \in 1..n : At(S, i) = At(S, j) => i = j
  BY <1>1, PickedFrom
<1> HIDE DEF p, n, N
<1> DEFINE D == 1..(n * (n - 1))
           to(k, j) == Row(N, j) = At(S, Row(n, k)) /\ Col(N, j) = At(S, Col(n, k))
           h == [k \in D |-> CHOOSE j \in 1..(N * (N - 1)) : to(k, j)]
<1>3. \A k \in D : /\ Row(n, k) \in 1..n /\ Col(n, k) \in 1..n
                    /\ At(S, Row(n, k)) \in 1..N /\ At(S, Col(n, k)) \in 1..N
                    /\ At(S, Row(n, k)) # At(S, Col(n, k))
  <2> TAKE k \in D
  <2>1. Row(n, k) \in 1..n /\ Col(n, k) \in 1..n /\ Row(n, k) # Col(n, k)
    BY <1>2, MeshPlaces
  <2> HIDE DEF D
  <2> QED  BY <1>1, <1>2, <2>1
<1>4. \A k \in D : h[k] \in 1..(N * (N - 1)) /\ to(k, h[k])
  <2> TAKE k \in D
  <2>1. \E j \in 1..(N * (N - 1)) : to(k, j)
    <3>1. PICK u \in 1..N, v \in 1..N : u = At(S, Row(n, k)) /\ v = At(S, Col(n, k)) /\ u # v
      BY <1>3
    <3>2. PICK j \in 1..(N * (N - 1)) : Row(N, j) = u /\ Col(N, j) = v
      <4>1. \A x, y \in 1..N : x # y => \E j \in 1..(N * (N - 1)) : Row(N, j) = x /\ Col(N, j) = y
        BY <1>1, MeshPlaces
      <4> QED  BY <3>1, <4>1
    <3> QED  BY <3>1, <3>2
  <2> DEFINE M == 1..(N * (N - 1))
  <2> HIDE DEF D, M, to
  <2>2. \E j \in M : to(k, j)
    BY <2>1 DEF M
  <2>3. h[k] = CHOOSE j \in M : to(k, j)
    BY DEF M
  <2> QED  BY <2>2, <2>3 DEF M
<1>5. \A j, k \in D : h[j] = h[k] => j = k
  <2> SUFFICES ASSUME NEW j \in D, NEW k \in D, h[j] = h[k] PROVE j = k
    OBVIOUS
  <2>1. to(j, h[j]) /\ to(k, h[k])
    BY <1>4
  <2> HIDE DEF h
  <2>2. At(S, Row(n, j)) = At(S, Row(n, k)) /\ At(S, Col(n, j)) = At(S, Col(n, k))
    BY <2>1
  <2>3. Row(n, j) = Row(n, k) /\ Col(n, j) = Col(n, k)
    BY <1>2, <1>3, <2>2
  <2> QED  BY <1>2, <2>3, MeshPlaces
<1>6. DOMAIN Mesh(p) = D /\ DOMAIN Mesh(s) = 1..(N * (N - 1))
  BY <1>2, MeshIs DEF N
<1>7. \A k \in D : Mesh(s)[h[k]] = Mesh(p)[k]
  <2> TAKE k \in D
  <2>1. h[k] \in 1..(N * (N - 1)) /\ to(k, h[k])
    BY <1>4
  <2> HIDE DEF h
  <2>2. Mesh(s)[h[k]] = <<s[Row(N, h[k])], s[Col(N, h[k])]>>
    BY <2>1, MeshIs DEF N
  <2>3. Mesh(p)[k] = <<p[Row(n, k)], p[Col(n, k)]>>
    BY <1>2, MeshIs
  <2>4. p[Row(n, k)] = s[At(S, Row(n, k))] /\ p[Col(n, k)] = s[At(S, Col(n, k))]
    BY <1>2, <1>3
  <2> QED  BY <2>1, <2>2, <2>3, <2>4
<1>8. h \in [D -> 1..(N * (N - 1))]
  BY <1>4
<1>9. h \in Embedding(Mesh(p), Mesh(s))
  <2> HIDE DEF h, D
  <2> QED  BY <1>5, <1>6, <1>7, <1>8 DEF Embedding, Injection, IsInjective
<1> QED  BY <1>9 DEF p

(* So are the edges that a subtest keeps in those of its scenario.            *)
LEMMA MappedIsEmbedded ==
    ASSUME NEW sdks, IsList(sdks), NEW edges \in Seq(Nat \X Nat), InRange(edges, sdks),
           NEW sub, IsList(sub), MapEdges(edges, sdks, sub) # <<>>
    PROVE  Embedding(TargetEdges(MapEdges(edges, sdks, sub), sub), TargetEdges(edges, sdks)) # {}
<1> DEFINE placed == ParseEdges(edges, sdks)
           K == {k \in DOMAIN placed : placed[k][1] \in Agents(sub) /\ placed[k][2] \in Agents(sub)}
           inside == Picked(placed, K)
           at(u) == (CHOOSE i \in DOMAIN sub : sub[i] = u) - 1
           mapped == MapEdges(edges, sdks, sub)
<1>1. mapped = [k \in DOMAIN inside |-> <<at(inside[k][1]), at(inside[k][2])>>]
  BY DEF MapEdges
<1>2. placed \in Seq(Agents(sdks) \X Agents(sdks)) /\ DOMAIN placed = DOMAIN edges
  <2>1. DOMAIN edges = 1..Len(edges) /\ Len(edges) \in Nat /\ DOMAIN sdks = 1..Len(sdks) /\ Len(sdks) \in Nat
    BY DEF IsList
  <2>2. ASSUME NEW k \in DOMAIN edges
        PROVE  <<sdks[edges[k][1] + 1], sdks[edges[k][2] + 1]>> \in Agents(sdks) \X Agents(sdks)
    <3>1. edges[k][1] \in Nat /\ edges[k][2] \in Nat
      BY <2>2
    <3>2. edges[k][1] + 1 \in DOMAIN sdks /\ edges[k][2] + 1 \in DOMAIN sdks
      BY <2>1, <3>1 DEF InRange
    <3> QED  BY <3>2 DEF Agents
  <2>3. placed \in [1..Len(edges) -> Agents(sdks) \X Agents(sdks)]
    BY <2>1, <2>2 DEF ParseEdges
  <2> DEFINE A == Agents(sdks) \X Agents(sdks)
  <2> HIDE DEF placed, A
  <2>4. placed \in Seq(A) /\ DOMAIN placed = 1..Len(edges)
    BY <2>1, <2>3 DEF A
  <2> QED  BY <2>1, <2>4 DEF A
<1>3. /\ DOMAIN inside = 1..Cardinality(K) /\ Cardinality(K) \in Nat
      /\ \A n \in 1..Cardinality(K) : At(K, n) \in K /\ inside[n] = placed[At(K, n)]
  <2> DEFINE A == Agents(sdks) \X Agents(sdks)
  <2>1. placed \in Seq(A) /\ K \in SUBSET DOMAIN placed
    BY <1>2
  <2> HIDE DEF placed, K, A
  <2> QED  BY <2>1, PickedFrom
<1>4. \A u \in Agents(sub) : at(u) \in Nat /\ sub[at(u) + 1] = u
  <2> TAKE u \in Agents(sub)
  <2> DEFINE i == CHOOSE j \in DOMAIN sub : sub[j] = u
  <2>1. i \in DOMAIN sub /\ sub[i] = u
    BY DEF Agents
  <2>2. i \in Nat /\ i >= 1
    BY <2>1 DEF IsList
  <2> HIDE DEF i
  <2>3. i - 1 \in Nat /\ (i - 1) + 1 = i
    BY <2>2
  <2> QED  BY <2>1, <2>3 DEF i
<1>5. \A k \in DOMAIN inside : /\ inside[k] = <<inside[k][1], inside[k][2]>>
                              /\ inside[k][1] \in Agents(sub) /\ inside[k][2] \in Agents(sub)
  <2> TAKE k \in DOMAIN inside
  <2>1. \A j \in K : /\ j \in DOMAIN placed
                     /\ placed[j][1] \in Agents(sub) /\ placed[j][2] \in Agents(sub)
    OBVIOUS
  <2> HIDE DEF inside, placed, K
  <2>2. At(K, k) \in K /\ inside[k] = placed[At(K, k)]
    BY <1>3
  <2>3. placed[At(K, k)] \in Agents(sdks) \X Agents(sdks)
    BY <1>2, <2>1, <2>2
  <2> QED  BY <2>1, <2>2, <2>3
<1> HIDE DEF placed, K, inside, at, mapped
<1>6. /\ DOMAIN mapped = DOMAIN inside
      /\ \A k \in DOMAIN inside : mapped[k] = <<at(inside[k][1]), at(inside[k][2])>>
  BY <1>1
<1>7. mapped \in Seq(Nat \X Nat)
  <2>1. mapped \in [1..Cardinality(K) -> Nat \X Nat]
    BY <1>1, <1>3, <1>4, <1>5
  <2> QED  BY <1>3, <2>1
<1>8. mapped # None
  BY <1>7, NoneAssumption
<1>9. TargetEdges(mapped, sub) = ParseEdges(mapped, sub)
  BY <1>8 DEF TargetEdges, Given, mapped
<1>10. DOMAIN ParseEdges(mapped, sub) = DOMAIN inside
  BY <1>6 DEF ParseEdges
<1>11. \A k \in DOMAIN inside : ParseEdges(mapped, sub)[k] = inside[k]
  <2> TAKE k \in DOMAIN inside
  <2>1. ParseEdges(mapped, sub)[k] = <<sub[mapped[k][1] + 1], sub[mapped[k][2] + 1]>>
    BY <1>6 DEF ParseEdges
  <2>2. mapped[k][1] = at(inside[k][1]) /\ mapped[k][2] = at(inside[k][2])
    BY <1>6
  <2> QED  BY <1>4, <1>5, <2>1, <2>2
<1>12. Embedding(ParseEdges(mapped, sub), inside) # {}
  <2> DEFINE h == [k \in DOMAIN inside |-> k]
  <2>1. h \in Embedding(ParseEdges(mapped, sub), inside)
    BY <1>10, <1>11 DEF Embedding, Injection, IsInjective
  <2> QED  BY <2>1
<1>13. Embedding(inside, placed) # {}
  <2>1. K \in SUBSET DOMAIN placed
    BY DEF K
  <2> QED  BY <1>2, <2>1, PickedIsEmbedded DEF inside
<1>14. TargetEdges(edges, sdks) = placed
  <2>1. edges # None
    BY NoneAssumption
  <2>2. edges # <<>>
    <3> SUFFICES ASSUME edges = <<>> PROVE FALSE
      OBVIOUS
    <3>1. K = {}
      BY <1>2 DEF K
    <3>2. Cardinality(K) = 0
      BY <3>1, FS_EmptySet
    <3>3. mapped = <<>>
      BY <1>3, <1>6, <1>7, <3>2
    <3> QED  BY <3>3 DEF mapped
  <2> QED  BY <2>1, <2>2 DEF TargetEdges, Given, placed
<1> QED  BY <1>9, <1>12, <1>13, <1>14, EmbeddedTwice DEF mapped

(* The edges of a scenario are a list of pairs of indices, or not given.        *)
HasEdges(edges) == edges = None \/ edges \in Seq(Nat \X Nat)

LEMMA TopologyListed ==
    ASSUME NEW topology \in {"star", "chain", "euler"}, NEW n \in Nat, n >= 2
    PROVE  HasEdges(TopologyToEdges(topology, n))
<1>1. CASE topology = "star"
  <2> DEFINE out == [i \in 1..(n - 1) |-> <<0, i>>]
             back == [i \in 1..(n - 1) |-> <<i, 0>>]
  <2>1. out \in [1..(n - 1) -> Nat \X Nat] /\ back \in [1..(n - 1) -> Nat \X Nat] /\ n - 1 \in Nat
    OBVIOUS
  <2>2. TopologyToEdges(topology, n) = out \o back
    BY <1>1 DEF TopologyToEdges
  <2> HIDE DEF out, back
  <2>3. out \in Seq(Nat \X Nat) /\ back \in Seq(Nat \X Nat)
    BY <2>1
  <2> QED  BY <2>2, <2>3 DEF HasEdges
<1>2. CASE topology = "chain"
  <2> DEFINE ring == [i \in 1..n |-> <<i - 1, i % n>>]
  <2>1. \A i \in 1..n : i - 1 \in Nat /\ i % n \in Nat
    OBVIOUS
  <2>2. ring \in [1..n -> Nat \X Nat]
    BY <2>1
  <2>3. TopologyToEdges(topology, n) = ring
    BY <1>2 DEF TopologyToEdges
  <2> HIDE DEF ring
  <2> QED  BY <2>2, <2>3 DEF HasEdges
<1>3. CASE topology = "euler"
  BY <1>3 DEF TopologyToEdges, HasEdges
<1> QED  BY <1>1, <1>2, <1>3

LEMMA ScenarioEdges ==
    ASSUME NEW b \in DOMAIN Batch, NEW s \in Resolved[b]
    PROVE  HasEdges(s.edges)
<1> DEFINE tests == Batch[b].tests
           sut   == Batch[b].sut_sdk
<1>1. s \in Scenarios(tests, sut)
  BY DEF Resolved
<1>2. \A i \in DOMAIN tests :
          /\ HasEdges(tests[i].edges)
          /\ ~tests[i].legacy => tests[i].topology \in {"star", "chain", "euler"}
  BY BatchAssumption DEF HasEdges
<1>3. CASE \E i \in DOMAIN tests : s = FromLegacy(i, tests[i])
  BY <1>2, <1>3 DEF FromLegacy
<1>4. CASE \E x \in Bound(tests, sut) : x.runs /\ s = x.scenario
  <2>1. PICK x \in Bound(tests, sut) : x.runs /\ s = x.scenario
    BY <1>4
  <2>2. PICK i \in Wanted(tests, sut) : x \in Expand(i, tests[i], sut)
    BY <2>1 DEF Bound
  <2> DEFINE d == tests[i]
  <2>3. PICK v \in DOMAIN d.variants :
            \E k \in DOMAIN Groups(d, d.variants[v], sut) :
                x = Bind(<<i, v, k>>, d, Groups(d, d.variants[v], sut)[k], sut)
    BY <2>2 DEF Expand
  <2>4. PICK k \in DOMAIN Groups(d, d.variants[v], sut) :
            x = Bind(<<i, v, k>>, d, Groups(d, d.variants[v], sut)[k], sut)
    BY <2>3
  <2>5. i \in DOMAIN tests /\ ~d.legacy /\ HasEdges(d.edges) /\ d.topology \in {"star", "chain", "euler"}
    BY <1>2 DEF Wanted
  <2>6. Listed(d)
    BY <2>5, DeclarationsListed
  <2> DEFINE g == Groups(d, d.variants[v], sut)[k]
  <2>7. IsList(g.sdks)
    BY <2>6, GroupsListed
  <2> HIDE DEF d, g, tests, sut
  <2> DEFINE kept == {a \in Agents(g.sdks) : ~Excluded(a, g.used, sut)}
             topology == IF d.edges # None THEN None ELSE d.topology
  <2>8. /\ x.scenario.edges = IF topology # None THEN TopologyToEdges(topology, Len(Kept(g.sdks, kept)))
                              ELSE d.edges
        /\ x.runs = Survives(g.sdks, topology, d.edges, kept)
    BY <2>4 DEF Bind, RestrictToAvailable, g
  <2>9. Len(Kept(g.sdks, kept)) \in Nat
    BY <2>7, KeptFrom DEF IsList
  <2> HIDE DEF kept
  <2>10. Len(Kept(g.sdks, kept)) >= 2
    BY <2>1, <2>8 DEF Survives, MinNodes
  <2>11. CASE topology # None
    <3>1. topology \in {"star", "chain", "euler"}
      BY <2>5, <2>11
    <3> HIDE DEF topology
    <3> QED  BY <2>1, <2>8, <2>9, <2>10, <2>11, <3>1, TopologyListed
  <2>12. CASE topology = None
    <3> HIDE DEF topology
    <3> QED  BY <2>1, <2>5, <2>8, <2>12
  <2> QED  BY <2>11, <2>12
<1> QED  BY <1>1, <1>3, <1>4 DEF Scenarios

(* Unless it is rebuilt from a topology, what runs of a scenario is part of it. *)
LEMMA GraphIsEmbedded ==
    ASSUME NEW s, IsList(s.sdks), HasEdges(s.edges), NEW up, Runs(s, up),
           s.topology = None \/ Lost(s, up) = {}
    PROVE  /\ HasEdges(Graph(s, up).edges)
           /\ Embedding(TargetEdges(Graph(s, up).edges, Graph(s, up).sdks),
                        TargetEdges(s.edges, s.sdks)) # {}
<1>1. CASE Lost(s, up) = {}
  <2>1. Graph(s, up).sdks = s.sdks /\ Graph(s, up).edges = s.edges
    BY <1>1 DEF Graph
  <2> QED  BY <2>1, EmbeddedInItself
<1>2. CASE Lost(s, up) # {}
  <2> DEFINE S == {i \in DOMAIN s.sdks : s.sdks[i] \in up}
  <2>1. Graph(s, up).sdks = Picked(s.sdks, S) /\ Graph(s, up).edges = s.edges
    BY <1>2 DEF Graph, RestrictToAvailable, Kept
  <2>2. PICK i \in DOMAIN s.sdks : s.sdks[i] \notin up
    BY <1>2 DEF Lost, Agents
  <2>3. S \in SUBSET DOMAIN s.sdks /\ S # DOMAIN s.sdks
    BY <2>2
  <2>4. Kept(s.sdks, up) = Picked(s.sdks, S)
    BY DEF Kept
  <2> HIDE DEF S
  <2>5. /\ DOMAIN s.sdks = 1..Len(s.sdks) /\ Len(s.sdks) \in Nat
        /\ Len(Picked(s.sdks, S)) = Cardinality(S) /\ Cardinality(S) \in Nat
    BY <2>3, PickedList DEF IsList
  <2>6. IsFiniteSet(DOMAIN s.sdks) /\ Cardinality(DOMAIN s.sdks) = Len(s.sdks)
    <3>1. \A n \in Nat : IsFiniteSet(1..n) /\ Cardinality(1..n) = n
      BY FS_Interval
    <3> QED  BY <2>5, <3>1
  <2>7. Cardinality(S) < Len(s.sdks)
    <3>1. Cardinality(S) <= Len(s.sdks) /\ Cardinality(S) # Len(s.sdks)
      BY <2>3, <2>6, FS_Subset
    <3> QED  BY <2>5, <3>1
  <2>8. s.edges = None
    BY <1>2, <2>4, <2>5, <2>7 DEF Runs, Survives
  <2>9. \A sdks : TargetEdges(None, sdks) = Mesh(sdks)
    BY DEF TargetEdges, Given
  <2> QED  BY <2>1, <2>3, <2>8, <2>9, MeshIsEmbedded DEF HasEdges
<1> QED  BY <1>1, <1>2

(* And what a test walks is part of the graph, but for the exception.          *)
LEMMA TestIsEmbedded ==
    ASSUME NEW s, NEW g, IsList(g.sdks), HasEdges(g.edges), NEW t \in Tests(s, g), t.edges # <<>>
    PROVE  Embedding(TargetEdges(t.edges, t.sdks), TargetEdges(g.edges, g.sdks)) # {}
<1>1. CASE ~s.subtests
  <2>1. t.sdks = g.sdks /\ t.edges = g.edges
    BY <1>1 DEF Tests
  <2> QED  BY <2>1, EmbeddedInItself
<1>2. CASE s.subtests
  <2> DEFINE subs == ValidSubgraphs(g.sdks, g.edges)
  <2>1. PICK x \in subs : t.sdks = x.sdks /\ t.edges = x.edges
    BY <1>2 DEF Tests
  <2>2. /\ x.edges = IF g.edges = None THEN None ELSE MapEdges(g.edges, g.sdks, x.sdks)
        /\ g.edges # None => InRange(g.edges, g.sdks)
    BY Subgraph
  <2>3. PICK S \in SUBSET DOMAIN g.sdks : x.sdks = Picked(g.sdks, S)
    BY Subgraph
  <2>4. IsList(x.sdks)
    BY <2>3, PickedList
  <2> HIDE DEF subs
  <2>5. CASE g.edges = None
    <3>1. \A sdks : TargetEdges(None, sdks) = Mesh(sdks)
      BY DEF TargetEdges, Given
    <3>2. t.edges = None
      BY <2>1, <2>2, <2>5
    <3> QED  BY <2>1, <2>3, <2>5, <3>1, <3>2, MeshIsEmbedded
  <2>6. CASE g.edges # None
    <3>1. g.edges \in Seq(Nat \X Nat)
      BY <2>6 DEF HasEdges
    <3>2. t.edges = MapEdges(g.edges, g.sdks, x.sdks)
      BY <2>1, <2>2, <2>6
    <3> QED  BY <2>1, <2>2, <2>4, <2>6, <3>1, <3>2, MappedIsEmbedded
  <2> QED  BY <2>5, <2>6
<1> QED  BY <1>1, <1>2

Authored(b, trim, res) ==
    \A x \in res, s \in Resolved[b] :
        /\ x.name = s.name /\ x.edges # <<>>
        /\ s.topology = None \/ \A a \in Range(s.sdks) : <<s.name, a>> \notin trim
        => Walks(x, s)

LEMMA TargetFinite ==
    ASSUME NEW sdks, IsList(sdks), NEW edges, HasEdges(edges)
    PROVE  IsFiniteSet(DOMAIN TargetEdges(edges, sdks))
<1>1. CASE Given(edges)
  <2>1. edges \in Seq(Nat \X Nat)
    BY <1>1 DEF Given, HasEdges
  <2>2. DOMAIN TargetEdges(edges, sdks) = 1..Len(edges) /\ Len(edges) \in Nat
    BY <1>1, <2>1 DEF TargetEdges, ParseEdges
  <2> QED  BY <2>2, FS_Interval
<1>2. CASE ~Given(edges)
  <2>1. Len(sdks) \in Nat
    BY DEF IsList
  <2>2. DOMAIN TargetEdges(edges, sdks) = 1..(Len(sdks) * (Len(sdks) - 1))
    BY <1>2, MeshIs DEF TargetEdges
  <2>3. Len(sdks) * (Len(sdks) - 1) \in Int
    BY <2>1
  <2> QED  BY <2>2, <2>3, FS_Interval
<1> QED  BY <1>1, <1>2

LEMMA ExecutingAuthored ==
    ASSUME NEW b \in DOMAIN Batch, b \notin Malformed, NEW up, NEW lost, NEW left, NEW trim, NEW skip,
           NEW res, Executing(b, up, lost, left, trim, skip, res)
    PROVE  Authored(b, trim, res)
<1> SUFFICES ASSUME NEW x \in res, NEW s \in Resolved[b], x.name = s.name, x.edges # <<>>,
                    s.topology = None \/ \A a \in Range(s.sdks) : <<s.name, a>> \notin trim
             PROVE  Walks(x, s)
  BY DEF Authored
<1>1. PICK run \in RunsOf(b, up) : \E t \in Tests(run.scenario, run.graph) : IsResult(x, run, t)
  BY DEF Executing
<1>2. PICK t \in Tests(run.scenario, run.graph) : IsResult(x, run, t)
  BY <1>1
<1>3. run.scenario = s /\ Runs(s, up) /\ run.graph = Graph(s, up)
  <2>1. run.scenario \in Resolved[b] /\ run.scenario.name = s.name
    BY <1>1, <1>2, RunOf DEF IsResult
  <2>2. run.scenario = s
    BY <2>1, OneOfAName
  <2> QED  BY <2>2, RunOf
<1>4. s.topology = None \/ Lost(s, up) = {}
  <2> SUFFICES ASSUME NEW a \in Lost(s, up) PROVE s.topology = None
    OBVIOUS
  <2>1. <<s.name, a>> \in trim
    BY <1>3 DEF Executing, TrimmedOf
  <2>2. a \in Range(s.sdks)
    BY DEF Lost, Agents, Range
  <2> QED  BY <2>1, <2>2
<1>5. IsList(s.sdks) /\ HasEdges(s.edges)
  BY ScenariosListed, ScenarioEdges
<1>6. /\ HasEdges(run.graph.edges) /\ IsList(run.graph.sdks)
      /\ Embedding(TargetEdges(run.graph.edges, run.graph.sdks), TargetEdges(s.edges, s.sdks)) # {}
  BY <1>3, <1>4, <1>5, GraphIsEmbedded, GraphListed
<1>7. t.edges = x.edges /\ t.sdks = x.sdks
  BY <1>2 DEF IsResult
<1>8. Embedding(TargetEdges(x.edges, x.sdks), TargetEdges(s.edges, s.sdks)) # {}
  <2>1. Embedding(TargetEdges(t.edges, t.sdks), TargetEdges(run.graph.edges, run.graph.sdks)) # {}
    BY <1>6, <1>7, TestIsEmbedded
  <2> QED  BY <1>6, <1>7, <2>1, EmbeddedTwice
<1>9. ASSUME NEW e PROVE Times(e, x) <= Times(e, s)
  <2>1. IsFiniteSet(DOMAIN TargetEdges(s.edges, s.sdks))
    BY <1>5, TargetFinite
  <2> DEFINE E == TargetEdges(x.edges, x.sdks)
             F == TargetEdges(s.edges, s.sdks)
  <2>2. Times(e, x) = Count(E, e) /\ Times(e, s) = Count(F, e)
    BY DEF Times, Count
  <2>3. IsFiniteSet(DOMAIN F) /\ Embedding(E, F) # {}
    BY <1>8, <2>1
  <2> HIDE DEF E, F
  <2> QED  BY <2>2, <2>3, EmbeddedIsFewer
<1> QED  BY <1>9 DEF Walks

AuthoredInv == \A r \in Request : Authored(body[r], trimmed[r], results[r])

LEMMA AuthoredStep == RunInv /\ RunInv' /\ AuthoredInv /\ [Next]_vars => AuthoredInv'
<1> SUFFICES ASSUME RunInv, RunInv', AuthoredInv, [Next]_vars PROVE AuthoredInv'
  OBVIOUS
<1>1. CASE UNCHANGED <<body, trimmed, results>>
  BY <1>1 DEF AuthoredInv
<1>2. ASSUME NEW r \in Request, Select(r) \/ Execute(r) PROVE AuthoredInv'
  <2>1. /\ pc'[r] = "execute"
        /\ \A q \in Request \ {r} : /\ body'[q] = body[q] /\ trimmed'[q] = trimmed[q]
                                   /\ results'[q] = results[q]
    BY <1>2 DEF Select, Execute, RunInv
  <2>2. Good(pc'[r], body'[r], agents'[r], missing'[r], todo'[r], trimmed'[r], skipped'[r], results'[r])
    BY DEF RunInv
  <2>3. /\ body'[r] \in DOMAIN Batch /\ body'[r] \notin Malformed
        /\ Executing(body'[r], agents'[r], missing'[r], todo'[r], trimmed'[r], skipped'[r], results'[r])
    BY <2>1, <2>2 DEF Good, Inside
  <2>4. Authored(body'[r], trimmed'[r], results'[r])
    BY <2>3, ExecutingAuthored
  <2>5. ASSUME NEW q \in Request PROVE Authored(body'[q], trimmed'[q], results'[q])
    <3>1. CASE q = r
      BY <2>4, <3>1
    <3>2. CASE q # r
      BY <2>1, <3>2 DEF AuthoredInv
    <3> QED  BY <3>1, <3>2
  <2> QED  BY <2>5 DEF AuthoredInv
<1>3. ASSUME NEW r \in Request, Serve(r) \/ TakeLock(r), ~Select(r), ~Execute(r)
      PROVE  UNCHANGED <<body, trimmed, results>>
  BY <1>3 DEF Serve, TakeLock, Reject, Prepare, PlanFails, Plan, StartAll, StartAllRaises,
              NothingToTest, Respond
<1>4. CASE UNCHANGED vars
  BY <1>1, <1>4 DEF vars
<1> QED  BY <1>1, <1>2, <1>3, <1>4 DEF Next

(* Positions are never re-read in another list (topology.py:117-121) and         *)
(* _map_edges_to_subgraph keeps edges between its agents only: whatever is      *)
(* declared, excluded or down, a scenario that was not rebuilt from a topology  *)
(* and each of its subtests walk its own edges, none more often, unless the     *)
(* subtest has no edge left, when it gets a complete digraph.                  *)
THEOREM WalksAreAuthored == Spec => []WalksAuthoredEdges
<1>1. Init => AuthoredInv
  BY DEF Init, AuthoredInv, Authored
<1>2. AuthoredInv => WalksAuthoredEdges
  BY DEF AuthoredInv, Authored, WalksAuthoredEdges, Prepared
<1> QED  BY <1>1, <1>2, RunInit, RunStep, AuthoredStep, PTL DEF Spec

=============================================================================
