-------------------------- MODULE BuildCacheProofs --------------------------
(***************************************************************************)
(* Theorems about BuildCache, for every number of keys, sessions and       *)
(* processes and every deadline, TTL and budget.                           *)
(*                                                                         *)
(* The parts of the inductive invariant:                                   *)
(*   QueueInv     evict has a key in hand outside `idle' and `next'        *)
(*   RefInv       _pin_refs counts the sessions that have the key pinned   *)
(*   LockInv      who is inside `with _flock(...)' holds the lock          *)
(*   AliveInv     a dead process has no session left                       *)
(*   LeakInv      a pin file has a user, or is about to be removed         *)
(*   TreeInv      what the holder of a key's lock knows of its tree        *)
(*   TeardownInv  a process that tears a run down has no other run         *)
(*   OrderInv     a waiting checkout pins after the sessions it waited for *)
(*   FileInv      the pin file of a protected use is there and fresh       *)
(*   EvictInv     a tree under removal has no protected user               *)
(***************************************************************************)
EXTENDS BuildCache, FiniteSetTheorems, TLAPS

QueueInv == evPc \notin {"idle", "next"} => evQueue # <<>>

RefInv == \A p \in Proc, k \in Key : pinRefs[p][k] = Cardinality(Pinners(p, k))

InHand == evPc \in {"pins", "remove", "removing", "unlock"}

LockInv ==
    /\ \A s \in Session : pc[s] \in Locked => keyLock[key[s]] = s
    /\ InHand => evictLock \in Evictor /\ keyLock[Head(evQueue)] = evictLock

AliveInv == \A s \in Session : pc[s] = "dead" <=> ~alive[ProcOf[s]]

LeakInv ==
    \A p \in Proc, k \in Key :
        alive[p] /\ pinFile[k][p] # NoFile =>
            \E s \in Of(p) : key[s] = k /\ pc[s] \in Counted \cup {"dropfile", "unlink"}

CountInv == TypeOK /\ QueueInv /\ RefInv

-----------------------------------------------------------------------------
(***************************************************************************)
(* Counting                                                                *)
(***************************************************************************)
(* The sessions that pin a key in a process are finitely many (_pin_refs   *)
(* is their number).                                                       *)
LEMMA PinnersFinite ==
    ASSUME NEW p, NEW k
    PROVE  IsFiniteSet(Pinners(p, k)) /\ Cardinality(Pinners(p, k)) \in Nat
BY CacheAssumption, FS_Subset, FS_CardinalityType DEF Pinners, Of

(* Init establishes the counting invariant: no session holds a pin. *)
LEMMA CountInit == Init => CountInv
<1> SUFFICES ASSUME Init PROVE CountInv
    OBVIOUS
<1>1. TypeOK
  BY CacheAssumption DEF Init, TypeOK, PC, EvictPC, NoFile
<1>2. QueueInv
  BY DEF Init, QueueInv
<1>3. RefInv
  <2> SUFFICES ASSUME NEW p \in Proc, NEW k \in Key
               PROVE  pinRefs[p][k] = Cardinality(Pinners(p, k))
      BY DEF RefInv
  <2>1. Pinners(p, k) = {}
    BY DEF Init, Pinners, Of, Counted, Locked, Building, Failing
  <2> QED BY <2>1, FS_EmptySet DEF Init
<1> QED BY <1>1, <1>2, <1>3 DEF CountInv

(* The order evict works through the trees is a sequence of keys           *)
(* (_lru_keys lists each tree once).                                       *)
LEMMA LruOrdersType == TypeOK => LruOrders \subseteq Seq(Key)
<1> SUFFICES ASSUME TypeOK, NEW q \in LruOrders PROVE q \in Seq(Key)
    OBVIOUS
<1>1. Trees \subseteq Key /\ IsFiniteSet(Trees)
  BY CacheAssumption, FS_Subset DEF Trees
<1>2. Cardinality(Trees) \in Nat /\ q \in [1..Cardinality(Trees) -> Key]
  BY <1>1, FS_CardinalityType DEF LruOrders
<1> QED BY <1>2

(* Trees have a size in Int (_tree_size returns an int).                   *)
LEMMA SizeType ==
    ASSUME TypeOK
    PROVE  TotalSize \in Int /\ \A k \in Key : Size(k) \in Int
<1>1. \A S \in SUBSET Key : Cardinality(S) \in Nat
  BY CacheAssumption, FS_Subset, FS_CardinalityType
<1>2. TotalSize \in Int
  <2>1. Cardinality(Trees) \in Nat
    BY <1>1 DEF Trees
  <2>2. Cardinality({k \in Key : tree[k] = "complete"}) \in Nat
    BY <1>1
  <2> QED BY <2>1, <2>2 DEF TotalSize
<1>3. \A k \in Key : Size(k) \in Int
  BY DEF Size, TypeOK
<1> QED BY <1>2, <1>3

(* The counter behind a pinned session is positive (what _unpin subtracts  *)
(* from).                                                                  *)
LEMMA PinnedPositive ==
    ASSUME CountInv, NEW s \in Session, pc[s] \in Counted
    PROVE  /\ key[s] \in Key /\ s \in Pinners(ProcOf[s], key[s])
           /\ pinRefs[ProcOf[s]][key[s]] \in Nat \ {0}
<1>1. key[s] \in Key /\ ProcOf[s] \in Proc /\ s \in Pinners(ProcOf[s], key[s])
  BY CacheAssumption DEF CountInv, TypeOK, Pinners, Of, Counted, Locked, Building, Failing
<1>2. Cardinality(Pinners(ProcOf[s], key[s])) # 0
  BY <1>1, PinnersFinite, FS_EmptySet
<1> QED BY <1>1, <1>2, PinnersFinite DEF CountInv, RefInv

(* A session that is neither idle nor dead has a key (checkout_and_build's *)
(* `key' is set before the lock is taken).                                 *)
LEMMA ActiveKey ==
    TypeOK => \A s \in Session : pc[s] \notin {"idle", "dead"} => key[s] \in Key
BY DEF TypeOK

(* Every step of a checkout keeps the types (checkout_and_build, release). *)
LEMMA CheckoutTypes ==
    ASSUME CountInv, NEW s \in Session
    PROVE  (\E k \in Key : Begin(s, k)) \/ Checkout(s) \/ EndSession(s) \/ Release(s)
               => TypeOK'
<1> USE DEF Go, sessionVars, pinVars, treeVars, evictVars,
            PC, Locked, Building, Failing, Teardown
<1>0. TypeOK /\ ProcOf[s] \in Proc /\ NoKey \notin Key
  BY CacheAssumption DEF CountInv
<1>1. ASSUME NEW k \in Key, Begin(s, k) PROVE TypeOK'
  BY <1>0, <1>1 DEF Begin, TypeOK
<1>2. ASSUME LockKey(s) PROVE TypeOK'
  <2>1. key[s] \in Key
    BY <1>0, <1>2, ActiveKey DEF LockKey
  <2> QED BY <1>0, <1>2, <2>1 DEF LockKey, TypeOK
<1>3. ASSUME WritePin(s) PROVE TypeOK'
  <2>1. key[s] \in Key
    BY <1>0, <1>3, ActiveKey DEF WritePin
  <2> QED BY <1>0, <1>3, <2>1 DEF WritePin, TypeOK
<1>4. ASSUME CacheHit(s) PROVE TypeOK'
  <2>1. key[s] \in Key
    BY <1>0, <1>4, ActiveKey DEF CacheHit
  <2> QED BY <1>0, <1>4, <2>1 DEF CacheHit, TypeOK
<1>5. ASSUME StartFetch(s) PROVE TypeOK'
  <2>1. key[s] \in Key
    BY <1>0, <1>5, ActiveKey DEF StartFetch
  <2> QED BY <1>0, <1>5, <2>1 DEF StartFetch, TypeOK
<1>6. ASSUME FetchOk(s) PROVE TypeOK'
  <2>1. key[s] \in Key
    BY <1>0, <1>6, ActiveKey DEF FetchOk
  <2> QED BY <1>0, <1>6, <2>1 DEF FetchOk, TypeOK
<1>7. ASSUME BuildOk(s) PROVE TypeOK'
  <2>1. key[s] \in Key
    BY <1>0, <1>7, ActiveKey DEF BuildOk
  <2> QED BY <1>0, <1>7, <2>1 DEF BuildOk, TypeOK
<1>8. ASSUME TouchSentinel(s) PROVE TypeOK'
  <2>1. key[s] \in Key
    BY <1>0, <1>8, ActiveKey DEF TouchSentinel
  <2> QED BY <1>0, <1>8, <2>1 DEF TouchSentinel, TypeOK
<1>9. ASSUME Fail(s) PROVE TypeOK'
  <2>1. key[s] \in Key
    BY <1>0, <1>9, ActiveKey DEF Fail
  <2> QED BY <1>0, <1>9, <2>1 DEF Fail, TypeOK
<1>10. ASSUME Leave(s) PROVE TypeOK'
  <2>1. key[s] \in Key
    BY <1>0, <1>10, ActiveKey DEF Leave
  <2> QED BY <1>0, <1>10, <2>1 DEF Leave, TypeOK
<1>11. ASSUME FailUnlink(s) PROVE TypeOK'
  <2>1. key[s] \in Key
    BY <1>0, <1>11, ActiveKey DEF FailUnlink
  <2> QED BY <1>0, <1>11, <2>1 DEF FailUnlink, TypeOK, RemovePinFile, NoFile
<1>12. ASSUME Abandon(s) PROVE TypeOK'
  <2>1. key[s] \in Key
    BY <1>0, <1>12, ActiveKey DEF Abandon
  <2> QED BY <1>0, <1>12, <2>1 DEF Abandon, TypeOK, Forget
<1>13. ASSUME EndSession(s) PROVE TypeOK'
  <2>1. key[s] \in Key
    BY <1>0, <1>13, ActiveKey DEF EndSession
  <2> QED BY <1>0, <1>13, <2>1 DEF EndSession, TypeOK
<1>14. ASSUME ReleaseUnlink(s) PROVE TypeOK'
  <2>1. key[s] \in Key
    BY <1>0, <1>14, ActiveKey DEF ReleaseUnlink
  <2> QED BY <1>0, <1>14, <2>1 DEF ReleaseUnlink, TypeOK, RemovePinFile, Forget, NoFile
<1>15. ASSUME CountPin(s) PROVE TypeOK'
  <2>1. key[s] \in Key
    BY <1>0, <1>15, ActiveKey DEF CountPin
  <2>2. pinRefs[ProcOf[s]][key[s]] \in Nat
    BY <1>0, <2>1 DEF TypeOK
  <2> QED BY <1>0, <1>15, <2>1, <2>2 DEF CountPin, TypeOK
<1>16. ASSUME FailUncount(s) PROVE TypeOK'
  <2>1. key[s] \in Key /\ pinRefs[ProcOf[s]][key[s]] \in Nat \ {0}
    BY <1>16, PinnedPositive DEF FailUncount, Uncount, Counted
  <2> QED BY <1>0, <1>16, <2>1 DEF FailUncount, Uncount, TypeOK
<1>17. ASSUME ReleaseUncount(s) PROVE TypeOK'
  <2>1. key[s] \in Key /\ pinRefs[ProcOf[s]][key[s]] \in Nat \ {0}
    BY <1>17, PinnedPositive DEF ReleaseUncount, Uncount, Counted
  <2>2. pinRefs' \in [Proc -> [Key -> Nat]]
    <3>1. pinRefs[ProcOf[s]][key[s]] - 1 \in Nat
      BY <2>1
    <3>2. pinRefs' = [pinRefs EXCEPT ![ProcOf[s]][key[s]] = pinRefs[ProcOf[s]][key[s]] - 1]
      BY <1>17 DEF ReleaseUncount, Uncount
    <3> QED BY <1>0, <2>1, <3>1, <3>2 DEF TypeOK
  <2>3. pc' \in [Session -> PC]
    BY <1>0, <1>17 DEF ReleaseUncount, Uncount, TypeOK
  <2>4. key' \in [Session -> Key \cup {NoKey}] /\ pinnedAt' \in [Session -> 0..now]
    <3>1. CASE UNCHANGED <<key, pinnedAt>>
      BY <1>0, <3>1 DEF TypeOK
    <3>2. CASE Forget(s)
      <4>1. 0 \in 0..now
        BY <1>0 DEF TypeOK
      <4> QED BY <1>0, <3>2, <4>1 DEF Forget, TypeOK
    <3> QED BY <1>17, <3>1, <3>2 DEF ReleaseUncount
  <2>5. \A t \in Session : key'[t] = NoKey <=> pc'[t] \in {"idle", "dead"}
    <3>1. CASE pc'[s] = "unlink" /\ UNCHANGED <<key, pinnedAt>>
      BY <1>0, <1>17, <2>1, <3>1 DEF ReleaseUncount, Uncount, TypeOK
    <3>2. CASE pc'[s] = "idle" /\ Forget(s)
      BY <1>0, <1>17, <2>1, <3>2 DEF ReleaseUncount, Uncount, Forget, TypeOK
    <3> QED BY <1>17, <3>1, <3>2 DEF ReleaseUncount
  <2>6. UNCHANGED <<now, alive, keyLock, pinFile, treeVars, evictVars>>
    BY <1>17 DEF ReleaseUncount, Uncount
  <2> QED BY <1>0, <2>2, <2>3, <2>4, <2>5, <2>6 DEF TypeOK
<1> QED BY <1>1, <1>2, <1>3, <1>4, <1>5, <1>6, <1>7, <1>8, <1>9, <1>10, <1>11, <1>12, <1>13, <1>14, <1>15, <1>16, <1>17
       DEF Checkout, Release

(* Every step of evict keeps the types, and its queue is not empty while it *)
(* has a key in hand.                                                      *)
LEMMA EvictTypes ==
    ASSUME CountInv, NEW e \in Evictor
    PROVE  StartEvict(e) \/ EvictStep(e) => TypeOK' /\ QueueInv'
<1> USE DEF EvictGo, EvictPC, sessionVars, pinVars, treeVars, evictVars, QueueInv
<1>0. TypeOK /\ QueueInv
  BY DEF CountInv
<1>k. ASSUME evQueue # <<>> PROVE Head(evQueue) \in Key /\ Tail(evQueue) \in Seq(Key)
  BY <1>0, <1>k DEF TypeOK
<1>1. ASSUME StartEvict(e) PROVE TypeOK' /\ QueueInv'
  <2>1. evQueue' \in Seq(Key) /\ evTotal' \in Int
    BY <1>0, <1>1, LruOrdersType, SizeType DEF StartEvict
  <2> QED BY <1>0, <1>1, <2>1 DEF StartEvict, TypeOK
<1>2. ASSUME KeepTree(e) PROVE TypeOK' /\ QueueInv'
  <2>1. Head(evQueue) \in Key /\ Tail(evQueue) \in Seq(Key)
    BY <1>0, <1>2, <1>k DEF KeepTree
  <2> QED BY <1>0, <1>2, <2>1 DEF KeepTree, TypeOK
<1>3. ASSUME WantTree(e) PROVE TypeOK' /\ QueueInv'
  <2>1. Head(evQueue) \in Key /\ Tail(evQueue) \in Seq(Key)
    BY <1>0, <1>3, <1>k DEF WantTree
  <2> QED BY <1>0, <1>3, <2>1 DEF WantTree, TypeOK
<1>4. ASSUME SkipLocked(e) PROVE TypeOK' /\ QueueInv'
  <2>1. Head(evQueue) \in Key /\ Tail(evQueue) \in Seq(Key)
    BY <1>0, <1>4, <1>k DEF SkipLocked
  <2> QED BY <1>0, <1>4, <2>1 DEF SkipLocked, TypeOK
<1>5. ASSUME TakeKey(e) PROVE TypeOK' /\ QueueInv'
  <2>1. Head(evQueue) \in Key /\ Tail(evQueue) \in Seq(Key)
    BY <1>0, <1>5, <1>k DEF TakeKey
  <2> QED BY <1>0, <1>5, <2>1 DEF TakeKey, TypeOK
<1>6. ASSUME CheckPins(e) PROVE TypeOK' /\ QueueInv'
  <2>1. Head(evQueue) \in Key /\ Tail(evQueue) \in Seq(Key)
    BY <1>0, <1>6, <1>k DEF CheckPins
  <2> QED BY <1>0, <1>6, <2>1 DEF CheckPins, TypeOK, NoFile
<1>7. ASSUME BeginRemove(e) PROVE TypeOK' /\ QueueInv'
  <2>1. Head(evQueue) \in Key
    BY <1>0, <1>7, <1>k DEF BeginRemove
  <2>2. evTotal' \in Int
    BY <1>0, <1>7, <2>1, SizeType DEF BeginRemove, TypeOK
  <2> QED BY <1>0, <1>7, <2>1, <2>2 DEF BeginRemove, TypeOK, NoFile
<1>8. ASSUME FinishRemove(e) PROVE TypeOK' /\ QueueInv'
  <2>1. Head(evQueue) \in Key /\ Tail(evQueue) \in Seq(Key)
    BY <1>0, <1>8, <1>k DEF FinishRemove
  <2> QED BY <1>0, <1>8, <2>1 DEF FinishRemove, TypeOK, NoFile
<1>9. ASSUME UnlockKey(e) PROVE TypeOK' /\ QueueInv'
  <2>1. Head(evQueue) \in Key /\ Tail(evQueue) \in Seq(Key)
    BY <1>0, <1>9, <1>k DEF UnlockKey
  <2> QED BY <1>0, <1>9, <2>1 DEF UnlockKey, TypeOK
<1>10. ASSUME EndEvict(e) PROVE TypeOK' /\ QueueInv'
  BY <1>0, <1>10 DEF EndEvict, TypeOK
<1> QED BY <1>1, <1>2, <1>3, <1>4, <1>5, <1>6, <1>7, <1>8, <1>9, <1>10 DEF EvictStep

(* So do the end of a run, a kill and the clock.                           *)
LEMMA OtherTypes ==
    ASSUME CountInv
    PROVE  /\ \A p \in Proc : EndRun(p) \/ Kill(p) => TypeOK' /\ QueueInv'
           /\ Tick \/ UNCHANGED vars => TypeOK' /\ QueueInv'
<1> USE DEF EvictPC, PC, Locked, Building, Failing, Teardown, sessionVars, pinVars, treeVars, evictVars, QueueInv
<1>0. TypeOK /\ QueueInv
  BY DEF CountInv
<1>1. ASSUME NEW p \in Proc, EndRun(p) PROVE TypeOK' /\ QueueInv'
  BY <1>0, <1>1 DEF EndRun, TypeOK
<1>2. ASSUME NEW p \in Proc, Kill(p) PROVE TypeOK' /\ QueueInv'
  <2>1. CASE evictLock = p
    BY <1>0, <1>2, <2>1 DEF Kill, TypeOK
  <2>2. CASE UNCHANGED evictVars
    BY <1>0, <1>2, <2>2 DEF Kill, TypeOK
  <2> QED BY <1>2, <2>1, <2>2 DEF Kill
<1>3. ASSUME Tick PROVE TypeOK' /\ QueueInv'
  BY <1>0, <1>3, CacheAssumption DEF Tick, TypeOK
<1>4. ASSUME UNCHANGED vars PROVE TypeOK' /\ QueueInv'
  BY <1>0, <1>4 DEF vars, TypeOK
<1> QED BY <1>1, <1>2, <1>3, <1>4

-----------------------------------------------------------------------------
(***************************************************************************)
(* The refcount                                                            *)
(***************************************************************************)
(* What a step of session s leaves alone: the other sessions.              *)
OnlyMoves(s) ==
    \A t \in Session \ {s} :
        pc'[t] = pc[t] /\ key'[t] = key[t] /\ pinnedAt'[t] = pinnedAt[t]

(* No step of one checkout touches another (each has its own stack).       *)
LEMMA CheckoutMoves ==
    ASSUME TypeOK, NEW s \in Session,
           (\E k \in Key : Begin(s, k)) \/ Checkout(s) \/ EndSession(s) \/ Release(s)
    PROVE  OnlyMoves(s)
<1> USE DEF Go, OnlyMoves, sessionVars
<1>1. CASE (\E k \in Key : Begin(s, k)) \/ EndSession(s)
  BY <1>1 DEF Begin, EndSession, TypeOK
<1>2. CASE LockKey(s) \/ CountPin(s) \/ WritePin(s) \/ CacheHit(s) \/ StartFetch(s)
  BY <1>2 DEF LockKey, CountPin, WritePin, CacheHit, StartFetch, TypeOK
<1>3. CASE FetchOk(s) \/ BuildOk(s) \/ TouchSentinel(s) \/ Fail(s) \/ Leave(s)
  BY <1>3 DEF FetchOk, BuildOk, TouchSentinel, Fail, Leave, TypeOK
<1>4. CASE FailUncount(s) \/ FailUnlink(s) \/ Abandon(s)
  BY <1>4 DEF FailUncount, FailUnlink, Abandon, Uncount, Forget, TypeOK
<1>5. CASE ReleaseUncount(s) \/ ReleaseUnlink(s)
  BY <1>5 DEF ReleaseUncount, ReleaseUnlink, Uncount, Forget, TypeOK
<1> QED BY <1>1, <1>2, <1>3, <1>4, <1>5 DEF Checkout, Release

(* How the set of pinners follows the step of one session.                 *)
LEMMA PinnersStep ==
    ASSUME NEW s \in Session, OnlyMoves(s), NEW p, NEW k
    PROVE  /\ pc[s] \notin Counted /\ pc'[s] \notin Counted
                => Pinners(p, k)' = Pinners(p, k)
           /\ pc[s] \in Counted /\ pc'[s] \in Counted /\ key'[s] = key[s]
                => Pinners(p, k)' = Pinners(p, k)
           /\ pc[s] \notin Counted /\ pc'[s] \in Counted
                => Pinners(p, k)' = IF p = ProcOf[s] /\ k = key'[s]
                                      THEN Pinners(p, k) \cup {s} ELSE Pinners(p, k)
           /\ pc[s] \in Counted /\ pc'[s] \notin Counted
                => Pinners(p, k)' = Pinners(p, k) \ {s}
BY DEF OnlyMoves, Pinners, Of

(* The steps that leave _pin_refs alone neither pin nor unpin.             *)
LEMMA SameCount ==
    ASSUME CountInv, NEW s \in Session, OnlyMoves(s), pinRefs' = pinRefs,
           \/ pc[s] \notin Counted /\ pc'[s] \notin Counted
           \/ pc[s] \in Counted /\ pc'[s] \in Counted /\ key'[s] = key[s]
    PROVE  RefInv'
BY PinnersStep DEF RefInv, CountInv

(* Each pin and unpin moves the count with the set (_pin, _unpin), and no  *)
(* other step of a checkout changes either.                                *)
LEMMA CheckoutRefs ==
    ASSUME CountInv, NEW s \in Session,
           (\E k \in Key : Begin(s, k)) \/ Checkout(s) \/ EndSession(s) \/ Release(s)
    PROVE  RefInv'
<1> DEFINE P == ProcOf[s]
<1> USE DEF Go, sessionVars, pinVars
<1>0. TypeOK /\ P \in Proc /\ OnlyMoves(s)
  BY CheckoutMoves, CacheAssumption DEF CountInv
<1>1. CASE (\E k \in Key : Begin(s, k)) \/ LockKey(s) \/ FailUnlink(s) \/ Abandon(s)
             \/ ReleaseUnlink(s)
  <2>1. pc[s] \notin Counted /\ pc'[s] \notin Counted /\ pinRefs' = pinRefs
    BY <1>0, <1>1 DEF Begin, LockKey, FailUnlink, Abandon, ReleaseUnlink, TypeOK,
                      Counted, Locked, Building, Failing
  <2> QED BY <1>0, <2>1, SameCount
<1>2. CASE WritePin(s) \/ CacheHit(s) \/ StartFetch(s) \/ FetchOk(s) \/ BuildOk(s)
             \/ TouchSentinel(s) \/ Fail(s) \/ Leave(s) \/ EndSession(s)
  <2>1. pc[s] \in Counted /\ pc'[s] \in Counted /\ key'[s] = key[s] /\ pinRefs' = pinRefs
    BY <1>0, <1>2 DEF WritePin, CacheHit, StartFetch, FetchOk, BuildOk, TouchSentinel, Fail,
                      Leave, EndSession, TypeOK, Counted, Locked, Building, Failing
  <2> QED BY <1>0, <2>1, SameCount
<1>3. CASE CountPin(s)
  <2>1. /\ pc[s] \notin Counted /\ pc'[s] \in Counted /\ key[s] \in Key /\ key'[s] = key[s]
        /\ pinRefs' = [pinRefs EXCEPT ![P][key[s]] = @ + 1]
    BY <1>0, <1>3, ActiveKey DEF CountPin, TypeOK, Counted, Locked, Building, Failing
  <2>2. ASSUME NEW p \in Proc, NEW k \in Key
        PROVE  pinRefs'[p][k] = Cardinality(Pinners(p, k)')
    <3>1. CASE p = P /\ k = key[s]
      <4>1. Pinners(p, k)' = Pinners(p, k) \cup {s} /\ s \notin Pinners(p, k)
        BY <1>0, <2>1, <3>1, PinnersStep DEF Pinners
      <4>2. Cardinality(Pinners(p, k)') = Cardinality(Pinners(p, k)) + 1
        BY <4>1, PinnersFinite, FS_AddElement
      <4> QED BY <1>0, <2>1, <3>1, <4>2 DEF CountInv, RefInv, TypeOK
    <3>2. CASE ~(p = P /\ k = key[s])
      <4>1. Pinners(p, k)' = Pinners(p, k)
        BY <1>0, <2>1, <3>2, PinnersStep
      <4> QED BY <1>0, <2>1, <3>2, <4>1 DEF CountInv, RefInv, TypeOK
    <3> QED BY <3>1, <3>2
  <2> QED BY <2>2 DEF RefInv
<1>4. CASE FailUncount(s) \/ ReleaseUncount(s)
  <2>1. /\ pc[s] \in Counted /\ pc'[s] \notin Counted
        /\ pinRefs' = [pinRefs EXCEPT ![P][key[s]] = @ - 1]
    BY <1>0, <1>4 DEF FailUncount, ReleaseUncount, Uncount, TypeOK, Counted, Locked, Building, Failing
  <2>0. key[s] \in Key /\ s \in Pinners(P, key[s])
    BY <2>1, PinnedPositive
  <2>2. ASSUME NEW p \in Proc, NEW k \in Key
        PROVE  pinRefs'[p][k] = Cardinality(Pinners(p, k)')
    <3>0. Pinners(p, k)' = Pinners(p, k) \ {s}
      BY <1>0, <2>1, PinnersStep
    <3>1. CASE p = P /\ k = key[s]
      <4>1. Cardinality(Pinners(p, k) \ {s}) = Cardinality(Pinners(p, k)) - 1
        BY <2>0, <3>1, PinnersFinite, FS_RemoveElement
      <4> QED BY <1>0, <2>1, <3>0, <3>1, <4>1 DEF CountInv, RefInv, TypeOK
    <3>2. CASE ~(p = P /\ k = key[s])
      <4>1. Pinners(p, k) \ {s} = Pinners(p, k)
        BY <3>2 DEF Pinners, Of
      <4>2. pinRefs'[p][k] = pinRefs[p][k]
        BY <1>0, <2>0, <2>1, <3>2 DEF TypeOK
      <4> QED BY <3>0, <4>1, <4>2 DEF CountInv, RefInv
    <3> QED BY <3>1, <3>2
  <2> QED BY <2>2 DEF RefInv
<1> QED BY <1>1, <1>2, <1>3, <1>4 DEF Checkout, Release

(* Eviction, the end of a run and the clock leave the count alone; a kill  *)
(* takes a process's sessions and its memory together.                     *)
LEMMA OtherRefs ==
    ASSUME CountInv,
           \/ \E e \in Evictor : StartEvict(e) \/ EvictStep(e)
           \/ \E p \in Proc : EndRun(p) \/ Kill(p)
           \/ Tick \/ UNCHANGED vars
    PROVE  RefInv'
<1> USE DEF sessionVars, pinVars, RefInv, CountInv
<1>1. CASE (\E e \in Evictor : StartEvict(e) \/ EvictStep(e)) \/ Tick \/ UNCHANGED vars
  <2>1. UNCHANGED <<pc, key, pinRefs>>
    BY <1>1 DEF StartEvict, EvictStep, EvictGo, KeepTree, WantTree, SkipLocked, TakeKey,
                CheckPins, BeginRemove, FinishRemove, UnlockKey, EndEvict, Tick, vars
  <2>2. \A p, k : Pinners(p, k)' = Pinners(p, k)
    BY <2>1 DEF Pinners
  <2> QED BY <2>1, <2>2
<1>2. ASSUME NEW p \in Proc, EndRun(p) PROVE RefInv'
  <2>1. \A q, k : Pinners(q, k)' = Pinners(q, k)
    BY <1>2 DEF EndRun, Pinners, Of, Counted, TypeOK
  <2> QED BY <1>2, <2>1 DEF EndRun
<1>3. ASSUME NEW p \in Proc, Kill(p) PROVE RefInv'
  <2>1. ASSUME NEW q \in Proc, NEW k \in Key
        PROVE  pinRefs'[q][k] = Cardinality(Pinners(q, k)')
    <3>1. CASE q = p
      <4>1. Pinners(q, k)' = {}
        BY <1>3, <3>1 DEF Kill, Pinners, Of, Counted, Locked, Building, Failing
      <4>2. pinRefs'[q][k] = 0
        BY <1>3, <3>1 DEF Kill, TypeOK
      <4> QED BY <4>1, <4>2, FS_EmptySet
    <3>2. CASE q # p
      <4>1. Pinners(q, k)' = Pinners(q, k)
        BY <1>3, <3>2 DEF Kill, Pinners, Of
      <4>2. pinRefs'[q][k] = pinRefs[q][k]
        BY <1>3, <3>2 DEF Kill, TypeOK
      <4> QED BY <4>1, <4>2
    <3> QED BY <3>1, <3>2
  <2> QED BY <2>1
<1> QED BY <1>1, <1>2, <1>3

(* The counting invariant is inductive.                                    *)
LEMMA CountStep == CountInv /\ [Next]_vars => CountInv'
<1> SUFFICES ASSUME CountInv, [Next]_vars PROVE CountInv'
    OBVIOUS
<1>1. ASSUME NEW s \in Session,
             (\E k \in Key : Begin(s, k)) \/ Checkout(s) \/ EndSession(s) \/ Release(s)
      PROVE  CountInv'
  <2>1. UNCHANGED <<evPc, evQueue>>
    BY <1>1 DEF Begin, Checkout, LockKey, CountPin, WritePin, CacheHit, StartFetch, FetchOk,
                BuildOk, TouchSentinel, Fail, Leave, FailUncount, FailUnlink, Abandon, EndSession,
                Release, ReleaseUncount, ReleaseUnlink, evictVars
  <2>2. TypeOK' /\ RefInv'
    BY <1>1, CheckoutTypes, CheckoutRefs
  <2> QED BY <2>1, <2>2 DEF CountInv, QueueInv
<1>2. ASSUME NEW e \in Evictor, StartEvict(e) \/ EvictStep(e) PROVE CountInv'
  BY <1>2, EvictTypes, OtherRefs DEF CountInv
<1>3. ASSUME NEW p \in Proc, EndRun(p) \/ Kill(p) PROVE CountInv'
  BY <1>3, OtherTypes, OtherRefs DEF CountInv
<1>4. CASE Tick \/ UNCHANGED vars
  BY <1>4, OtherTypes, OtherRefs DEF CountInv
<1> QED BY <1>1, <1>2, <1>3, <1>4, CacheAssumption DEF Next

(* The variables keep their types; in particular no refcount goes below    *)
(* zero (cache.py keeps it in a plain int).                                *)
THEOREM TypeCorrect == Spec => []TypeOK
<1>1. CountInv => TypeOK
  BY DEF CountInv
<1> QED BY CountInit, CountStep, <1>1, PTL DEF Spec

-----------------------------------------------------------------------------
(***************************************************************************)
(* Locks, processes and pin files                                          *)
(***************************************************************************)
(* A checkout moves neither the clock nor evict (they share files only).   *)
LEMMA CheckoutFrame ==
    ASSUME NEW s \in Session,
           (\E k \in Key : Begin(s, k)) \/ Checkout(s) \/ EndSession(s) \/ Release(s)
    PROVE  UNCHANGED <<now, alive, evictLock, evPc, evQueue>>
BY DEF Begin, Checkout, LockKey, CountPin, WritePin, CacheHit, StartFetch, FetchOk,
       BuildOk, TouchSentinel, Fail, Leave, FailUncount, FailUnlink, Abandon, EndSession,
       Release, ReleaseUncount, ReleaseUnlink, evictVars

(* Inside its with block a checkout holds the key's lock (_flock).         *)
LEMMA CheckoutLock ==
    ASSUME CountInv, LockInv, NEW s \in Session,
           (\E k \in Key : Begin(s, k)) \/ Checkout(s) \/ EndSession(s) \/ Release(s)
    PROVE  LockInv'
<1> USE DEF Go, sessionVars, Locked, Building, Failing
<1>0. TypeOK /\ OnlyMoves(s) /\ UNCHANGED <<evictLock, evPc, evQueue>>
  BY CheckoutMoves, CheckoutFrame DEF CountInv
<1>h. InHand => Head(evQueue) \in Key /\ evictLock \notin Session \cup {Free}
  BY <1>0, CacheAssumption DEF CountInv, QueueInv, InHand, TypeOK, LockInv
<1>1. CASE LockKey(s)
  <2>1. /\ key[s] \in Key /\ keyLock[key[s]] = Free /\ key' = key
        /\ keyLock' = [keyLock EXCEPT ![key[s]] = s]
    BY <1>0, <1>1, ActiveKey DEF LockKey
  <2>2. ASSUME NEW t \in Session, pc'[t] \in Locked PROVE keyLock'[key'[t]] = t
    <3>1. CASE t = s
      BY <1>0, <2>1, <3>1 DEF TypeOK
    <3>2. CASE t # s
      <4>1. keyLock[key[t]] = t /\ t # Free /\ key[t] # key[s]
        BY <1>0, <2>1, <2>2, <3>2, CacheAssumption DEF OnlyMoves, LockInv
      <4> QED BY <1>0, <2>1, <4>1 DEF TypeOK
    <3> QED BY <3>1, <3>2
  <2> QED BY <1>0, <1>h, <2>1, <2>2 DEF LockInv, InHand, TypeOK
<1>2. CASE Leave(s) \/ Abandon(s)
  <2>1. /\ key[s] \in Key /\ keyLock[key[s]] = s /\ pc'[s] \notin Locked
        /\ keyLock' = [keyLock EXCEPT ![key[s]] = Free]
    BY <1>0, <1>2, ActiveKey DEF Leave, Abandon, LockInv, TypeOK
  <2>2. ASSUME NEW t \in Session, pc'[t] \in Locked PROVE keyLock'[key'[t]] = t
    <3>1. t # s /\ key'[t] = key[t] /\ keyLock[key[t]] = t
      BY <1>0, <2>1, <2>2 DEF OnlyMoves, LockInv
    <3> QED BY <1>0, <2>1, <3>1 DEF TypeOK
  <2> QED BY <1>0, <1>h, <2>1, <2>2 DEF LockInv, InHand, TypeOK
<1>3. ASSUME keyLock' = keyLock, pc'[s] \in Locked => pc[s] \in Locked /\ key'[s] = key[s]
      PROVE  LockInv'
  BY <1>0, <1>3 DEF OnlyMoves, LockInv, InHand
<1>4. CASE (\E k \in Key : Begin(s, k)) \/ EndSession(s) \/ Release(s)
  BY <1>0, <1>3, <1>4 DEF Begin, EndSession, Release, ReleaseUncount, ReleaseUnlink, Uncount, TypeOK
<1>5. CASE CountPin(s) \/ WritePin(s) \/ CacheHit(s) \/ StartFetch(s) \/ FetchOk(s)
  BY <1>0, <1>3, <1>5 DEF CountPin, WritePin, CacheHit, StartFetch, FetchOk, TypeOK
<1>6. CASE BuildOk(s) \/ TouchSentinel(s) \/ Fail(s) \/ FailUncount(s) \/ FailUnlink(s)
  BY <1>0, <1>3, <1>6 DEF BuildOk, TouchSentinel, Fail, FailUncount, FailUnlink, Uncount, TypeOK
<1> QED BY <1>1, <1>2, <1>4, <1>5, <1>6 DEF Checkout

(* evict holds the key lock of the tree it has in hand, and takes none     *)
(* that a checkout holds.                                                  *)
LEMMA EvictLockStep ==
    ASSUME CountInv, LockInv, NEW e \in Evictor, StartEvict(e) \/ EvictStep(e)
    PROVE  LockInv'
<1> USE DEF sessionVars, InHand, EvictGo, CountInv
<1>0. TypeOK /\ UNCHANGED <<pc, key>>
  BY DEF StartEvict, EvictStep, KeepTree, WantTree, SkipLocked, TakeKey, CheckPins,
         BeginRemove, FinishRemove, UnlockKey, EndEvict
<1>1. CASE StartEvict(e) \/ KeepTree(e) \/ WantTree(e) \/ SkipLocked(e) \/ EndEvict(e)
  BY <1>0, <1>1 DEF StartEvict, KeepTree, WantTree, SkipLocked, EndEvict, LockInv
<1>2. CASE CheckPins(e) \/ BeginRemove(e) \/ FinishRemove(e)
  BY <1>0, <1>2 DEF CheckPins, BeginRemove, FinishRemove, LockInv
<1>3. CASE TakeKey(e)
  <2>1. Head(evQueue) \in Key /\ keyLock[Head(evQueue)] = Free
    BY <1>0, <1>3 DEF TakeKey, QueueInv, TypeOK
  <2>2. \A t \in Session : pc[t] \in Locked => key[t] # Head(evQueue)
    BY <2>1, CacheAssumption DEF LockInv
  <2> QED BY <1>0, <1>3, <2>1, <2>2 DEF TakeKey, LockInv, TypeOK
<1>4. CASE UnlockKey(e)
  <2>1. Head(evQueue) \in Key /\ keyLock[Head(evQueue)] \in Evictor
    BY <1>0, <1>4 DEF UnlockKey, QueueInv, TypeOK, LockInv
  <2>2. \A t \in Session : pc[t] \in Locked => key[t] # Head(evQueue)
    BY <2>1, CacheAssumption DEF LockInv
  <2> QED BY <1>0, <1>4, <2>1, <2>2 DEF UnlockKey, LockInv, TypeOK
<1> QED BY <1>1, <1>2, <1>3, <1>4 DEF EvictStep

(* The kernel takes locks only from the processes it kills.                *)
LEMMA OtherLock ==
    ASSUME CountInv, LockInv,
           (\E p \in Proc : EndRun(p) \/ Kill(p)) \/ Tick \/ UNCHANGED vars
    PROVE  LockInv'
<1> USE DEF sessionVars, evictVars, InHand, Locked, Building, Failing
<1>0. TypeOK
  BY DEF CountInv
<1>1. CASE Tick \/ UNCHANGED vars
  BY <1>1 DEF Tick, vars, LockInv
<1>2. ASSUME NEW p \in Proc, EndRun(p) PROVE LockInv'
  BY <1>0, <1>2 DEF EndRun, TypeOK, LockInv
<1>3. ASSUME NEW p \in Proc, Kill(p) PROVE LockInv'
  <2>1. ASSUME NEW t \in Session, pc'[t] \in Locked PROVE keyLock'[key'[t]] = t
    <3>1. t \notin Of(p) /\ pc[t] \in Locked /\ key'[t] = key[t]
      BY <1>0, <1>3, <2>1 DEF Kill
    <3>2. key[t] \in Key /\ keyLock[key[t]] = t /\ t # p
      BY <1>0, <3>1, ActiveKey, CacheAssumption DEF LockInv
    <3> QED BY <1>3, <3>1, <3>2 DEF Kill
  <2>2. ASSUME InHand' PROVE evictLock' \in Evictor /\ keyLock'[Head(evQueue')] = evictLock'
    <3>1. evictLock # p /\ UNCHANGED evictVars
      BY <1>3, <2>2 DEF Kill
    <3>2. Head(evQueue) \in Key /\ evictLock \in Evictor /\ keyLock[Head(evQueue)] = evictLock
      BY <1>0, <2>2, <3>1 DEF CountInv, QueueInv, TypeOK, LockInv
    <3>3. evictLock \notin Of(p)
      BY <3>2, CacheAssumption DEF Of
    <3> QED BY <1>3, <3>1, <3>2, <3>3 DEF Kill
  <2> QED BY <2>1, <2>2 DEF LockInv
<1> QED BY <1>1, <1>2, <1>3

(* A killed process has no session left, and only a kill ends one (Kill).  *)
LEMMA AliveStep == CountInv /\ AliveInv /\ [Next]_vars => AliveInv'
<1> SUFFICES ASSUME CountInv, AliveInv, [Next]_vars PROVE AliveInv'
    OBVIOUS
<1>0. TypeOK
  BY DEF CountInv
<1>1. ASSUME NEW s \in Session,
             (\E k \in Key : Begin(s, k)) \/ Checkout(s) \/ EndSession(s) \/ Release(s)
      PROVE  AliveInv'
  <2>1. pc[s] # "dead" /\ pc'[s] # "dead"
    BY <1>0, <1>1 DEF Begin, Checkout, LockKey, CountPin, WritePin, CacheHit, StartFetch, FetchOk,
                BuildOk, TouchSentinel, Fail, Leave, FailUncount, FailUnlink, Abandon, EndSession,
                Release, ReleaseUncount, ReleaseUnlink, Uncount, Go, TypeOK, Building
  <2> QED BY <1>0, <1>1, <2>1, CheckoutMoves, CheckoutFrame DEF OnlyMoves, AliveInv
<1>2. ASSUME NEW e \in Evictor, StartEvict(e) \/ EvictStep(e) PROVE AliveInv'
  BY <1>2 DEF AliveInv, StartEvict, EvictStep, EvictGo, KeepTree, WantTree, SkipLocked, TakeKey,
              CheckPins, BeginRemove, FinishRemove, UnlockKey, EndEvict, sessionVars
<1>3. ASSUME NEW p \in Proc, EndRun(p) PROVE AliveInv'
  BY <1>0, <1>3 DEF AliveInv, EndRun, TypeOK
<1>4. ASSUME NEW p \in Proc, Kill(p) PROVE AliveInv'
  BY <1>0, <1>4, CacheAssumption DEF AliveInv, Kill, Of, TypeOK
<1>5. CASE Tick \/ UNCHANGED vars
  BY <1>5 DEF AliveInv, Tick, vars, sessionVars
<1> QED BY <1>1, <1>2, <1>3, <1>4, <1>5, CacheAssumption DEF Next

(* A pin file that no session of its process answers for does not appear   *)
(* (_pin writes it for one; _unpin removes it after the last).             *)
LEMMA CheckoutLeak ==
    ASSUME CountInv, LeakInv, RefInv', NEW s \in Session,
           (\E k \in Key : Begin(s, k)) \/ Checkout(s) \/ EndSession(s) \/ Release(s)
    PROVE  LeakInv'
<1> DEFINE Answers(t) == pc[t] \in Counted \cup {"dropfile", "unlink"}
<1> USE DEF Go, sessionVars, pinVars
<1>0. TypeOK /\ OnlyMoves(s) /\ UNCHANGED alive /\ ProcOf[s] \in Proc
  BY CheckoutMoves, CheckoutFrame, CacheAssumption DEF CountInv
<1>1. ASSUME pinFile' = pinFile, Answers(s) => Answers(s)' /\ key'[s] = key[s]
      PROVE  LeakInv'
  BY <1>0, <1>1 DEF LeakInv, OnlyMoves, Of
<1>2. CASE (\E k \in Key : Begin(s, k)) \/ LockKey(s) \/ Abandon(s) \/ CountPin(s)
  BY <1>0, <1>1, <1>2 DEF Begin, LockKey, Abandon, CountPin, TypeOK, Counted, Locked, Building, Failing
<1>3. CASE CacheHit(s) \/ StartFetch(s) \/ FetchOk(s) \/ BuildOk(s) \/ TouchSentinel(s)
             \/ Fail(s) \/ Leave(s) \/ EndSession(s)
  BY <1>0, <1>1, <1>3 DEF CacheHit, StartFetch, FetchOk, BuildOk, TouchSentinel, Fail, Leave,
                          EndSession, TypeOK, Counted, Locked, Building, Failing
<1>4. CASE WritePin(s)
  <2>1. /\ key[s] \in Key /\ Answers(s) /\ Answers(s)' /\ key' = key
        /\ pinFile' = [pinFile EXCEPT ![key[s]][ProcOf[s]] = now]
    BY <1>0, <1>4, ActiveKey DEF WritePin, TypeOK, Counted, Locked, Building, Failing
  <2>2. ASSUME NEW p \in Proc, NEW k \in Key, alive[p], pinFile'[k][p] # NoFile
        PROVE  \E t \in Of(p) : key'[t] = k /\ Answers(t)'
    <3>1. CASE k = key[s] /\ p = ProcOf[s]
      BY <2>1, <3>1 DEF Of
    <3>2. CASE ~(k = key[s] /\ p = ProcOf[s])
      <4>1. pinFile[k][p] # NoFile
        BY <1>0, <2>1, <2>2, <3>2 DEF TypeOK
      <4> QED BY <1>0, <2>1, <2>2, <4>1 DEF LeakInv, OnlyMoves, Of
    <3> QED BY <3>1, <3>2
  <2> QED BY <1>0, <2>2 DEF LeakInv
<1>5. CASE FailUncount(s) \/ ReleaseUncount(s)
  <2>1. CASE pc'[s] \in {"dropfile", "unlink"}
    <3>1. pinFile' = pinFile /\ key'[s] = key[s]
      BY <1>5, <2>1 DEF FailUncount, ReleaseUncount
    <3> QED BY <1>1, <2>1, <3>1
  <2>2. CASE pc'[s] \notin {"dropfile", "unlink"}
    <3> PICK K \in Key : K = key[s]
      BY <1>0, <1>5, ActiveKey DEF FailUncount, ReleaseUncount, Uncount
    <3>1. pinFile' = pinFile /\ pinRefs'[ProcOf[s]][K] > 0
      BY <1>0, <1>5, <2>2 DEF FailUncount, ReleaseUncount, Uncount, TypeOK
    <3>2. PICK u \in Of(ProcOf[s]) : key'[u] = K /\ Answers(u)'
      <4>1. Pinners(ProcOf[s], K)' # {}
        BY <1>0, <3>1, FS_EmptySet DEF RefInv
      <4> QED BY <4>1 DEF Pinners
    <3>3. ASSUME NEW p \in Proc, NEW k \in Key, alive[p], pinFile[k][p] # NoFile
          PROVE  \E t \in Of(p) : key'[t] = k /\ Answers(t)'
      <4>1. PICK t \in Of(p) : key[t] = k /\ Answers(t)
        BY <3>3 DEF LeakInv
      <4>2. CASE t = s
        BY <3>2, <4>1, <4>2 DEF Of
      <4>3. CASE t # s
        BY <1>0, <4>1, <4>3 DEF OnlyMoves, Of
      <4> QED BY <4>2, <4>3
    <3> QED BY <1>0, <3>1, <3>3 DEF LeakInv
  <2> QED BY <2>1, <2>2
<1>6. CASE FailUnlink(s) \/ ReleaseUnlink(s)
  <2>1. /\ key[s] \in Key
        /\ pinFile' = [pinFile EXCEPT ![key[s]][ProcOf[s]] = NoFile]
    BY <1>0, <1>6, ActiveKey DEF FailUnlink, ReleaseUnlink, RemovePinFile
  <2>2. ASSUME NEW p \in Proc, NEW k \in Key, alive[p], pinFile'[k][p] # NoFile
        PROVE  \E t \in Of(p) : key'[t] = k /\ Answers(t)'
    <3>1. pinFile[k][p] # NoFile /\ ~(k = key[s] /\ p = ProcOf[s])
      BY <1>0, <2>1, <2>2 DEF TypeOK
    <3>2. PICK t \in Of(p) : key[t] = k /\ Answers(t)
      BY <2>2, <3>1 DEF LeakInv
    <3> QED BY <1>0, <3>1, <3>2 DEF OnlyMoves, Of
  <2> QED BY <1>0, <2>2 DEF LeakInv
<1> QED BY <1>2, <1>3, <1>4, <1>5, <1>6 DEF Checkout, Release

(* Eviction only removes pin files, and a kill takes the process with its  *)
(* sessions (_has_live_pin, _clear_pins).                                  *)
LEMMA OtherLeak ==
    ASSUME CountInv, LeakInv,
           \/ \E e \in Evictor : StartEvict(e) \/ EvictStep(e)
           \/ \E p \in Proc : EndRun(p) \/ Kill(p)
           \/ Tick \/ UNCHANGED vars
    PROVE  LeakInv'
<1> USE DEF sessionVars, pinVars, EvictGo
<1>0. TypeOK
  BY DEF CountInv
<1>1. CASE Tick \/ UNCHANGED vars
  BY <1>1 DEF Tick, vars, LeakInv
<1>2. ASSUME NEW e \in Evictor, StartEvict(e) \/ EvictStep(e) PROVE LeakInv'
  <2>1. UNCHANGED <<alive, pc, key>>
    BY <1>2 DEF StartEvict, EvictStep, KeepTree, WantTree, SkipLocked, TakeKey, CheckPins,
                BeginRemove, FinishRemove, UnlockKey, EndEvict
  <2>2. \A k \in Key, p \in Proc : pinFile'[k][p] # NoFile => pinFile[k][p] # NoFile
    <3>1. CASE CheckPins(e)
      BY <1>0, <3>1 DEF CheckPins, TypeOK
    <3>2. CASE FinishRemove(e)
      BY <1>0, <3>2 DEF FinishRemove, TypeOK
    <3>3. CASE ~CheckPins(e) /\ ~FinishRemove(e)
      BY <1>2, <3>3 DEF StartEvict, EvictStep, KeepTree, WantTree, SkipLocked, TakeKey,
                        BeginRemove, UnlockKey, EndEvict
    <3> QED BY <3>1, <3>2, <3>3
  <2> QED BY <2>1, <2>2 DEF LeakInv
<1>3. ASSUME NEW p \in Proc, EndRun(p) PROVE LeakInv'
  <2>1. \A s \in Session : pc[s] \in Counted \cup {"dropfile", "unlink"}
                              => pc'[s] \in Counted \cup {"dropfile", "unlink"}
    BY <1>3 DEF EndRun, Counted
  <2> QED BY <1>3, <2>1 DEF EndRun, LeakInv, Of
<1>4. ASSUME NEW p \in Proc, Kill(p) PROVE LeakInv'
  <2>1. \A q \in Proc : alive'[q] => alive[q] /\ q # p
    BY <1>0, <1>4 DEF Kill, TypeOK
  <2>2. \A s \in Session : ProcOf[s] # p => pc'[s] = pc[s] /\ key'[s] = key[s]
    BY <1>4 DEF Kill, Of
  <2> QED BY <1>4, <2>1, <2>2 DEF Kill, LeakInv, Of
<1> QED BY <1>1, <1>2, <1>3, <1>4

(* Whatever failed on the way, a process that has nothing checked out has  *)
(* no refcount and no pin file left (every _pin has its _unpin).           *)
THEOREM NoPinLeaks == Spec => []NoLeakedPin
<1> DEFINE Inv == CountInv /\ LeakInv
<1>1. Init => Inv
  BY CountInit DEF Init, LeakInv, NoFile
<1>2. Inv /\ [Next]_vars => Inv'
  <2> SUFFICES ASSUME Inv, [Next]_vars PROVE LeakInv'
      BY CountStep
  <2>1. RefInv'
    BY CountStep DEF CountInv
  <2> QED BY <2>1, CheckoutLeak, OtherLeak, CacheAssumption DEF Next
<1>3. Inv => NoLeakedPin
  <2> SUFFICES ASSUME Inv, NEW p \in Proc, alive[p], \A s \in Of(p) : pc[s] = "idle",
                      NEW k \in Key
               PROVE  pinRefs[p][k] = 0 /\ pinFile[k][p] = NoFile
      BY DEF NoLeakedPin
  <2>1. Pinners(p, k) = {}
    BY DEF Pinners, Counted, Locked, Building, Failing
  <2>2. pinRefs[p][k] = 0
    BY <2>1, FS_EmptySet DEF CountInv, RefInv
  <2>3. pinFile[k][p] = NoFile
    BY DEF LeakInv, Counted, Locked, Building, Failing
  <2> QED BY <2>2, <2>3
<1> QED BY <1>1, <1>2, <1>3, PTL DEF Spec

-----------------------------------------------------------------------------
(***************************************************************************)
(* What a user of the cache relies on: .itk-built marks a finished tree,   *)
(* a run within its deadline finds its tree whole, the two together        *)
(* implement TreeStore, and a pin file stands for every use.               *)
(*                                                                         *)
(* All but the last need that no eviction is killed half-way               *)
(* (EvictorsSurvive), and all but the first that runs of one process do    *)
(* not overlap (~OverlappingRuns): the run cache_release_race shows what   *)
(* happens without the latter.  The last holds until a pin is stale.       *)
(***************************************************************************)
(* `cache evict' is not killed in the middle of an rmtree. *)
EvictorsSurvive == Evictor \cap Mortal = {}

TreeInv ==
    \A s \in Session :
        /\ pc[s] \in Building => ~Sentinel(key[s])
        /\ pc[s] = "touch" => tree[key[s]] = "complete"
        /\ pc[s] = "leave" => Intact(key[s])

TeardownInv ==
    \A s, t \in Session :
        pc[s] \in Teardown /\ ProcOf[s] = ProcOf[t] => pc[t] \in {"idle"} \cup Teardown

OrderInv ==
    \A s, t \in Session :
        /\ ProcOf[s] = ProcOf[t] /\ key[s] = key[t]
        /\ pc[s] = "using" /\ pc[t] \in Counted \cap Locked
        => pinnedAt[s] <= pinnedAt[t]

(* The pcs at which a session relies on the pin file. *)
Relying == (Counted \ {"write", "release"})

Covered(p, k) ==
    /\ pinFile[k][p] # NoFile
    /\ \E t \in Pinners(p, k) : pinnedAt[t] <= pinFile[k][p]

FileInv ==
    \A s \in Session :
        pc[s] \in Relying /\ AllFresh(ProcOf[s], key[s]) => Covered(ProcOf[s], key[s])

DropInv == \A s \in Session : pc[s] = "dropfile" => Pinners(ProcOf[s], key[s]) = {}

EvictInv ==
    evPc \in {"remove", "removing"} =>
        \A s \in Session : key[s] = Head(evQueue) => ~Protected(s)

-----------------------------------------------------------------------------
(***************************************************************************)
(* The sentinel                                                            *)
(***************************************************************************)
(* The lock of a key excludes the other checkouts and evict (_flock).      *)
LEMMA Exclusive ==
    ASSUME TypeOK, LockInv, NEW s \in Session, pc[s] \in Locked
    PROVE  /\ key[s] \in Key
           /\ \A t \in Session \ {s} : pc[t] \in Locked => key[t] # key[s]
           /\ InHand => Head(evQueue) # key[s]
<1>1. key[s] \in Key
  BY ActiveKey DEF Locked, Building, Failing
<1>2. InHand => evictLock \notin Session
  BY CacheAssumption DEF LockInv
<1> QED BY <1>1, <1>2 DEF LockInv

(* A checkout step that touches no tree keeps what is known of trees.      *)
LEMMA TreeFrame ==
    ASSUME TreeInv, SentinelMeansBuilt, NEW s \in Session, OnlyMoves(s),
           UNCHANGED <<tree, builtAt, evPc, evQueue>>,
           pc'[s] \in Building => ~Sentinel(key'[s]),
           pc'[s] = "touch" => tree[key'[s]] = "complete",
           pc'[s] = "leave" => Intact(key'[s])
    PROVE  TreeInv' /\ SentinelMeansBuilt'
BY DEF OnlyMoves, TreeInv, SentinelMeansBuilt, Sentinel, Intact, Removing

(* A checkout builds, marks and drops trees under the key's lock, and      *)
(* marks only what is complete (checkout_and_build).                       *)
LEMMA CheckoutTree ==
    ASSUME CountInv, LockInv, TreeInv, SentinelMeansBuilt, NEW s \in Session,
           (\E k \in Key : Begin(s, k)) \/ Checkout(s) \/ EndSession(s) \/ Release(s)
    PROVE  TreeInv' /\ SentinelMeansBuilt'
<1> USE DEF Go, sessionVars, treeVars
<1>0. TypeOK /\ OnlyMoves(s) /\ UNCHANGED <<now, evPc, evQueue>>
  BY CheckoutMoves, CheckoutFrame DEF CountInv
<1>1. CASE (\E k \in Key : Begin(s, k)) \/ EndSession(s) \/ Release(s)
  BY <1>0, <1>1, TreeFrame DEF Begin, EndSession, Release, ReleaseUncount, ReleaseUnlink,
                               Uncount, TypeOK, Building
<1>2. CASE LockKey(s) \/ CountPin(s) \/ WritePin(s) \/ Leave(s) \/ FailUncount(s)
             \/ FailUnlink(s) \/ Abandon(s)
  BY <1>0, <1>2, TreeFrame DEF LockKey, CountPin, WritePin, Leave, FailUncount, FailUnlink,
                               Abandon, Uncount, TypeOK, Building
<1>3. CASE CacheHit(s)
  <2>1. Intact(key[s])
    <3>1. key[s] \in Key /\ ~Removing(key[s])
      BY <1>0, <1>3, Exclusive DEF CacheHit, Locked, Removing, InHand
    <3> QED BY <1>3, <3>1 DEF CacheHit, Intact, SentinelMeansBuilt
  <2> QED BY <1>0, <1>3, <2>1, TreeFrame DEF CacheHit, TypeOK, Building
<1>4. CASE FetchOk(s)
  BY <1>0, <1>4, TreeFrame DEF FetchOk, TypeOK, TreeInv, Building
<1>5. CASE StartFetch(s) \/ BuildOk(s) \/ TouchSentinel(s) \/ Fail(s)
  <2>1. /\ key[s] \in Key
        /\ \A t \in Session \ {s} : pc[t] \in Locked => key[t] # key[s]
    BY <1>0, <1>5, Exclusive DEF StartFetch, BuildOk, TouchSentinel, Fail, Locked, Building
  <2>2. /\ \A k \in Key : k # key[s] => tree'[k] = tree[k] /\ builtAt'[k] = builtAt[k]
        /\ key' = key
    BY <1>0, <1>5, <2>1 DEF StartFetch, BuildOk, TouchSentinel, Fail, TypeOK
  <2>3. /\ pc'[s] \in Building => ~Sentinel(key[s])'
        /\ pc'[s] = "touch" => tree'[key[s]] = "complete"
        /\ pc'[s] = "leave" => Intact(key[s])'
        /\ Sentinel(key[s])' => tree'[key[s]] = "complete"
    <3>1. CASE StartFetch(s)
      BY <1>0, <2>1, <3>1 DEF StartFetch, TypeOK, Sentinel, Building
    <3>2. CASE BuildOk(s)
      BY <1>0, <2>1, <3>2 DEF BuildOk, TypeOK, Sentinel, Building
    <3>3. CASE TouchSentinel(s)
      BY <1>0, <2>1, <3>3 DEF TouchSentinel, TypeOK, Sentinel, Building, NoFile, TreeInv, Intact
    <3>4. CASE Fail(s)
      BY <1>0, <2>1, <3>4 DEF Fail, TypeOK, Sentinel, Building, TreeInv
    <3> QED BY <1>5, <3>1, <3>2, <3>3, <3>4
  <2>4. SentinelMeansBuilt'
    BY <1>0, <2>1, <2>2, <2>3 DEF SentinelMeansBuilt, Sentinel, Removing
  <2>5. \A t \in Session \ {s} : pc'[t] \in Locked =>
            /\ pc'[t] = pc[t] /\ key'[t] = key[t] /\ key[t] \in Key
            /\ tree'[key[t]] = tree[key[t]] /\ builtAt'[key[t]] = builtAt[key[t]]
    BY <1>0, <2>1, <2>2, ActiveKey DEF OnlyMoves, Locked, Building, Failing
  <2>6. TreeInv'
    BY <2>2, <2>3, <2>5 DEF TreeInv, Locked, Building, Sentinel, Intact
  <2> QED BY <2>4, <2>6
<1> QED BY <1>1, <1>2, <1>3, <1>4, <1>5 DEF Checkout

(* evict takes apart only the tree in its hand, which no checkout holds,   *)
(* and a sentinel it leaves for last is gone when rmtree returns.          *)
LEMMA EvictTree ==
    ASSUME CountInv, LockInv, TreeInv, SentinelMeansBuilt,
           NEW e \in Evictor, StartEvict(e) \/ EvictStep(e)
    PROVE  TreeInv' /\ SentinelMeansBuilt'
<1> USE DEF EvictGo, sessionVars, treeVars
<1>0. TypeOK /\ UNCHANGED <<pc, key>>
  BY DEF CountInv, StartEvict, EvictStep, KeepTree, WantTree, SkipLocked, TakeKey, CheckPins,
         BeginRemove, FinishRemove, UnlockKey, EndEvict
<1>1. ASSUME UNCHANGED treeVars, evPc # "removing" PROVE TreeInv' /\ SentinelMeansBuilt'
  BY <1>0, <1>1 DEF TreeInv, SentinelMeansBuilt, Sentinel, Intact, Removing
<1>2. CASE StartEvict(e)
  <2>1. evPc # "removing"
    BY <1>2, CacheAssumption DEF StartEvict, LockInv, InHand
  <2> QED BY <1>1, <1>2, <2>1 DEF StartEvict
<1>3. CASE KeepTree(e) \/ WantTree(e) \/ SkipLocked(e) \/ TakeKey(e) \/ CheckPins(e)
             \/ UnlockKey(e) \/ EndEvict(e)
  BY <1>1, <1>3 DEF KeepTree, WantTree, SkipLocked, TakeKey, CheckPins, UnlockKey, EndEvict
<1>4. CASE BeginRemove(e) \/ FinishRemove(e)
  <2> DEFINE K == Head(evQueue)
  <2>1. K \in Key /\ InHand
    BY <1>0, <1>4 DEF BeginRemove, FinishRemove, CountInv, QueueInv, InHand, TypeOK
  <2>2. \A k \in Key : k # K => tree'[k] = tree[k] /\ builtAt'[k] = builtAt[k] /\ ~Removing(k)
    BY <1>0, <1>4, <2>1 DEF BeginRemove, FinishRemove, TypeOK, Removing
  <2>3. \A t \in Session : pc[t] \in Locked => key[t] \in Key /\ key[t] # K
    BY <1>0, <2>1, Exclusive
  <2>4. TreeInv'
    BY <1>0, <2>2, <2>3 DEF TreeInv, Locked, Sentinel, Intact
  <2>5. Sentinel(K)' => Removing(K)'
    BY <1>0, <1>4, <2>1 DEF BeginRemove, FinishRemove, TypeOK, Removing, Sentinel
  <2>6. evQueue' = evQueue
    BY <1>4 DEF BeginRemove, FinishRemove
  <2> QED BY <2>2, <2>4, <2>5, <2>6 DEF SentinelMeansBuilt, Sentinel
<1> QED BY <1>2, <1>3, <1>4 DEF EvictStep

(* The other steps touch no tree; a kill stops checkouts where they are.   *)
LEMMA OtherTree ==
    ASSUME CountInv, TreeInv, SentinelMeansBuilt, EvictorsSurvive,
           \/ \E p \in Proc : EndRun(p)
           \/ \E p \in Mortal : Kill(p)
           \/ Tick \/ UNCHANGED vars
    PROVE  TreeInv' /\ SentinelMeansBuilt'
<1> USE DEF sessionVars, treeVars, evictVars, TreeInv, SentinelMeansBuilt, Sentinel, Intact, Removing
<1>0. TypeOK
  BY DEF CountInv
<1>1. CASE Tick \/ UNCHANGED vars
  BY <1>1 DEF Tick, vars
<1>2. ASSUME NEW p \in Proc, EndRun(p) PROVE TreeInv' /\ SentinelMeansBuilt'
  BY <1>0, <1>2 DEF EndRun, TypeOK, Building
<1>3. ASSUME NEW p \in Mortal, Kill(p) PROVE TreeInv' /\ SentinelMeansBuilt'
  <2>1. evictLock # p
    BY <1>0, CacheAssumption DEF EvictorsSurvive, TypeOK
  <2>2. UNCHANGED <<tree, builtAt, evPc, evQueue>>
    BY <1>3, <2>1 DEF Kill
  <2>3. \A s \in Session : pc'[s] # "dead" => pc'[s] = pc[s] /\ key'[s] = key[s]
    BY <1>3 DEF Kill
  <2> QED BY <2>2, <2>3 DEF Building
<1> QED BY <1>1, <1>2, <1>3

(* A tree that carries .itk-built is fully built, whatever failed or was   *)
(* killed before ("sentinel: fully-built and safe to reuse", cache.py:6).  *)
THEOREM SentinelSound == EvictorsSurvive => (Spec => []SentinelMeansBuilt)
<1> SUFFICES ASSUME EvictorsSurvive PROVE Spec => []SentinelMeansBuilt
    OBVIOUS
<1> DEFINE Inv == CountInv /\ LockInv /\ TreeInv /\ SentinelMeansBuilt
<1>1. Init => Inv
  BY CountInit DEF Init, LockInv, InHand, TreeInv, SentinelMeansBuilt, Sentinel, Locked,
                   Building, Failing
<1>2. Inv /\ [Next]_vars => Inv'
  <2> SUFFICES ASSUME Inv, [Next]_vars PROVE LockInv' /\ TreeInv' /\ SentinelMeansBuilt'
      BY CountStep
  <2>1. ASSUME NEW s \in Session,
               (\E k \in Key : Begin(s, k)) \/ Checkout(s) \/ EndSession(s) \/ Release(s)
        PROVE  LockInv' /\ TreeInv' /\ SentinelMeansBuilt'
    BY <2>1, CheckoutLock, CheckoutTree
  <2>2. ASSUME NEW e \in Evictor, StartEvict(e) \/ EvictStep(e)
        PROVE  LockInv' /\ TreeInv' /\ SentinelMeansBuilt'
    BY <2>2, EvictLockStep, EvictTree
  <2>3. CASE (\E p \in Proc : EndRun(p)) \/ (\E p \in Mortal : Kill(p)) \/ Tick \/ UNCHANGED vars
    BY <2>3, OtherLock, OtherTree, CacheAssumption
  <2> QED BY <2>1, <2>2, <2>3 DEF Next
<1>3. Inv => SentinelMeansBuilt
  OBVIOUS
<1> QED BY <1>1, <1>2, <1>3, PTL DEF Spec

-----------------------------------------------------------------------------
(***************************************************************************)
(* Runs that do not overlap                                                *)
(***************************************************************************)
(* A run's pins are released after its checkouts, one run at a time        *)
(* (Cluster.__exit__, _execution_lock).                                    *)
LEMMA TeardownStep == CountInv /\ TeardownInv /\ ~OverlappingRuns /\ [Next]_vars => TeardownInv'
<1> SUFFICES ASSUME CountInv, TeardownInv, ~OverlappingRuns, [Next]_vars PROVE TeardownInv'
    OBVIOUS
<1> USE DEF Go, sessionVars, Teardown
<1>0. TypeOK
  BY DEF CountInv
<1>1. ASSUME NEW s \in Session,
             (\E k \in Key : Begin(s, k)) \/ Checkout(s) \/ EndSession(s) \/ Release(s)
      PROVE  TeardownInv'
  <2>0. OnlyMoves(s)
    BY <1>0, <1>1, CheckoutMoves
  <2>1. CASE \E k \in Key : Begin(s, k)
    <3>1. /\ pc'[s] = "lock"
          /\ \A t \in Session : ProcOf[t] = ProcOf[s] => pc[t] \notin Teardown
      BY <1>0, <2>1 DEF Begin, Of, TypeOK
    <3> QED BY <2>0, <3>1 DEF TeardownInv, OnlyMoves
  <2>2. CASE Release(s) \/ Abandon(s)
    <3>1. pc[s] \in Teardown \cup {"abandon"} /\ pc'[s] \in {"idle"} \cup Teardown
      BY <1>0, <2>2 DEF Release, ReleaseUncount, ReleaseUnlink, Uncount, Abandon, TypeOK
    <3>2. pc'[s] \in Teardown => pc[s] \in Teardown
      BY <1>0, <2>2 DEF Release, ReleaseUncount, ReleaseUnlink, Uncount, Abandon, TypeOK
    <3> QED BY <2>0, <3>1, <3>2 DEF TeardownInv, OnlyMoves
  <2>3. CASE Checkout(s) /\ ~Abandon(s)
    <3>1. pc[s] \notin {"idle"} \cup Teardown /\ pc'[s] \notin {"idle"} \cup Teardown
      BY <1>0, <2>3 DEF Checkout, LockKey, CountPin, WritePin, CacheHit, StartFetch, FetchOk,
                  BuildOk, TouchSentinel, Fail, Leave, FailUncount, FailUnlink, Uncount,
                  Building, TypeOK
    <3> QED BY <2>0, <3>1 DEF TeardownInv, OnlyMoves
  <2> QED BY <1>1, <2>1, <2>2, <2>3 DEF EndSession
<1>2. ASSUME NEW e \in Evictor, StartEvict(e) \/ EvictStep(e) PROVE TeardownInv'
  BY <1>2 DEF TeardownInv, StartEvict, EvictStep, EvictGo, KeepTree, WantTree, SkipLocked,
              TakeKey, CheckPins, BeginRemove, FinishRemove, UnlockKey, EndEvict
<1>3. ASSUME NEW p \in Proc, EndRun(p) PROVE TeardownInv'
  <2>1. \A s \in Of(p) : pc[s] \in {"idle", "using"} /\ pc'[s] \in {"idle", "release"}
    BY <1>0, <1>3 DEF EndRun, TypeOK, Of
  <2>2. \A s \in Session \ Of(p) : pc'[s] = pc[s]
    BY <1>3 DEF EndRun
  <2> QED BY <2>1, <2>2 DEF TeardownInv, Of
<1>4. ASSUME NEW p \in Proc, Kill(p) PROVE TeardownInv'
  BY <1>4 DEF Kill, TeardownInv, Of
<1>5. CASE Tick \/ UNCHANGED vars
  BY <1>5 DEF Tick, vars, TeardownInv
<1> QED BY <1>1, <1>2, <1>3, <1>4, <1>5, CacheAssumption DEF Next

(* A step of a checkout changes the time of a pin only where it pins or    *)
(* forgets.                                                                *)
LEMMA PinTimes ==
    ASSUME TypeOK, NEW s \in Session,
           (\E k \in Key : Begin(s, k)) \/ Checkout(s) \/ EndSession(s) \/ Release(s)
    PROVE  \A t \in Session : pc[t] \in Counted /\ pc'[t] \in Counted =>
                                  pinnedAt'[t] = pinnedAt[t] /\ key'[t] = key[t]
<1>1. OnlyMoves(s)
  BY CheckoutMoves
<1>2. pc[s] \in Counted /\ pc'[s] \in Counted => pinnedAt'[s] = pinnedAt[s] /\ key'[s] = key[s]
  BY DEF Begin, Checkout, LockKey, CountPin, WritePin, CacheHit, StartFetch, FetchOk, BuildOk,
         TouchSentinel, Fail, Leave, FailUncount, FailUnlink, Abandon, EndSession, Release,
         ReleaseUncount, ReleaseUnlink, Uncount, Go, TypeOK, Counted, Locked, Building, Failing
<1> QED BY <1>1, <1>2 DEF OnlyMoves

(* Among the sessions of a process that count on a key, all but the lock   *)
(* holder are using it (runs do not overlap).                              *)
LEMMA OthersUse ==
    ASSUME TypeOK, LockInv, TeardownInv, NEW s \in Session, NEW t \in Session \ {s},
           pc[s] \in Locked, pc[t] \in Counted, ProcOf[t] = ProcOf[s], key[t] = key[s]
    PROVE  pc[t] = "using"
<1>1. pc[t] \notin Locked
  BY Exclusive
<1>2. pc[t] # "release"
  BY DEF TeardownInv, Teardown, Locked, Building, Failing
<1> QED BY <1>1, <1>2 DEF Counted

(* No step of a checkout refreshes a stale use: who drops out of a key's   *)
(* pinners pinned after those that stay.                                   *)
LEMMA FreshBefore ==
    ASSUME CountInv, LockInv, TeardownInv, OrderInv, ~OverlappingRuns, NEW s \in Session,
           (\E k \in Key : Begin(s, k)) \/ Checkout(s) \/ EndSession(s) \/ Release(s),
           NEW t \in Session, NEW K \in Key, key[t] = K,
           pc[t] \in Relying, pc'[t] \in Relying, AllFresh(ProcOf[t], K)'
    PROVE  key'[t] = K /\ AllFresh(ProcOf[t], K)
<1> DEFINE P == ProcOf[t]
<1>0. TypeOK /\ OnlyMoves(s) /\ now' = now
  BY CheckoutMoves, CheckoutFrame DEF CountInv
<1>1. key'[t] = K /\ t \in Pinners(P, K)' /\ pinnedAt'[t] = pinnedAt[t]
  BY <1>0, PinTimes DEF Relying, Pinners, Of
<1>2. \A u \in Pinners(P, K) \cap Pinners(P, K)' : now - pinnedAt[u] < RunDeadline
  BY <1>0, PinTimes DEF AllFresh, Pinners, Of
<1>3. \A u \in Pinners(P, K) \ Pinners(P, K)' : u = s
  BY <1>0 DEF OnlyMoves, Pinners, Of
<1>4. ASSUME s \in Pinners(P, K), s \notin Pinners(P, K)' PROVE now - pinnedAt[s] < RunDeadline
  <2>0. ProcOf[s] = P /\ key[s] = K /\ pc[s] \in Counted /\ pc'[s] \notin Counted
    BY <1>0, <1>4, PinTimes DEF Pinners, Of
  <2>1. s # t
    BY <1>1, <1>4
  <2>2. pc[s] # "release"
    BY <2>0 DEF TeardownInv, Teardown, Relying, Counted, Locked, Building, Failing
  <2>3. pc[s] \in Locked
    <3>1. pc[s] # "using"
      BY <1>0, <2>0 DEF Begin, Checkout, LockKey, CountPin, WritePin, CacheHit, StartFetch,
             FetchOk, BuildOk, TouchSentinel, Fail, Leave, FailUncount, FailUnlink, Abandon,
             EndSession, Release, ReleaseUncount, ReleaseUnlink, Uncount, Go, Building, TypeOK
    <3> QED BY <2>0, <2>2, <3>1 DEF Counted
  <2>4. pc[t] = "using"
    BY <1>0, <2>0, <2>1, <2>3, OthersUse DEF Relying
  <2>5. pinnedAt[t] <= pinnedAt[s]
    BY <2>0, <2>3, <2>4 DEF OrderInv
  <2>6. now - pinnedAt[t] < RunDeadline
    BY <1>1, <1>2, <2>4 DEF Pinners, Of, Counted
  <2> QED BY <1>0, <2>5, <2>6, CacheAssumption DEF TypeOK
<1> QED BY <1>1, <1>2, <1>3, <1>4 DEF AllFresh

(* Which step brings a checkout to its use, among the pinners that hold    *)
(* the key's lock, and among those that rely on the pin file.              *)
LEMMA Entries ==
    ASSUME TypeOK, NEW s \in Session,
           (\E k \in Key : Begin(s, k)) \/ Checkout(s) \/ EndSession(s) \/ Release(s)
    PROVE  \/ CountPin(s) \/ WritePin(s) \/ Leave(s)
           \/ pc'[s] \notin Relying \cup {"write"}
           \/ pc[s] \in Relying \cap Locked /\ pc'[s] \in Locked
<1> USE DEF Relying, Counted, Locked, Building, Failing
<1>0. pc \in [Session -> PC]
  BY DEF TypeOK
<1>1. ASSUME NEW k \in Key, Begin(s, k) PROVE pc'[s] \notin Relying \cup {"write"}
  BY <1>0, <1>1 DEF Begin, Go
<1>2. CASE LockKey(s)
  BY <1>0, <1>2 DEF LockKey, Go
<1>3. CASE CacheHit(s) \/ StartFetch(s)
  BY <1>0, <1>3 DEF CacheHit, StartFetch, Go
<1>4. CASE FetchOk(s) \/ BuildOk(s)
  BY <1>0, <1>4 DEF FetchOk, BuildOk, Go
<1>5. CASE TouchSentinel(s)
  BY <1>0, <1>5 DEF TouchSentinel, Go
<1>6. CASE Fail(s)
  BY <1>0, <1>6 DEF Fail, Go
<1>7. CASE FailUncount(s)
  BY <1>0, <1>7 DEF FailUncount, Uncount, Go
<1>8. CASE FailUnlink(s) \/ Abandon(s)
  BY <1>0, <1>8 DEF FailUnlink, Abandon, Go
<1>9. CASE EndSession(s)
  BY <1>0, <1>9 DEF EndSession, Go
<1>10. CASE ReleaseUncount(s)
  BY <1>0, <1>10 DEF ReleaseUncount, Uncount, Go
<1>11. CASE ReleaseUnlink(s)
  BY <1>0, <1>11 DEF ReleaseUnlink, Go
<1> HIDE DEF Relying, Counted, Locked, Building, Failing
<1> QED BY <1>1, <1>2, <1>3, <1>4, <1>5, <1>6, <1>7, <1>8, <1>9, <1>10, <1>11 DEF Checkout, Release

(* Who waits for a lock pins later than who has left it (LockKey, then     *)
(* _pin, then leave).                                                      *)
LEMMA CheckoutOrder ==
    ASSUME CountInv, LockInv, OrderInv, NEW s \in Session,
           (\E k \in Key : Begin(s, k)) \/ Checkout(s) \/ EndSession(s) \/ Release(s)
    PROVE  OrderInv'
<1>0. TypeOK /\ OnlyMoves(s)
  BY CheckoutMoves DEF CountInv
<1> SUFFICES ASSUME NEW a \in Session, NEW b \in Session,
                    ProcOf[a] = ProcOf[b], key'[a] = key'[b],
                    pc'[a] = "using", pc'[b] \in Counted \cap Locked
             PROVE  pinnedAt'[a] <= pinnedAt'[b]
    BY DEF OrderInv
<1>1. a # b
  BY DEF Locked, Building, Failing
<1>2. CASE pc[a] = "using" /\ pc[b] \in Counted \cap Locked
  BY <1>0, <1>2, PinTimes DEF OrderInv, Counted
<1>3. CASE pc[a] # "using"
  <2>1. a = s /\ Leave(s)
    <3>1. a = s
      BY <1>0, <1>3 DEF OnlyMoves
    <3>2. ~CountPin(s) /\ ~WritePin(s)
      BY <1>0, <3>1 DEF CountPin, WritePin, Go, TypeOK
    <3>3. "using" \in Relying /\ "using" \notin Locked
      BY DEF Relying, Counted, Locked, Building, Failing
    <3> QED BY <1>0, <1>3, <3>1, <3>2, <3>3, Entries
  <2>2. pc[b] = pc'[b] /\ key[b] = key[a] /\ pc[a] \in Locked
    BY <1>0, <1>1, <2>1 DEF OnlyMoves, Leave, Go, Locked
  <2> QED BY <1>0, <1>1, <2>2, Exclusive
<1>4. CASE pc[b] \notin Counted \cap Locked
  <2>1. b = s /\ CountPin(s)
    <3>1. b = s
      BY <1>0, <1>4 DEF OnlyMoves
    <3>2. pc'[s] \in Relying \cup {"write"} /\ pc'[s] \in Locked /\ pc'[s] # "using"
      BY <3>1 DEF Relying, Counted, Locked, Building, Failing
    <3>3. ~Leave(s)
      BY <1>0, <3>2 DEF Leave, Go, TypeOK
    <3>4. ~WritePin(s)
      BY <1>4, <3>1 DEF WritePin, Go, Counted, Locked
    <3>5. pc[s] \notin Relying \cap Locked
      BY <1>4, <3>1 DEF Relying
    <3> QED BY <1>0, <3>1, <3>2, <3>3, <3>4, <3>5, Entries
  <2>2. pinnedAt'[b] = now /\ pinnedAt'[a] = pinnedAt[a]
    BY <1>0, <1>1, <2>1 DEF OnlyMoves, CountPin, TypeOK
  <2> QED BY <1>0, <2>2 DEF TypeOK
<1> QED BY <1>2, <1>3, <1>4

(* The failing checkout that removes the pin file is the last pinner       *)
(* (_unpin's `remaining', counted under the key lock).                     *)
LEMMA CheckoutDrop ==
    ASSUME CountInv, LockInv, DropInv, NEW s \in Session,
           (\E k \in Key : Begin(s, k)) \/ Checkout(s) \/ EndSession(s) \/ Release(s)
    PROVE  DropInv'
<1>0. TypeOK /\ OnlyMoves(s)
  BY CheckoutMoves DEF CountInv
<1> SUFFICES ASSUME NEW t \in Session, pc'[t] = "dropfile", NEW K, K = key'[t]
             PROVE  Pinners(ProcOf[t], K)' = {}
    BY DEF DropInv
<1>1. CASE t = s
  <2>1. FailUncount(s)
    BY <1>0, <1>1 DEF Begin, Checkout, LockKey, CountPin, WritePin, CacheHit, StartFetch,
             FetchOk, BuildOk, TouchSentinel, Fail, Leave, FailUnlink, Abandon,
             EndSession, Release, ReleaseUncount, ReleaseUnlink, Uncount, Go, Building, TypeOK
  <2>2. /\ pc[s] \in Counted /\ pc'[s] \notin Counted /\ key[s] = K /\ K \in Key
        /\ s \in Pinners(ProcOf[s], K)
    BY <1>0, <1>1, <2>1, PinnedPositive DEF FailUncount, Uncount, Go, Counted, Locked, Building, Failing
  <2>3. pinRefs[ProcOf[s]][K] - 1 <= 0
    <3>1. pinRefs[ProcOf[s]][K] \in Nat
      BY <1>0, <2>2, CacheAssumption DEF TypeOK
    <3>2. pc'[s] = IF pinRefs[ProcOf[s]][K] - 1 > 0 THEN "abandon" ELSE "dropfile"
      BY <1>0, <2>1, <2>2 DEF FailUncount, Uncount, Go, TypeOK
    <3> QED BY <1>1, <3>1, <3>2
  <2>4. Cardinality(Pinners(ProcOf[s], K)) <= 1
    BY <2>2, <2>3, CacheAssumption, PinnersFinite DEF CountInv, RefInv
  <2>5. Cardinality(Pinners(ProcOf[s], K) \ {s}) = Cardinality(Pinners(ProcOf[s], K)) - 1
    BY <2>2, PinnersFinite, FS_RemoveElement
  <2>6. Pinners(ProcOf[s], K) \ {s} = {}
    <3>1. /\ IsFiniteSet(Pinners(ProcOf[s], K) \ {s})
          /\ Cardinality(Pinners(ProcOf[s], K) \ {s}) \in Nat
      BY PinnersFinite, FS_Subset, FS_CardinalityType
    <3>2. Cardinality(Pinners(ProcOf[s], K) \ {s}) = 0
      BY <2>4, <2>5, <3>1, PinnersFinite
    <3> QED BY <3>1, <3>2, FS_EmptySet
  <2> QED BY <1>0, <1>1, <2>2, <2>6, PinnersStep
<1>2. CASE t # s
  <2>1. pc[t] = "dropfile" /\ key[t] = K /\ Pinners(ProcOf[t], K) = {}
    BY <1>0, <1>2 DEF OnlyMoves, DropInv
  <2>2. ASSUME NEW u \in Pinners(ProcOf[t], K)' PROVE FALSE
    <3>1. u = s /\ pc'[s] \in Counted /\ key'[s] = K /\ ProcOf[s] = ProcOf[t]
      BY <1>0, <2>1, <2>2 DEF OnlyMoves, Pinners, Of
    <3>2. pc[s] \notin Counted \/ key[s] # K
      BY <2>1, <3>1 DEF Pinners, Of
    <3>3. pc[s] = "pin" /\ key[s] = K
      BY <1>0, <3>1, <3>2 DEF Begin, Checkout, LockKey, CountPin, WritePin, CacheHit, StartFetch,
             FetchOk, BuildOk, TouchSentinel, Fail, Leave, FailUncount, FailUnlink, Abandon,
             EndSession, Release, ReleaseUncount, ReleaseUnlink, Uncount, Go, TypeOK,
             Counted, Locked, Building, Failing
    <3> QED BY <1>0, <1>2, <2>1, <3>3, Exclusive DEF Locked, Failing
  <2> QED BY <2>2
<1> QED BY <1>1, <1>2

(* The trees the protected sessions use stay whole while others check out  *)
(* (a rebuild starts only where there is no sentinel).                     *)
LEMMA CheckoutIntact ==
    ASSUME CountInv, TreeInv, NEW s \in Session,
           (\E k \in Key : Begin(s, k)) \/ Checkout(s) \/ EndSession(s) \/ Release(s),
           NEW k \in Key, Intact(k)
    PROVE  Intact(k)'
<1>0. TypeOK
  BY DEF CountInv
<1> USE DEF Intact, Sentinel, sessionVars, treeVars, Go
<1>1. CASE StartFetch(s)
  BY <1>0, <1>1 DEF StartFetch, TypeOK
<1>2. CASE Fail(s)
  BY <1>0, <1>2 DEF Fail, TypeOK, TreeInv
<1>3. CASE BuildOk(s)
  BY <1>0, <1>3 DEF BuildOk, TypeOK
<1>4. CASE TouchSentinel(s)
  BY <1>0, <1>4 DEF TouchSentinel, TypeOK, NoFile
<1>5. CASE ~(StartFetch(s) \/ Fail(s) \/ BuildOk(s) \/ TouchSentinel(s))
  <2>1. UNCHANGED <<tree, builtAt>>
    BY <1>5 DEF Begin, Checkout, LockKey, CountPin, WritePin, CacheHit, FetchOk, Leave, FailUncount,
           FailUnlink, Abandon, EndSession, Release, ReleaseUncount, ReleaseUnlink
  <2> QED BY <2>1
<1> QED BY <1>1, <1>2, <1>3, <1>4, <1>5

LEMMA OtherEntry ==
    ASSUME NEW f, NEW a, NEW b, NEW new, NEW k, NEW p,
           ~(k = a /\ p = b), k \in DOMAIN f, p \in DOMAIN f[k]
    PROVE  [f EXCEPT ![a][b] = new][k][p] = f[k][p]
<1>1. CASE k # a
  BY <1>1
<1>2. CASE k = a
  <2>1. p # b /\ [f EXCEPT ![a][b] = new][k] = [f[k] EXCEPT ![b] = new]
    BY <1>2
  <2> QED BY <2>1
<1> QED BY <1>1, <1>2

(* The pin file follows the uses: written by the first, removed with the   *)
(* last, and not older than the oldest of them (_pin, _unpin).             *)
LEMMA CheckoutFile ==
    ASSUME CountInv, LockInv, TeardownInv, OrderInv, DropInv, FileInv, ~OverlappingRuns,
           NEW s \in Session,
           (\E k \in Key : Begin(s, k)) \/ Checkout(s) \/ EndSession(s) \/ Release(s)
    PROVE  FileInv'
<1>0. TypeOK /\ OnlyMoves(s) /\ now' = now
  BY CheckoutMoves, CheckoutFrame DEF CountInv
<1> SUFFICES ASSUME NEW t \in Session, pc'[t] \in Relying, NEW K, K = key'[t],
                    AllFresh(ProcOf[t], K)'
             PROVE  Covered(ProcOf[t], K)'
    BY DEF FileInv
<1> DEFINE P == ProcOf[t]
<1>p. P \in Proc
  BY CacheAssumption
<1>1. CASE pc[t] \in Relying
  <2>0. key[t] \in Key /\ key[t] = K /\ pc[t] \in Counted
    BY <1>0, <1>1, ActiveKey, PinTimes DEF Relying, Counted, Locked, Building, Failing
  <2>1. Covered(P, K)
    BY <1>1, <2>0, FreshBefore DEF FileInv
  <2>2. t \in Pinners(P, K)'
    BY <2>0 DEF Pinners, Of, Relying
  <2>3. CASE WritePin(s) /\ P = ProcOf[s] /\ K = key[s]
    <3>1. pinFile'[K][P] = now
      BY <1>0, <1>p, <2>0, <2>3 DEF WritePin, TypeOK
    <3>2. pinnedAt'[t] <= now /\ now # NoFile
      BY <1>0, <2>3 DEF WritePin, TypeOK, NoFile
    <3> QED BY <2>2, <3>1, <3>2 DEF Covered
  <2>4. CASE ~(WritePin(s) /\ P = ProcOf[s] /\ K = key[s])
    <3>1. ~((FailUnlink(s) \/ ReleaseUnlink(s)) /\ P = ProcOf[s] /\ K = key[s])
      <4>1. CASE FailUnlink(s)
        BY <2>0, <4>1 DEF FailUnlink, Go, DropInv, Pinners, Of
      <4>2. CASE ReleaseUnlink(s)
        BY <1>1, <4>2 DEF ReleaseUnlink, Go, TeardownInv, Teardown, Relying, Counted, Locked, Building, Failing
      <4> QED BY <4>1, <4>2
    <3>2. pinFile'[K][P] = pinFile[K][P]
      <4>0. K \in DOMAIN pinFile /\ P \in DOMAIN pinFile[K]
        BY <1>0, <1>p, <2>0 DEF TypeOK
      <4>1. CASE WritePin(s)
        <5>1. pinFile' = [pinFile EXCEPT ![key[s]][ProcOf[s]] = now] /\ ~(K = key[s] /\ P = ProcOf[s])
          BY <2>4, <4>1 DEF WritePin
        <5> QED BY <4>0, <5>1, OtherEntry
      <4>2. CASE FailUnlink(s) \/ ReleaseUnlink(s)
        <5>1. pinFile' = [pinFile EXCEPT ![key[s]][ProcOf[s]] = NoFile] /\ ~(K = key[s] /\ P = ProcOf[s])
          BY <3>1, <4>2 DEF FailUnlink, ReleaseUnlink, RemovePinFile
        <5> QED BY <4>0, <5>1, OtherEntry
      <4>3. CASE ~(WritePin(s) \/ FailUnlink(s) \/ ReleaseUnlink(s))
        BY <4>3 DEF Begin, Checkout, LockKey, CountPin, CacheHit, StartFetch, FetchOk, BuildOk,
             TouchSentinel, Fail, Leave, FailUncount, Abandon, EndSession, Release, ReleaseUncount,
             pinVars
      <4> QED BY <4>1, <4>2, <4>3
    <3>3. PICK u \in Pinners(P, K) : pinnedAt[u] <= pinFile[K][P]
      BY <2>1 DEF Covered
    <3>4. \E v \in Pinners(P, K)' : pinnedAt'[v] <= pinFile[K][P]
      <4>1. CASE u \in Pinners(P, K)'
        <5>1. u \in Session /\ pc[u] \in Counted /\ pc'[u] \in Counted
          BY <4>1 DEF Pinners, Of
        <5> QED BY <1>0, <3>3, <4>1, <5>1, PinTimes
      <4>2. CASE u \notin Pinners(P, K)'
        <5>1. u = s /\ pc[s] \in Counted /\ pc'[s] \notin Counted /\ ProcOf[s] = P /\ key[s] = K
          BY <1>0, <4>2, PinTimes DEF OnlyMoves, Pinners, Of
        <5>2. s # t /\ pc[s] # "release"
          BY <1>1, <2>2, <4>2, <5>1 DEF TeardownInv, Teardown, Relying, Counted, Locked, Building, Failing
        <5>3. pc[s] # "using"
          BY <1>0, <5>1 DEF Begin, Checkout, LockKey, CountPin, WritePin, CacheHit, StartFetch,
             FetchOk, BuildOk, TouchSentinel, Fail, Leave, FailUncount, FailUnlink, Abandon,
             EndSession, Release, ReleaseUncount, ReleaseUnlink, Uncount, Go, Building, TypeOK
        <5>4. pc[s] \in Locked
          BY <5>1, <5>2, <5>3 DEF Counted
        <5>5. pc[t] = "using"
          BY <1>0, <2>0, <5>1, <5>2, <5>4, OthersUse
        <5>6. pinnedAt[t] <= pinnedAt[s]
          BY <2>0, <5>1, <5>4, <5>5 DEF OrderInv
        <5>7. pinnedAt'[t] = pinnedAt[t]
          BY <1>0, <5>2 DEF OnlyMoves
        <5>8. pinnedAt[t] <= pinFile[K][P]
          BY <1>0, <1>p, <2>0, <3>3, <5>1, <5>6 DEF TypeOK
        <5> QED BY <2>2, <5>7, <5>8
      <4> QED BY <4>1, <4>2
    <3> QED BY <2>1, <3>2, <3>4 DEF Covered
  <2> QED BY <2>3, <2>4
<1>2. CASE pc[t] \notin Relying
  <2>0. t = s /\ (CountPin(s) \/ WritePin(s))
    <3>1. t = s
      BY <1>0, <1>2 DEF OnlyMoves
    <3>2. pc'[s] \in Relying /\ pc[s] \notin Relying
      BY <1>2, <3>1
    <3>3. ~Leave(s)
      BY <3>2 DEF Leave, Go, Relying, Counted, Locked
    <3> QED BY <1>0, <3>1, <3>2, <3>3, Entries
  <2>1. key[s] = K /\ K \in Key /\ s \in Pinners(P, K)'
    BY <1>0, <2>0, ActiveKey DEF CountPin, WritePin, Go, Pinners, Of, Relying
  <2>2. CASE WritePin(s)
    <3>1. pinFile'[K][P] = now
      BY <1>0, <1>p, <2>0, <2>1, <2>2 DEF WritePin, TypeOK
    <3>2. pinnedAt'[s] <= now /\ now # NoFile
      BY <1>0, <2>2 DEF WritePin, TypeOK, NoFile
    <3> QED BY <2>1, <3>1, <3>2 DEF Covered
  <2>3. CASE CountPin(s)
    <3>1. pinRefs[P][K] > 0
      <4>1. pinRefs[P][K] \in Nat
        BY <1>0, <1>p, <2>1 DEF TypeOK
      <4>2. pc'[s] = IF pinRefs[P][K] + 1 > 1 THEN "lookup" ELSE "write"
        BY <1>0, <2>0, <2>1, <2>3 DEF CountPin, Go, TypeOK
      <4> QED BY <2>0, <4>1, <4>2 DEF Relying
    <3>2. PICK v \in Pinners(P, K) : TRUE
      <4>1. pinRefs[P][K] = Cardinality(Pinners(P, K))
        BY <1>p, <2>1 DEF CountInv, RefInv
      <4>2. Pinners(P, K) # {}
        BY <3>1, <4>1, FS_EmptySet
      <4> QED BY <4>2
    <3>3. /\ v \in Session \ {s} /\ pc[v] \in Counted /\ ProcOf[v] = P /\ key[v] = K
          /\ pc[s] = "pin"
      BY <2>3, <3>2 DEF Pinners, Of, CountPin, Go, Counted, Locked, Building, Failing
    <3>4. pc[v] = "using"
      BY <1>0, <2>0, <2>1, <3>3, OthersUse DEF Locked
    <3>5. pc'[v] = "using"
      BY <1>0, <3>3, <3>4 DEF OnlyMoves
    <3>6. AllFresh(ProcOf[v], K)
      BY <2>1, <3>3, <3>4, <3>5, FreshBefore DEF Relying, Counted
    <3>7. Covered(P, K)
      BY <3>3, <3>4, <3>6 DEF FileInv, Relying, Counted
    <3>8. PICK u \in Pinners(P, K) : pinnedAt[u] <= pinFile[K][P]
      BY <3>7 DEF Covered
    <3>9. u # s /\ u \in Pinners(P, K)' /\ pinnedAt'[u] = pinnedAt[u]
      BY <1>0, <3>3, <3>8 DEF OnlyMoves, Pinners, Of, Counted, Locked, Building, Failing
    <3> QED BY <2>3, <3>7, <3>8, <3>9 DEF Covered, CountPin
  <2> QED BY <2>0, <2>2, <2>3
<1> QED BY <1>1, <1>2

(* A protected use begins with a whole tree and keeps it, and none begins  *)
(* on a tree under removal.                                                *)
LEMMA CheckoutUse ==
    ASSUME CountInv, LockInv, TreeInv, TeardownInv, OrderInv, EvictInv, InUseIntact,
           ~OverlappingRuns, NEW s \in Session,
           (\E k \in Key : Begin(s, k)) \/ Checkout(s) \/ EndSession(s) \/ Release(s)
    PROVE  EvictInv' /\ InUseIntact'
<1>0. TypeOK /\ OnlyMoves(s) /\ UNCHANGED <<now, evPc, evQueue>>
  BY CheckoutMoves, CheckoutFrame DEF CountInv
<1>1. ASSUME NEW t \in Session, Protected(t)', NEW K, K = key'[t]
      PROVE  /\ Intact(K)'
             /\ evPc \in {"remove", "removing"} => K # Head(evQueue)
  <2>1. CASE pc[t] = "using"
    <3>1. key[t] = K /\ K \in Key /\ Protected(t)
      <4>1. pc'[t] = "using" /\ AllFresh(ProcOf[t], K)'
        BY <1>1 DEF Protected
      <4>2. key[t] = K /\ K \in Key
        BY <1>0, <1>1, <2>1, <4>1, ActiveKey, PinTimes DEF Counted
      <4> QED BY <2>1, <4>1, <4>2, FreshBefore DEF Protected, Relying, Counted
    <3>2. Intact(K)
      BY <3>1 DEF InUseIntact
    <3> QED BY <3>1, <3>2, CheckoutIntact DEF EvictInv
  <2>2. CASE pc[t] # "using"
    <3>1. t = s /\ Leave(s)
      BY <1>0, <1>1, <2>2 DEF Protected, OnlyMoves, Begin, Checkout, LockKey, CountPin, WritePin,
             CacheHit, StartFetch, FetchOk, BuildOk, TouchSentinel, Fail, Leave, FailUncount,
             FailUnlink, Abandon, EndSession, Release, ReleaseUncount, ReleaseUnlink, Uncount, Go,
             Building, TypeOK
    <3>2. key[s] = K /\ pc[s] \in Locked /\ Intact(K) /\ UNCHANGED <<tree, builtAt>>
      BY <1>1, <3>1 DEF Leave, Go, Locked, TreeInv, treeVars
    <3> QED BY <1>0, <3>2, Exclusive DEF Intact, Sentinel, InHand
  <2> QED BY <2>1, <2>2
<1> QED BY <1>0, <1>1 DEF EvictInv, InUseIntact

(* A relied-upon pin passes _has_live_pin while the use is within its      *)
(* deadline: its file is there, its process lives, its time is recent.     *)
LEMMA LiveWhenFresh ==
    ASSUME TypeOK, AliveInv, FileInv, NEW t \in Session, pc[t] \in Relying,
           AllFresh(ProcOf[t], key[t])
    PROVE  LivePin(key[t], ProcOf[t])
<1> DEFINE P == ProcOf[t]
<1>1. key[t] \in Key /\ P \in Proc /\ alive[P]
  BY ActiveKey, CacheAssumption DEF Relying, Counted, Locked, Building, Failing, AliveInv, TypeOK
<1>2. PICK u \in Pinners(P, key[t]) : pinnedAt[u] <= pinFile[key[t]][P]
  BY DEF FileInv, Covered
<1>3. pinFile[key[t]][P] # NoFile
  BY DEF FileInv, Covered
<1>4. now - pinnedAt[u] < RunDeadline /\ u \in Session
  BY <1>2 DEF AllFresh, Pinners, Of
<1>5. now \in Nat /\ pinnedAt[u] \in Nat /\ pinFile[key[t]][P] \in Nat /\ RunDeadline \in Nat
  BY <1>1, <1>4, CacheAssumption DEF TypeOK
<1>6. now - pinFile[key[t]][P] < RunDeadline
  BY <1>2, <1>4, <1>5
<1> QED BY <1>1, <1>3, <1>6 DEF LivePin

(* evict removes no tree and clears no pin that a protected use relies on  *)
(* (_has_live_pin, then rmtree and _clear_pins, all under the key lock).   *)
LEMMA EvictUse ==
    ASSUME CountInv, LockInv, AliveInv, FileInv, TeardownInv, OrderInv, DropInv, EvictInv,
           InUseIntact, NEW e \in Evictor, StartEvict(e) \/ EvictStep(e)
    PROVE  OrderInv' /\ DropInv' /\ FileInv' /\ EvictInv' /\ InUseIntact'
<1> USE DEF EvictGo, sessionVars
<1>0. TypeOK /\ UNCHANGED <<now, pc, key, pinnedAt>>
  BY DEF CountInv, StartEvict, EvictStep, KeepTree, WantTree, SkipLocked, TakeKey, CheckPins,
         BeginRemove, FinishRemove, UnlockKey, EndEvict
<1>1. /\ \A p, k : Pinners(p, k)' = Pinners(p, k)
      /\ \A p, k : AllFresh(p, k)' <=> AllFresh(p, k)
      /\ \A s \in Session : Protected(s)' <=> Protected(s)
  BY <1>0 DEF Pinners, AllFresh, Protected
<1>2. OrderInv' /\ DropInv'
  BY <1>0, <1>1 DEF OrderInv, DropInv
<1>3. ASSUME \A t \in Session : pc[t] \in Relying /\ AllFresh(ProcOf[t], key[t])
                => pinFile'[key[t]][ProcOf[t]] = pinFile[key[t]][ProcOf[t]]
      PROVE  FileInv'
  BY <1>0, <1>1, <1>3 DEF FileInv, Covered
<1>h. InHand => Head(evQueue) \in Key
  BY <1>0 DEF CountInv, QueueInv, InHand, TypeOK
<1>4. CASE CheckPins(e)
  <2>1. \A t \in Session : pc[t] \in Relying /\ AllFresh(ProcOf[t], key[t]) =>
            /\ key[t] \in Key /\ ProcOf[t] \in Proc /\ LivePin(key[t], ProcOf[t])
    BY <1>0, LiveWhenFresh, ActiveKey, CacheAssumption DEF Relying, Counted, Locked, Building, Failing
  <2>2. FileInv'
    BY <1>0, <1>3, <1>4, <2>1 DEF CheckPins, TypeOK
  <2>3. ASSUME evPc' \in {"remove", "removing"}, NEW t \in Session, key[t] = Head(evQueue),
               Protected(t)
        PROVE  FALSE
    <3>1. LivePin(key[t], ProcOf[t]) /\ ProcOf[t] \in Proc
      BY <2>1, <2>3 DEF Protected, Relying, Counted
    <3> QED BY <1>4, <2>3, <3>1 DEF CheckPins
  <2>4. EvictInv'
    BY <1>0, <1>1, <1>4, <2>3 DEF CheckPins, EvictInv
  <2>5. InUseIntact'
    BY <1>0, <1>1, <1>4 DEF CheckPins, InUseIntact, Intact, Sentinel, treeVars
  <2> QED BY <1>2, <2>2, <2>4, <2>5
<1>5. CASE BeginRemove(e) \/ FinishRemove(e)
  <2>0. InHand /\ evPc \in {"remove", "removing"} /\ UNCHANGED evQueue
    BY <1>5 DEF BeginRemove, FinishRemove, InHand
  <2>1. \A t \in Session : Protected(t) => key[t] # Head(evQueue)
    BY <2>0 DEF EvictInv
  <2>2. EvictInv'
    BY <1>0, <1>1, <2>0, <2>1 DEF EvictInv
  <2>3. InUseIntact'
    <3>1. \A k \in Key : k # Head(evQueue) => tree'[k] = tree[k] /\ builtAt'[k] = builtAt[k]
      BY <1>0, <1>5, <1>h, <2>0 DEF BeginRemove, FinishRemove, TypeOK
    <3>2. \A t \in Session : Protected(t) => key[t] \in Key
      BY <1>0, ActiveKey DEF Protected
    <3> QED BY <1>0, <1>1, <2>1, <3>1, <3>2 DEF InUseIntact, Intact, Sentinel
  <2>4. FileInv'
    <3>1. CASE BeginRemove(e)
      BY <1>3, <3>1 DEF BeginRemove, pinVars
    <3>2. CASE FinishRemove(e)
      <4>1. ASSUME NEW t \in Session, pc[t] \in Relying, AllFresh(ProcOf[t], key[t])
            PROVE  key[t] \in Key /\ key[t] # Head(evQueue)
        <5>1. CASE pc[t] = "using"
          BY <1>0, <2>1, <4>1, <5>1, ActiveKey DEF Protected
        <5>2. CASE pc[t] \in Locked
          BY <1>0, <2>0, <5>2, Exclusive
        <5> QED BY <4>1, <5>1, <5>2 DEF Relying, Counted
      <4> QED BY <1>0, <1>3, <1>h, <2>0, <3>2, <4>1, CacheAssumption DEF FinishRemove, TypeOK
    <3> QED BY <1>5, <3>1, <3>2
  <2> QED BY <1>2, <2>2, <2>3, <2>4
<1>6. CASE StartEvict(e) \/ KeepTree(e) \/ WantTree(e) \/ SkipLocked(e) \/ TakeKey(e)
             \/ UnlockKey(e) \/ EndEvict(e)
  <2>1. UNCHANGED <<pinFile, tree, builtAt>> /\ evPc' \notin {"remove", "removing"}
    BY <1>6 DEF StartEvict, KeepTree, WantTree, SkipLocked, TakeKey, UnlockKey, EndEvict,
                pinVars, treeVars
  <2>2. FileInv' /\ EvictInv'
    BY <1>3, <2>1 DEF EvictInv
  <2>3. InUseIntact'
    BY <1>0, <1>1, <2>1 DEF InUseIntact, Intact, Sentinel
  <2> QED BY <1>2, <2>2, <2>3
<1> QED BY <1>4, <1>5, <1>6 DEF EvictStep

(* Time only ends protection; ending a run or a process ends its uses.     *)
LEMMA OtherUse ==
    ASSUME CountInv, LockInv, FileInv, OrderInv, DropInv, EvictInv, InUseIntact, EvictorsSurvive,
           \/ \E p \in Proc : EndRun(p)
           \/ \E p \in Mortal : Kill(p)
           \/ Tick \/ UNCHANGED vars
    PROVE  OrderInv' /\ DropInv' /\ FileInv' /\ EvictInv' /\ InUseIntact'
<1> USE DEF sessionVars, pinVars, treeVars, evictVars
<1>0. TypeOK
  BY DEF CountInv
<1>f. UNCHANGED <<pinFile, tree, builtAt, evPc, evQueue>>
  <2>1. ASSUME NEW p \in Mortal, Kill(p) PROVE UNCHANGED <<pinFile, tree, builtAt, evPc, evQueue>>
    <3>1. evictLock # p
      BY <1>0, CacheAssumption DEF EvictorsSurvive, TypeOK
    <3> QED BY <2>1, <3>1 DEF Kill
  <2> QED BY <2>1 DEF EndRun, Tick, vars
<1>1. ASSUME \A s \in Session : pc'[s] \in Counted \cup {"dropfile"} =>
                /\ pc[s] \in Counted \cup {"dropfile"}
                /\ key'[s] = key[s] /\ pinnedAt'[s] = pinnedAt[s]
                /\ pc'[s] # "release" => pc'[s] = pc[s],
             \A s \in Session : pc'[s] \in Counted \cup {"dropfile"} =>
                \A k \in Key : /\ Pinners(ProcOf[s], k)' = Pinners(ProcOf[s], k)
                               /\ AllFresh(ProcOf[s], k)' => AllFresh(ProcOf[s], k)
      PROVE  OrderInv' /\ DropInv' /\ FileInv' /\ EvictInv' /\ InUseIntact'
  <2>0. \A s \in Session : pc'[s] \in Counted \cup {"dropfile"} => key[s] \in Key
    BY <1>0, <1>1, ActiveKey DEF Counted, Locked, Building, Failing
  <2>1. \A s \in Session : Protected(s)' => Protected(s) /\ key'[s] = key[s]
    <3> SUFFICES ASSUME NEW s \in Session, Protected(s)' PROVE Protected(s) /\ key'[s] = key[s]
        OBVIOUS
    <3>1. PICK k \in Key : key[s] = k /\ key'[s] = k /\ pc'[s] = "using" /\ pc[s] = "using"
      BY <1>1, <2>0 DEF Protected, Counted
    <3>2. AllFresh(ProcOf[s], k)'
      BY <3>1 DEF Protected
    <3> QED BY <1>1, <3>1, <3>2 DEF Protected, Counted
  <2>2. OrderInv'
    BY <1>1 DEF OrderInv, Counted, Locked, Building, Failing
  <2>3. DropInv'
    <3> SUFFICES ASSUME NEW s \in Session, pc'[s] = "dropfile", NEW K, K = key'[s]
                 PROVE  Pinners(ProcOf[s], K)' = {}
        BY DEF DropInv
    <3> QED BY <1>1, <2>0 DEF DropInv
  <2>4. FileInv'
    <3> SUFFICES ASSUME NEW s \in Session, pc'[s] \in Relying, NEW K, K = key'[s],
                        AllFresh(ProcOf[s], K)'
                 PROVE  Covered(ProcOf[s], K)'
        BY DEF FileInv
    <3>1. pc'[s] = pc[s] /\ key[s] = K /\ K \in Key
      BY <1>1, <2>0 DEF Relying
    <3>2. Covered(ProcOf[s], K)
      BY <1>1, <3>1 DEF FileInv, Relying
    <3>3. PICK u \in Pinners(ProcOf[s], K) : pinnedAt[u] <= pinFile[K][ProcOf[s]]
      BY <3>2 DEF Covered
    <3>4. Pinners(ProcOf[s], K)' = Pinners(ProcOf[s], K)
      BY <1>1, <3>1 DEF Relying
    <3>5. pinnedAt'[u] = pinnedAt[u] /\ u \in Pinners(ProcOf[s], K)'
      <4>1. u \in Pinners(ProcOf[s], K)'
        BY <3>4
      <4>2. u \in Session /\ pc'[u] \in Counted
        BY <4>1 DEF Pinners, Of
      <4> QED BY <1>1, <4>1, <4>2
    <3> QED BY <1>f, <3>2, <3>3, <3>5 DEF Covered
  <2>5. EvictInv'
    BY <1>f, <2>1 DEF EvictInv
  <2>6. InUseIntact'
    BY <1>f, <2>1 DEF InUseIntact, Intact, Sentinel
  <2> QED BY <2>2, <2>3, <2>4, <2>5, <2>6
<1>2. CASE Tick \/ UNCHANGED vars
  <2>1. UNCHANGED <<pc, key, pinnedAt>> /\ now' \in {now, now + 1}
    BY <1>2 DEF Tick, vars
  <2>2. \A p, k : Pinners(p, k)' = Pinners(p, k)
    BY <2>1 DEF Pinners
  <2>3. ASSUME NEW p, NEW k, AllFresh(p, k)' PROVE AllFresh(p, k)
    <3> SUFFICES ASSUME NEW u \in Pinners(p, k) PROVE now - pinnedAt[u] < RunDeadline
        BY DEF AllFresh
    <3>1. u \in Session /\ now' - pinnedAt[u] < RunDeadline
      BY <2>1, <2>2, <2>3 DEF AllFresh, Pinners, Of
    <3> QED BY <1>0, <2>1, <3>1, CacheAssumption DEF TypeOK
  <2> QED BY <1>1, <2>1, <2>2, <2>3
<1>3. ASSUME NEW p \in Proc, EndRun(p)
      PROVE  OrderInv' /\ DropInv' /\ FileInv' /\ EvictInv' /\ InUseIntact'
  <2>1. \A s \in Session : pc'[s] = IF s \in Of(p) /\ pc[s] = "using" THEN "release" ELSE pc[s]
    BY <1>3 DEF EndRun
  <2>2. \A q, k : Pinners(q, k)' = Pinners(q, k)
    BY <1>3, <2>1 DEF EndRun, Pinners, Of, Counted
  <2>3. \A q, k : AllFresh(q, k)' <=> AllFresh(q, k)
    BY <1>3, <2>2 DEF EndRun, AllFresh
  <2> QED BY <1>1, <1>3, <2>1, <2>2, <2>3 DEF EndRun, Counted
<1>4. ASSUME NEW p \in Mortal, Kill(p)
      PROVE  OrderInv' /\ DropInv' /\ FileInv' /\ EvictInv' /\ InUseIntact'
  <2>1. \A s \in Session : /\ s \in Of(p) => pc'[s] = "dead"
                           /\ s \notin Of(p) => /\ pc'[s] = pc[s] /\ key'[s] = key[s]
                                                /\ pinnedAt'[s] = pinnedAt[s]
    BY <1>4 DEF Kill
  <2>2. \A q, k : q # p => Pinners(q, k)' = Pinners(q, k)
    BY <2>1 DEF Pinners, Of
  <2>3. \A q, k : q # p => (AllFresh(q, k)' <=> AllFresh(q, k))
    BY <1>4, <2>1, <2>2 DEF Kill, AllFresh, Pinners, Of
  <2>4. \A s \in Session : pc'[s] \in Counted \cup {"dropfile"} => s \notin Of(p) /\ ProcOf[s] # p
    BY <2>1 DEF Of, Counted, Locked, Building, Failing
  <2> QED BY <1>1, <2>1, <2>2, <2>3, <2>4
<1> QED BY <1>2, <1>3, <1>4

UseInv == TeardownInv /\ OrderInv /\ DropInv /\ FileInv /\ EvictInv /\ InUseIntact
IInv   == /\ CountInv /\ LockInv /\ AliveInv
          /\ TreeInv /\ SentinelMeansBuilt /\ UseInv

(* The inductive invariant (all of checkout_and_build, release and evict). *)
LEMMA UseStep ==
    ASSUME EvictorsSurvive, ~OverlappingRuns, IInv, [Next]_vars
    PROVE  IInv'
<1> USE DEF IInv, UseInv
<1>1. CountInv' /\ AliveInv' /\ TeardownInv'
  BY CountStep, AliveStep, TeardownStep
<1>2. ASSUME NEW s \in Session,
             (\E k \in Key : Begin(s, k)) \/ Checkout(s) \/ EndSession(s) \/ Release(s)
      PROVE  IInv'
  <2>1. LockInv' /\ TreeInv' /\ SentinelMeansBuilt'
    BY <1>2, CheckoutLock, CheckoutTree
  <2>2. OrderInv' /\ DropInv'
    BY <1>2, CheckoutOrder, CheckoutDrop
  <2>3. FileInv' /\ EvictInv' /\ InUseIntact'
    BY <1>2, CheckoutFile, CheckoutUse
  <2> QED BY <1>1, <2>1, <2>2, <2>3
<1>3. ASSUME NEW e \in Evictor, StartEvict(e) \/ EvictStep(e) PROVE IInv'
  <2>1. LockInv' /\ TreeInv' /\ SentinelMeansBuilt'
    BY <1>3, EvictLockStep, EvictTree
  <2>2. OrderInv' /\ DropInv' /\ FileInv' /\ EvictInv' /\ InUseIntact'
    BY <1>3, EvictUse
  <2> QED BY <1>1, <2>1, <2>2
<1>4. CASE (\E p \in Proc : EndRun(p)) \/ (\E p \in Mortal : Kill(p)) \/ Tick \/ UNCHANGED vars
  <2>1. LockInv' /\ TreeInv' /\ SentinelMeansBuilt'
    BY <1>4, OtherLock, OtherTree, CacheAssumption
  <2>2. OrderInv' /\ DropInv' /\ FileInv' /\ EvictInv' /\ InUseIntact'
    BY <1>4, OtherUse
  <2> QED BY <1>1, <2>1, <2>2
<1> QED BY <1>2, <1>3, <1>4 DEF Next

LEMMA UseInit == Init => IInv
<1> SUFFICES ASSUME Init PROVE IInv
    OBVIOUS
<1>1. \A s \in Session : pc[s] = "idle"
  BY DEF Init
<1>2. CountInv /\ evPc = "idle"
  BY CountInit DEF Init
<1>3. LockInv /\ TreeInv /\ OrderInv /\ EvictInv
  BY <1>1, <1>2 DEF LockInv, InHand, TreeInv, OrderInv, EvictInv, Locked, Building, Failing
<1>4. AliveInv /\ SentinelMeansBuilt
  BY <1>1, CacheAssumption DEF Init, AliveInv, SentinelMeansBuilt, Sentinel
<1>5. TeardownInv /\ DropInv /\ FileInv /\ InUseIntact
  BY <1>1 DEF TeardownInv, Teardown, DropInv, FileInv, Relying, Counted, Locked, Building,
              Failing, InUseIntact, Protected
<1> QED BY <1>2, <1>3, <1>4, <1>5 DEF IInv, UseInv

(* A run within its deadline finds the tree it was handed whole, whatever  *)
(* other processes check out, evict or are killed at (cache.py:14-24).     *)
THEOREM UseSound ==
    ASSUME EvictorsSurvive, ~OverlappingRuns
    PROVE  Spec => []InUseIntact
<1>1. IInv /\ [Next]_vars => IInv'
  BY UseStep
<1>2. IInv => InUseIntact
  BY DEF IInv, UseInv
<1> QED BY UseInit, <1>1, <1>2, PTL DEF Spec

-----------------------------------------------------------------------------
(***************************************************************************)
(* The cache implements TreeStore                                          *)
(***************************************************************************)
StoreStep == [Store!Next]_(Store!vars)

(* A status depends on the tree, its sentinel and its removal alone.       *)
LEMMA SameStatus ==
    ASSUME UNCHANGED <<tree, builtAt>>, \A k \in Key : Removing(k)' <=> Removing(k)
    PROVE  storeStatus' = storeStatus
BY DEF storeStatus, Sentinel

(* Steps that end uses, or none, and change no tree (release, kill -9).    *)
LEMMA Departs ==
    ASSUME storeStatus' = storeStatus,
           \A t \in Session : Protected(t)' => Protected(t) /\ key'[t] = key[t]
    PROVE  StoreStep
<1>1. protectedUsers' \in [Key -> SUBSET Session]
  BY DEF protectedUsers
<1>2. \A k \in Key : protectedUsers'[k] \subseteq protectedUsers[k]
  BY DEF protectedUsers
<1> QED BY <1>1, <1>2 DEF StoreStep, Store!Next, Store!Depart

(* A session that stays among the pinners of its key, and is not handed    *)
(* its tree, changes nobody's protection.                                  *)
LEMMA SameUsers ==
    ASSUME NEW s \in Session, OnlyMoves(s), now' = now,
           pc[s] \in Counted \ {"using"}, pc'[s] \in Counted \ {"using"},
           key' = key, pinnedAt' = pinnedAt
    PROVE  protectedUsers' = protectedUsers
<1>1. \A p, k : Pinners(p, k)' = Pinners(p, k)
  BY PinnersStep
<1>2. \A p, k : AllFresh(p, k)' <=> AllFresh(p, k)
  BY <1>1 DEF AllFresh
<1>3. \A t \in Session : pc'[t] = "using" <=> pc[t] = "using"
  BY DEF OnlyMoves
<1>4. \A t \in Session : Protected(t)' <=> Protected(t)
  BY <1>2, <1>3 DEF Protected
<1> QED BY <1>4 DEF protectedUsers

(* One key's status changes at a time. *)
LEMMA OneStatus ==
    ASSUME NEW K \in Key, \A k \in Key : Removing(k)' <=> Removing(k),
           \A k \in Key : k # K => tree'[k] = tree[k] /\ builtAt'[k] = builtAt[k]
    PROVE  storeStatus' = [storeStatus EXCEPT ![K] = storeStatus'[K]]
BY DEF storeStatus, Sentinel

(* Fetching and building are StartBuild, the sentinel is FinishBuild, a    *)
(* failure is Remove, of a tree nobody can be protected on.                *)
LEMMA BuildImplements ==
    ASSUME IInv, NEW s \in Session, StartFetch(s) \/ BuildOk(s) \/ TouchSentinel(s) \/ Fail(s)
    PROVE  StoreStep
<1> DEFINE K == key[s]
<1>0. TypeOK /\ OnlyMoves(s) /\ UNCHANGED <<now, key, pinnedAt, evPc, evQueue>>
  <2>1. TypeOK /\ UNCHANGED <<now, key, pinnedAt, evPc, evQueue>>
    BY DEF IInv, CountInv, StartFetch, BuildOk, TouchSentinel, Fail, evictVars
  <2> QED BY <2>1, CheckoutMoves DEF Checkout
<1>1. pc[s] \in Locked /\ pc[s] \in Counted \ {"using"} /\ pc'[s] \in Counted \ {"using"}
  BY <1>0 DEF StartFetch, BuildOk, TouchSentinel, Fail, Go, TypeOK, Counted, Locked, Building, Failing
<1>2. K \in Key /\ ~Removing(K) /\ \A k \in Key : Removing(k)' <=> Removing(k)
  BY <1>0, <1>1, Exclusive DEF IInv, Removing, InHand
<1>3. protectedUsers' = protectedUsers
  BY <1>0, <1>1, SameUsers
<1>4. storeStatus' = [storeStatus EXCEPT ![K] = storeStatus'[K]]
  <2>1. \A k \in Key : k # K => tree'[k] = tree[k] /\ builtAt'[k] = builtAt[k]
    BY <1>0, <1>2 DEF StartFetch, BuildOk, TouchSentinel, Fail, TypeOK
  <2> QED BY <1>2, <2>1, OneStatus
<1>5. /\ storeStatus[K] = IF tree[K] = "absent" THEN "absent"
                          ELSE IF ~Sentinel(K) THEN "building"
                          ELSE IF tree[K] = "complete" THEN "ready" ELSE "broken"
      /\ storeStatus'[K] = IF tree'[K] = "absent" THEN "absent"
                           ELSE IF builtAt'[K] = NoFile THEN "building"
                           ELSE IF tree'[K] = "complete" THEN "ready" ELSE "broken"
  BY <1>2 DEF storeStatus, Sentinel
<1>6. storeStatus[K] = "absent" /\ storeStatus'[K] = "building" => StoreStep
  BY <1>2, <1>3, <1>4 DEF StoreStep, Store!Next, Store!StartBuild, Store!Set
<1>7. storeStatus[K] = storeStatus'[K] => StoreStep
  <2>1. storeStatus[K] = storeStatus'[K] => storeStatus' = storeStatus
    BY <1>2, <1>4 DEF storeStatus
  <2> QED BY <1>3, <2>1 DEF StoreStep, Store!vars
<1>8. CASE StartFetch(s) \/ BuildOk(s)
  <2>1. ~Sentinel(K) /\ builtAt' = builtAt /\ tree'[K] \in {"partial", "complete"}
    BY <1>0, <1>2, <1>8 DEF StartFetch, BuildOk, Go, IInv, TreeInv, Building, TypeOK
  <2> QED BY <1>5, <1>6, <1>7, <2>1 DEF Sentinel
<1>9. CASE TouchSentinel(s)
  <2>1. /\ tree' = tree /\ tree[K] = "complete" /\ builtAt'[K] # NoFile
    BY <1>0, <1>2, <1>9 DEF TouchSentinel, Go, IInv, TreeInv, TypeOK, NoFile
  <2>2. storeStatus'[K] = "ready" /\ storeStatus[K] \in {"building", "ready"}
    BY <1>5, <2>1
  <2>3. storeStatus[K] = "building" => StoreStep
    BY <1>2, <1>3, <1>4, <2>2 DEF StoreStep, Store!Next, Store!FinishBuild, Store!Set
  <2> QED BY <1>7, <2>2, <2>3
<1>10. CASE Fail(s)
  <2>1. ~Sentinel(K) /\ tree'[K] = "absent"
    BY <1>0, <1>2, <1>10 DEF Fail, Go, IInv, TreeInv, TypeOK
  <2>2. protectedUsers[K] = {}
    BY <1>2, <2>1 DEF protectedUsers, IInv, UseInv, InUseIntact, Intact
  <2> QED BY <1>2, <1>3, <1>4, <1>5, <2>1, <2>2 DEF StoreStep, Store!Next, Store!Remove, Store!Set
<1> QED BY <1>8, <1>9, <1>10

(* Leaving the key lock joins a finished tree, unless the process holds a  *)
(* pin that is stale already.                                              *)
LEMMA LeaveImplements ==
    ASSUME IInv, NEW s \in Session, Leave(s)
    PROVE  StoreStep
<1> DEFINE K == key[s]
<1>0. TypeOK /\ OnlyMoves(s) /\ UNCHANGED <<now, key, pinnedAt, tree, builtAt, evPc, evQueue>>
  <2>1. TypeOK /\ UNCHANGED <<now, key, pinnedAt, tree, builtAt, evPc, evQueue>>
    BY DEF IInv, CountInv, Leave, treeVars, evictVars
  <2> QED BY <2>1, CheckoutMoves DEF Checkout
<1>1. pc[s] = "leave" /\ pc'[s] = "using" /\ pc[s] \in Locked
  BY <1>0 DEF Leave, Go, TypeOK, Locked
<1>2. K \in Key /\ ~Removing(K) /\ Intact(K)
  BY <1>0, <1>1, Exclusive DEF IInv, TreeInv, Removing, InHand
<1>3. storeStatus' = storeStatus /\ storeStatus[K] = "ready"
  BY <1>0, <1>2, SameStatus DEF storeStatus, Intact, Removing
<1>4. \A p, k : AllFresh(p, k)' <=> AllFresh(p, k)
  <2>1. \A p, k : Pinners(p, k)' = Pinners(p, k)
    BY <1>0, <1>1, PinnersStep DEF Counted, Locked
  <2> QED BY <1>0, <2>1 DEF AllFresh
<1>5. \A t \in Session : Protected(t)' <=> Protected(t) \/ (t = s /\ AllFresh(ProcOf[s], K))
  BY <1>0, <1>1, <1>4 DEF Protected, OnlyMoves
<1>6. CASE AllFresh(ProcOf[s], K)
  <2>1. protectedUsers' = [protectedUsers EXCEPT ![K] = @ \cup {s}]
    BY <1>0, <1>2, <1>5, <1>6 DEF protectedUsers
  <2> QED BY <1>2, <1>3, <2>1 DEF StoreStep, Store!Next, Store!Join
<1>7. CASE ~AllFresh(ProcOf[s], K)
  BY <1>0, <1>3, <1>5, <1>7, Departs
<1> QED BY <1>6, <1>7

(* The other steps of a session end uses at most. *)
LEMMA SessionImplements ==
    ASSUME IInv, ~OverlappingRuns, NEW s \in Session,
           (\E k \in Key : Begin(s, k)) \/ Checkout(s) \/ EndSession(s) \/ Release(s)
    PROVE  StoreStep
<1>0. TypeOK /\ OnlyMoves(s) /\ UNCHANGED <<now, evPc, evQueue>>
  BY CheckoutMoves, CheckoutFrame DEF IInv, CountInv
<1>1. CASE StartFetch(s) \/ BuildOk(s) \/ TouchSentinel(s) \/ Fail(s)
  BY <1>1, BuildImplements
<1>2. CASE Leave(s)
  BY <1>2, LeaveImplements
<1>3. CASE ~(StartFetch(s) \/ BuildOk(s) \/ TouchSentinel(s) \/ Fail(s) \/ Leave(s))
  <2>1. UNCHANGED <<tree, builtAt>>
    BY <1>3 DEF Begin, Checkout, LockKey, CountPin, WritePin, CacheHit, FetchOk, FailUncount,
           FailUnlink, Abandon, EndSession, Release, ReleaseUncount, ReleaseUnlink, treeVars
  <2>2. pc'[s] # "using"
    BY <1>0, <1>3 DEF Begin, Checkout, LockKey, CountPin, WritePin, CacheHit, FetchOk, FailUncount,
           FailUnlink, Abandon, EndSession, Release, ReleaseUncount, ReleaseUnlink, Uncount, Go, TypeOK
  <2>3. ASSUME NEW t \in Session, Protected(t)', NEW K, K = key'[t]
        PROVE  Protected(t) /\ K = key[t]
    <3>1. pc'[t] = "using" /\ pc[t] = "using" /\ AllFresh(ProcOf[t], K)'
      BY <1>0, <2>2, <2>3 DEF Protected, OnlyMoves
    <3>2. key[t] = K /\ K \in Key
      BY <1>0, <2>3, <3>1, PinTimes, ActiveKey DEF Counted
    <3>3. AllFresh(ProcOf[t], K)
      BY <3>1, <3>2, FreshBefore DEF IInv, UseInv, Relying, Counted
    <3> QED BY <3>1, <3>2, <3>3 DEF Protected
  <2>4. storeStatus' = storeStatus
    BY <1>0, <2>1, SameStatus DEF Removing
  <2> QED BY <2>3, <2>4, Departs
<1> QED BY <1>1, <1>2, <1>3

(* evict's rmtree is Remove, of a tree without protected users, when it    *)
(* begins.                                                                 *)
LEMMA EvictImplements ==
    ASSUME IInv, NEW e \in Evictor, StartEvict(e) \/ EvictStep(e)
    PROVE  StoreStep
<1> USE DEF EvictGo, sessionVars, treeVars
<1>0. TypeOK /\ UNCHANGED <<now, pc, key, pinnedAt>>
  BY DEF IInv, CountInv, StartEvict, EvictStep, KeepTree, WantTree, SkipLocked, TakeKey, CheckPins,
         BeginRemove, FinishRemove, UnlockKey, EndEvict
<1>1. protectedUsers' = protectedUsers /\ \A t \in Session : Protected(t)' => Protected(t)
  BY <1>0 DEF protectedUsers, Pinners, AllFresh, Protected
<1>2. CASE BeginRemove(e) \/ FinishRemove(e)
  <2> DEFINE K == Head(evQueue)
  <2>1. K \in Key /\ evQueue' = evQueue /\ evPc \in {"remove", "removing"}
    BY <1>0, <1>2 DEF BeginRemove, FinishRemove, IInv, CountInv, QueueInv, TypeOK
  <2>2. \A k \in Key : k # K => /\ tree'[k] = tree[k] /\ builtAt'[k] = builtAt[k]
                                /\ ~Removing(k) /\ ~Removing(k)'
    BY <1>0, <1>2, <2>1 DEF BeginRemove, FinishRemove, TypeOK, Removing
  <2>3. storeStatus'[K] = "absent"
    BY <1>0, <1>2, <2>1 DEF BeginRemove, FinishRemove, storeStatus, Removing, TypeOK
  <2>4. storeStatus' = [storeStatus EXCEPT ![K] = "absent"]
    BY <2>1, <2>2, <2>3 DEF storeStatus, Sentinel
  <2>5. protectedUsers[K] = {}
    BY <2>1 DEF protectedUsers, IInv, UseInv, EvictInv
  <2> QED BY <1>1, <2>1, <2>4, <2>5 DEF StoreStep, Store!Next, Store!Remove, Store!Set
<1>3. CASE StartEvict(e) \/ KeepTree(e) \/ WantTree(e) \/ SkipLocked(e) \/ TakeKey(e)
             \/ CheckPins(e) \/ UnlockKey(e) \/ EndEvict(e)
  <2>1. UNCHANGED <<tree, builtAt>> /\ evPc' # "removing"
    BY <1>3 DEF StartEvict, KeepTree, WantTree, SkipLocked, TakeKey, CheckPins, UnlockKey, EndEvict
  <2>2. evPc # "removing"
    BY <1>3, CacheAssumption DEF StartEvict, KeepTree, WantTree, SkipLocked, TakeKey, CheckPins,
              UnlockKey, EndEvict, IInv, LockInv, InHand
  <2>3. storeStatus' = storeStatus
    BY <2>1, <2>2, SameStatus DEF Removing
  <2> QED BY <1>0, <1>1, <2>3, Departs
<1> QED BY <1>2, <1>3 DEF EvictStep

(* The clock, kills and the end of a run end uses at most. *)
LEMMA OtherImplements ==
    ASSUME IInv, EvictorsSurvive,
           \/ \E p \in Proc : EndRun(p)
           \/ \E p \in Mortal : Kill(p)
           \/ Tick \/ UNCHANGED vars
    PROVE  StoreStep
<1> USE DEF sessionVars, treeVars, evictVars
<1>0. TypeOK
  BY DEF IInv, CountInv
<1>1. UNCHANGED <<tree, builtAt, evPc, evQueue>>
  <2>1. ASSUME NEW p \in Mortal, Kill(p) PROVE UNCHANGED <<tree, builtAt, evPc, evQueue>>
    <3>1. evictLock # p
      BY <1>0, CacheAssumption DEF EvictorsSurvive, TypeOK
    <3> QED BY <2>1, <3>1 DEF Kill
  <2> QED BY <2>1 DEF EndRun, Tick, vars
<1>2. storeStatus' = storeStatus
  BY <1>1, SameStatus DEF Removing
<1>3. ASSUME NEW t \in Session, Protected(t)' PROVE Protected(t) /\ key'[t] = key[t]
  <2>1. CASE Tick \/ UNCHANGED vars
    <3>1. UNCHANGED <<pc, key, pinnedAt>> /\ now' \in {now, now + 1}
      BY <2>1 DEF Tick, vars
    <3>2. Pinners(ProcOf[t], key[t])' = Pinners(ProcOf[t], key[t])
      BY <3>1 DEF Pinners
    <3>3. AllFresh(ProcOf[t], key[t])
      <4> SUFFICES ASSUME NEW u \in Pinners(ProcOf[t], key[t]) PROVE now - pinnedAt[u] < RunDeadline
          BY DEF AllFresh
      <4>1. u \in Session /\ now' - pinnedAt[u] < RunDeadline
        BY <1>3, <3>1, <3>2 DEF Protected, AllFresh, Pinners, Of
      <4> QED BY <1>0, <3>1, <4>1, CacheAssumption DEF TypeOK
    <3> QED BY <1>3, <3>1, <3>3 DEF Protected
  <2>2. ASSUME NEW p \in Proc, EndRun(p) PROVE Protected(t) /\ key'[t] = key[t]
    <3>1. \A s \in Session : pc'[s] = IF s \in Of(p) /\ pc[s] = "using" THEN "release" ELSE pc[s]
      BY <2>2 DEF EndRun
    <3>2. \A q, k : Pinners(q, k)' = Pinners(q, k)
      BY <2>2, <3>1 DEF EndRun, Pinners, Of, Counted
    <3>3. UNCHANGED <<now, key, pinnedAt>>
      BY <2>2 DEF EndRun
    <3> QED BY <1>3, <3>1, <3>2, <3>3 DEF Protected, AllFresh
  <2>3. ASSUME NEW p \in Mortal, Kill(p) PROVE Protected(t) /\ key'[t] = key[t]
    <3>1. \A s \in Session : /\ s \in Of(p) => pc'[s] = "dead"
                             /\ s \notin Of(p) => /\ pc'[s] = pc[s] /\ key'[s] = key[s]
                                                  /\ pinnedAt'[s] = pinnedAt[s]
      BY <2>3 DEF Kill
    <3>2. t \notin Of(p) /\ ProcOf[t] # p
      BY <1>3, <3>1 DEF Protected, Of
    <3>3. Pinners(ProcOf[t], key[t])' = Pinners(ProcOf[t], key[t])
      BY <3>1, <3>2 DEF Pinners, Of
    <3>4. now' = now
      BY <2>3 DEF Kill
    <3> QED BY <1>3, <3>1, <3>2, <3>3, <3>4 DEF Protected, AllFresh, Pinners, Of
  <2> QED BY <2>1, <2>2, <2>3
<1> QED BY <1>2, <1>3, Departs

LEMMA StoreStart == Init => Store!Init
<1> SUFFICES ASSUME Init PROVE Store!Init
    OBVIOUS
<1>1. storeStatus = [k \in Key |-> "absent"]
  BY DEF Init, storeStatus
<1>2. protectedUsers = [k \in Key |-> {}]
  BY DEF Init, protectedUsers, Protected
<1> QED BY <1>1, <1>2 DEF Store!Init

(* Whatever runs, evictions and kills do together, their callers see a      *)
(* store that hands out finished trees only and takes none away from a run  *)
(* within its deadline (checkout_and_build, release and evict).             *)
THEOREM CacheImplementsStore ==
    ASSUME EvictorsSurvive, ~OverlappingRuns
    PROVE  Spec => ImplementsTreeStore
<1>1. IInv /\ [Next]_vars => StoreStep
  BY SessionImplements, EvictImplements, OtherImplements, CacheAssumption DEF Next
<1>2. IInv /\ [Next]_vars => IInv'
  BY UseStep
<1> QED BY <1>1, <1>2, UseInit, StoreStart, PTL DEF Spec, ImplementsTreeStore, Store!Spec, StoreStep

-----------------------------------------------------------------------------
(***************************************************************************)
(* The pin file stands for every use, not for protected ones only, as long *)
(* as the clock has not passed a deadline: within it no pin is stale.      *)
(***************************************************************************)
(* Whoever is about to unlink the file was the last to use it ... *)
LastInv ==
    \A s \in Session : pc[s] \in {"dropfile", "unlink"} => Pinners(ProcOf[s], key[s]) = {}

(* ... everybody who is counted has one, but for who is about to write it ... *)
StandInv ==
    \A s \in Session :
        pc[s] \in Counted \ {"write"} => pinFile[key[s]][ProcOf[s]] # NoFile

(* ... and evict removes trees nobody is counted for. *)
AloneInv ==
    evPc \in {"remove", "removing"} =>
        \A s \in Session : key[s] = Head(evQueue) => pc[s] \notin Counted

(* What a step of the session makes of its place (checkout_and_build, release). *)
LEMMA CheckoutPlaces ==
    ASSUME TypeOK, ~OverlappingRuns, NEW s \in Session,
           (\E k \in Key : Begin(s, k)) \/ Checkout(s) \/ EndSession(s) \/ Release(s)
    PROVE  /\ pc'[s] \in Counted /\ ~(pc[s] \in Counted /\ key'[s] = key[s]) =>
                  CountPin(s) /\ key'[s] = key[s] /\ key[s] \in Key
           /\ pc'[s] \in {"dropfile", "unlink"} => FailUncount(s) \/ ReleaseUncount(s)
           /\ pc'[s] \in Counted \ {"write"} /\ pc[s] = "write" => WritePin(s)
           /\ \/ WritePin(s)
              \/ FailUnlink(s) \/ ReleaseUnlink(s)
              \/ pinFile' = pinFile
<1> USE DEF Go, sessionVars, pinVars, Uncount
<1>1. CASE (\E k \in Key : Begin(s, k)) \/ EndSession(s)
  BY <1>1 DEF Begin, EndSession, TypeOK, Counted, Locked, Building, Failing
<1>2. CASE LockKey(s) \/ WritePin(s) \/ CacheHit(s) \/ StartFetch(s) \/ FetchOk(s)
             \/ BuildOk(s) \/ TouchSentinel(s) \/ Leave(s)
  BY <1>2 DEF LockKey, WritePin, CacheHit, StartFetch, FetchOk, BuildOk, TouchSentinel, Leave,
              TypeOK, Counted, Locked, Building, Failing
<1>3. CASE CountPin(s)
  BY <1>3, ActiveKey DEF CountPin
<1>4. CASE Fail(s) \/ FailUnlink(s) \/ Abandon(s)
  BY <1>4 DEF Fail, FailUnlink, Abandon, TypeOK, Counted, Locked, Building, Failing
<1>5. CASE FailUncount(s)
  BY <1>5 DEF FailUncount, TypeOK, Counted, Locked, Building, Failing
<1>6. CASE Release(s)
  BY <1>6 DEF Release, ReleaseUncount, ReleaseUnlink, TypeOK, Counted, Locked, Building, Failing
<1> QED BY <1>1, <1>2, <1>3, <1>4, <1>5, <1>6 DEF Checkout

LEMMA CheckoutLast ==
    ASSUME CountInv, LockInv, TeardownInv, LastInv, RefInv', ~OverlappingRuns, NEW s \in Session,
           (\E k \in Key : Begin(s, k)) \/ Checkout(s) \/ EndSession(s) \/ Release(s)
    PROVE  LastInv'
<1>0. TypeOK /\ OnlyMoves(s)
  BY CheckoutMoves DEF CountInv
<1> SUFFICES ASSUME NEW t \in Session, pc'[t] \in {"dropfile", "unlink"}, NEW K, K = key'[t]
             PROVE  Pinners(ProcOf[t], K)' = {}
    BY DEF LastInv
<1>1. CASE t = s
  <2>1. FailUncount(s) \/ ReleaseUncount(s)
    BY <1>0, <1>1, CheckoutPlaces
  <2>2. /\ pc[s] \in Counted /\ key[s] = K
        /\ pinRefs' = [pinRefs EXCEPT ![ProcOf[s]][key[s]] = pinRefs[ProcOf[s]][key[s]] - 1]
        /\ ~(pinRefs[ProcOf[s]][key[s]] - 1 > 0)
    BY <1>0, <1>1, <2>1 DEF FailUncount, ReleaseUncount, Uncount, Go, TypeOK, Counted, Locked,
                            Building, Failing
  <2>3. K \in Key /\ ProcOf[s] \in Proc /\ pinRefs[ProcOf[s]][K] \in Nat \ {0}
    BY <2>2, PinnedPositive, CacheAssumption
  <2>4. pinRefs'[ProcOf[s]][K] = 0
    <3> DEFINE n == pinRefs[ProcOf[s]][K]
    <3>1. n \in Nat \ {0} /\ ~(n - 1 > 0)
      BY <2>2, <2>3
    <3>2. n - 1 = 0
      BY <3>1
    <3>3. pinRefs'[ProcOf[s]][K] = n - 1
      <4>1. pinRefs \in [Proc -> [Key -> Nat]]
        BY <1>0 DEF TypeOK
      <4>2. pinRefs'[ProcOf[s]] = [pinRefs[ProcOf[s]] EXCEPT ![K] = n - 1]
        BY <2>2, <2>3, <4>1
      <4>3. pinRefs[ProcOf[s]] \in [Key -> Nat]
        BY <2>3, <4>1
      <4> QED BY <2>3, <4>2, <4>3
    <3> QED BY <3>2, <3>3
  <2>5. Cardinality(Pinners(ProcOf[s], K)') = 0
    BY <2>3, <2>4 DEF RefInv
  <2>6. IsFiniteSet(Pinners(ProcOf[s], K)')
    BY CacheAssumption, FS_Subset DEF Pinners, Of
  <2> QED BY <1>1, <2>5, <2>6, FS_EmptySet
<1>2. CASE t # s
  <2>1. pc'[t] = pc[t] /\ key[t] = K /\ Pinners(ProcOf[t], K) = {}
    BY <1>0, <1>2 DEF OnlyMoves, LastInv
  <2>2. ASSUME NEW u \in Pinners(ProcOf[t], K)' PROVE FALSE
    <3>1. u = s /\ pc'[s] \in Counted /\ key'[s] = K /\ ProcOf[s] = ProcOf[t]
      BY <1>0, <2>1, <2>2 DEF OnlyMoves, Pinners, Of
    <3>2. ~(pc[s] \in Counted /\ key'[s] = key[s])
      BY <2>1, <3>1 DEF Pinners, Of
    <3>3. pc[s] = "pin" /\ key[s] = K
      BY <1>0, <3>1, <3>2, CheckoutPlaces DEF CountPin, Go
    <3>4. CASE pc[t] = "dropfile"
      BY <1>0, <1>2, <2>1, <3>3, <3>4, Exclusive DEF Locked, Failing
    <3>5. CASE pc[t] = "unlink"
      BY <3>1, <3>3, <3>5 DEF TeardownInv, Teardown
    <3> QED BY <2>1, <3>4, <3>5
  <2> QED BY <2>2
<1> QED BY <1>1, <1>2

LEMMA CheckoutStands ==
    ASSUME CountInv, LockInv, LastInv, StandInv, AloneInv, ~OverlappingRuns, NEW s \in Session,
           (\E k \in Key : Begin(s, k)) \/ Checkout(s) \/ EndSession(s) \/ Release(s)
    PROVE  StandInv' /\ AloneInv'
<1>0. TypeOK /\ OnlyMoves(s) /\ UNCHANGED <<now, evPc, evQueue>>
  BY CheckoutMoves, CheckoutFrame DEF CountInv
<1>1. ASSUME NEW t \in Session, pc'[t] \in Counted \ {"write"}, NEW K, K = key'[t], NEW P, P = ProcOf[t]
      PROVE  pinFile'[K][P] # NoFile
  <2>1. K \in Key /\ P \in Proc
    <3>1. t # s => pc'[t] = pc[t] /\ key'[t] = key[t]
      BY <1>0 DEF OnlyMoves
    <3>2. \A u \in Session : pc[u] \in Counted => key[u] \in Key
      BY PinnedPositive
    <3> QED BY <1>0, <1>1, <3>1, <3>2, CheckoutPlaces, CacheAssumption
  <2>2. CASE t = s /\ pc[s] = "write"
    <3>1. WritePin(s)
      BY <1>0, <1>1, <2>2, CheckoutPlaces
    <3> QED BY <1>0, <1>1, <2>1, <2>2, <3>1 DEF WritePin, TypeOK, NoFile
  <2>3. ASSUME ~(t = s /\ pc[s] = "write")
        PROVE  pinFile[K][P] # NoFile
    <3>1. CASE pc[t] \in Counted /\ key[t] = K
      <4>1. pc[t] # "write"
        BY <1>0, <1>1, <2>3 DEF OnlyMoves
      <4> QED BY <1>1, <3>1, <4>1 DEF StandInv
    <3>2. CASE ~(pc[t] \in Counted /\ key[t] = K)
      <4>1. t = s /\ CountPin(s) /\ key[s] = K
        BY <1>0, <1>1, <3>2, CheckoutPlaces DEF OnlyMoves
      <4>2. pc[s] = "pin" /\ pinRefs[P][K] + 1 > 1
        BY <1>0, <1>1, <4>1 DEF CountPin, Go, TypeOK
      <4>3. pinRefs[P][K] = Cardinality(Pinners(P, K)) /\ pinRefs[P][K] # 0
        BY <2>1, <4>2 DEF CountInv, RefInv
      <4>4. PICK u \in Pinners(P, K) : TRUE
        BY <4>3, FS_EmptySet
      <4>5. u \in Session /\ ProcOf[u] = P /\ key[u] = K /\ pc[u] \in Counted
        BY <4>4 DEF Pinners, Of
      <4>6. pc[u] # "write"
        <5>1. u # s /\ pc[s] \in Locked
          BY <4>2, <4>5 DEF Counted, Locked, Building, Failing
        <5> QED BY <1>0, <4>1, <4>5, <5>1, Exclusive DEF Locked
      <4> QED BY <4>5, <4>6 DEF StandInv
    <3> QED BY <3>1, <3>2
  <2>4. ASSUME ~(t = s /\ pc[s] = "write"), FailUnlink(s) \/ ReleaseUnlink(s)
        PROVE  ~(K = key[s] /\ P = ProcOf[s])
    <3>1. pc[s] \in {"dropfile", "unlink"} /\ pc'[s] \in {"abandon", "idle"}
      BY <1>0, <2>4 DEF FailUnlink, ReleaseUnlink, Go, TypeOK
    <3>2. t # s
      BY <1>1, <3>1 DEF Counted, Locked, Building, Failing
    <3>3. pc[t] \in Counted /\ key[t] = K
      BY <1>0, <1>1, <3>2 DEF OnlyMoves
    <3>4. Pinners(ProcOf[s], key[s]) = {}
      BY <3>1 DEF LastInv
    <3> QED BY <1>1, <3>3, <3>4 DEF Pinners, Of
  <2>5. ASSUME ~(t = s /\ pc[s] = "write")
        PROVE  pinFile'[K][P] # NoFile
    <3>1. CASE WritePin(s)
      BY <1>0, <2>1, <2>3, <2>5, <3>1 DEF WritePin, TypeOK, NoFile
    <3>2. CASE FailUnlink(s) \/ ReleaseUnlink(s)
      <4>1. pinFile' = [pinFile EXCEPT ![key[s]][ProcOf[s]] = NoFile]
        BY <3>2 DEF FailUnlink, ReleaseUnlink, RemovePinFile
      <4> QED BY <1>0, <2>1, <2>3, <2>4, <2>5, <3>2, <4>1 DEF TypeOK
    <3>3. CASE pinFile' = pinFile
      BY <2>3, <2>5, <3>3
    <3> QED BY <1>0, <3>1, <3>2, <3>3, CheckoutPlaces
  <2> QED BY <2>2, <2>5
<1>2. ASSUME evPc' \in {"remove", "removing"}, NEW t \in Session, key'[t] = Head(evQueue'), pc'[t] \in Counted
      PROVE  FALSE
  <2>1. InHand /\ evPc \in {"remove", "removing"} /\ key'[t] = Head(evQueue)
    BY <1>0, <1>2 DEF InHand
  <2>2. ~(pc[t] \in Counted /\ key[t] = key'[t])
    BY <2>1 DEF AloneInv
  <2>3. t = s /\ CountPin(s) /\ key'[s] = key[s]
    BY <1>0, <1>2, <2>2, CheckoutPlaces DEF OnlyMoves
  <2>4. pc[s] \in Locked
    BY <2>3 DEF CountPin, Go, Locked
  <2> QED BY <1>0, <2>1, <2>3, <2>4, Exclusive
<1> QED BY <1>1, <1>2 DEF StandInv, AloneInv

(* Within the deadline evict takes no pin of a counted session for stale    *)
(* (_has_live_pin).                                                        *)
LEMMA LiveWithin ==
    ASSUME CountInv, AliveInv, StandInv, now <= RunDeadline,
           NEW t \in Session, pc[t] \in Counted \ {"write"}
    PROVE  LivePin(key[t], ProcOf[t])
<1>1. key[t] \in Key /\ ProcOf[t] \in Proc /\ alive[ProcOf[t]]
  BY PinnedPositive, CacheAssumption DEF CountInv, TypeOK, AliveInv, Counted, Locked, Building,
     Failing
<1>2. pinFile[key[t]][ProcOf[t]] # NoFile
  BY DEF StandInv
<1>3. pinFile[key[t]][ProcOf[t]] \in 0..now /\ now \in 1..MaxNow
  BY <1>1 DEF CountInv, TypeOK
<1>4. now - pinFile[key[t]][ProcOf[t]] < RunDeadline
  BY <1>2, <1>3, CacheAssumption DEF NoFile
<1> QED BY <1>1, <1>2, <1>4 DEF LivePin

LEMMA EvictStands ==
    ASSUME CountInv, LockInv, AliveInv, LastInv, StandInv, AloneInv, now <= RunDeadline,
           NEW e \in Evictor, StartEvict(e) \/ EvictStep(e)
    PROVE  LastInv' /\ StandInv' /\ AloneInv'
<1> USE DEF EvictGo, sessionVars
<1>0. TypeOK /\ UNCHANGED <<now, pc, key, pinnedAt>>
  BY DEF CountInv, StartEvict, EvictStep, KeepTree, WantTree, SkipLocked, TakeKey, CheckPins,
         BeginRemove, FinishRemove, UnlockKey, EndEvict
<1>1. LastInv'
  BY <1>0 DEF LastInv, Pinners
<1>2. ASSUME \A t \in Session : pc[t] \in Counted \ {"write"}
                => pinFile'[key[t]][ProcOf[t]] = pinFile[key[t]][ProcOf[t]]
      PROVE  StandInv'
  BY <1>0, <1>2 DEF StandInv
<1>3. \A t \in Session : pc[t] \in Counted => key[t] \in Key /\ ProcOf[t] \in Proc
  BY PinnedPositive, CacheAssumption
<1>h. InHand => Head(evQueue) \in Key
  BY <1>0 DEF CountInv, QueueInv, InHand, TypeOK
<1>4. CASE CheckPins(e)
  <2>1. \A t \in Session : pc[t] \in Counted \ {"write"} => LivePin(key[t], ProcOf[t])
    BY LiveWithin
  <2>2. StandInv'
    BY <1>0, <1>2, <1>3, <1>4, <2>1 DEF CheckPins, TypeOK
  <2>3. ASSUME evPc' \in {"remove", "removing"}, NEW t \in Session, key[t] = Head(evQueue),
               pc[t] \in Counted
        PROVE  FALSE
    <3>1. CASE pc[t] = "write"
      BY <1>0, <1>4, <2>3, <3>1, Exclusive DEF CheckPins, InHand, Locked
    <3>2. CASE pc[t] # "write"
      <4>1. LivePin(key[t], ProcOf[t]) /\ ProcOf[t] \in Proc
        BY <1>3, <2>1, <2>3, <3>2
      <4> QED BY <1>4, <2>3, <4>1 DEF CheckPins
    <3> QED BY <3>1, <3>2
  <2>4. AloneInv'
    BY <1>0, <1>4, <2>3 DEF CheckPins, AloneInv
  <2> QED BY <1>1, <2>2, <2>4
<1>5. CASE BeginRemove(e) \/ FinishRemove(e)
  <2>0. InHand /\ evPc \in {"remove", "removing"} /\ UNCHANGED evQueue
    BY <1>5 DEF BeginRemove, FinishRemove, InHand
  <2>1. \A t \in Session : pc[t] \in Counted => key[t] # Head(evQueue)
    BY <2>0 DEF AloneInv
  <2>2. AloneInv'
    BY <1>0, <2>0, <2>1 DEF AloneInv
  <2>3. StandInv'
    <3>1. CASE BeginRemove(e)
      BY <1>2, <3>1 DEF BeginRemove, pinVars
    <3>2. CASE FinishRemove(e)
      BY <1>0, <1>2, <1>3, <1>h, <2>0, <2>1, <3>2 DEF FinishRemove, TypeOK
    <3> QED BY <1>5, <3>1, <3>2
  <2> QED BY <1>1, <2>2, <2>3
<1>6. CASE StartEvict(e) \/ KeepTree(e) \/ WantTree(e) \/ SkipLocked(e) \/ TakeKey(e)
             \/ UnlockKey(e) \/ EndEvict(e)
  <2>1. UNCHANGED pinFile /\ evPc' \notin {"remove", "removing"}
    BY <1>6 DEF StartEvict, KeepTree, WantTree, SkipLocked, TakeKey, UnlockKey, EndEvict, pinVars
  <2> QED BY <1>1, <1>2, <2>1 DEF AloneInv
<1> QED BY <1>4, <1>5, <1>6 DEF EvictStep

(* Ending a run keeps its counts until each is released; a kill takes the  *)
(* whole process; the clock changes no count.                              *)
LEMMA OtherStands ==
    ASSUME CountInv, LastInv, StandInv, AloneInv,
           \/ \E p \in Proc : EndRun(p)
           \/ \E p \in Mortal : Kill(p)
           \/ Tick \/ UNCHANGED vars
    PROVE  LastInv' /\ StandInv' /\ AloneInv'
<1> USE DEF sessionVars, pinVars, treeVars, evictVars
<1>1. ASSUME pinFile' = pinFile,
             \A t \in Session : pc'[t] \in Counted \cup {"dropfile", "unlink"} =>
                /\ key'[t] = key[t]
                /\ pc'[t] \in Counted <=> pc[t] \in Counted
                /\ pc'[t] \in {"write", "dropfile", "unlink"} \/ pc[t] = "write" => pc'[t] = pc[t]
                /\ Pinners(ProcOf[t], key[t])' = Pinners(ProcOf[t], key[t]),
             evPc' \in {"remove", "removing"} => UNCHANGED <<evPc, evQueue>>
      PROVE  LastInv' /\ StandInv' /\ AloneInv'
  <2>1. LastInv'
    <3> SUFFICES ASSUME NEW t \in Session, pc'[t] \in {"dropfile", "unlink"}, NEW K, K = key'[t]
                 PROVE  Pinners(ProcOf[t], K)' = {}
        BY DEF LastInv
    <3>1. pc[t] = pc'[t] /\ K = key[t] /\ Pinners(ProcOf[t], K)' = Pinners(ProcOf[t], K)
      BY <1>1
    <3> QED BY <3>1 DEF LastInv
  <2>2. StandInv'
    BY <1>1 DEF StandInv
  <2>3. AloneInv'
    BY <1>1 DEF AloneInv
  <2> QED BY <2>1, <2>2, <2>3
<1>2. CASE Tick \/ UNCHANGED vars
  <2>1. UNCHANGED <<pc, key, pinFile, evPc, evQueue>>
    BY <1>2 DEF Tick, vars
  <2>2. \A p, k : Pinners(p, k)' = Pinners(p, k)
    BY <2>1 DEF Pinners
  <2> QED BY <2>1, <2>2 DEF LastInv, StandInv, AloneInv
<1>3. ASSUME NEW p \in Proc, EndRun(p) PROVE LastInv' /\ StandInv' /\ AloneInv'
  <2>1. \A t \in Session : pc'[t] = IF t \in Of(p) /\ pc[t] = "using" THEN "release" ELSE pc[t]
    BY <1>3 DEF EndRun
  <2>2. UNCHANGED <<key, pinFile, evPc, evQueue>>
    BY <1>3 DEF EndRun
  <2>3. \A t \in Session : /\ pc'[t] \in Counted <=> pc[t] \in Counted
                           /\ pc'[t] # pc[t] => pc[t] = "using" /\ pc'[t] = "release"
    BY <2>1 DEF Counted
  <2>4. \A q, k : Pinners(q, k)' = Pinners(q, k)
    BY <2>2, <2>3 DEF Pinners, Of
  <2> QED BY <2>2, <2>3, <2>4 DEF LastInv, StandInv, AloneInv
<1>4. ASSUME NEW p \in Mortal, Kill(p) PROVE LastInv' /\ StandInv' /\ AloneInv'
  <2>1. \A t \in Session : /\ t \in Of(p) => pc'[t] = "dead"
                           /\ t \notin Of(p) => pc'[t] = pc[t] /\ key'[t] = key[t]
    BY <1>4 DEF Kill
  <2>2. \A q, k : q # p => Pinners(q, k)' = Pinners(q, k)
    BY <2>1 DEF Pinners, Of
  <2>3. ASSUME NEW t \in Session, pc'[t] \in Counted \cup {"dropfile", "unlink"}
        PROVE  /\ pc'[t] = pc[t] /\ key'[t] = key[t]
               /\ Pinners(ProcOf[t], key[t])' = Pinners(ProcOf[t], key[t])
    <3>1. t \notin Of(p) /\ ProcOf[t] # p
      BY <2>1, <2>3 DEF Of, Counted, Locked, Building, Failing
    <3> QED BY <2>1, <2>2, <3>1
  <2>4. pinFile' = pinFile /\ (evPc' \in {"remove", "removing"} => UNCHANGED <<evPc, evQueue>>)
    BY <1>4 DEF Kill
  <2> QED BY <1>1, <2>3, <2>4
<1> QED BY <1>2, <1>3, <1>4

(* The pin file stands for "at least one live use in this process"         *)
(* (cache.py:48, _pin and _unpin) until a pin may outlive its deadline.      *)
THEOREM FileStands ==
    ASSUME ~OverlappingRuns
    PROVE  Spec => []FileRepresentsUse
<1> DEFINE Base   == CountInv /\ LockInv /\ AliveInv /\ TeardownInv
           Stands == LastInv /\ StandInv /\ AloneInv
           Inv    == Base /\ (now <= RunDeadline => Stands)
<1>1. Init => Inv
  <2> SUFFICES ASSUME Init PROVE Inv
      OBVIOUS
  <2>1. /\ CountInv /\ evPc = "idle"
        /\ \A s \in Session : pc[s] = "idle" /\ alive[ProcOf[s]]
    BY CountInit, CacheAssumption DEF Init
  <2> QED BY <2>1 DEF LockInv, InHand, AliveInv, TeardownInv, Teardown, LastInv, StandInv, AloneInv,
                      Counted, Locked, Building, Failing
<1>2. Inv /\ [Next]_vars => Inv'
  <2> SUFFICES ASSUME Inv, [Next]_vars PROVE Inv'
      OBVIOUS
  <2>1. CountInv' /\ AliveInv' /\ TeardownInv'
    BY CountStep, AliveStep, TeardownStep
  <2>2. ASSUME NEW s \in Session,
               (\E k \in Key : Begin(s, k)) \/ Checkout(s) \/ EndSession(s) \/ Release(s)
        PROVE  Inv'
    <3>1. LockInv' /\ now' = now
      BY <2>2, CheckoutLock, CheckoutFrame DEF CountInv
    <3>2. now <= RunDeadline => Stands'
      BY <2>1, <2>2, CheckoutStands, CheckoutLast DEF CountInv
    <3> QED BY <2>1, <3>1, <3>2
  <2>3. ASSUME NEW e \in Evictor, StartEvict(e) \/ EvictStep(e) PROVE Inv'
    <3>0. LockInv'
      BY <2>3, EvictLockStep
    <3>1. now' = now
      BY <2>3 DEF StartEvict, EvictStep, KeepTree, WantTree, SkipLocked, TakeKey, CheckPins,
                  BeginRemove, FinishRemove, UnlockKey, EndEvict, EvictGo, sessionVars, pinVars
    <3>2. now <= RunDeadline => Stands'
      BY <2>3, EvictStands
    <3> QED BY <2>1, <3>0, <3>1, <3>2
  <2>4. CASE (\E p \in Proc : EndRun(p)) \/ (\E p \in Mortal : Kill(p)) \/ Tick \/ UNCHANGED vars
    <3>1. LockInv'
      BY <2>4, OtherLock, CacheAssumption
    <3>2. now <= RunDeadline => Stands'
      BY <2>4, OtherStands, CacheAssumption
    <3>3. now' = now \/ now' = now + 1
      BY <2>4 DEF EndRun, Kill, Tick, vars
    <3>4. now' <= RunDeadline => now <= RunDeadline
      BY <3>3, CacheAssumption DEF CountInv, TypeOK
    <3> QED BY <2>1, <3>1, <3>2, <3>4
  <2> QED BY <2>2, <2>3, <2>4 DEF Next
<1>3. Inv => FileRepresentsUse
  <2> SUFFICES ASSUME Inv, now <= RunDeadline, NEW k \in Key, NEW p \in Proc, pinRefs[p][k] > 0,
                      \A s \in Of(p) : key[s] = k => pc[s] # "write"
               PROVE  pinFile[k][p] # NoFile
      BY DEF FileRepresentsUse
  <2>1. Cardinality(Pinners(p, k)) # 0
    BY DEF CountInv, RefInv
  <2>2. PICK s \in Pinners(p, k) : TRUE
    BY <2>1, FS_EmptySet
  <2>3. s \in Session /\ ProcOf[s] = p /\ key[s] = k /\ pc[s] \in Counted \ {"write"}
    BY <2>2 DEF Pinners, Of
  <2> QED BY <2>3 DEF StandInv
<1> QED BY <1>1, <1>2, <1>3, PTL DEF Spec

=============================================================================
