----------------------------- MODULE BuildCache -----------------------------
(***************************************************************************)
(* The launcher's checkout-and-build cache, test_suite/launcher/cache.py.  *)
(*                                                                         *)
(* Runner processes check out trees and pin them; the eviction command     *)
(* reclaims unpinned trees.  They share the cache directory only: a lock   *)
(* file per key, one global eviction lock, one pin file per (key, pid) and *)
(* the trees with their `.itk-built' sentinels.  Each action is the code   *)
(* between two points where another thread or process can interfere.       *)
(*                                                                         *)
(* A session is one `checkout_and_build' with the `release' that pairs     *)
(* with it: one target of a Cluster, or one LaunchSession.  Its process    *)
(* keeps the in-memory refcount `_pin_refs' shared by its sessions.        *)
(***************************************************************************)
EXTENDS Integers, Sequences, FiniteSets

CONSTANTS
    Key,              \* cache keys: slug@sha@image_digest@proto_digest
    Session,          \* checkouts, each running in one process
    Proc,             \* operating-system processes
    ProcOf,           \* the process a session runs in
    Evictor,          \* the processes that run `cache evict'
    Mortal,           \* the processes that kill -9 may hit
    OverlappingRuns,  \* FALSE: one run at a time per process (_execution_lock)
    RunDeadline,      \* ITK_RUN_DEADLINE, in clock ticks
    TreeTtl,          \* ITK_TREE_TTL, in clock ticks
    Budget,           \* ITK_DISK_BUDGET_BYTES, in size units
    MaxNow,           \* bound on the clock
    Free, NoKey       \* model values: an unheld lock, no key

ASSUME CacheAssumption ==
    /\ IsFiniteSet(Key) /\ IsFiniteSet(Session)
    /\ ProcOf \in [Session -> Proc]
    /\ Evictor \subseteq Proc
    /\ \A s \in Session : ProcOf[s] \notin Evictor
    /\ Session \cap Proc = {}
    /\ Mortal \subseteq Proc
    /\ OverlappingRuns \in BOOLEAN
    /\ RunDeadline \in Nat \ {0}
    /\ TreeTtl \in Nat /\ Budget \in Nat
    /\ MaxNow \in Nat \ {0}
    /\ Free \notin Session \cup Proc
    /\ NoKey \notin Key

VARIABLES
    now,        \* time.time()
    alive,      \* which processes exist
    pc,         \* where a session is in checkout_and_build / release
    key,        \* the key it is about
    pinnedAt,   \* when it called _pin (history: the code keeps no such time)
    keyLock,    \* holder of locks/<key>.lock
    pinRefs,    \* _pin_refs of each process
    pinFile,    \* pins/<key>/<pid>: its timestamp, or NoFile
    tree,       \* trees/<key>: absent, partial or complete
    builtAt,    \* mtime of trees/<key>/.itk-built, or NoFile
    evictLock,  \* holder of locks/_evict.lock
    evPc,       \* where that holder is in evict
    evQueue,    \* the keys it has still to consider, oldest first
    evTotal,    \* its running `total'
    evNow       \* its `now'

sessionVars == <<pc, key, pinnedAt>>
pinVars     == <<pinRefs, pinFile>>
treeVars    == <<tree, builtAt>>
evictVars   == <<evictLock, evPc, evQueue, evTotal, evNow>>
vars == <<now, alive, sessionVars, keyLock, pinVars, treeVars, evictVars>>

NoFile == 0   \* the clock starts at 1, so 0 is no timestamp

(* pcs of a session inside `with _flock(_lock_path(key))'. *)
Building == {"fetch", "build"}
Failing  == {"drop", "dropfile", "abandon"}
Locked   == {"pin", "write", "lookup", "touch", "leave"} \cup Building \cup Failing
Teardown == {"release", "unlink"}
PC       == {"idle", "lock", "using", "dead"} \cup Locked \cup Teardown

(* pcs at which _pin_refs counts the session. *)
Counted == (Locked \ {"pin", "dropfile", "abandon"}) \cup {"using", "release"}

EvictPC == {"idle", "next", "lock", "pins", "remove", "removing", "unlock"}

Of(p)       == {s \in Session : ProcOf[s] = p}
Pinners(p, k) == {s \in Of(p) : key[s] = k /\ pc[s] \in Counted}
Sentinel(k) == builtAt[k] # NoFile
Trees       == {k \in Key : tree[k] # "absent"}

(* _tree_size: a finished tree is larger than a partial one. *)
Size(k) == [absent |-> 0, partial |-> 1, complete |-> 2][tree[k]]
TotalSize == Cardinality(Trees) + Cardinality({k \in Key : tree[k] = "complete"})

Init ==
    /\ now = 1
    /\ alive = [p \in Proc |-> TRUE]
    /\ pc = [s \in Session |-> "idle"]
    /\ key = [s \in Session |-> NoKey]
    /\ pinnedAt = [s \in Session |-> 0]
    /\ keyLock = [k \in Key |-> Free]
    /\ pinRefs = [p \in Proc |-> [k \in Key |-> 0]]
    /\ pinFile = [k \in Key |-> [p \in Proc |-> NoFile]]
    /\ tree = [k \in Key |-> "absent"]
    /\ builtAt = [k \in Key |-> NoFile]
    /\ evictLock = Free
    /\ evPc = "idle"
    /\ evQueue = <<>>
    /\ evTotal = 0
    /\ evNow = 0

-----------------------------------------------------------------------------
(***************************************************************************)
(* checkout_and_build                                                      *)
(***************************************************************************)
Go(s, from, to) == pc[s] = from /\ pc' = [pc EXCEPT ![s] = to]

(* A run's checkouts and releases do not mix: Cluster releases in __exit__, *)
(* after start_all has joined its workers, and runs are serialised.         *)
Begin(s, k) ==
    /\ OverlappingRuns \/ \A t \in Of(ProcOf[s]) : pc[t] \notin Teardown
    /\ Go(s, "idle", "lock")
    /\ key' = [key EXCEPT ![s] = k]
    /\ UNCHANGED <<now, alive, pinnedAt, keyLock, pinVars, treeVars, evictVars>>

LockKey(s) ==
    /\ Go(s, "lock", "pin")
    /\ keyLock[key[s]] = Free
    /\ keyLock' = [keyLock EXCEPT ![key[s]] = s]
    /\ UNCHANGED <<now, alive, key, pinnedAt, pinVars, treeVars, evictVars>>

(* The half of _pin under _pin_refs_lock: only the first pin writes a file. *)
CountPin(s) ==
    LET p == ProcOf[s]
        n == pinRefs[p][key[s]] + 1
    IN  /\ Go(s, "pin", IF n > 1 THEN "lookup" ELSE "write")
        /\ pinRefs' = [pinRefs EXCEPT ![p][key[s]] = n]
        /\ pinnedAt' = [pinnedAt EXCEPT ![s] = now]
        /\ UNCHANGED <<now, alive, key, keyLock, pinFile, treeVars, evictVars>>

WritePin(s) ==
    /\ Go(s, "write", "lookup")
    /\ pinFile' = [pinFile EXCEPT ![key[s]][ProcOf[s]] = now]
    /\ UNCHANGED <<now, alive, key, pinnedAt, keyLock, pinRefs, treeVars, evictVars>>

CacheHit(s) ==
    /\ Go(s, "lookup", "leave")
    /\ Sentinel(key[s])
    /\ UNCHANGED <<now, alive, key, pinnedAt, keyLock, pinVars, treeVars, evictVars>>

(* rmtree of whatever is there, then fetch_commit creates the directory. *)
StartFetch(s) ==
    /\ Go(s, "lookup", "fetch")
    /\ ~Sentinel(key[s])
    /\ tree' = [tree EXCEPT ![key[s]] = "partial"]
    /\ UNCHANGED <<now, alive, key, pinnedAt, keyLock, pinVars, builtAt, evictVars>>

(* Mutant: the sentinel is touched before the build. *)
FetchOkTouching(s) ==
    /\ Go(s, "fetch", "build")
    /\ builtAt' = [builtAt EXCEPT ![key[s]] = now]
    /\ UNCHANGED <<now, alive, key, pinnedAt, keyLock, pinVars, tree, evictVars>>

FetchOk(s) ==
    /\ Go(s, "fetch", "build")
    /\ UNCHANGED <<now, alive, key, pinnedAt, keyLock, pinVars, treeVars, evictVars>>

BuildOk(s) ==
    /\ Go(s, "build", "touch")
    /\ tree' = [tree EXCEPT ![key[s]] = "complete"]
    /\ UNCHANGED <<now, alive, key, pinnedAt, keyLock, pinVars, builtAt, evictVars>>

TouchSentinel(s) ==
    /\ Go(s, "touch", "leave")
    /\ builtAt' = [builtAt EXCEPT ![key[s]] = now]
    /\ UNCHANGED <<now, alive, key, pinnedAt, keyLock, pinVars, tree, evictVars>>

(* Mutant: a failure path without its _unpin. *)
FailKeepingPin(s) ==
    /\ \E from \in Building : Go(s, from, "abandon")
    /\ tree' = [tree EXCEPT ![key[s]] = "absent"]
    /\ UNCHANGED <<now, alive, key, pinnedAt, keyLock, pinVars, builtAt, evictVars>>

(* The fetch failed, the subdir is missing, or the build failed: rmtree. *)
Fail(s) ==
    /\ \E from \in Building : Go(s, from, "drop")
    /\ tree' = [tree EXCEPT ![key[s]] = "absent"]
    /\ UNCHANGED <<now, alive, key, pinnedAt, keyLock, pinVars, builtAt, evictVars>>

(* Leaving the with block: the caller has the tree, pinned. *)
Leave(s) ==
    /\ Go(s, "leave", "using")
    /\ keyLock' = [keyLock EXCEPT ![key[s]] = Free]
    /\ UNCHANGED <<now, alive, key, pinnedAt, pinVars, treeVars, evictVars>>

-----------------------------------------------------------------------------
(***************************************************************************)
(* _unpin, in the failure paths (under the key lock) and in release (not)  *)
(***************************************************************************)
(* Mutant: `> 1' instead of `> 0', so the file goes with the last but one.    *)
UncountEarly(s, from, shared, last) ==
    LET p == ProcOf[s]
        n == pinRefs[p][key[s]] - 1
    IN  /\ Go(s, from, IF n > 1 THEN shared ELSE last)
        /\ pinRefs' = [pinRefs EXCEPT ![p][key[s]] = n]

(* The half of _unpin under _pin_refs_lock; the file goes with the last.   *)
(* The code's early return at count 0 needs an unpin with no pin: a        *)
(* session pairs them.                                                     *)
Uncount(s, from, shared, last) ==
    LET p == ProcOf[s]
        n == pinRefs[p][key[s]] - 1
    IN  /\ Go(s, from, IF n > 0 THEN shared ELSE last)
        /\ pinRefs' = [pinRefs EXCEPT ![p][key[s]] = n]

RemovePinFile(s) ==
    pinFile' = [pinFile EXCEPT ![key[s]][ProcOf[s]] = NoFile]

Forget(s) ==
    /\ key' = [key EXCEPT ![s] = NoKey]
    /\ pinnedAt' = [pinnedAt EXCEPT ![s] = 0]

FailUncount(s) ==
    /\ Uncount(s, "drop", "abandon", "dropfile")
    /\ UNCHANGED <<now, alive, key, pinnedAt, keyLock, pinFile, treeVars, evictVars>>

FailUnlink(s) ==
    /\ Go(s, "dropfile", "abandon")
    /\ RemovePinFile(s)
    /\ UNCHANGED <<now, alive, key, pinnedAt, keyLock, pinRefs, treeVars, evictVars>>

(* Mutant: the lock is not released when an exception leaves the block. *)
AbandonLocked(s) ==
    /\ Go(s, "abandon", "idle")
    /\ Forget(s)
    /\ UNCHANGED <<now, alive, keyLock, pinVars, treeVars, evictVars>>

(* The exception leaves the with block. *)
Abandon(s) ==
    /\ Go(s, "abandon", "idle")
    /\ keyLock' = [keyLock EXCEPT ![key[s]] = Free]
    /\ Forget(s)
    /\ UNCHANGED <<now, alive, pinVars, treeVars, evictVars>>

(* Cluster.__exit__ once every start_all worker has returned: the agents   *)
(* are killed, so no session uses its tree, and the pins are released one  *)
(* after another.                                                          *)
EndRun(p) ==
    /\ ~OverlappingRuns
    /\ \A s \in Of(p) : pc[s] \in {"idle", "using"}
    /\ \E s \in Of(p) : pc[s] = "using"
    /\ pc' = [s \in Session |->
                IF s \in Of(p) /\ pc[s] = "using" THEN "release" ELSE pc[s]]
    /\ UNCHANGED <<now, alive, key, pinnedAt, keyLock, pinVars, treeVars, evictVars>>

(* LaunchSession.__exit__ of one of several sessions of a process. *)
EndSession(s) ==
    /\ OverlappingRuns
    /\ Go(s, "using", "release")
    /\ UNCHANGED <<now, alive, key, pinnedAt, keyLock, pinVars, treeVars, evictVars>>

ReleaseUncount(s) ==
    /\ OverlappingRuns \/ \A t \in Of(ProcOf[s]) : pc[t] # "unlink"
    /\ Uncount(s, "release", "idle", "unlink")
    /\ \/ pc'[s] = "unlink" /\ UNCHANGED <<key, pinnedAt>>
       \/ pc'[s] = "idle" /\ Forget(s)
    /\ UNCHANGED <<now, alive, keyLock, pinFile, treeVars, evictVars>>

ReleaseUnlink(s) ==
    /\ Go(s, "unlink", "idle")
    /\ RemovePinFile(s)
    /\ Forget(s)
    /\ UNCHANGED <<now, alive, keyLock, pinRefs, treeVars, evictVars>>

-----------------------------------------------------------------------------
(***************************************************************************)
(* evict                                                                   *)
(***************************************************************************)
(* _lru_keys: sorted by sentinel mtime, trees without a sentinel first; the *)
(* order of equal mtimes (by name in the code) is left open.                *)
LruOrders ==
    {q \in [1..Cardinality(Trees) -> Trees] :
        \A i, j \in 1..Cardinality(Trees) :
            i < j => q[i] # q[j] /\ builtAt[q[i]] <= builtAt[q[j]]}

(* A second evict that finds the lock held returns []: a stuttering step. *)
StartEvict(e) ==
    /\ alive[e]
    /\ evictLock = Free
    /\ evictLock' = e
    /\ evPc' = "next"
    /\ evQueue' \in LruOrders
    /\ evTotal' = TotalSize
    /\ evNow' = now
    /\ UNCHANGED <<now, alive, sessionVars, keyLock, pinVars, treeVars>>

Expired(k)   == Sentinel(k) => evNow - builtAt[k] > TreeTtl
NeedEvict(k) == evTotal > Budget \/ Expired(k)

EvictGo(e, from, to) ==
    /\ evictLock = e
    /\ evPc = from
    /\ evPc' = to
    /\ UNCHANGED <<now, alive, sessionVars, evictLock, evNow>>

KeepTree(e) ==
    /\ evQueue # <<>>
    /\ ~NeedEvict(Head(evQueue))
    /\ EvictGo(e, "next", "next")
    /\ evQueue' = Tail(evQueue)
    /\ UNCHANGED <<keyLock, pinVars, treeVars, evTotal>>

WantTree(e) ==
    /\ evQueue # <<>>
    /\ NeedEvict(Head(evQueue))
    /\ EvictGo(e, "next", "lock")
    /\ UNCHANGED <<keyLock, pinVars, treeVars, evQueue, evTotal>>

SkipLocked(e) ==
    /\ evPc = "lock"
    /\ keyLock[Head(evQueue)] # Free
    /\ EvictGo(e, "lock", "next")
    /\ evQueue' = Tail(evQueue)
    /\ UNCHANGED <<keyLock, pinVars, treeVars, evTotal>>

(* Mutant: the result of the non-blocking flock is ignored. *)
TakeKeyAnyway(e) ==
    /\ EvictGo(e, "lock", "pins")
    /\ keyLock' = [keyLock EXCEPT ![Head(evQueue)] = e]
    /\ UNCHANGED <<pinVars, treeVars, evQueue, evTotal>>

TakeKey(e) ==
    /\ evPc = "lock"
    /\ keyLock[Head(evQueue)] = Free
    /\ EvictGo(e, "lock", "pins")
    /\ keyLock' = [keyLock EXCEPT ![Head(evQueue)] = e]
    /\ UNCHANGED <<pinVars, treeVars, evQueue, evTotal>>

(* Mutants: a pin expires one tick early; a dead process's pin counts. *)
LivePinEarly(k, p) ==
    pinFile[k][p] # NoFile /\ alive[p] /\ now - pinFile[k][p] < RunDeadline - 1
LivePinOfDead(k, p) ==
    pinFile[k][p] # NoFile /\ now - pinFile[k][p] < RunDeadline

(* _has_live_pin's test of one pin file. *)
LivePin(k, p) ==
    /\ pinFile[k][p] # NoFile
    /\ alive[p]
    /\ now - pinFile[k][p] < RunDeadline

(* _has_live_pin reclaims dead and stale pins as it looks for a live one. *)
CheckPins(e) ==
    LET k == Head(evQueue)
        live == {p \in Proc : LivePin(k, p)}
    IN  /\ EvictGo(e, "pins", IF live = {} THEN "remove" ELSE "unlock")
        /\ pinFile' = [pinFile EXCEPT ![k] =
                        [p \in Proc |-> IF p \in live THEN pinFile[k][p] ELSE NoFile]]
        /\ UNCHANGED <<keyLock, pinRefs, treeVars, evQueue, evTotal>>

(* rmtree unlinks entry by entry, the sentinel among them in any order. *)
BeginRemove(e) ==
    LET k == Head(evQueue)
    IN  /\ EvictGo(e, "remove", "removing")
        /\ tree' = [tree EXCEPT ![k] = IF @ = "absent" THEN @ ELSE "partial"]
        /\ \E sentinel \in {builtAt[k], NoFile} :
                builtAt' = [builtAt EXCEPT ![k] = sentinel]
        /\ evTotal' = evTotal - Size(k)
        /\ UNCHANGED <<keyLock, pinVars, evQueue>>

(* The end of rmtree, and _clear_pins. *)
FinishRemove(e) ==
    LET k == Head(evQueue)
    IN  /\ EvictGo(e, "removing", "unlock")
        /\ tree' = [tree EXCEPT ![k] = "absent"]
        /\ builtAt' = [builtAt EXCEPT ![k] = NoFile]
        /\ pinFile' = [pinFile EXCEPT ![k] = [p \in Proc |-> NoFile]]
        /\ UNCHANGED <<keyLock, pinRefs, evQueue, evTotal>>

UnlockKey(e) ==
    /\ EvictGo(e, "unlock", "next")
    /\ keyLock' = [keyLock EXCEPT ![Head(evQueue)] = Free]
    /\ evQueue' = Tail(evQueue)
    /\ UNCHANGED <<pinVars, treeVars, evTotal>>

EndEvict(e) ==
    /\ evictLock = e
    /\ evPc = "next"
    /\ evQueue = <<>>
    /\ evictLock' = Free
    /\ evPc' = "idle"
    /\ evTotal' = 0
    /\ evNow' = 0
    /\ UNCHANGED <<now, alive, sessionVars, keyLock, pinVars, treeVars, evQueue>>

-----------------------------------------------------------------------------
(***************************************************************************)
(* Environment                                                             *)
(***************************************************************************)
Tick ==
    /\ now < MaxNow
    /\ now' = now + 1
    /\ UNCHANGED <<alive, sessionVars, keyLock, pinVars, treeVars, evictVars>>

(* kill -9: the kernel drops the process's flocks; files stay as they are. *)
Kill(p) ==
    /\ alive[p]
    /\ alive' = [alive EXCEPT ![p] = FALSE]
    /\ pc' = [s \in Session |-> IF s \in Of(p) THEN "dead" ELSE pc[s]]
    /\ key' = [s \in Session |-> IF s \in Of(p) THEN NoKey ELSE key[s]]
    /\ pinnedAt' = [s \in Session |-> IF s \in Of(p) THEN 0 ELSE pinnedAt[s]]
    /\ keyLock' = [k \in Key |->
                     IF keyLock[k] \in Of(p) \cup {p} THEN Free ELSE keyLock[k]]
    /\ pinRefs' = [pinRefs EXCEPT ![p] = [k \in Key |-> 0]]
    /\ IF evictLock = p
         THEN /\ evictLock' = Free /\ evPc' = "idle"
              /\ evQueue' = <<>> /\ evTotal' = 0 /\ evNow' = 0
         ELSE UNCHANGED evictVars
    /\ UNCHANGED <<now, pinFile, treeVars>>

-----------------------------------------------------------------------------
Checkout(s) ==
    \/ LockKey(s) \/ CountPin(s) \/ WritePin(s) \/ CacheHit(s) \/ StartFetch(s)
    \/ FetchOk(s) \/ BuildOk(s) \/ TouchSentinel(s) \/ Fail(s) \/ Leave(s)
    \/ FailUncount(s) \/ FailUnlink(s) \/ Abandon(s)

Release(s) == ReleaseUncount(s) \/ ReleaseUnlink(s)

EvictStep(e) ==
    \/ KeepTree(e) \/ WantTree(e) \/ SkipLocked(e) \/ TakeKey(e) \/ CheckPins(e)
    \/ BeginRemove(e) \/ FinishRemove(e) \/ UnlockKey(e) \/ EndEvict(e)

Next ==
    \/ \E s \in Session : \/ \E k \in Key : Begin(s, k)
                          \/ Checkout(s) \/ EndSession(s) \/ Release(s)
    \/ \E p \in Proc : EndRun(p)
    \/ \E e \in Evictor : StartEvict(e) \/ EvictStep(e)
    \/ \E p \in Mortal : Kill(p)
    \/ Tick

Spec == Init /\ [][Next]_vars

(* fetch_commit and every builder run under timeouts, so a checkout always *)
(* moves; the kernel serves blocked flocks in turn, hence SF on LockKey.   *)
Fairness ==
    /\ \A s \in Session : /\ WF_vars(Checkout(s)) /\ SF_vars(LockKey(s))
                          /\ WF_vars(Release(s))
    /\ \A e \in Evictor : WF_vars(EvictStep(e))

FairSpec == Spec /\ Fairness

(* With the scheduled CI hook: evict is called again and again. *)
HookSpec == FairSpec /\ \A e \in Evictor : WF_vars(StartEvict(e))

-----------------------------------------------------------------------------
(***************************************************************************)
(* Properties                                                              *)
(***************************************************************************)
(* The types of the variables (cache.py as a whole). *)
TypeOK ==
    /\ now \in 1..MaxNow
    /\ alive \in [Proc -> BOOLEAN]
    /\ pc \in [Session -> PC]
    /\ key \in [Session -> Key \cup {NoKey}]
    /\ \A s \in Session : key[s] = NoKey <=> pc[s] \in {"idle", "dead"}
    /\ pinnedAt \in [Session -> 0..now]
    /\ keyLock \in [Key -> Session \cup Evictor \cup {Free}]
    /\ pinRefs \in [Proc -> [Key -> Nat]]
    /\ pinFile \in [Key -> [Proc -> 0..now]]
    /\ tree \in [Key -> {"absent", "partial", "complete"}]
    /\ builtAt \in [Key -> 0..now]
    /\ evictLock \in Evictor \cup {Free}
    /\ evPc \in EvictPC
    /\ evQueue \in Seq(Key)
    /\ evTotal \in Int
    /\ evNow \in 0..now

AllFresh(p, k) == \A s \in Pinners(p, k) : now - pinnedAt[s] < RunDeadline

(* RUN_DEADLINE (config.py:46) bounds how long a run may count on its pin: *)
(* a session is protected while no pin its process holds is older.         *)
Protected(s) == pc[s] = "using" /\ AllFresh(ProcOf[s], key[s])
Removing(k)  == evPc = "removing" /\ Head(evQueue) = k
Intact(k)    == tree[k] = "complete" /\ Sentinel(k)

(* A run within its deadline finds the tree it was handed whole: no        *)
(* eviction, failed rebuild or crash of another process takes it away      *)
(* (checkout_and_build and evict hold the same lock, evict honours pins).  *)
InUseIntact == \A s \in Session : Protected(s) => Intact(key[s])

(* "sentinel: fully-built and safe to reuse" (cache.py:6): whoever takes   *)
(* the key lock and sees .itk-built can use the tree as it is, whatever    *)
(* failed or was killed before.                                            *)
SentinelMeansBuilt ==
    \A k \in Key : Sentinel(k) => tree[k] = "complete" \/ Removing(k)

(* No path through checkout_and_build, not even a failing one, loses or    *)
(* doubles an unpin: once a process has nothing checked out, it holds no   *)
(* refcount and no pin file (_pin, _unpin).                                *)
NoLeakedPin ==
    \A p \in Proc :
        alive[p] /\ (\A s \in Of(p) : pc[s] = "idle") =>
            \A k \in Key : pinRefs[p][k] = 0 /\ pinFile[k][p] = NoFile

(* "The on-disk file represents at least one live use in this process"     *)
(* (cache.py:48): while the refcount is positive and no first pin is being *)
(* written, the pin file is there, until a pin may have outlived its        *)
(* deadline.                                                               *)
FileRepresentsUse ==
    now <= RunDeadline =>
        \A k \in Key : \A p \in Proc :
            /\ pinRefs[p][k] > 0
            /\ \A s \in Of(p) : key[s] = k => pc[s] # "write"
            => pinFile[k][p] # NoFile

(* A checkout is answered, with a tree or a failure: neither builders of   *)
(* the same key nor evictions (two locks are held there) block it forever. *)
CheckoutAnswered ==
    \A s \in Session : pc[s] = "lock" ~> pc[s] \in {"using", "idle", "dead"}

(* An eviction pass ends: its non-blocking key locks cannot wait on builds *)
(* that wait on each other.                                                *)
EvictReturns == \A e \in Evictor : evictLock = e ~> evictLock # e

(* Neither builds, nor evictions, nor the two together deadlock.           *)
NobodyWaitsForEver == CheckoutAnswered /\ EvictReturns

(* "a killed runner can't permanently block eviction" (cache.py:24): once  *)
(* the other runs are over, repeated evictions bring the cache down to its *)
(* budget, whatever pins and half-built trees the dead left.  (While runs  *)
(* go on, each of evict's attempts may find the key locked.)               *)
ShrinksToBudget ==
    <>[](\A s \in Session : pc[s] \in {"idle", "dead"}) => <>[](TotalSize <= Budget)

-----------------------------------------------------------------------------
(* The cache implements TreeStore: removal takes effect when rmtree starts *)
(* under the key lock, and a hold begins when the key lock is left.        *)
storeStatus == [k \in Key |->
    IF tree[k] = "absent" \/ Removing(k) THEN "absent"
    ELSE IF ~Sentinel(k) THEN "building"
    ELSE IF tree[k] = "complete" THEN "ready" ELSE "broken"]
protectedUsers == [k \in Key |-> {s \in Session : key[s] = k /\ Protected(s)}]

Store == INSTANCE TreeStore WITH store <- storeStatus, users <- protectedUsers

(* Trees are handed out only when finished and never pulled from under a   *)
(* protected run (checkout_and_build, release and evict together).         *)
ImplementsTreeStore == Store!Spec
=============================================================================
