------------------------------ MODULE TreeStore ------------------------------
(***************************************************************************)
(* What the build cache promises its callers, without locks, pins or       *)
(* files: a tree is handed out only when its build has finished, and it is *)
(* not taken away from a run that has held it for less than RUN_DEADLINE.  *)
(***************************************************************************)
CONSTANTS Key, Session

VARIABLES
    store,   \* per key: "absent", "building" or "ready"
    users    \* per key: the sessions whose hold on the tree is protected

vars == <<store, users>>

Init == store = [k \in Key |-> "absent"] /\ users = [k \in Key |-> {}]

Set(k, status) == store' = [store EXCEPT ![k] = status]

StartBuild(k) ==
    /\ store[k] = "absent" /\ Set(k, "building")
    /\ UNCHANGED users

FinishBuild(k) ==
    /\ store[k] = "building" /\ Set(k, "ready")
    /\ UNCHANGED users

Join(s, k) ==
    /\ store[k] = "ready"
    /\ users' = [users EXCEPT ![k] = @ \cup {s}]
    /\ UNCHANGED store

(* Sessions release, die, or hold longer than they are protected for. *)
Depart ==
    /\ users' \in [Key -> SUBSET Session]
    /\ \A k \in Key : users'[k] \subseteq users[k]
    /\ UNCHANGED store

(* A failed build, or eviction. *)
Remove(k) ==
    /\ users[k] = {}
    /\ Set(k, "absent")
    /\ UNCHANGED users

Next ==
    \/ \E k \in Key : \/ StartBuild(k) \/ FinishBuild(k) \/ Remove(k)
                      \/ \E s \in Session : Join(s, k)
    \/ Depart

Spec == Init /\ [][Next]_vars
=============================================================================
