------------------------------- MODULE Cluster -------------------------------
(***************************************************************************)
(* One `with Cluster() as c: c.start_all(specs)' block,                    *)
(* test_suite/launcher/cluster.py with ports.py and health.py.             *)
(*                                                                         *)
(* start_all runs _start_one for every target in a pool of Workers         *)
(* threads: resolve and pin, allocate a pair of ports, spawn the agent in  *)
(* a process group, wait until it answers.  __exit__ kills every started   *)
(* agent, then closes the logs, releases the pins and returns the ports.   *)
(* BuildCache models what a pin guarantees: a session that is `using' there *)
(* is a target in `pins' here.                                             *)
(***************************************************************************)
EXTENDS Naturals, Sequences, FiniteSets

CONSTANTS
    N,          \* number of targets; target i is specs[i]
    Mount,      \* the targets of Kind.MOUNT; the others are Kind.CHECKOUT
    Workers,    \* size of the thread pool
    Port,       \* the ephemeral ports
    Wrapped,    \* targets whose agent is a child of what is spawned (mvn, npm)
    Stubborn    \* wrapped targets whose child outlives the wrapper's SIGTERM

Target == 1..N

ASSUME ClusterAssumption ==
    /\ N \in Nat /\ Mount \subseteq Target
    /\ Workers \in Nat \ {0}
    /\ Stubborn \subseteq Wrapped /\ Wrapped \subseteq Target

VARIABLES
    phase,      \* where the with block is
    pc,         \* where _start_one is for a target
    pins,       \* targets whose tree is pinned and in _pinned
    used,       \* AddressReservoir._used
    cand,       \* the port a worker found free and has yet to take
    pair,       \* the ports a target was allocated, http first
    proc,       \* the process spawned for a target: "none", "runs", it "exited"
                \* by itself, or it was "stopped" by a signal to its group
    children,   \* targets whose wrapped agent process lives
    logs,       \* targets whose log file is open
    logHandles, \* _log_handles, by target
    handles,    \* _handles
    outcome     \* what start_all has for a target: "none", "ready", "failed"

procVars  == <<proc, children>>
logVars   == <<logs, logHandles>>
agentVars == <<procVars, logVars, handles>>
portVars  == <<used, cand, pair>>
vars == <<phase, pc, pins, portVars, agentVars, outcome>>

Phase   == {"starting", "draining", "up", "killing", "releasing", "closed"}
Busy    == {"resolve", "pick", "take", "spawn", "wait"}
Settled == {"done", "raised", "cancelled"}
PC      == {"queued"} \cup Busy \cup Settled

Alive == {t \in Target : proc[t] = "runs"} \cup children

(* A live agent holds its ports: bind(0) does not return them. *)
Bound == UNION {{pair[t][i] : i \in DOMAIN pair[t]} : t \in Alive}

Init ==
    /\ phase = "starting"
    /\ pc = [t \in Target |-> "queued"]
    /\ pins = {} /\ used = {}
    /\ cand = [t \in Target |-> {}]
    /\ pair = [t \in Target |-> <<>>]
    /\ proc = [t \in Target |-> "none"]
    /\ children = {} /\ logs = {} /\ logHandles = {} /\ handles = {}
    /\ outcome = [t \in Target |-> "none"]

-----------------------------------------------------------------------------
(***************************************************************************)
(* _start_one, a worker's steps for target t                               *)
(***************************************************************************)
Go(t, from, to) == pc[t] = from /\ pc' = [pc EXCEPT ![t] = to]

Answer(t, from, result) ==
    /\ Go(t, from, "done")
    /\ outcome' = [outcome EXCEPT ![t] = result]

(* Mutant: a worker that is never given back to the pool. *)
OccupiedForever == {t \in Target : pc[t] \notin {"queued", "cancelled"}}
Occupied == {t \in Target : pc[t] \in Busy}

(* The executor's queue is first in, first out. *)
Begin(t) ==
    /\ Go(t, "queued", "resolve")
    /\ \A u \in 1..(t - 1) : pc[u] # "queued"
    /\ Cardinality(Occupied) < Workers
    /\ UNCHANGED <<phase, pins, portVars, agentVars, outcome>>

Resolve(t) ==
    /\ Go(t, "resolve", "pick")
    /\ pins' = IF t \in Mount THEN pins ELSE pins \cup {t}
    /\ UNCHANGED <<phase, portVars, agentVars, outcome>>

(* checkout_and_build raised a LauncherError (and dropped its own pin). *)
ResolveFails(t) ==
    /\ t \notin Mount
    /\ Answer(t, "resolve", "failed")
    /\ UNCHANGED <<phase, pins, portVars, agentVars>>

(* resolve() of a mount that is missing raises RuntimeError, no LauncherError. *)
ResolveRaises(t) ==
    /\ t \in Mount
    /\ Go(t, "resolve", "raised")
    /\ UNCHANGED <<phase, pins, portVars, agentVars, outcome>>

(* _one_free_port: bind(0), close, and the reservoir does not contain the   *)
(* port.  (A port it does contain is another turn of the loop.)             *)
PickPort(t) ==
    /\ Go(t, "pick", "take")
    /\ \E p \in Port \ (Bound \cup used) : cand' = [cand EXCEPT ![t] = {p}]
    /\ UNCHANGED <<phase, pins, used, pair, agentVars, outcome>>

(* allocate_pair gives the http port back when the grpc port is refused. *)
GiveBack(t) ==
    /\ used' = used \ {pair[t][i] : i \in DOMAIN pair[t]}
    /\ pair' = [pair EXCEPT ![t] = <<>>]

(* All of the 100 attempts returned reserved ports: _start_one reports it. *)
PickFails(t) ==
    /\ (Port \ Bound) \cap used # {}
    /\ Answer(t, "pick", "failed")
    /\ GiveBack(t)
    /\ UNCHANGED <<phase, pins, cand, agentVars>>

(* No port left to bind: an OSError, which _start_one does not expect. *)
PickRaises(t) ==
    /\ Port \subseteq Bound
    /\ Go(t, "pick", "raised")
    /\ GiveBack(t)
    /\ UNCHANGED <<phase, pins, cand, agentVars, outcome>>

(* The reservoir's lock was dropped between `contains' and `take'. *)
TakePort(t) ==
    /\ \E p \in cand[t] : used' = used \cup {p} /\ pair' = [pair EXCEPT ![t] = Append(@, p)]
    /\ Go(t, "take", IF pair[t] = <<>> THEN "pick" ELSE "spawn")
    /\ cand' = [cand EXCEPT ![t] = {}]
    /\ UNCHANGED <<phase, pins, agentVars, outcome>>

Spawn(t) ==
    /\ Go(t, "spawn", "wait")
    /\ proc' = [proc EXCEPT ![t] = "runs"]
    /\ children' = children \cup ({t} \cap Wrapped)
    /\ logs' = logs \cup {t}
    /\ logHandles' = logHandles \cup {t}
    /\ UNCHANGED <<phase, pins, portVars, handles, outcome>>

(* Before its log is opened, or after: then only the closure that was to    *)
(* start the process knows the file (current._popen_factory).               *)
SpawnFails(t) ==
    /\ Answer(t, "spawn", "failed")
    /\ logs' \in {logs, logs \cup {t}}
    /\ UNCHANGED <<phase, pins, portVars, procVars, logHandles, handles>>

(* health.wait_ready: the agent card was served on the http port within the *)
(* timeout, by this agent or another one that has the port.                 *)
Ready(t) ==
    /\ Answer(t, "wait", "ready")
    /\ \E u \in Alive : pair[u][1] = pair[t][1]
    /\ handles' = handles \cup {t}
    /\ UNCHANGED <<phase, pins, portVars, procVars, logVars>>

(* What answers is not HTTP, as another agent's gRPC server on the port: an *)
(* http.client exception, which wait_ready does not expect.                 *)
WaitRaises(t) ==
    /\ Go(t, "wait", "raised")
    /\ \E u \in Alive : pair[u][2] = pair[t][1]
    /\ UNCHANGED <<phase, pins, portVars, agentVars, outcome>>

-----------------------------------------------------------------------------
(***************************************************************************)
(* _kill_pgroup                                                            *)
(***************************************************************************)
(* Nothing if the leader has exited, whatever of its group still runs;      *)
(* SIGTERM to the group and a wait for the leader; SIGKILL to the group if  *)
(* that wait times out.                                                     *)
KillGroup(t) ==
    IF proc[t] # "runs" THEN UNCHANGED procVars
    ELSE /\ proc' = [proc EXCEPT ![t] = "stopped"]
         /\ \E kept \in SUBSET ({t} \cap Stubborn) :
                children' = children \ ({t} \ kept)

(* Mutant: an agent that does not get ready is left running. *)
NotReadyNoKill(t) ==
    /\ Answer(t, "wait", "failed")
    /\ UNCHANGED <<phase, pins, portVars, agentVars>>

NotReady(t) ==
    /\ Answer(t, "wait", "failed")
    /\ KillGroup(t)
    /\ UNCHANGED <<phase, pins, portVars, logVars, handles>>

(* What was spawned exits by itself, as a wrapper does when its child has   *)
(* ended; but a child may also go on without its wrapper.                   *)
Crash(t) ==
    /\ proc[t] = "runs"
    /\ proc' = [proc EXCEPT ![t] = "exited"]
    /\ children' \in {children, children \ {t}}
    /\ UNCHANGED <<phase, pc, pins, portVars, logVars, handles, outcome>>

-----------------------------------------------------------------------------
(***************************************************************************)
(* start_all, on the main thread                                           *)
(***************************************************************************)
(* Mutant: the results are read without waiting for the workers. *)
StartAllReturnsEarly ==
    /\ phase = "starting"
    /\ \A t \in Target : pc[t] \in Busy \cup {"done"}
    /\ phase' = "up"
    /\ UNCHANGED <<pc, pins, portVars, agentVars, outcome>>

StartAllReturns ==
    /\ phase = "starting"
    /\ \A t \in Target : pc[t] = "done"
    /\ phase' = "up"
    /\ UNCHANGED <<pc, pins, portVars, agentVars, outcome>>

(* executor.map meets the first worker that raised, in the order of specs,  *)
(* and cancels those that have not begun; shutdown waits for the others.    *)
MapRaises ==
    /\ phase = "starting"
    /\ \E t \in Target : pc[t] = "raised" /\ \A u \in 1..(t - 1) : pc[u] = "done"
    /\ phase' = "draining"
    /\ pc' = [t \in Target |-> IF pc[t] = "queued" THEN "cancelled" ELSE pc[t]]
    /\ UNCHANGED <<pins, portVars, agentVars, outcome>>

(* The exception leaves start_all and enters __exit__. *)
StartAllRaises ==
    /\ phase = "draining"
    /\ Occupied = {}
    /\ phase' = "killing"
    /\ UNCHANGED <<pc, pins, portVars, agentVars, outcome>>

(***************************************************************************)
(* __exit__                                                                *)
(***************************************************************************)
LeaveBlock ==
    /\ phase = "up"
    /\ phase' = "killing"
    /\ UNCHANGED <<pc, pins, portVars, agentVars, outcome>>

KillAgent(t) ==
    /\ phase = "killing"
    /\ t \in handles
    /\ KillGroup(t)
    /\ handles' = handles \ {t}
    /\ UNCHANGED <<phase, pc, pins, portVars, logVars, outcome>>

(* Mutant: the handles are not waited for. *)
CloseLogsFirst ==
    /\ phase = "killing"
    /\ phase' = "releasing"
    /\ logs' = logs \ logHandles
    /\ logHandles' = {}
    /\ UNCHANGED <<pc, pins, portVars, procVars, handles, outcome>>

CloseLogs ==
    /\ phase = "killing"
    /\ handles = {}
    /\ phase' = "releasing"
    /\ logs' = logs \ logHandles
    /\ logHandles' = {}
    /\ UNCHANGED <<pc, pins, portVars, procVars, handles, outcome>>

ReleasePin(t) ==
    /\ phase = "releasing"
    /\ t \in pins
    /\ pins' = pins \ {t}
    /\ UNCHANGED <<phase, pc, portVars, agentVars, outcome>>

FreePorts ==
    /\ phase = "releasing"
    /\ pins = {}
    /\ phase' = "closed"
    /\ used' = used \ UNION {{pair[t][i] : i \in DOMAIN pair[t]} : t \in Target}
    /\ UNCHANGED <<pc, pins, cand, pair, agentVars, outcome>>

-----------------------------------------------------------------------------
StartOne(t) ==
    \/ Begin(t) \/ Resolve(t) \/ ResolveFails(t) \/ ResolveRaises(t)
    \/ PickPort(t) \/ PickFails(t) \/ PickRaises(t) \/ TakePort(t) \/ Spawn(t) \/ SpawnFails(t)
    \/ Ready(t) \/ WaitRaises(t) \/ NotReady(t)

StartAll == StartAllReturns \/ MapRaises \/ StartAllRaises

Exit == CloseLogs \/ FreePorts \/ \E t \in Target : KillAgent(t) \/ ReleasePin(t)

Next ==
    \/ \E t \in Target : StartOne(t) \/ Crash(t)
    \/ StartAll \/ LeaveBlock \/ Exit

Spec == Init /\ [][Next]_vars

(* Every wait of _start_one has a timeout, the threads of the pool are all  *)
(* scheduled, and the body of the with block ends.                          *)
Fairness ==
    /\ \A t \in Target : WF_vars(StartOne(t))
    /\ WF_vars(StartAll) /\ WF_vars(LeaveBlock) /\ WF_vars(Exit)

FairSpec == Spec /\ Fairness

-----------------------------------------------------------------------------
(***************************************************************************)
(* Properties                                                              *)
(***************************************************************************)
(* The types of the variables; a target has at most two ports (cluster.py, *)
(* ports.py).                                                              *)
TypeOK ==
    /\ phase \in Phase
    /\ pc \in [Target -> PC]
    /\ pins \subseteq Target \ Mount
    /\ used \subseteq Port
    /\ cand \in [Target -> SUBSET Port]
    /\ pair \in [Target -> Seq(Port)] /\ \A t \in Target : Len(pair[t]) <= 2
    /\ proc \in [Target -> {"none", "runs", "exited", "stopped"}]
    /\ children \subseteq Wrapped
    /\ logs \subseteq Target /\ logHandles \subseteq Target /\ handles \subseteq Target
    /\ outcome \in [Target -> {"none", "ready", "failed"}]

(* An exception in wait_ready leaves an agent that no handle knows. *)
Escaped == {t \in Alive : pc[t] = "raised"}

(* Agents that _kill_pgroup does not reach: their wrapper had exited by      *)
(* itself, or it stopped on SIGTERM when they did not.                      *)
Orphaned ==
    {t \in children : proc[t] = "exited" \/ (proc[t] = "stopped" /\ t \in Stubborn)}

(* When the block is over nothing is left, whichever targets failed, crashed, *)
(* raised or were cancelled: no process but those that escaped or were      *)
(* orphaned, no pin, and the log of no process that was started (start_all, *)
(* __exit__).                                                              *)
NothingLeft ==
    phase = "closed" =>
        /\ Alive \subseteq Escaped \cup Orphaned
        /\ handles = {} /\ pins = {}
        /\ \A t \in logs : proc[t] = "none"

(* An agent runs from a tree that is pinned: every agent up to the end of    *)
(* __exit__'s kills, and after them those that were not to be left          *)
(* (_resolve_and_pin before spawn, kill before release in __exit__).        *)
AgentsArePinned ==
    LET left == IF phase \in {"releasing", "closed"} THEN Escaped \cup Orphaned ELSE {}
    IN  Alive \subseteq pins \cup Mount \cup left

(* start_all's result lists every target, and "ready" only those whose     *)
(* agent was spawned with a pair of ports and will be killed (start_all).  *)
OutcomesComplete ==
    phase = "up" =>
        \A t \in Target :
            /\ outcome[t] # "none"
            /\ outcome[t] = "ready" <=> t \in handles
            /\ outcome[t] = "ready" => Len(pair[t]) = 2

(* The block ends, however many targets share the workers and whether or   *)
(* not one of them raises (ThreadPoolExecutor, executor.map, __exit__).    *)
BlockEnds == <>(phase = "closed")
=============================================================================
