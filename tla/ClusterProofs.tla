---------------------------- MODULE ClusterProofs ----------------------------
(***************************************************************************)
(* What start_all answers is complete, and the block kills an agent before  *)
(* it gives back the tree it runs from, for any number of targets, workers   *)
(* and ports.                                                              *)
(***************************************************************************)
EXTENDS Cluster, TLAPS

(* Where a worker is decides which ports its target has (allocate_pair). *)
Allocated ==
    \A t \in Target :
        /\ pc[t] \in {"queued", "resolve"} => pair[t] = <<>>
        /\ pc[t] \in {"pick", "take"} => Len(pair[t]) <= 1
        /\ pc[t] \in {"spawn", "wait"} \/ outcome[t] = "ready" => Len(pair[t]) = 2

(* A target has an answer when its worker is done, and a handle when the     *)
(* answer is ready, until __exit__ takes it.                                *)
Answering ==
    \A t \in Target :
        /\ pc[t] = "done" <=> outcome[t] # "none"
        /\ t \in handles => outcome[t] = "ready"
        /\ phase \in {"starting", "draining", "up"} /\ outcome[t] = "ready" => t \in handles

(* What the main thread has waited for. *)
Waited ==
    \A t \in Target :
        /\ phase = "draining" => pc[t] # "queued"
        /\ phase = "up" => pc[t] = "done"
        /\ phase \notin {"starting", "draining"} => pc[t] \in Settled

Inv == TypeOK /\ Allocated /\ Answering /\ Waited

(* Processes are where a worker has spawned them, and a handle knows those   *)
(* that run once it is done; a child lives on only after its wrapper exited  *)
(* or when the group's SIGTERM does not end it (spawn, _kill_pgroup).       *)
Known ==
    \A t \in Target :
        /\ proc[t] # "none" => pc[t] \in {"wait", "done", "raised"}
        /\ proc[t] = "runs" /\ pc[t] = "done" => t \in handles
        /\ t \in children => proc[t] # "none"
        /\ t \in children /\ proc[t] = "stopped" => t \in Stubborn

(* Trees are pinned from resolve to the end of __exit__'s kills. *)
Pinned ==
    \A t \in Target :
        /\ pc[t] \in {"pick", "take", "spawn", "wait"} => t \in pins \cup Mount
        /\ phase \notin {"releasing", "closed"} /\ proc[t] # "none" => t \in pins \cup Mount

(* A log that no list knows is one of a start that failed; what __exit__     *)
(* has given up is empty.                                                   *)
Closing ==
    /\ \A t \in logs : t \in logHandles \/ proc[t] = "none"
    /\ \A t \in logHandles : proc[t] # "none"
    /\ phase \in {"releasing", "closed"} => handles = {} /\ logHandles = {}
    /\ phase = "closed" => pins = {}

Custody == Known /\ Pinned /\ Closing

-----------------------------------------------------------------------------
(* A kill ends a process that runs, and of its group it leaves stubborn      *)
(* children only (_kill_pgroup).                                            *)
LEMMA KillEnds ==
    ASSUME TypeOK, NEW t \in Target, KillGroup(t)
    PROVE  /\ \A u \in Target \ {t} : proc'[u] = proc[u]
           /\ proc'[t] = IF proc[t] = "runs" THEN "stopped" ELSE proc[t]
           /\ proc' \in [Target -> {"none", "runs", "exited", "stopped"}]
           /\ children' \subseteq children
           /\ proc[t] = "runs" /\ t \in children' => t \in Stubborn
  <1>1. CASE proc[t] # "runs"
    BY <1>1 DEF KillGroup, TypeOK, procVars
  <1>2. CASE proc[t] = "runs"
    BY <1>2 DEF KillGroup, TypeOK
  <1> QED
    BY <1>1, <1>2

LEMMA InvInit == Init => Inv
  BY DEF Init, Inv, TypeOK, Allocated, Answering, Waited, Phase, PC

(* A worker that goes on with the ports it has, and answers when it is done. *)
LEMMA GoesOn ==
    ASSUME TypeOK, Allocated, Answering, Waited, NEW t \in Target, NEW from, NEW to,
           Go(t, from, to), from \in {"queued", "resolve", "spawn", "wait"},
           \/ to \in {"resolve", "pick"} /\ from \in {"queued", "resolve"}
           \/ to = "wait" /\ from = "spawn"
           \/ to \in {"raised", "done"},
           UNCHANGED <<phase, pair>>,
           \/ to # "done" /\ UNCHANGED <<outcome, handles>>
           \/ /\ to = "done" /\ handles' = handles
              /\ outcome' = [outcome EXCEPT ![t] = "failed"]
           \/ /\ to = "done" /\ from = "wait" /\ handles' = handles \cup {t}
              /\ outcome' = [outcome EXCEPT ![t] = "ready"]
    PROVE  Allocated' /\ Answering' /\ Waited'
  <1>1. /\ pc[t] = from /\ pc'[t] = to /\ \A u \in Target \ {t} : pc'[u] = pc[u]
        /\ outcome[t] = "none" /\ t \notin handles
    BY DEF Go, TypeOK, Answering
  <1>2. /\ \A u \in Target \ {t} : outcome'[u] = outcome[u] /\ (u \in handles' <=> u \in handles)
        /\ \/ to # "done" /\ outcome'[t] = "none" /\ t \notin handles'
           \/ to = "done" /\ outcome'[t] = "failed" /\ t \notin handles'
           \/ to = "done" /\ outcome'[t] = "ready" /\ t \in handles' /\ from = "wait"
    <2>0. outcome \in [Target -> {"none", "ready", "failed"}]
      BY DEF TypeOK
    <2>1. CASE to # "done"
      BY <1>1, <2>1
    <2>2. CASE to = "done"
      BY <1>1, <2>0, <2>2
    <2> QED
      BY <2>1, <2>2
  <1>3. Allocated'
    BY <1>1, <1>2 DEF Allocated
  <1>4. Answering'
    BY <1>1, <1>2 DEF Answering
  <1>5. Waited'
    BY <1>1 DEF Waited, Settled
  <1> QED
    BY <1>3, <1>4, <1>5

(* The steps of a worker that leave the ports alone. *)
LEMMA WorkerKeeps ==
    ASSUME Inv, NEW t \in Target,
           \/ Begin(t) \/ Resolve(t) \/ ResolveFails(t) \/ ResolveRaises(t)
           \/ Spawn(t) \/ SpawnFails(t) \/ Ready(t) \/ WaitRaises(t)
    PROVE  Inv'
  <1> USE ClusterAssumption DEF Inv, TypeOK, PC, Busy, Settled, Phase, Go, Answer
  <1>1. phase' = phase /\ pair' = pair /\ used' = used
    BY DEF Begin, Resolve, ResolveFails, ResolveRaises, Spawn, SpawnFails, Ready, WaitRaises, portVars
  <1>2. \E to \in PC : pc' = [pc EXCEPT ![t] = to]
    BY DEF Begin, Resolve, ResolveFails, ResolveRaises, Spawn, SpawnFails, Ready, WaitRaises
  <1>3. outcome' = outcome \/ \E r \in {"ready", "failed"} : outcome' = [outcome EXCEPT ![t] = r]
    BY DEF Begin, Resolve, ResolveFails, ResolveRaises, Spawn, SpawnFails, Ready, WaitRaises
  <1>4. cand' = cand /\ pins' \subseteq Target \ Mount
    BY DEF Begin, Resolve, ResolveFails, ResolveRaises, Spawn, SpawnFails, Ready, WaitRaises, portVars
  <1>5. /\ proc' \in [Target -> {"none", "runs", "exited", "stopped"}]
        /\ children' \subseteq Wrapped
        /\ logs' \subseteq Target /\ logHandles' \subseteq Target /\ handles' \subseteq Target
    BY DEF Begin, Resolve, ResolveFails, ResolveRaises, Spawn, SpawnFails, Ready, WaitRaises,
           agentVars, procVars, logVars
  <1>6. TypeOK'
    <2>1. pc' \in [Target -> PC]
      BY <1>2
    <2>2. outcome' \in [Target -> {"none", "ready", "failed"}]
      BY <1>3
    <2> QED
      BY <1>1, <1>4, <1>5, <2>1, <2>2
  <1>7. Allocated' /\ Answering' /\ Waited'
    <2>1. CASE Begin(t)
      BY <1>1, <2>1, GoesOn DEF Begin, agentVars
    <2>2. CASE Resolve(t)
      BY <1>1, <2>2, GoesOn DEF Resolve, agentVars
    <2>3. CASE ResolveFails(t)
      BY <1>1, <2>3, GoesOn DEF ResolveFails, agentVars
    <2>4. CASE ResolveRaises(t)
      BY <1>1, <2>4, GoesOn DEF ResolveRaises, agentVars
    <2>5. CASE Spawn(t)
      BY <1>1, <2>5, GoesOn DEF Spawn
    <2>6. CASE SpawnFails(t)
      BY <1>1, <2>6, GoesOn DEF SpawnFails
    <2>7. CASE Ready(t)
      BY <1>1, <2>7, GoesOn DEF Ready
    <2>8. CASE WaitRaises(t)
      BY <1>1, <2>8, GoesOn DEF WaitRaises, agentVars
    <2> QED
      BY <2>1, <2>2, <2>3, <2>4, <2>5, <2>6, <2>7, <2>8
  <1> QED
    BY <1>6, <1>7

(* A port that is taken: the pair has one more. *)
LEMMA Longer ==
    ASSUME NEW S, NEW s \in Seq(S), NEW e \in S, Len(s) <= 1
    PROVE  /\ Append(s, e) \in Seq(S) /\ Len(Append(s, e)) <= 2
           /\ s = <<>> => Len(Append(s, e)) <= 1
           /\ s # <<>> => Len(Append(s, e)) = 2
  OBVIOUS

LEMMA TakeKeeps == ASSUME Inv, NEW t \in Target, TakePort(t) PROVE Inv'
  <1>0. TypeOK /\ Allocated /\ Answering /\ Waited
    BY DEF Inv
  <1>1. PICK p \in Port : used' = used \cup {p} /\ pair' = [pair EXCEPT ![t] = Append(@, p)]
    BY <1>0 DEF TakePort, TypeOK
  <1>2. /\ phase' = phase /\ outcome' = outcome /\ pins' = pins
        /\ UNCHANGED <<proc, children, logs, logHandles, handles>>
        /\ cand' = [cand EXCEPT ![t] = {}]
        /\ pc' = [pc EXCEPT ![t] = IF pair[t] = <<>> THEN "pick" ELSE "spawn"]
        /\ pc[t] = "take"
    BY DEF TakePort, Go, agentVars, procVars, logVars
  <1>3. pair[t] \in Seq(Port) /\ Len(pair[t]) <= 1 /\ outcome[t] = "none"
    BY <1>0, <1>2 DEF TypeOK, Allocated, Answering
  <1>4. pair'[t] = Append(pair[t], p) /\ pc'[t] = IF pair[t] = <<>> THEN "pick" ELSE "spawn"
    BY <1>0, <1>1, <1>2 DEF TypeOK
  <1>5. /\ pair'[t] \in Seq(Port) /\ Len(pair'[t]) <= 2
        /\ pc'[t] = "pick" => Len(pair'[t]) <= 1
        /\ pc'[t] = "spawn" => Len(pair'[t]) = 2
        /\ pc'[t] \in {"pick", "spawn"} /\ outcome'[t] = "none"
    BY <1>2, <1>3, <1>4, Longer
  <1>6. \A u \in Target : u # t => pc'[u] = pc[u] /\ pair'[u] = pair[u]
    BY <1>0, <1>1, <1>2 DEF TypeOK
  <1>7. TypeOK'
    <2>1. pair' \in [Target -> Seq(Port)] /\ \A u \in Target : Len(pair'[u]) <= 2
      BY <1>0, <1>1, <1>5, <1>6 DEF TypeOK
    <2>2. pc' \in [Target -> PC] /\ cand' \in [Target -> SUBSET Port] /\ used' \subseteq Port
      BY <1>0, <1>1, <1>2 DEF TypeOK, PC, Busy
    <2> QED
      BY <1>0, <1>2, <2>1, <2>2 DEF TypeOK
  <1>8. Allocated'
    BY <1>0, <1>2, <1>5, <1>6 DEF Allocated
  <1>9. Answering' /\ Waited'
    BY <1>0, <1>2, <1>5, <1>6 DEF Answering, Waited, Settled
  <1> QED
    BY <1>7, <1>8, <1>9 DEF Inv

(* The allocation of ports. *)
LEMMA PortsKeep ==
    ASSUME Inv, NEW t \in Target,
           PickPort(t) \/ PickFails(t) \/ PickRaises(t) \/ TakePort(t)
    PROVE  Inv'
  <1> USE ClusterAssumption DEF Inv, TypeOK, PC, Busy, Settled, Phase, Go, Answer
  <1>1. CASE PickPort(t)
    BY <1>1 DEF PickPort, agentVars, procVars, logVars, Allocated, Answering, Waited
  <1>2. CASE PickFails(t)
    BY <1>2 DEF PickFails, GiveBack, agentVars, procVars, logVars, Allocated, Answering, Waited
  <1>3. CASE PickRaises(t)
    BY <1>3 DEF PickRaises, GiveBack, agentVars, procVars, logVars, Allocated, Answering, Waited
  <1>4. CASE TakePort(t)
    BY <1>4, TakeKeeps
  <1> QED
    BY <1>1, <1>2, <1>3, <1>4

(* Agents that are killed or crash. *)
LEMMA KillsKeep ==
    ASSUME Inv, NEW t \in Target, NotReady(t) \/ Crash(t) \/ KillAgent(t)
    PROVE  Inv'
  <1> USE ClusterAssumption DEF Inv, TypeOK, PC, Busy, Settled, Phase, Go, Answer
  <1>1. /\ proc' \in [Target -> {"none", "runs", "exited", "stopped"}]
        /\ children' \subseteq Wrapped
    BY KillEnds DEF NotReady, Crash, KillAgent
  <1>2. CASE NotReady(t)
    BY <1>1, <1>2 DEF NotReady, portVars, logVars, Allocated, Answering, Waited
  <1>3. CASE Crash(t)
    BY <1>1, <1>3 DEF Crash, portVars, logVars, Allocated, Answering, Waited
  <1>4. CASE KillAgent(t)
    BY <1>1, <1>4 DEF KillAgent, portVars, logVars, Allocated, Answering, Waited
  <1> QED
    BY <1>2, <1>3, <1>4

(* The main thread. *)
LEMMA MainKeeps ==
    ASSUME Inv, StartAll \/ LeaveBlock \/ CloseLogs \/ FreePorts \/ \E t \in Target : ReleasePin(t)
    PROVE  Inv'
  <1> USE ClusterAssumption DEF Inv, TypeOK, PC, Busy, Settled, Phase
  <1>1. CASE StartAllReturns
    BY <1>1 DEF StartAllReturns, portVars, agentVars, procVars, logVars, Allocated, Answering, Waited
  <1>2. CASE MapRaises
    BY <1>2 DEF MapRaises, portVars, agentVars, procVars, logVars, Allocated, Answering, Waited
  <1>3. CASE StartAllRaises
    BY <1>3 DEF StartAllRaises, Occupied, portVars, agentVars, procVars, logVars, Allocated, Answering, Waited
  <1>4. CASE LeaveBlock \/ CloseLogs \/ FreePorts \/ \E t \in Target : ReleasePin(t)
    BY <1>4 DEF LeaveBlock, CloseLogs, FreePorts, ReleasePin, portVars, agentVars, procVars, logVars,
                Allocated, Answering, Waited
  <1> QED
    BY <1>1, <1>2, <1>3, <1>4 DEF StartAll

LEMMA InvNext == Inv /\ [Next]_vars => Inv'
  <1> SUFFICES ASSUME Inv, [Next]_vars PROVE Inv'
    OBVIOUS
  <1>1. CASE UNCHANGED vars
    BY <1>1 DEF vars, portVars, agentVars, procVars, logVars, Inv, TypeOK, Allocated, Answering, Waited
  <1>2. ASSUME NEW t \in Target, StartOne(t) \/ Crash(t) PROVE Inv'
    BY <1>2, WorkerKeeps, PortsKeep, KillsKeep DEF StartOne
  <1>3. CASE StartAll \/ LeaveBlock \/ Exit
    BY <1>3, MainKeeps, KillsKeep DEF Exit
  <1> QED
    BY <1>1, <1>2, <1>3 DEF Next

-----------------------------------------------------------------------------
LEMMA CustodyInit == Init => Custody
  BY DEF Init, Custody, Known, Pinned, Closing

LEMMA WorkerKeepsCustody ==
    ASSUME Inv, Custody, NEW t \in Target, pc[t] \notin Settled,
           \/ Begin(t) \/ Resolve(t) \/ ResolveFails(t) \/ ResolveRaises(t)
           \/ PickPort(t) \/ PickFails(t) \/ PickRaises(t) \/ TakePort(t)
           \/ Spawn(t) \/ SpawnFails(t) \/ Ready(t) \/ WaitRaises(t)
    PROVE  Custody'
  <1>1. /\ TypeOK /\ phase' = phase /\ phase \in {"starting", "draining"}
        /\ \A u \in Target \ {t} : pc'[u] = pc[u]
        /\ pc'[t] = "done" => pc[t] \in {"resolve", "pick", "spawn", "wait"}
    BY DEF Inv, TypeOK, Waited, Phase, Settled, Go, Answer, Begin, Resolve, ResolveFails,
           ResolveRaises, PickPort, PickFails, PickRaises, TakePort, Spawn, SpawnFails, Ready, WaitRaises
  <1>2. /\ proc[t] # "none" => pc[t] = "wait"
        /\ t \notin handles
    BY <1>1 DEF Inv, Custody, Known, Answering, Settled
  <1>3. CASE Spawn(t)
    <2>1. /\ pc[t] = "spawn" /\ pc'[t] = "wait" /\ pins' = pins /\ handles' = handles
          /\ proc'[t] = "runs" /\ \A u \in Target \ {t} : proc'[u] = proc[u]
          /\ \A u \in Target \ {t} : u \in children' <=> u \in children
          /\ logs' = logs \cup {t} /\ logHandles' = logHandles \cup {t}
      BY <1>1, <1>3 DEF Spawn, Go, TypeOK
    <2>2. Known'
      BY <1>1, <2>1 DEF Custody, Known
    <2>3. Pinned'
      BY <1>1, <2>1 DEF Custody, Pinned
    <2>4. Closing'
      BY <1>1, <1>2, <2>1 DEF TypeOK, Custody, Closing
    <2> QED
      BY <2>2, <2>3, <2>4 DEF Custody
  <1>4. CASE SpawnFails(t)
    <2>1. /\ pc[t] = "spawn" /\ pc'[t] = "done" /\ pins' = pins
          /\ logs' \subseteq logs \cup {t} /\ UNCHANGED <<proc, children, logHandles, handles>>
      BY <1>1, <1>4 DEF SpawnFails, Answer, Go, TypeOK, procVars
    <2> QED
      BY <1>1, <1>2, <2>1 DEF Custody, Known, Pinned, Closing
  <1>5. CASE Ready(t)
    <2>1. /\ pc[t] = "wait" /\ pc'[t] = "done" /\ pins' = pins /\ handles' = handles \cup {t}
          /\ UNCHANGED <<proc, children, logs, logHandles>>
      BY <1>1, <1>5 DEF Ready, Answer, Go, TypeOK, procVars, logVars
    <2> QED
      BY <1>1, <1>2, <2>1 DEF Custody, Known, Pinned, Closing
  <1>6. CASE WaitRaises(t)
    <2>1. /\ pc[t] = "wait" /\ pc'[t] = "raised" /\ pins' = pins
          /\ UNCHANGED <<proc, children, logs, logHandles, handles>>
      BY <1>1, <1>6 DEF WaitRaises, Go, TypeOK, agentVars, procVars, logVars
    <2> QED
      BY <1>1, <1>2, <2>1 DEF Custody, Known, Pinned, Closing
  <1>7. CASE \/ Begin(t) \/ Resolve(t) \/ ResolveFails(t) \/ ResolveRaises(t)
             \/ PickPort(t) \/ PickFails(t) \/ PickRaises(t) \/ TakePort(t)
    <2>1. /\ UNCHANGED <<proc, children, logs, logHandles, handles>> /\ pc[t] # "wait"
          /\ pins \subseteq pins'
          /\ pc'[t] \in {"pick", "take", "spawn"} =>
                pc[t] \in {"pick", "take"} \/ t \in pins' \cup Mount
          /\ pc'[t] # "wait"
      BY <1>1, <1>7
         DEF TypeOK, Go, Answer, Begin, Resolve, ResolveFails, ResolveRaises, PickPort, PickFails,
             PickRaises, TakePort, agentVars, procVars, logVars
    <2> QED
      BY <1>1, <1>2, <2>1 DEF Custody, Known, Pinned, Closing
  <1> QED
    BY <1>3, <1>4, <1>5, <1>6, <1>7

LEMMA KillsKeepCustody ==
    ASSUME Inv, Custody, NEW t \in Target, NotReady(t) \/ Crash(t) \/ KillAgent(t)
    PROVE  Custody'
  <1> USE ClusterAssumption DEF Inv, TypeOK, Go, Answer, portVars, logVars
  <1>1. /\ \A u \in Target : proc'[u] = "none" <=> proc[u] = "none"
        /\ \A u \in Target : proc'[u] = "runs" => u # t /\ proc[u] = "runs"
        /\ \A u \in Target : proc'[u] = "stopped" => proc[u] = "stopped" \/ (u = t /\ proc[u] = "runs")
        /\ children' \subseteq children
        /\ proc[t] = "runs" /\ t \in children' /\ proc'[t] = "stopped" => t \in Stubborn
    BY KillEnds DEF NotReady, Crash, KillAgent
  <1>2. /\ UNCHANGED <<phase, pins, logs, logHandles>>
        /\ handles' \subseteq handles /\ handles \subseteq handles' \cup {t}
        /\ \A u \in Target : u # t => pc'[u] = pc[u]
        /\ pc'[t] = pc[t] \/ (pc[t] = "wait" /\ pc'[t] = "done")
    BY DEF NotReady, Crash, KillAgent
  <1>3. Known'
    BY <1>1, <1>2 DEF Custody, Known
  <1>4. Pinned'
    BY <1>1, <1>2 DEF Custody, Pinned
  <1>5. Closing'
    BY <1>1, <1>2 DEF Custody, Closing
  <1> QED
    BY <1>3, <1>4, <1>5 DEF Custody

LEMMA MainKeepsCustody ==
    ASSUME Inv, Custody,
           StartAll \/ LeaveBlock \/ CloseLogs \/ FreePorts \/ \E t \in Target : ReleasePin(t)
    PROVE  Custody'
  <1> USE ClusterAssumption
      DEF Inv, TypeOK, portVars, agentVars, procVars, logVars, Custody, Known, Pinned, Closing
  <1>1. CASE StartAll
    BY <1>1 DEF StartAll, StartAllReturns, MapRaises, StartAllRaises
  <1>2. CASE LeaveBlock \/ CloseLogs \/ FreePorts
    BY <1>2 DEF LeaveBlock, CloseLogs, FreePorts
  <1>3. ASSUME NEW t \in Target, ReleasePin(t) PROVE Custody'
    <2>1. \A u \in Target : pc[u] \in Settled
      BY <1>3 DEF ReleasePin, Waited
    <2> QED
      BY <1>3, <2>1 DEF ReleasePin, Settled
  <1> QED
    BY <1>1, <1>2, <1>3

LEMMA CustodyNext == Inv /\ Custody /\ [Next]_vars => Custody'
  <1> SUFFICES ASSUME Inv, Custody, [Next]_vars PROVE Custody'
    OBVIOUS
  <1>1. CASE UNCHANGED vars
    BY <1>1 DEF vars, portVars, agentVars, procVars, logVars, Custody, Known, Pinned, Closing
  <1>2. ASSUME NEW t \in Target, StartOne(t) PROVE Custody'
    <2>1. pc[t] \notin Settled
      BY <1>2 DEF StartOne, Settled, Go, Answer, Begin, Resolve, ResolveFails, ResolveRaises,
                  PickPort, PickFails, PickRaises, TakePort, Spawn, SpawnFails, Ready, WaitRaises,
                  NotReady
    <2> QED
      BY <1>2, <2>1, WorkerKeepsCustody, KillsKeepCustody DEF StartOne
  <1>3. ASSUME NEW t \in Target, Crash(t) PROVE Custody'
    BY <1>3, KillsKeepCustody
  <1>4. CASE StartAll \/ LeaveBlock \/ Exit
    BY <1>4, MainKeepsCustody, KillsKeepCustody DEF Exit
  <1> QED
    BY <1>1, <1>2, <1>3, <1>4 DEF Next

-----------------------------------------------------------------------------
(* What start_all returns has an answer for each target, and a ready one has *)
(* its two ports and will be killed, whichever workers failed or agents      *)
(* crashed meanwhile (start_all, _start_one).                               *)
THEOREM OutcomesSound == Spec => []OutcomesComplete
  <1>1. Inv => OutcomesComplete
    BY DEF Inv, Allocated, Answering, Waited, OutcomesComplete
  <1> QED
    BY <1>1, InvInit, InvNext, PTL DEF Spec

(* An agent never outlives the pin of the tree it runs from, unless a worker *)
(* raised while it waited for it or its wrapper left it behind (start_all,   *)
(* __exit__, _kill_pgroup).                                                 *)
THEOREM PinsCoverAgents == Spec => []AgentsArePinned
  <1>1. Inv /\ Custody => AgentsArePinned
    BY ClusterAssumption
       DEF Inv, TypeOK, Custody, Known, Pinned, Closing, Waited, Settled,
           AgentsArePinned, Alive, Escaped, Orphaned
  <1> QED
    BY <1>1, InvInit, InvNext, CustodyInit, CustodyNext, PTL DEF Spec

(* When the block is over, no process, log or pin is left but those agents    *)
(* and the log of a start that failed (__exit__).                           *)
THEOREM BlockLeavesNothing == Spec => []NothingLeft
  <1>1. Inv /\ Custody => NothingLeft
    BY ClusterAssumption
       DEF Inv, TypeOK, Custody, Known, Closing, NothingLeft, Alive, Escaped, Orphaned,
           Waited, Settled
  <1> QED
    BY <1>1, InvInit, InvNext, CustodyInit, CustodyNext, PTL DEF Spec
=============================================================================
