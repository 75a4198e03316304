------------------------------- MODULE ItkRun -------------------------------
(***************************************************************************)
(* POST /run of itk_service_v2.py over run_scenarios of itk_runner.py:      *)
(* from a batch of declarations to the response, with requests that wait    *)
(* for each other on _execution_lock.                                       *)
(*                                                                         *)
(* An action is what the handler does between two awaits.  What a Cluster   *)
(* and a traversal do is in Cluster and Traversal: here agents start or do   *)
(* not, and a traversable graph passes or fails.                            *)
(***************************************************************************)
EXTENDS Resolver

CONSTANTS
    Request,
    Batch,     \* bodies of POST /run: the sequence tests, and sut_sdk or None
    Posts      \* per request, the bodies it may have

ASSUME RequestAssumption == None \notin Request

(* Agents, peers and edges come in lists (schema.py); "u->v" is two indices,   *)
(* and a name is its words (Resolver).                                        *)
ASSUME BatchAssumption ==
    \A b \in DOMAIN Batch : \A i \in DOMAIN Batch[b].tests :
        LET d == Batch[b].tests[i]
        IN  /\ d.name \in Seq(Range(d.name))
            /\ d.edges = None \/ d.edges \in Seq(Nat \X Nat)
            /\ IF d.legacy THEN d.sdks \in Seq(Agents(d.sdks))
               ELSE /\ d.peers = None \/ d.peers \in Seq(Agents(d.peers))
                    /\ d.topology \in {"star", "chain", "euler"}

VARIABLES
    body,      \* per request, the one it has
    pc,
    lock,      \* the holder of _execution_lock, or None
    agents,    \* per request, the agents its Cluster runs
    missing,   \* dropped_peers
    todo,      \* runnable: scenarios with the graph to run, of which the first is next
    trimmed,   \* pairs of a name and an agent
    skipped,   \* names
    results,   \* records of name, sub, passed, sdks and edges
    response   \* None before the answer

vars == <<body, pc, lock, agents, missing, todo, trimmed, skipped, results, response>>

(* _prepare, which depends on the body alone. *)
Resolved == [b \in DOMAIN Batch |-> Scenarios(Batch[b].tests, Batch[b].sut_sdk)]

Malformed == {b \in DOMAIN Batch : \/ Batch[b].tests = <<>>
                                  \/ ResolutionError(Batch[b].tests, Batch[b].sut_sdk)
                                  \/ Resolved[b] = {}}

Prepared(r) == Resolved[body[r]]

Planned(r) == UNION {Agents(s.sdks) : s \in Prepared(r)}

Init ==
    /\ body \in {f \in [Request -> DOMAIN Batch] : \A r \in Request : f[r] \in Posts[r]}
    /\ pc = [r \in Request |-> "idle"]
    /\ lock = None
    /\ agents = [r \in Request |-> {}]
    /\ missing = [r \in Request |-> {}]
    /\ todo = [r \in Request |-> {}]
    /\ trimmed = [r \in Request |-> {}]
    /\ skipped = [r \in Request |-> {}]
    /\ results = [r \in Request |-> {}]
    /\ response = [r \in Request |-> None]

-----------------------------------------------------------------------------
(* An HTTPException has no results. *)
Error(code) == [status |-> code, results |-> {}, allPassed |-> FALSE, startup |-> {}]

(* Mutant: what was skipped is not reported. *)
ServedWithoutSkips(r, res, lost, trim, skip) ==
    [status |-> 200, results |-> res, allPassed |-> \A x \in res : x.passed,
     startup |-> IF lost = {} THEN {}
                 ELSE {[dropped |-> lost, trimmed |-> trim, skipped |-> {}, total |-> FALSE]}]

(* all() of no results is True.  `startup' holds the report on lost agents, if *)
(* there is one.                                                              *)
Served(r, res, lost, trim, skip) ==
    [status |-> 200, results |-> res, allPassed |-> \A x \in res : x.passed,
     startup |-> IF lost = {} THEN {}
                 ELSE {[dropped |-> lost, trimmed |-> trim, skipped |-> skip, total |-> FALSE]}]

(* _cluster_failure_response: every scenario failed. *)
ClusterFailure(r, lost) ==
    [status |-> 200,
     results |-> {[name |-> s.name, sub |-> <<>>, passed |-> FALSE, sdks |-> s.sdks,
                   edges |-> s.edges] : s \in Prepared(r)},
     allPassed |-> FALSE,
     startup |-> {[dropped |-> lost, trimmed |-> {}, skipped |-> {}, total |-> TRUE]}]

(* Mutant: the lock is left before the Cluster block. *)
AnswerBeforeTeardown(r, answer) ==
    /\ response' = [response EXCEPT ![r] = answer]
    /\ pc' = [pc EXCEPT ![r] = "answered"]
    /\ lock' = IF lock = r THEN None ELSE lock
    /\ UNCHANGED agents

(* Mutant: the lock is never left. *)
AnswerLocked(r, answer) ==
    /\ response' = [response EXCEPT ![r] = answer]
    /\ pc' = [pc EXCEPT ![r] = "answered"]
    /\ agents' = [agents EXCEPT ![r] = {}]
    /\ UNCHANGED lock

(* The handler returns or raises: the Cluster block, if any, and the lock are *)
(* left on the way.                                                           *)
Answer(r, answer) ==
    /\ response' = [response EXCEPT ![r] = answer]
    /\ pc' = [pc EXCEPT ![r] = "answered"]
    /\ agents' = [agents EXCEPT ![r] = {}]
    /\ lock' = IF lock = r THEN None ELSE lock

-----------------------------------------------------------------------------
(* No tests, a malformed or unbindable declaration, or nothing left to run.    *)
Reject(r) ==
    /\ pc[r] = "idle"
    /\ body[r] \in Malformed
    /\ Answer(r, Error(400))
    /\ UNCHANGED <<body, missing, todo, trimmed, skipped, results>>

Prepare(r) ==
    /\ pc[r] = "idle"
    /\ body[r] \notin Malformed
    /\ pc' = [pc EXCEPT ![r] = "lock"]
    /\ UNCHANGED <<body, lock, agents, missing, todo, trimmed, skipped, results, response>>

TakeLock(r) ==
    /\ pc[r] = "lock" /\ lock = None
    /\ lock' = r
    /\ pc' = [pc EXCEPT ![r] = "plan"]
    /\ UNCHANGED <<body, agents, missing, todo, trimmed, skipped, results, response>>

(* _plan in a thread: an unknown agent or ref is 400, a fetch that keeps       *)
(* failing 502.                                                              *)
PlanFails(r) ==
    /\ pc[r] = "plan"
    /\ \E code \in {400, 502} : Answer(r, Error(code))
    /\ UNCHANGED <<body, missing, todo, trimmed, skipped, results>>

Plan(r) ==
    /\ pc[r] = "plan" /\ Planned(r) \subseteq {SUT} \cup Range(Lines)
    /\ pc' = [pc EXCEPT ![r] = "start"]
    /\ UNCHANGED <<body, lock, agents, missing, todo, trimmed, skipped, results, response>>

(* start_all in a thread: some agents come up. *)
StartAll(r) ==
    /\ pc[r] = "start"
    /\ \E up \in SUBSET Planned(r) :
          /\ agents' = [agents EXCEPT ![r] = up]
          /\ missing' = [missing EXCEPT ![r] = Planned(r) \ up]
    /\ pc' = [pc EXCEPT ![r] = "select"]
    /\ UNCHANGED <<body, lock, todo, trimmed, skipped, results, response>>

StartAllRaises(r) ==
    /\ pc[r] = "start"
    /\ Answer(r, Error(500))
    /\ UNCHANGED <<body, missing, todo, trimmed, skipped, results>>

-----------------------------------------------------------------------------
(* _select_runnable, with the agents that are up: a scenario is run as authored, *)
(* or rebuilt for the survivors, or not at all.                               *)
Lost(s, up) == Agents(s.sdks) \ up

Runs(s, up) == Lost(s, up) = {} \/ Survives(s.sdks, s.topology, s.edges, up)

Graph(s, up) ==
    IF Lost(s, up) = {} THEN [sdks |-> s.sdks, edges |-> s.edges]
    ELSE RestrictToAvailable(s.sdks, s.topology, s.edges, up)

Runnable(r) ==
    {[scenario |-> s, graph |-> Graph(s, agents[r])] : s \in {x \in Prepared(r) : Runs(x, agents[r])}}

Trimmed(r) == UNION {{<<s.name, a>> : a \in Lost(s, agents[r])} :
                     s \in {x \in Prepared(r) : Runs(x, agents[r])}}

Skipped(r) == {s.name : s \in {x \in Prepared(r) : ~Runs(x, agents[r])}}

(* Mutant: the code under test may be missing like a peer. *)
SelectAnyway(r) ==
    /\ pc[r] = "select" /\ Runnable(r) # {}
    /\ todo' = [todo EXCEPT ![r] = Runnable(r)]
    /\ trimmed' = [trimmed EXCEPT ![r] = Trimmed(r)]
    /\ skipped' = [skipped EXCEPT ![r] = Skipped(r)]
    /\ pc' = [pc EXCEPT ![r] = "execute"]
    /\ UNCHANGED <<body, lock, agents, missing, results, response>>

Select(r) ==
    /\ pc[r] = "select" /\ SUT \notin missing[r] /\ Runnable(r) # {}
    /\ todo' = [todo EXCEPT ![r] = Runnable(r)]
    /\ trimmed' = [trimmed EXCEPT ![r] = Trimmed(r)]
    /\ skipped' = [skipped EXCEPT ![r] = Skipped(r)]
    /\ pc' = [pc EXCEPT ![r] = "execute"]
    /\ UNCHANGED <<body, lock, agents, missing, results, response>>

(* ClusterStartupError: the SUT is down, or no scenario can run. *)
NothingToTest(r) ==
    /\ pc[r] = "select" /\ (SUT \in missing[r] \/ Runnable(r) = {})
    /\ Answer(r, ClusterFailure(r, missing[r]))
    /\ UNCHANGED <<body, missing, todo, trimmed, skipped, results>>

-----------------------------------------------------------------------------
(* The traversals of a scenario: its graph, or its subtests, named by their    *)
(* agents unless they are all.                                               *)
Tests(scenario, graph) ==
    IF scenario.subtests
    THEN {[sub |-> IF Len(g.sdks) = Len(graph.sdks) THEN <<>> ELSE g.sdks,
           sdks |-> g.sdks, edges |-> g.edges] : g \in ValidSubgraphs(graph.sdks, graph.edges)}
    ELSE {[sub |-> <<>>, sdks |-> graph.sdks, edges |-> graph.edges]}

(* A graph that cannot be walked raises, which is a failed result.             *)
Outcomes(t) == IF Traversable(t.sdks, t.edges) THEN BOOLEAN ELSE {FALSE}

(* Whatever stays down, the subtests of a scenario that runs have all of its   *)
(* agents.  Nothing in the code sees to it: an edge list that cannot be walked  *)
(* has no subtests.                                                           *)
SubtestsCovered ==
    \A b \in DOMAIN Batch \ Malformed : \A s \in Resolved[b] :
        \A up \in SUBSET UNION {Agents(x.sdks) : x \in Resolved[b]} :
            s.subtests /\ Runs(s, up) =>
                LET g    == Graph(s, up)
                    subs == ValidSubgraphs(g.sdks, g.edges)
                IN  subs # {} /\ Agents(g.sdks) \subseteq UNION {Agents(x.sdks) : x \in subs}

(* A test is stored under one string, the scenario's name or                    *)
(* f"{label}-sub-{'-'.join(sub_sdks)}", whose words are these.                 *)
Key(x) ==
    IF x.sub = <<>> THEN x.name
    ELSE x.name \o <<{"sub"}>> \o [k \in DOMAIN x.sub |-> {x.sub[k]}]

(* resolve_all compares the names of scenarios only.  Nothing in the code sees   *)
(* to it that no scenario is named like a subtest of another one.               *)
NamedLikeSubtest(t, s) ==
    /\ s.subtests /\ Len(t.name) > Len(s.name)
    /\ \A i \in 1..Len(s.name) : t.name[i] = s.name[i]
    /\ t.name[Len(s.name) + 1] = {"sub"}

KeysApart ==
    \A b \in DOMAIN Batch \ Malformed : \A s, t \in Resolved[b] : ~NamedLikeSubtest(t, s)

(* execute_itk_test: the traversals of one scenario, one after the other; what   *)
(* has the key of one of them is replaced.                                    *)
Execute(r) ==
    /\ pc[r] = "execute"
    /\ \E next \in todo[r] :
          /\ \A other \in todo[r] : ~Before(other.scenario.at, next.scenario.at)
          /\ LET tests == Tests(next.scenario, next.graph)
             IN  \E passed \in [tests -> BOOLEAN] :
                    LET new == {[name |-> next.scenario.name, sub |-> t.sub, passed |-> passed[t],
                                 sdks |-> t.sdks, edges |-> t.edges] : t \in tests}
                    IN  /\ \A t \in tests : passed[t] \in Outcomes(t)
                        /\ results' = [results EXCEPT ![r] =
                               new \cup {x \in @ : \A y \in new : Key(y) # Key(x)}]
          /\ todo' = [todo EXCEPT ![r] = @ \ {next}]
    /\ UNCHANGED <<body, pc, lock, agents, missing, trimmed, skipped, response>>

Respond(r) ==
    /\ pc[r] = "execute" /\ todo[r] = {}
    /\ Answer(r, Served(r, results[r], missing[r], trimmed[r], skipped[r]))
    /\ UNCHANGED <<body, missing, todo, trimmed, skipped, results>>

-----------------------------------------------------------------------------
Serve(r) ==
    \/ Reject(r) \/ Prepare(r) \/ PlanFails(r) \/ Plan(r)
    \/ StartAll(r) \/ StartAllRaises(r) \/ Select(r) \/ NothingToTest(r)
    \/ Execute(r) \/ Respond(r)

Next == \E r \in Request : Serve(r) \/ TakeLock(r)

(* Fetches, builds, readiness and traversals have timeouts; asyncio.Lock       *)
(* serves its waiters in their order.                                        *)
Fairness == \A r \in Request : WF_vars(Serve(r)) /\ SF_vars(TakeLock(r))

Spec == Init /\ [][Next]_vars
FairSpec == Spec /\ Fairness

-----------------------------------------------------------------------------
Completed(r) == pc[r] = "answered" /\ response[r].status = 200

(* Only a run under the lock has agents (itk_runner.py:112-116): ports, cache   *)
(* and notification port are one run's at a time.                             *)
ClusterUnderLock == \A r \in Request : agents[r] # {} => lock = r

(* Peers of a declaration that can speak the transports, with the name of the   *)
(* scenario each belongs to.                                                  *)
Meant(d, sut) ==
    IF d.legacy THEN {[name |-> d.name, peer |-> a] : a \in Range(d.sdks)}
    ELSE LET peers == IF d.peers = None THEN Range(Lines)
                      ELSE Range(d.peers) \cup {p \in Range(Lines) : d.ownLines /\ SdkOf[p] = sut}
             able(ts) == {p \in peers : IF d.together THEN ts \subseteq Speaks[p]
                                        ELSE ts \cap Speaks[p] # {}}
             name(ts, p) == IF d.together THEN NameOf(d, [used |-> ts, peer |-> None])
                            ELSE NameOf(d, [used |-> ts \cap Speaks[p], peer |-> p])
         IN  UNION {{[name |-> name(ts, p), peer |-> p] : p \in able(ts)} : ts \in Range(d.variants)}

(* What a body asks for, without what the log of its resolution reports lost. *)
Owed == [b \in DOMAIN Batch |->
    LET tests == Batch[b].tests
        sut   == Batch[b].sut_sdk
    IN  {m \in UNION {Meant(tests[i], sut) : i \in {j \in DOMAIN tests :
                         tests[j].legacy \/ j \in Wanted(tests, sut)}} :
            /\ m.name \notin SkippedAtResolution(tests, sut)
            /\ <<m.name, m.peer>> \notin TrimmedAtResolution(tests, sut)}]

Ran(r, m) == \E x \in response[r].results : x.name = m.name /\ m.peer \in Range(x.sdks)

Reported(r, m) ==
    \E report \in response[r].startup :
        m.name \in report.skipped \/ <<m.name, m.peer>> \in report.trimmed

(* "a run that quietly tests less than the file describes and still goes green  *)
(* is the failure mode this pipeline exists to prevent" (itk_runner.py:82-84):  *)
(* every agent of every declared scenario has a result or is reported lost.     *)
LossReported ==
    \A r \in Request : Completed(r) => \A m \in Owed[body[r]] : Ran(r, m) \/ Reported(r, m)

(* A green response has tested something, and with the code under test         *)
(* wherever the declaration has it (itk_runner.py:439-446, 455-463).            *)
GreenMeansTested ==
    \A r \in Request : Completed(r) /\ response[r].allPassed =>
        /\ response[r].results # {}
        /\ \A x \in response[r].results, s \in Prepared(r) :
              x.name = s.name /\ SUT \in Range(s.sdks) => SUT \in Range(x.sdks) \/ x.sub # <<>>

Times(e, s) == LET E == TargetEdges(s.edges, s.sdks) IN Cardinality({k \in DOMAIN E : E[k] = e})

Walks(sub, whole) ==
    \A e \in Range(TargetEdges(sub.edges, sub.sdks)) : Times(e, sub) <= Times(e, whole)

(* Unless it was rebuilt from its topology, a scenario and its subtests walk    *)
(* edges of the scenario only, none more often: positions are never re-read in  *)
(* another list (topology.py:117-121), and a subtest is an induced subgraph     *)
(* (docs/interoperability/02_architecture.md:116).  A subtest without any edge   *)
(* is the exception: `if edges' takes its list for none (__init__.py:206).      *)
WalksAuthoredEdges ==
    \A r \in Request : \A x \in results[r], s \in Prepared(r) :
        /\ x.name = s.name /\ x.edges # <<>>
        /\ s.topology = None \/ \A a \in Range(s.sdks) : <<s.name, a>> \notin trimmed[r]
        => Walks(x, s)

(* "Results are keyed by name, so one would overwrite the other and the run       *)
(* would silently test less than it reports" (resolver.py:160-163): of a scenario  *)
(* that has been executed, no test loses its result to a later one.             *)
ResultsKept ==
    \A r \in Request : pc[r] = "execute" =>
        \A run \in Runnable(r) \ todo[r] : \A t \in Tests(run.scenario, run.graph) :
            \E x \in results[r] : /\ x.name = run.scenario.name /\ x.sub = t.sub
                                  /\ x.sdks = t.sdks /\ x.edges = t.edges

(* A request that waits for the lock is answered.                              *)
Answered == \A r \in Request : pc[r] = "lock" ~> pc[r] = "answered"

=============================================================================
