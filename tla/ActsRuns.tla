------------------------------ MODULE ActsRuns ------------------------------
(***************************************************************************)
(* Conformance runs and the environment their SUTs inherit,                *)
(* acts_runner.py; traversal runs (itk_runner.py) start a SUT beside them. *)
(*                                                                         *)
(* A conformance run tests the SUT as it is, then, for each deviation, the  *)
(* tests that the first pass skipped for want of it, against a second SUT  *)
(* that is told to deviate by a variable of this process's environment.    *)
(* An action is a step of the event loop, from one await to the next, or    *)
(* the spawn of a SUT in its worker thread.                                *)
(***************************************************************************)
EXTENDS Naturals, FiniteSets

CONSTANTS
    Run,        \* conformance runs: POST /run-acts, or a binding of run_acts.py
    Traversal,  \* traversal runs: POST /run
    External,   \* the conformance runs that were given a sut_url
    Given,      \* per conformance run, the deviations it was given a URL for
    Honoured,   \* the deviations this SUT honours
    Test,       \* the tests in scope
    Needs,      \* per test, the deviations its preconditions ask for
    Excludes,   \* per test, the deviations they rule out
    Serial,     \* TRUE: a caller that starts one run after another (the CLI, CI)
    Nobody      \* nobody holds _execution_lock

DEVIATIONS == <<"reduced", "auth">>   \* ITK_ACTS_REDUCED_CAPABILITIES, ITK_ACTS_AUTH
Deviation  == {"reduced", "auth"}
Request    == Run \cup Traversal

ASSUME ActsAssumption ==
    /\ Run \cap Traversal = {} /\ External \subseteq Run
    /\ Given \in [Run -> SUBSET Deviation]
    /\ Honoured \subseteq Deviation
    /\ Needs \in [Test -> SUBSET Deviation]
    /\ Excludes \in [Test -> SUBSET Deviation]
    /\ Serial \in BOOLEAN
    /\ Nobody \notin Request

VARIABLES
    env,        \* the deviations whose variable is set in os.environ
    pc,         \* where a request is
    pass,       \* its pass: 0, or an index of DEVIATIONS
    previous,   \* whether its _sut_env found the variable set
    sut,        \* the deviations the SUT of its pass is in
    results,    \* per conformance run and test, the verdict
    lock        \* the holder of itk_runner._execution_lock

vars == <<env, pc, pass, previous, sut, results, lock>>

Resting == {"idle", "served", "failed"}
PC      == Resting \cup {"lock", "spawn", "test"}
Reason  == Deviation \cup {"unset", "none", "other"}

(* A TestResult: why it was skipped ("none": it ran), the SUT that gave the *)
(* verdict (history: the code does not record it), and its `configuration'. *)
Result == [reason : Reason, by : SUBSET Deviation, configuration : SUBSET Deviation]

Unset == [reason |-> "unset", by |-> {}, configuration |-> {}]

Init ==
    /\ env = {}
    /\ pc = [q \in Request |-> "idle"]
    /\ pass = [q \in Request |-> 0]
    /\ previous = [q \in Request |-> FALSE]
    /\ sut = [q \in Request |-> {}]
    /\ results = [r \in Run |-> [t \in Test |-> Unset]]
    /\ lock = Nobody

-----------------------------------------------------------------------------
(* What deviates in pass i. *)
Asked(i) == IF i = 0 THEN {} ELSE {DEVIATIONS[i]}

(* _unmet_precondition: the first unmet one, capabilities before            *)
(* authentication.  Only a deviation the card lacks can be claimed by a     *)
(* pass; "other" is a skip no deviation claims.                             *)
SkipReason(t, mode) ==
    IF "reduced" \in Needs[t] \ mode THEN "reduced"
    ELSE IF "reduced" \in Excludes[t] \cap mode THEN "other"
    ELSE IF "auth" \in Needs[t] \ mode THEN "auth"
    ELSE IF "auth" \in Excludes[t] \cap mode THEN "other"
    ELSE "none"

Verdict(t, mode, configuration) ==
    [reason |-> SkipReason(t, mode), by |-> mode, configuration |-> configuration]

(* _skips_matching *)
Blocked(res, i) == {t \in Test : res[t].reason = DEVIATIONS[i]}

(* Mutant: the rerun replaces every verdict. *)
SplicedAll(r, i, mode) ==
    [t \in Test |-> IF Asked(i) \subseteq mode THEN Verdict(t, mode, Asked(i))
                                               ELSE results[r][t]]

(* Mutant: the card is not asked whether the deviation took effect. *)
SplicedUnchecked(r, i, mode) ==
    [t \in Test |-> IF t \in Blocked(results[r], i) THEN Verdict(t, mode, Asked(i))
                                                    ELSE results[r][t]]

(* The tests that were blocked get the rerun's verdicts, if took_effect. *)
Spliced(r, i, mode) ==
    [t \in Test |->
        IF t \in Blocked(results[r], i) /\ Asked(i) \subseteq mode
          THEN Verdict(t, mode, Asked(i)) ELSE results[r][t]]

(* Mutant: the variable stays set. *)
EnvLeftSet(r) == env

(* os.environ when the `with' of the pass is left: _sut_env restores what   *)
(* it found, a pass on a given URL has no _sut_env.                         *)
EnvLeft(r) ==
    IF r \in External THEN env
    ELSE IF previous[r] THEN env \cup Asked(pass[r]) ELSE env \ Asked(pass[r])

(* Mutant: a deviation is tried as long as something is blocked. *)
LaterPassesOrSame(r, res) ==
    {i \in pass[r]..2 :
        /\ i # 0
        /\ r \in External => DEVIATIONS[i] \in Given[r]
        /\ Blocked(res, i) # {}}

(* The deviations still to come that are not passed over. *)
LaterPasses(r, res) ==
    {i \in (pass[r] + 1)..2 :
        /\ r \in External => DEVIATIONS[i] \in Given[r]
        /\ Blocked(res, i) # {}}

End(q, how) ==
    /\ pc' = [pc EXCEPT ![q] = how]
    /\ pass' = [pass EXCEPT ![q] = 0]
    /\ previous' = [previous EXCEPT ![q] = FALSE]

(* The loop over DEVIATIONS goes on with verdicts res: no await before the  *)
(* next pass has set its variable.                                          *)
Continue(r, res) ==
    LET later == LaterPasses(r, res)
    IN  /\ results' = [results EXCEPT ![r] = res]
        /\ sut' = [sut EXCEPT ![r] = {}]
        /\ UNCHANGED lock
        /\ \/ later = {} /\ env' = EnvLeft(r) /\ End(r, "served")
           \/ \E i \in later :
                /\ \A j \in later : i <= j
                /\ pc' = [pc EXCEPT ![r] = "spawn"]
                /\ pass' = [pass EXCEPT ![r] = i]
                /\ previous' = [previous EXCEPT
                        ![r] = r \notin External /\ Asked(i) \subseteq EnvLeft(r)]
                /\ env' = EnvLeft(r) \cup (IF r \in External THEN {} ELSE Asked(i))

-----------------------------------------------------------------------------
(***************************************************************************)
(* A conformance run                                                       *)
(***************************************************************************)
(* External SUTs take nothing from the environment: their runs never mind. *)
AllRest(requests) == \A q \in requests \ External : pc[q] \in Resting

Accept(r) ==
    /\ pc[r] = "idle"
    /\ Given[r] = {} \/ r \in External
    /\ Serial /\ r \notin External => AllRest(Request)
    /\ pc' = [pc EXCEPT ![r] = "spawn"]
    /\ UNCHANGED <<env, pass, previous, sut, results, lock>>

(* Deviation URLs without sut_url, unknown tests, an unreadable contract. *)
Refuse(r) ==
    /\ pc[r] = "idle"
    /\ pc' = [pc EXCEPT ![r] = "failed"]
    /\ UNCHANGED <<env, pass, previous, sut, results, lock>>

(* The SUT inherits the environment of this moment; an external one was     *)
(* started by the caller.                                                   *)
Spawn(r) ==
    /\ pc[r] = "spawn"
    /\ pc' = [pc EXCEPT ![r] = "test"]
    /\ sut' = [sut EXCEPT ![r] =
                (IF r \in External THEN Asked(pass[r]) ELSE env) \cap Honoured]
    /\ UNCHANGED <<env, pass, previous, results, lock>>

(* An ActsRunError: no SUT, or no usable card.  A deviation pass keeps what *)
(* there is.                                                                *)
PassCannotRun(r) ==
    /\ pc[r] \in {"spawn", "test"}
    /\ pass[r] # 0
    /\ Continue(r, results[r])

(* The same in the main pass, or any other exception: 400 or 500. *)
RunRaises(r) ==
    /\ pc[r] \in {"spawn", "test"}
    /\ env' = EnvLeft(r)
    /\ End(r, "failed")
    /\ sut' = [sut EXCEPT ![r] = {}]
    /\ UNCHANGED <<results, lock>>

MainPass(r) ==
    /\ pc[r] = "test"
    /\ pass[r] = 0
    /\ Continue(r, [t \in Test |-> Verdict(t, sut[r], {})])

DeviationPass(r) ==
    /\ pc[r] = "test"
    /\ pass[r] # 0
    /\ Continue(r, Spliced(r, pass[r], sut[r]))

-----------------------------------------------------------------------------
(***************************************************************************)
(* A traversal run, which starts the mounted SUT under _execution_lock     *)
(***************************************************************************)
Arrive(q) ==
    /\ pc[q] = "idle"
    /\ Serial => AllRest(Run)
    /\ pc' = [pc EXCEPT ![q] = "lock"]
    /\ UNCHANGED <<env, pass, previous, sut, results, lock>>

TakeLock(q) ==
    /\ pc[q] = "lock"
    /\ lock = Nobody
    /\ lock' = q
    /\ pc' = [pc EXCEPT ![q] = "spawn"]
    /\ UNCHANGED <<env, pass, previous, sut, results>>

SpawnCluster(q) ==
    /\ pc[q] = "spawn"
    /\ pc' = [pc EXCEPT ![q] = "test"]
    /\ sut' = [sut EXCEPT ![q] = env \cap Honoured]
    /\ UNCHANGED <<env, pass, previous, results, lock>>

EndTraversal(q) ==
    /\ pc[q] \in {"spawn", "test"}
    /\ \E how \in {"served", "failed"} : End(q, how)
    /\ sut' = [sut EXCEPT ![q] = {}]
    /\ lock' = Nobody
    /\ UNCHANGED <<env, results>>

-----------------------------------------------------------------------------
ActsStep(r) ==
    \/ Spawn(r) \/ PassCannotRun(r) \/ RunRaises(r) \/ MainPass(r) \/ DeviationPass(r)

TraversalStep(q) == SpawnCluster(q) \/ EndTraversal(q)

Next ==
    \/ \E r \in Run : Accept(r) \/ Refuse(r) \/ ActsStep(r)
    \/ \E q \in Traversal : Arrive(q) \/ TakeLock(q) \/ TraversalStep(q)

Spec == Init /\ [][Next]_vars

(* Starts and calls have timeouts; an asyncio.Lock serves its waiters in    *)
(* turn.                                                                    *)
Fairness ==
    /\ \A r \in Run : WF_vars(ActsStep(r))
    /\ \A q \in Traversal : WF_vars(TraversalStep(q)) /\ SF_vars(TakeLock(q))

FairSpec == Spec /\ Fairness

-----------------------------------------------------------------------------
(***************************************************************************)
(* Properties                                                              *)
(***************************************************************************)
(* The types of the variables; one traversal at a time has a cluster        *)
(* (acts_runner.py, itk_runner.run_scenarios).                              *)
TypeOK ==
    /\ env \subseteq Deviation
    /\ pc \in [Request -> PC]
    /\ pass \in [Request -> 0..2]
    /\ previous \in [Request -> BOOLEAN]
    /\ sut \in [Request -> SUBSET Deviation]
    /\ results \in [Run -> [Test -> Result]]
    /\ lock \in Traversal \cup {Nobody}
    /\ \A q \in Traversal : lock = q <=> pc[q] \in {"spawn", "test"}
    /\ \A r \in Run : pc[r] # "lock"

Deviating == {r \in Run \ External : pc[r] \notin Resting /\ pass[r] # 0}

(* A deviation's variable is set for its pass, and for no longer, however   *)
(* the pass ends, so each SUT gets the configuration its pass is about      *)
(* (_sut_env).                                                              *)
EnvRestored == env = UNION {Asked(pass[r]) : r \in Deviating}

(* "It is set inside and gone after" (tests/test_acts_deviations.py:324):   *)
(* once no pass deviates, no variable is set (_sut_env).                    *)
EnvGoneAfter == Deviating = {} => env = {}

(* "A verdict from a differently-configured instance is not                 *)
(* interchangeable with one from the agent the rest of the run tested"      *)
(* (acts_runner.py:771): the stamp of every verdict is the configuration of *)
(* the SUT that gave it, and a traversal tests a SUT that does not deviate. *)
VerdictsLabelled ==
    /\ \A r \in Run : \A t \in Test :
            results[r][t].by = results[r][t].configuration
    /\ \A q \in Traversal : pc[q] = "test" => sut[q] = {}

(* A deviation pass fills in skipped tests only: a verdict of a test that   *)
(* ran is final (_rerun_deviation).                                         *)
VerdictsStay ==
    [][\A r \in Run : \A t \in Test :
        results[r][t].reason = "none" => results'[r][t] = results[r][t]]_vars

(* Every request that is accepted is answered, a traversal behind others in *)
(* the queue of _execution_lock too.                                        *)
Answered == \A q \in Request : pc[q] \in {"spawn", "lock"} ~> pc[q] \in Resting
=============================================================================
