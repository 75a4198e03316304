--------------------------- MODULE ActsRunsProofs ---------------------------
(***************************************************************************)
(* Runs that are started one after another leave the environment as they   *)
(* found it, and label every verdict with the configuration that gave it.  *)
(***************************************************************************)
EXTENDS ActsRuns, TLAPS

Active(q) == pc[q] \notin Resting

(* A conformance run with SUTs of its own is the only one that has any. *)
OneAtATime ==
    \A a, b \in Request \ External :
        a # b /\ Active(a) /\ Active(b) => a \in Traversal /\ b \in Traversal

(* Passes are open in conformance runs only, and never nested. *)
PassesOpen ==
    \A q \in Request :
        /\ pass[q] # 0 => q \in Run /\ Active(q)
        /\ ~previous[q]

(* A SUT deviates at most as its pass asks. *)
SutAsAsked == \A q \in Request : pc[q] = "test" => sut[q] \subseteq Asked(pass[q])

Inv == TypeOK /\ OneAtATime /\ PassesOpen /\ EnvRestored /\ SutAsAsked /\ VerdictsLabelled

-----------------------------------------------------------------------------
(* What a pass asks for (DEVIATIONS). *)
LEMMA AskedDeviates ==
    \A i \in 0..2 : Asked(i) \subseteq Deviation /\ (i = 0 <=> Asked(i) = {})
  BY DEF Asked, DEVIATIONS, Deviation

(* Verdicts are results (_unmet_precondition). *)
LEMMA VerdictType ==
    ASSUME NEW t \in Test, NEW mode \in SUBSET Deviation, NEW conf \in SUBSET Deviation
    PROVE  /\ Verdict(t, mode, conf) \in Result
           /\ Verdict(t, mode, conf).by = mode
           /\ Verdict(t, mode, conf).configuration = conf
  <1>1. SkipReason(t, mode) \in Reason
    BY DEF SkipReason, Reason, Deviation
  <1> QED
    BY <1>1 DEF Verdict, Result

(* While a run with SUTs of its own is on, its pass decides the environment *)
(* (_sut_env).                                                              *)
LEMMA EnvOfActive ==
    ASSUME Inv, NEW r \in Run \ External, Active(r)
    PROVE  /\ env = Asked(pass[r])
           /\ Deviating \subseteq {r}
           /\ EnvLeft(r) = {}
  <1>1. Deviating \subseteq {r}
    BY ActsAssumption DEF Inv, OneAtATime, Deviating, Active, Request
  <1>2. env = Asked(pass[r])
    <2>1. CASE pass[r] = 0
      <3>1. Deviating = {}
        BY <1>1, <2>1 DEF Deviating
      <3> QED
        BY <3>1, <2>1 DEF Inv, EnvRestored, Asked
    <2>2. CASE pass[r] # 0
      <3>1. Deviating = {r}
        BY <1>1, <2>2 DEF Deviating, Active
      <3> QED
        BY <3>1 DEF Inv, EnvRestored
    <2> QED
      BY <2>1, <2>2
  <1>3. EnvLeft(r) = {}
    BY <1>2 DEF EnvLeft, Inv, PassesOpen, Request
  <1> QED
    BY <1>1, <1>2, <1>3

(* The loop over the deviations goes on: every part but the verdicts'       *)
(* labels (run, from the end of a pass to the next).                        *)
LEMMA ContinueKeeps ==
    ASSUME Inv, NEW r \in Run, Active(r), NEW res \in [Test -> Result],
           \A t \in Test : res[t].by = res[t].configuration,
           Continue(r, res)
    PROVE  Inv'
  <1> USE ActsAssumption DEF Request
  <1>0. TypeOK /\ pass[r] \in 0..2 /\ pc[r] \in {"spawn", "test"}
    <2>1. TypeOK
      BY DEF Inv
    <2> QED
      BY <2>1 DEF TypeOK, PC, Active, Resting
  <1>1. EnvLeft(r) \subseteq Deviation
    BY <1>0, AskedDeviates DEF TypeOK, EnvLeft
  <1>2. LaterPasses(r, res) \subseteq 1..2
    BY <1>0 DEF LaterPasses
  <1>3. /\ results' = [results EXCEPT ![r] = res]
        /\ sut' = [sut EXCEPT ![r] = {}]
        /\ lock' = lock
    BY DEF Continue
  <1>4. /\ results' \in [Run -> [Test -> Result]]
        /\ sut' \in [Request -> SUBSET Deviation]
        /\ sut'[r] = {}
        /\ \A q \in Request : q # r => sut'[q] = sut[q]
        /\ VerdictsLabelled' \/ \E q \in Traversal : pc'[q] = "test"
    BY <1>0, <1>3 DEF TypeOK, VerdictsLabelled, Inv
  <1>5. CASE env' = EnvLeft(r) /\ End(r, "served")
    <2>1. /\ pc' = [pc EXCEPT ![r] = "served"]
          /\ pass' = [pass EXCEPT ![r] = 0]
          /\ previous' = [previous EXCEPT ![r] = FALSE]
      BY <1>5 DEF End
    <2>2. TypeOK'
      BY <1>0, <1>1, <1>3, <1>4, <1>5, <2>1 DEF TypeOK, PC, Resting
    <2>3. OneAtATime' /\ PassesOpen' /\ SutAsAsked'
      BY <1>0, <1>4, <2>1 DEF TypeOK, Inv, OneAtATime, PassesOpen, SutAsAsked, Active, Resting
    <2>4. VerdictsLabelled'
      BY <1>0, <1>3, <1>4, <2>1 DEF TypeOK, Inv, VerdictsLabelled
    <2>5. EnvRestored'
      <3>1. CASE r \in External
        <4>1. Deviating' = Deviating /\ \A q \in Deviating : pass'[q] = pass[q]
          BY <1>0, <2>1, <3>1 DEF Deviating, TypeOK
        <4> QED
          BY <4>1, <1>5, <3>1 DEF EnvRestored, Inv, EnvLeft
      <3>2. CASE r \notin External
        <4>1. Deviating \subseteq {r} /\ EnvLeft(r) = {}
          BY <3>2, EnvOfActive
        <4>2. Deviating' = {}
          BY <1>0, <2>1, <4>1 DEF Deviating, TypeOK, Resting
        <4> QED
          BY <4>1, <4>2, <1>5 DEF EnvRestored
      <3> QED
        BY <3>1, <3>2
    <2> QED
      BY <2>2, <2>3, <2>4, <2>5 DEF Inv
  <1>6. ASSUME NEW i \in 1..2,
               pc' = [pc EXCEPT ![r] = "spawn"],
               pass' = [pass EXCEPT ![r] = i],
               previous' = [previous EXCEPT
                    ![r] = r \notin External /\ Asked(i) \subseteq EnvLeft(r)],
               env' = EnvLeft(r) \cup (IF r \in External THEN {} ELSE Asked(i))
        PROVE  Inv'
    <2>1. r \notin External => EnvLeft(r) = {} /\ Deviating \subseteq {r}
      BY EnvOfActive
    <2>2. previous'[r] = FALSE
      <3>1. Asked(i) # {}
        BY AskedDeviates
      <3> QED
        BY <1>0, <1>6, <2>1, <3>1 DEF TypeOK
    <2>3. TypeOK'
      BY <1>0, <1>1, <1>3, <1>4, <1>6, AskedDeviates DEF TypeOK, PC, Resting
    <2>4. OneAtATime' /\ PassesOpen' /\ SutAsAsked'
      BY <1>0, <1>4, <1>6, <2>2 DEF TypeOK, Inv, OneAtATime, PassesOpen, SutAsAsked, Active, Resting
    <2>5. VerdictsLabelled'
      <3>1. \A q \in Run : \A t \in Test : results'[q][t].by = results'[q][t].configuration
        BY <1>0, <1>3 DEF TypeOK, Inv, VerdictsLabelled
      <3>2. \A q \in Traversal : pc'[q] = "test" => sut'[q] = {}
        BY <1>0, <1>4, <1>6 DEF TypeOK, Inv, VerdictsLabelled
      <3> QED
        BY <3>1, <3>2 DEF VerdictsLabelled
    <2>6. EnvRestored'
      <3>1. CASE r \in External
        <4>1. Deviating' = Deviating /\ \A q \in Deviating : pass'[q] = pass[q]
          BY <1>0, <1>6, <3>1 DEF Deviating, TypeOK
        <4> QED
          BY <4>1, <1>6, <3>1 DEF EnvRestored, Inv, EnvLeft
      <3>2. CASE r \notin External
        <4>1. Deviating' = {r} /\ pass'[r] = i
          BY <1>0, <1>6, <2>1, <3>2 DEF Deviating, TypeOK, Resting
        <4> QED
          BY <4>1, <1>6, <2>1, <3>2 DEF EnvRestored
      <3> QED
        BY <3>1, <3>2
    <2> QED
      BY <2>3, <2>4, <2>5, <2>6 DEF Inv
  <1> QED
    BY <1>2, <1>5, <1>6 DEF Continue

-----------------------------------------------------------------------------
(* Nothing has happened yet (Init). *)
LEMMA InvInit == Init => Inv
  <1> SUFFICES ASSUME Init PROVE Inv
    OBVIOUS
  <1>1. TypeOK
    BY ActsAssumption DEF Init, TypeOK, PC, Resting, Result, Reason, Unset, Request
  <1>2. OneAtATime /\ PassesOpen /\ SutAsAsked
    BY DEF Init, OneAtATime, PassesOpen, SutAsAsked, Active, Resting
  <1>3. EnvRestored
    <2>1. Deviating = {}
      BY DEF Init, Deviating, Request
    <2> QED
      BY <2>1 DEF Init, EnvRestored
  <1>4. VerdictsLabelled
    BY DEF Init, VerdictsLabelled, Unset, Request
  <1> QED
    BY <1>1, <1>2, <1>3, <1>4 DEF Inv

(* No step changes Deviating or its passes, so none changes what the        *)
(* environment should be.                                                   *)
LEMMA SameEnv ==
    ASSUME Inv, env' = env, Deviating' = Deviating,
           \A r \in Deviating : pass'[r] = pass[r]
    PROVE  EnvRestored'
  BY DEF Inv, EnvRestored

(* A run that begins or is refused (Accept, Refuse). *)
LEMMA BeginKeeps ==
    ASSUME Serial, Inv, NEW r \in Run, Accept(r) \/ Refuse(r)
    PROVE  Inv'
  <1> USE ActsAssumption DEF Request
  <1>0. TypeOK
    BY DEF Inv
  <1>1. /\ UNCHANGED <<env, pass, previous, sut, results, lock>>
        /\ pc' \in [Request -> PC]
        /\ pc[r] = "idle" /\ pc'[r] \in {"spawn", "failed"}
        /\ \A q \in Request : q # r => pc'[q] = pc[q]
        /\ Active(r)' /\ r \notin External => \A q \in Request \ External : ~Active(q)
    BY <1>0 DEF Accept, Refuse, TypeOK, PC, Resting, Active, AllRest
  <1>2. TypeOK'
    BY <1>0, <1>1 DEF TypeOK, PC, Resting
  <1>3. OneAtATime' /\ PassesOpen' /\ SutAsAsked'
    BY <1>1 DEF Inv, OneAtATime, PassesOpen, SutAsAsked, Active, Resting
  <1>4. VerdictsLabelled'
    BY <1>1 DEF Inv, VerdictsLabelled
  <1>5. EnvRestored'
    <2>1. Deviating' = Deviating
      BY <1>1 DEF Deviating, Inv, PassesOpen, Active, Resting
    <2> QED
      BY <1>1, <2>1, SameEnv
  <1> QED
    BY <1>2, <1>3, <1>4, <1>5 DEF Inv

(* A conformance run's SUT starts (Spawn). *)
LEMMA SpawnKeeps ==
    ASSUME Inv, NEW r \in Run, Spawn(r)
    PROVE  Inv'
  <1> USE ActsAssumption DEF Request
  <1>0. TypeOK
    BY DEF Inv
  <1>1. /\ UNCHANGED <<env, pass, previous, results, lock>>
        /\ pc' = [pc EXCEPT ![r] = "test"]
        /\ pc[r] = "spawn"
        /\ Active(r)
    BY DEF Spawn, Active, Resting
  <1>2. sut'[r] \subseteq Asked(pass[r])
    BY <1>0, <1>1, EnvOfActive DEF Spawn, TypeOK
  <1>3. /\ sut' \in [Request -> SUBSET Deviation]
        /\ \A q \in Request : q # r => sut'[q] = sut[q]
    BY <1>0 DEF Spawn, TypeOK
  <1>4. TypeOK'
    BY <1>0, <1>1, <1>3 DEF TypeOK, PC, Resting
  <1>5. OneAtATime' /\ PassesOpen' /\ SutAsAsked'
    BY <1>0, <1>1, <1>2, <1>3 DEF TypeOK, Inv, OneAtATime, PassesOpen, SutAsAsked, Active, Resting
  <1>6. VerdictsLabelled'
    BY <1>0, <1>1, <1>3 DEF TypeOK, Inv, VerdictsLabelled
  <1>7. EnvRestored'
    <2>1. Deviating' = Deviating
      BY <1>0, <1>1 DEF Deviating, TypeOK, Resting
    <2> QED
      BY <1>1, <2>1, SameEnv
  <1> QED
    BY <1>4, <1>5, <1>6, <1>7 DEF Inv

(* A run that ends with an exception leaves its environment (RunRaises). *)
LEMMA RaiseKeeps ==
    ASSUME Inv, NEW r \in Run, RunRaises(r)
    PROVE  Inv'
  <1> USE ActsAssumption DEF Request
  <1>0. TypeOK
    BY DEF Inv
  <1>1. /\ UNCHANGED <<results, lock>>
        /\ pc[r] \in {"spawn", "test"} /\ Active(r)
        /\ pc' = [pc EXCEPT ![r] = "failed"]
        /\ pass' = [pass EXCEPT ![r] = 0]
        /\ previous' = [previous EXCEPT ![r] = FALSE]
        /\ sut' = [sut EXCEPT ![r] = {}]
        /\ env' = EnvLeft(r)
    BY DEF RunRaises, End, Active, Resting
  <1>2. EnvLeft(r) \subseteq Deviation
    BY <1>0, AskedDeviates DEF TypeOK, EnvLeft
  <1>3. TypeOK'
    BY <1>0, <1>1, <1>2 DEF TypeOK, PC, Resting
  <1>4. OneAtATime' /\ PassesOpen' /\ SutAsAsked'
    BY <1>0, <1>1 DEF TypeOK, Inv, OneAtATime, PassesOpen, SutAsAsked, Active, Resting
  <1>5. VerdictsLabelled'
    BY <1>0, <1>1 DEF TypeOK, Inv, VerdictsLabelled
  <1>6. EnvRestored'
    <2>1. CASE r \in External
      <3>1. Deviating' = Deviating /\ \A q \in Deviating : pass'[q] = pass[q]
        BY <1>0, <1>1, <2>1 DEF Deviating, TypeOK
      <3> QED
        BY <1>1, <2>1, <3>1, SameEnv DEF EnvLeft
    <2>2. CASE r \notin External
      <3>1. Deviating \subseteq {r} /\ EnvLeft(r) = {}
        BY <1>1, <2>2, EnvOfActive
      <3>2. Deviating' = {}
        BY <1>0, <1>1, <3>1 DEF Deviating, TypeOK, Resting
      <3> QED
        BY <1>1, <3>1, <3>2 DEF EnvRestored
    <2> QED
      BY <2>1, <2>2
  <1> QED
    BY <1>3, <1>4, <1>5, <1>6 DEF Inv

(* The verdicts with which the loop goes on are labelled (_rerun_deviation, *)
(* run).                                                                    *)
LEMMA PassKeeps ==
    ASSUME Inv, NEW r \in Run, PassCannotRun(r) \/ MainPass(r) \/ DeviationPass(r)
    PROVE  Inv'
  <1> USE ActsAssumption DEF Request
  <1>0. /\ TypeOK /\ Active(r)
        /\ sut[r] \in SUBSET Deviation /\ pass[r] \in 0..2
        /\ results[r] \in [Test -> Result]
        /\ \A t \in Test : results[r][t].by = results[r][t].configuration
    BY DEF Inv, TypeOK, VerdictsLabelled, PassCannotRun, MainPass, DeviationPass, Active, Resting
  <1>1. CASE PassCannotRun(r)
    BY <1>0, <1>1, ContinueKeeps DEF PassCannotRun
  <1>2. CASE MainPass(r)
    <2> DEFINE res == [t \in Test |-> Verdict(t, sut[r], {})]
    <2>1. sut[r] = {}
      BY <1>2, AskedDeviates DEF MainPass, Inv, SutAsAsked
    <2>2. res \in [Test -> Result] /\ \A t \in Test : res[t].by = res[t].configuration
      BY <1>0, <2>1, VerdictType
    <2> QED
      BY <1>0, <1>2, <2>2, ContinueKeeps DEF MainPass
  <1>3. CASE DeviationPass(r)
    <2> DEFINE res == Spliced(r, pass[r], sut[r])
    <2>1. sut[r] \subseteq Asked(pass[r]) /\ Asked(pass[r]) \subseteq Deviation
      BY <1>0, <1>3, AskedDeviates DEF DeviationPass, Inv, SutAsAsked
    <2>2. ASSUME NEW t \in Test
          PROVE  res[t] \in Result /\ res[t].by = res[t].configuration
      <3>1. CASE t \in Blocked(results[r], pass[r]) /\ Asked(pass[r]) \subseteq sut[r]
        <4>1. sut[r] = Asked(pass[r]) /\ res[t] = Verdict(t, sut[r], Asked(pass[r]))
          BY <2>1, <3>1 DEF Spliced
        <4> QED
          BY <1>0, <2>1, <4>1, VerdictType
      <3>2. CASE ~(t \in Blocked(results[r], pass[r]) /\ Asked(pass[r]) \subseteq sut[r])
        <4>1. res[t] = results[r][t]
          BY <3>2 DEF Spliced
        <4> QED
          BY <1>0, <4>1
      <3> QED
        BY <3>1, <3>2
    <2>3. res \in [Test -> Result]
      <3>1. res = [t \in Test |-> res[t]]
        BY DEF Spliced
      <3> QED
        BY <2>2, <3>1
    <2>4. Continue(r, res)
      BY <1>3 DEF DeviationPass
    <2> HIDE DEF res
    <2> QED
      BY <1>0, <2>2, <2>3, <2>4, ContinueKeeps
  <1> QED
    BY <1>1, <1>2, <1>3

(* Traversals start where no variable is set (run_scenarios). *)
LEMMA TraversalKeeps ==
    ASSUME Serial, Inv, NEW q \in Traversal, Arrive(q) \/ TakeLock(q) \/ TraversalStep(q)
    PROVE  Inv'
  <1> USE ActsAssumption DEF Request
  <1>0. TypeOK
    BY DEF Inv
  <1>1. /\ UNCHANGED <<env, results>>
        /\ pc' \in [Request -> PC]
        /\ lock' \in Traversal \cup {Nobody}
        /\ sut' \in [Request -> SUBSET Deviation]
        /\ \A a \in Request : a # q => pc'[a] = pc[a] /\ sut'[a] = sut[a]
        /\ pc'[q] # "idle"
        /\ pc'[q] = "test" => Active(q) /\ sut'[q] \subseteq env
    BY <1>0 DEF Arrive, TakeLock, TraversalStep, SpawnCluster, EndTraversal, End,
                TypeOK, PC, Resting, Active
  <1>2. /\ Active(q) \/ \A a \in Run \ External : ~Active(a)
        /\ pass' = pass /\ previous' = previous
    <2>1. pass[q] = 0 /\ previous[q] = FALSE
      BY <1>0 DEF TypeOK, Inv, PassesOpen
    <2>2. CASE Arrive(q)
      BY <2>2 DEF Arrive, AllRest, Active
    <2>3. CASE TakeLock(q) \/ SpawnCluster(q)
      BY <2>3 DEF TakeLock, SpawnCluster, Resting, Active
    <2>4. CASE EndTraversal(q)
      <3>1. Active(q)
        BY <2>4 DEF EndTraversal, Resting, Active
      <3>2. pass' = [pass EXCEPT ![q] = 0] /\ previous' = [previous EXCEPT ![q] = FALSE]
        BY <2>4 DEF EndTraversal, End
      <3>3. pass' = pass
        BY <1>0, <2>1, <3>2 DEF TypeOK
      <3>4. previous' = previous
        BY <1>0, <2>1, <3>2 DEF TypeOK
      <3> QED
        BY <3>1, <3>3, <3>4
    <2> QED
      BY <2>2, <2>3, <2>4 DEF TraversalStep
  <1>3. Deviating' = Deviating
    BY <1>1, <1>2 DEF Deviating
  <1>4. Active(q) => env = {}
    <2>1. Active(q) => Deviating = {}
      BY DEF Inv, OneAtATime, Deviating, Active
    <2> QED
      BY <2>1 DEF Inv, EnvRestored
  <1>5. TypeOK'
    <2>1. \A a \in Traversal : lock' = a <=> pc'[a] \in {"spawn", "test"}
      BY <1>0 DEF Arrive, TakeLock, TraversalStep, SpawnCluster, EndTraversal, End,
                  TypeOK, PC, Resting
    <2> QED
      BY <1>0, <1>1, <1>2, <2>1 DEF TypeOK
  <1>6. OneAtATime' /\ PassesOpen' /\ SutAsAsked'
    <2>1. OneAtATime' /\ PassesOpen'
      BY <1>1, <1>2 DEF Inv, OneAtATime, PassesOpen, Active
    <2>2. SutAsAsked'
      BY <1>1, <1>2, <1>4 DEF Inv, SutAsAsked
    <2> QED
      BY <2>1, <2>2
  <1>7. VerdictsLabelled'
    BY <1>1, <1>4 DEF Inv, VerdictsLabelled
  <1>8. EnvRestored'
    BY <1>1, <1>2, <1>3, SameEnv
  <1> QED
    BY <1>5, <1>6, <1>7, <1>8 DEF Inv

LEMMA InvNext == ASSUME Serial, Inv, [Next]_vars PROVE Inv'
  <1>1. CASE UNCHANGED vars
    <2>1. Deviating' = Deviating
      BY <1>1 DEF vars, Deviating
    <2> QED
      BY <1>1, <2>1 DEF vars, Inv, TypeOK, OneAtATime, PassesOpen, Active, EnvRestored,
                        SutAsAsked, VerdictsLabelled
  <1>2. ASSUME NEW r \in Run, Accept(r) \/ Refuse(r) \/ ActsStep(r) PROVE Inv'
    BY <1>2, BeginKeeps, SpawnKeeps, RaiseKeeps, PassKeeps DEF ActsStep
  <1>3. ASSUME NEW q \in Traversal, Arrive(q) \/ TakeLock(q) \/ TraversalStep(q) PROVE Inv'
    BY <1>3, TraversalKeeps
  <1> QED
    BY <1>1, <1>2, <1>3 DEF Next

-----------------------------------------------------------------------------
(* When runs are started one after another, the variables of the deviations *)
(* are set exactly while a deviation pass is open, however passes end       *)
(* (_sut_env, run).                                                         *)
THEOREM EnvSound == ASSUME Serial PROVE Spec => []EnvRestored
  <1>1. Inv /\ [Next]_vars => Inv'
    BY InvNext
  <1>2. Inv => EnvRestored
    BY DEF Inv
  <1> QED
    BY <1>1, <1>2, InvInit, PTL DEF Spec

(* ... and every verdict bears the configuration of the SUT that gave it,   *)
(* whatever the SUT honours (_rerun_deviation, took_effect).                *)
THEOREM LabelsSound == ASSUME Serial PROVE Spec => []VerdictsLabelled
  <1>1. Inv /\ [Next]_vars => Inv'
    BY InvNext
  <1>2. Inv => VerdictsLabelled
    BY DEF Inv
  <1> QED
    BY <1>1, <1>2, InvInit, PTL DEF Spec

-----------------------------------------------------------------------------
(* A run has no verdicts until its main pass has given them, and no pass      *)
(* before that deviates.                                                     *)
NoneYet ==
    /\ DOMAIN pc = Request /\ DOMAIN pass = Request /\ DOMAIN results = Run
    /\ \A r \in Run :
         /\ DOMAIN results[r] = Test /\ pass[r] \in 0..2
         /\ pass[r] = 0 /\ pc[r] \in {"idle", "spawn", "test"} =>
              \A t \in Test : results[r][t].reason # "none"

Final ==
    \A r \in Run : \A t \in Test :
        results[r][t].reason = "none" => results'[r][t] = results[r][t]

(* Going on with verdicts that keep the final ones (Continue). *)
LEMMA ContinueIsFinal ==
    ASSUME NoneYet, NEW r \in Run, NEW res, DOMAIN res = Test, Continue(r, res),
           \A t \in Test : results[r][t].reason = "none" => res[t] = results[r][t]
    PROVE  NoneYet' /\ Final
  <1> USE DEF Request
  <1>1. results' = [results EXCEPT ![r] = res]
    BY DEF Continue
  <1>2. results'[r] = res /\ DOMAIN results' = Run /\ \A q \in Run : q # r => results'[q] = results[q]
    BY <1>1 DEF NoneYet
  <1>3. Final
    BY <1>2 DEF Final
  <1>4. CASE End(r, "served")
    BY <1>2, <1>3, <1>4 DEF NoneYet, End
  <1>5. ASSUME NEW i \in LaterPasses(r, res),
               pc' = [pc EXCEPT ![r] = "spawn"], pass' = [pass EXCEPT ![r] = i]
        PROVE  NoneYet'
    <2>1. i \in 1..2
      BY DEF LaterPasses, NoneYet
    <2> QED
      BY <1>2, <1>5, <2>1 DEF NoneYet
  <1>6. CASE \E i \in LaterPasses(r, res) :
               pc' = [pc EXCEPT ![r] = "spawn"] /\ pass' = [pass EXCEPT ![r] = i]
    BY <1>3, <1>5, <1>6
  <1>7. \/ End(r, "served")
        \/ \E i \in LaterPasses(r, res) :
              pc' = [pc EXCEPT ![r] = "spawn"] /\ pass' = [pass EXCEPT ![r] = i]
    BY DEF Continue
  <1> QED
    BY <1>3, <1>4, <1>6, <1>7

LEMMA NoneYetInit == Init => NoneYet
  BY DEF Init, NoneYet, Unset, Request

LEMMA VerdictStep == NoneYet /\ [Next]_vars => NoneYet' /\ Final
  <1> SUFFICES ASSUME NoneYet, [Next]_vars PROVE NoneYet' /\ Final
    OBVIOUS
  <1>1. CASE UNCHANGED vars
    BY <1>1 DEF vars, NoneYet, Final
  <1>2. ASSUME NEW r \in Run, Accept(r) \/ Refuse(r) \/ ActsStep(r) PROVE NoneYet' /\ Final
    <2>1. CASE Accept(r) \/ Refuse(r) \/ Spawn(r)
      BY <2>1 DEF Accept, Refuse, Spawn, NoneYet, Final, Request
    <2>2. CASE RunRaises(r)
      BY <2>2 DEF RunRaises, End, NoneYet, Final, Request
    <2>3. CASE PassCannotRun(r)
      BY <2>3, ContinueIsFinal DEF PassCannotRun, NoneYet
    <2>4. CASE MainPass(r)
      <3> DEFINE res == [t \in Test |-> Verdict(t, sut[r], {})]
      <3>1. \A t \in Test : results[r][t].reason # "none"
        BY <2>4 DEF MainPass, NoneYet
      <3>2. Continue(r, res) /\ DOMAIN res = Test
        BY <2>4 DEF MainPass
      <3> HIDE DEF res
      <3> QED
        BY <3>1, <3>2, ContinueIsFinal
    <2>5. CASE DeviationPass(r)
      <3> DEFINE res == Spliced(r, pass[r], sut[r])
      <3>1. DEVIATIONS[pass[r]] # "none"
        BY <2>5 DEF DeviationPass, NoneYet, DEVIATIONS
      <3>2. \A t \in Test : results[r][t].reason = "none" => res[t] = results[r][t]
        BY <3>1 DEF Spliced, Blocked
      <3>3. DOMAIN res = Test
        BY DEF Spliced
      <3> QED
        BY <2>5, <3>2, <3>3, ContinueIsFinal DEF DeviationPass
    <2> QED
      BY <1>2, <2>1, <2>2, <2>3, <2>4, <2>5 DEF ActsStep
  <1>3. ASSUME NEW q \in Traversal, Arrive(q) \/ TakeLock(q) \/ TraversalStep(q)
        PROVE  NoneYet' /\ Final
    <2>1. q \notin Run
      BY <1>3, ActsAssumption
    <2>2. results' = results /\ DOMAIN pc' = Request /\ DOMAIN pass' = Request
      BY <1>3 DEF Arrive, TakeLock, TraversalStep, SpawnCluster, EndTraversal, End, NoneYet
    <2>3. \A r \in Run : pc'[r] = pc[r] /\ pass'[r] = pass[r]
      BY <1>3, <2>1 DEF Arrive, TakeLock, TraversalStep, SpawnCluster, EndTraversal, End, NoneYet, Request
    <2> QED
      BY <2>2, <2>3 DEF NoneYet, Final
  <1> QED
    BY <1>1, <1>2, <1>3 DEF Next

(* ... and no step of any run replaces the verdict of a test that ran, also   *)
(* where runs are at work at the same time (_skips_matching, _rerun_deviation). *)
THEOREM VerdictsFinal == Spec => VerdictsStay
  <1>1. NoneYet /\ [Next]_vars => [Final]_vars
    BY VerdictStep
  <1> QED
    BY <1>1, NoneYetInit, VerdictStep, PTL DEF Spec, VerdictsStay, Final
=============================================================================
