---------------------------- MODULE NightlyProofs ----------------------------
(***************************************************************************)
(* A plan holds one commit of each line, however the remote changes; a build *)
(* finds what it reads; the published history is the window of what was      *)
(* published: for any agents, refs, commits, budgets, scenarios, bindings    *)
(* and limits.                                                               *)
(***************************************************************************)
EXTENDS Nightly, SequenceTheorems, TLAPS

Stage == {"idle", "init", "fetch", "checkout", "codegen", "build", "built"} \cup Failed
PlanState == {"idle", "query", "fallback", "ready", "permanent", "infra"}

RemoteTyped == tip \in [Line -> Sha \cup {None}] /\ lost \subseteq Sha

PlanTyped ==
    /\ plan \in PlanState
    /\ next \in 1..(N + 1) /\ tries \in 0..Retries
    /\ shaCache \in [Line -> Sha \cup {None}] /\ specs \in [Agent -> Sha \cup {None}]
    /\ shown \in [Line -> SUBSET (Sha \cup {None})]

TreesTyped ==
    /\ stage \in [Sha -> Stage] /\ attempts \in [Sha -> 0..Retries]
    /\ holds \in [Sha -> SUBSET {"git", "objects", "lock", "source", "codegen", "build"}]

(* The cache of build_specs knows what every agent was given, and only what   *)
(* the refs have been at since it began.                                     *)
CacheKnows ==
    /\ \A a \in Agent : specs[a] # None => specs[a] = shaCache[LineOf[a]]
    /\ \A l \in Line : shaCache[l] # None => shaCache[l] \in shown[l] /\ Retries > 0
    /\ plan # "idle" => \A l \in Line : tip[l] \in shown[l]

(* Where build_specs is. *)
PlanAt ==
    /\ plan \in {"fallback", "permanent", "infra"} => next \in Agent
    /\ plan = "fallback" => shaCache[line] = None /\ tries < Retries

(* What each stage of a checkout has spent and made. *)
TreeMade ==
    \A s \in Sha :
        /\ stage[s] = "idle" => attempts[s] = 0
        /\ stage[s] \in {"init", "fetch", "checkout"} => attempts[s] < Retries
        /\ stage[s] \in {"codegen", "build", "built"} => LangOf[s] \in Language /\ "source" \in holds[s]
        /\ stage[s] = "codegen" => LangOf[s] \in Prepared
        /\ stage[s] = "codegen" /\ LangOf[s] \notin Early => "build" \in holds[s]
        /\ stage[s] = "build" /\ LangOf[s] \in Early => "codegen" \in holds[s]
        /\ stage[s] = "built" =>
             /\ "build" \in holds[s]
             /\ LangOf[s] \in Prepared => "codegen" \in holds[s]

FetchInv == RemoteTyped /\ PlanTyped /\ TreesTyped /\ CacheKnows /\ PlanAt /\ TreeMade

-----------------------------------------------------------------------------
LEMMA LineType == ASSUME next \in Agent PROVE line \in Line
  BY FetchAssumption DEF line

(* The other step of a build. *)
LEMMA OtherStep ==
    /\ (CHOOSE other \in {"codegen", "build"} : other # "build") = "codegen"
    /\ (CHOOSE other \in {"codegen", "build"} : other # "codegen") = "build"
  OBVIOUS

LEMMA FetchInitInv == FetchInit => FetchInv
  BY FetchAssumption
     DEF FetchInit, FetchInv, RemoteTyped, PlanTyped, TreesTyped, CacheKnows, PlanAt, TreeMade,
         Nothing, Agent, Stage, PlanState, Failed

LEMMA ResetInv == FetchInv /\ FetchReset => FetchInv'
  BY FetchAssumption
     DEF FetchReset, remoteVars, FetchInv, RemoteTyped, PlanTyped, TreesTyped, CacheKnows, PlanAt,
         TreeMade, Nothing, Agent, Stage, PlanState, Failed

LEMMA BeginPlanInv == FetchInv /\ BeginPlan => FetchInv'
  <1> SUFFICES ASSUME FetchInv, BeginPlan PROVE FetchInv'
    OBVIOUS
  <1> USE DEF BeginPlan, remoteVars
  <1>1. RemoteTyped' /\ TreesTyped' /\ TreeMade'
    BY DEF treeVars, FetchInv, RemoteTyped, TreesTyped, TreeMade
  <1>2. PlanTyped' /\ PlanAt'
    BY FetchAssumption DEF FetchInv, RemoteTyped, PlanTyped, PlanAt, Nothing, Agent, PlanState
  <1>3. CacheKnows'
    BY FetchAssumption DEF FetchInv, RemoteTyped, CacheKnows, Nothing
  <1> QED
    BY <1>1, <1>2, <1>3 DEF FetchInv

(* The plan relies on what it has been shown, and on nothing that may vanish. *)
LEMMA RemoteInv == FetchInv /\ Remote => FetchInv'
  <1> USE FetchAssumption
  <1> SUFFICES ASSUME FetchInv, Remote PROVE FetchInv'
    OBVIOUS
  <1>1. ASSUME NEW l \in Line, Push(l) PROVE FetchInv'
    <2>1. PICK s \in Sha \ lost : /\ tip' = [tip EXCEPT ![l] = s]
                                  /\ shown' = [shown EXCEPT ![l] = @ \cup {s}]
      BY <1>1 DEF Push
    <2>2. RemoteTyped' /\ PlanTyped' /\ TreesTyped' /\ CacheKnows' /\ TreeMade'
      BY <1>1, <2>1 DEF Push, planVars, treeVars, FetchInv, RemoteTyped, PlanTyped, TreesTyped,
                        CacheKnows, TreeMade
    <2>3. PlanAt'
      BY <1>1 DEF Push, planVars, FetchInv, PlanAt, line
    <2> QED
      BY <2>2, <2>3 DEF FetchInv
  <1>2. ASSUME NEW l \in Line, Delete(l) PROVE FetchInv'
    BY <1>2, LineType DEF Delete, planVars, treeVars, FetchInv, RemoteTyped, PlanTyped, TreesTyped,
                CacheKnows, PlanAt, TreeMade, line
  <1>3. ASSUME NEW s \in Sha, Collect(s) PROVE FetchInv'
    BY <1>3 DEF Collect, planVars, treeVars, FetchInv, RemoteTyped, PlanTyped, TreesTyped,
                CacheKnows, PlanAt, TreeMade, line
  <1> QED
    BY <1>1, <1>2, <1>3 DEF Remote

(* An agent is given a commit that its ref has been at. *)
LEMMA SpecifyInv ==
    ASSUME FetchInv, NEW s \in Sha, Specify(s), UNCHANGED <<remoteVars, shown, treeVars>>,
           next \in Agent, Retries > 0, plan # "idle", s \in shown[line],
           shaCache[line] \in {None, s}
    PROVE  FetchInv'
  <1> USE FetchAssumption DEF Specify, remoteVars, treeVars, FetchInv
  <1>1. line \in Line
    BY LineType
  <1>2. RemoteTyped' /\ TreesTyped' /\ TreeMade'
    BY DEF RemoteTyped, TreesTyped, TreeMade
  <1>3. PlanTyped' /\ PlanAt'
    BY <1>1 DEF PlanTyped, PlanAt, PlanState, Agent
  <1>4. CacheKnows'
    <2>1. /\ shaCache'[line] = s /\ \A l \in Line : l # line => shaCache'[l] = shaCache[l]
          /\ specs'[next] = s /\ \A a \in Agent : a # next => specs'[a] = specs[a]
      BY <1>1 DEF PlanTyped
    <2>2. ASSUME NEW a \in Agent, specs'[a] # None PROVE specs'[a] = shaCache'[LineOf[a]]
      <3>1. LineOf[a] \in Line
        OBVIOUS
      <3> QED
        BY <2>1, <2>2, <3>1 DEF CacheKnows, line
    <2> QED
      BY <1>1, <2>1, <2>2 DEF CacheKnows
  <1> QED
    BY <1>2, <1>3, <1>4

LEMMA PlanInv == FetchInv /\ Plan => FetchInv'
  <1> USE FetchAssumption
  <1> SUFFICES ASSUME FetchInv, Plan PROVE FetchInv'
    OBVIOUS
  <1>0. UNCHANGED <<remoteVars, shown, treeVars>>
    BY DEF Plan
  <1>1. CASE Known
    <2>1. next \in Agent /\ line \in Line /\ shaCache[line] # None
      BY <1>1, LineType DEF Known, FetchInv, PlanTyped, Agent
    <2>2. shaCache[line] \in Sha /\ shaCache[line] \in shown[line] /\ Retries > 0
      BY <2>1 DEF FetchInv, PlanTyped, CacheKnows
    <2> QED
      BY <1>0, <1>1, <2>1, <2>2, SpecifyInv DEF Known
  <1>2. CASE QueryAnswers \/ FallbackAnswers
    <2>1. /\ next \in Agent /\ line \in Line /\ tip[line] # None /\ shaCache[line] = None
          /\ tries < Retries /\ plan # "idle" /\ Specify(tip[line])
      BY <1>2, LineType DEF QueryAnswers, FallbackAnswers, Asking, FetchInv, PlanTyped, PlanAt, Agent
    <2>2. tip[line] \in Sha /\ tip[line] \in shown[line] /\ Retries > 0
      BY <2>1 DEF FetchInv, RemoteTyped, PlanTyped, CacheKnows
    <2> QED
      BY <1>0, <2>1, <2>2, SpecifyInv
  <1>3. CASE \/ QueryEmpty \/ QueryRefused \/ QueryFails
             \/ FallbackEmpty \/ FallbackTimesOut \/ FallbackFails \/ GiveUp \/ Ready
    <2>1. UNCHANGED <<next, shaCache, specs>>
      BY <1>3 DEF QueryEmpty, QueryRefused, QueryFails, FallbackEmpty, FallbackTimesOut,
                  FallbackFails, GiveUp, Ready, Fruitless, Refuse
    <2>2. /\ plan' \in PlanState \ {"idle"} /\ plan # "idle" /\ tries' \in 0..Retries
          /\ plan' # "ready" => next \in Agent
          /\ plan' = "fallback" => shaCache[line] = None /\ tries' < Retries
      BY <1>3 DEF QueryEmpty, QueryRefused, QueryFails, FallbackEmpty, FallbackTimesOut,
                  FallbackFails, GiveUp, Ready, Fruitless, Refuse, Asking,
                  FetchInv, PlanTyped, PlanAt, PlanState, Agent
    <2>3. RemoteTyped' /\ TreesTyped' /\ TreeMade' /\ PlanTyped' /\ CacheKnows'
      BY <1>0, <2>1, <2>2 DEF remoteVars, treeVars, FetchInv, RemoteTyped, TreesTyped, TreeMade,
                              PlanTyped, CacheKnows
    <2>4. PlanAt'
      BY <1>0, <2>1, <2>2 DEF remoteVars, PlanAt, line
    <2> QED
      BY <2>3, <2>4 DEF FetchInv
  <1> QED
    BY <1>1, <1>2, <1>3 DEF Plan

(* A checkout touches one tree; what it leaves there says where it is.       *)
LEMMA CheckoutInv == ASSUME FetchInv, NEW s \in Sha, Checkout(s) PROVE FetchInv'
  <1> USE FetchAssumption
  <1>0. /\ s \in Wanted /\ Retries > 0
        /\ UNCHANGED <<remoteVars, planVars, shown>>
    <2>1. PICK a \in Agent : specs[a] = s
      BY DEF Checkout, Wanted
    <2>2. shaCache[LineOf[a]] # None /\ LineOf[a] \in Line
      BY <2>1 DEF FetchInv, CacheKnows
    <2> QED
      BY <2>2 DEF Checkout, FetchInv, CacheKnows
  <1>1. RemoteTyped' /\ PlanTyped' /\ CacheKnows' /\ PlanAt'
    BY <1>0 DEF remoteVars, planVars, FetchInv, RemoteTyped, PlanTyped, CacheKnows, PlanAt, line
  <1>2. CASE Begin(s) \/ Init_(s) \/ Fetched(s) \/ NotOurRef(s)
    BY <1>0, <1>1, <1>2
       DEF Begin, Init_, Fetched, NotOurRef, Fail, To, remoteVars, FetchInv, RemoteTyped,
           TreesTyped, TreeMade, Stage, Failed
  <1>3. CASE GitFails(s) \/ CheckoutKilled(s)
    <2>1. /\ attempts[s] < Retries /\ attempts' = [attempts EXCEPT ![s] = @ + 1]
          /\ \/ /\ attempts[s] + 1 < Retries
                /\ stage' = [stage EXCEPT ![s] = "init"]
                /\ \E left \in {{}, {"lock"}} : holds' = [holds EXCEPT ![s] = holds[s] \cup left]
             \/ /\ attempts[s] + 1 = Retries
                /\ stage' = [stage EXCEPT ![s] = "unfetched"]
                /\ holds' = [holds EXCEPT ![s] = {}]
      BY <1>3 DEF GitFails, CheckoutKilled, Again, To, FetchInv, TreeMade, TreesTyped
    <2>2. TreesTyped'
      BY <2>1 DEF FetchInv, TreesTyped, Stage, Failed
    <2>3. TreeMade'
      BY <1>0, <2>1 DEF remoteVars, FetchInv, TreesTyped, TreeMade, Failed
    <2> QED
      BY <1>1, <2>2, <2>3 DEF FetchInv
  <1>4. CASE CheckedOut(s)
    <2> USE DEF CheckedOut, FirstStep, To
    <2>1. TreesTyped'
      BY <1>4 DEF FetchInv, TreesTyped, Stage, Failed
    <2>2. TreeMade'
      BY <1>0, <1>4
         DEF remoteVars, Early, Prepared, Language, FetchInv, TreesTyped, TreeMade, Failed
    <2> QED
      BY <1>1, <2>1, <2>2 DEF FetchInv
  <1>5. ASSUME NEW step \in {"codegen", "build"}, StepDone(s, step) PROVE FetchInv'
    <2>1. /\ LangOf[s] \in Language /\ stage[s] = step
          /\ Follows(LangOf[s], step) \in {"codegen", "build", "built"}
          /\ Follows(LangOf[s], step) = "codegen" =>
                LangOf[s] \in Prepared \ Early /\ step = "build"
          /\ Follows(LangOf[s], step) = "build" => LangOf[s] \in Early /\ step = "codegen"
          /\ Follows(LangOf[s], step) = "built" =>
               /\ step = "build" \/ "build" \in holds[s]
               /\ LangOf[s] \in Prepared => step = "codegen" \/ "codegen" \in holds[s]
      BY <1>5, OtherStep
         DEF StepDone, Follows, FirstStep, Early, Prepared, Language, FetchInv, TreeMade
    <2>2. /\ stage' = [stage EXCEPT ![s] = Follows(LangOf[s], step)]
          /\ holds' = [holds EXCEPT ![s] = holds[s] \cup {step}]
          /\ attempts' = attempts
      BY <1>5 DEF StepDone, To
    <2>3. "source" \in holds[s]
      BY <2>1, <1>5 DEF FetchInv, TreeMade
    <2>4. \A r \in Sha : r # s => stage'[r] = stage[r] /\ holds'[r] = holds[r]
      BY <2>2 DEF FetchInv, TreesTyped
    <2>5. stage'[s] = Follows(LangOf[s], step) /\ holds'[s] = holds[s] \cup {step}
      BY <2>2 DEF FetchInv, TreesTyped
    <2>6. TreesTyped'
      BY <2>1, <2>2 DEF FetchInv, TreesTyped, Stage
    <2>7. TreeMade'
      BY <1>0, <2>1, <2>2, <2>3, <2>4, <2>5
         DEF remoteVars, FetchInv, TreeMade, Failed, Prepared
    <2> QED
      BY <1>1, <2>6, <2>7 DEF FetchInv
  <1>6. ASSUME NEW step \in {"codegen", "build"}, StepFails(s, step) PROVE FetchInv'
    BY <1>0, <1>1, <1>6
       DEF StepFails, Fail, To, remoteVars, FetchInv, RemoteTyped, TreesTyped, TreeMade,
           Stage, Failed
  <1> QED
    BY <1>2, <1>3, <1>4, <1>5, <1>6 DEF Checkout

LEMMA FetchUnchanged == FetchInv /\ UNCHANGED fetchVars => FetchInv'
  BY DEF fetchVars, remoteVars, planVars, treeVars, FetchInv, RemoteTyped, PlanTyped, TreesTyped,
         CacheKnows, PlanAt, TreeMade, line

(* A job begins a plan, follows it, forgets it, or leaves it alone. *)
LEMMA FetchInvNext == FetchInv /\ [Next]_vars => FetchInv'
  <1> SUFFICES ASSUME FetchInv, [Next]_vars PROVE FetchInv'
    OBVIOUS
  <1>1. CASE StartItk
    BY <1>1, BeginPlanInv DEF StartItk
  <1>2. CASE Service
    <2>1. CASE PlanRefused \/ RunBreaks \/ RunEnds
      BY <2>1, ResetInv DEF PlanRefused, RunBreaks, RunEnds, Answered
    <2> QED
      BY <1>2, <2>1, PlanInv, CheckoutInv DEF Service
  <1>3. CASE CurlGivesUp
    BY <1>3, ResetInv DEF CurlGivesUp
  <1>4. CASE Remote
    BY <1>4, RemoteInv
  <1>5. CASE \/ \E list \in BindingLists : StartActs(list)
             \/ Ask \/ Load \/ Script \/ UNCHANGED vars
    <2>1. UNCHANGED fetchVars
      BY <1>5 DEF StartActs, Ask, Load, Script, Validate, HistoryRead, HistoryUnavailable, Compile,
                  Upload, UploadFails, vars
    <2> QED
      BY <2>1, FetchUnchanged
  <1> QED
    BY <1>1, <1>2, <1>3, <1>4, <1>5 DEF Next

LEMMA FetchInvInit == Init => FetchInv
  BY FetchInitInv DEF Init

(* Every agent of a line is planned at one commit, and the ref was at it since *)
(* the plan began, however the refs move (build_specs, _pick_sha).           *)
THEOREM PlanSound == Spec => []OneShaPerRef
  <1>1. FetchInv => OneShaPerRef
    <2> SUFFICES ASSUME FetchInv, NEW a \in Agent, specs[a] # None
                 PROVE  /\ specs[a] \in shown[LineOf[a]]
                        /\ \A b \in Agent : LineOf[b] = LineOf[a] => specs[b] \in {specs[a], None}
      BY DEF OneShaPerRef
    <2>1. LineOf[a] \in Line /\ specs[a] = shaCache[LineOf[a]]
      BY FetchAssumption DEF FetchInv, CacheKnows
    <2> QED
      BY <2>1 DEF FetchInv, CacheKnows
  <1> QED
    BY <1>1, FetchInvInit, FetchInvNext, PTL DEF Spec

(* Codegen and build find what their language has them read, and a kept tree    *)
(* has all that is run, with the order of the two that the code has for each   *)
(* language (build_in_place, _CODEGEN_BEFORE_BUILD).                          *)
THEOREM BuildsSound == Spec => []StepsFindTheirInputs
  <1>1. FetchInv => StepsFindTheirInputs
    <2> SUFFICES ASSUME FetchInv, NEW s \in Sha
                 PROVE  /\ stage[s] \in {"codegen", "build"} =>
                             Needs(LangOf[s], stage[s]) \subseteq holds[s]
                        /\ stage[s] = "built" => Spawned(LangOf[s]) \subseteq holds[s]
      BY DEF StepsFindTheirInputs
    <2>1. CASE stage[s] = "codegen"
      <3>1. "source" \in holds[s] /\ (LangOf[s] \in {"python", "ts"} => "build" \in holds[s])
        BY <2>1 DEF FetchInv, TreeMade, Early
      <3>2. Needs(LangOf[s], "codegen") \subseteq
              IF LangOf[s] \in {"python", "ts"} THEN {"source", "build"} ELSE {"source"}
        BY DEF Needs
      <3> QED
        BY <2>1, <3>1, <3>2
    <2>2. CASE stage[s] = "build"
      <3>1. "source" \in holds[s] /\ (LangOf[s] \in {"go", "rust", "java"} => "codegen" \in holds[s])
        BY <2>2 DEF FetchInv, TreeMade, Early
      <3>2. Needs(LangOf[s], "build") \subseteq
              IF LangOf[s] \in {"go", "rust", "java"} THEN {"source", "codegen"} ELSE {"source"}
        BY DEF Needs
      <3> QED
        BY <2>2, <3>1, <3>2
    <2>3. CASE stage[s] = "built"
      BY <2>3 DEF FetchInv, TreeMade, Spawned, Language, Prepared
    <2> QED
      BY <2>1, <2>2, <2>3
  <1> QED
    BY <1>1, FetchInvInit, FetchInvNext, PTL DEF Spec

-----------------------------------------------------------------------------
Bindings == UNION {{list[i] : i \in 1..Len(list)} : list \in BindingLists}

(* What the bindings of a conformance job have answered. *)
ActsAnswers == UNION {[D -> Reports \cup {None}] : D \in SUBSET Bindings}
AnswerOf(k) == IF k = "itk" THEN Served ELSE ActsAnswers
EntryOf(k, a) == IF k = "itk" THEN ItkEntry(a) ELSE ActsEntry(a)

(* The entries that a job may publish: those of a whole run. *)
Whole(k, a) ==
    IF k = "itk" THEN a # None /\ DOMAIN a.passed # {} /\ ~Dropped(a)
    ELSE \A b \in DOMAIN a : Valid(a[b])

Records(k) == {[entry |-> EntryOf(k, a), answer |-> a] : a \in {x \in AnswerOf(k) : Whole(k, x)}}
Entries(k) == {r.entry : r \in Records(k)}
EntriesOf(k) == [i \in DOMAIN published[k] |-> published[k][i].entry]

JobTyped ==
    /\ kind \in Kind
    /\ phase \in {"rest", "wait", "report", "ask", "fetch", "compile", "upload"}
    /\ phase \in {"wait", "report"} => kind = "itk"
    /\ phase = "ask" => kind = "acts"
    /\ phase = "report" => answer \in Served \cup {None}
    /\ phase = "ask" => answer \in ActsAnswers

(* A job that goes on to the history has an answer it may publish. *)
AnswerKept ==
    phase \in {"fetch", "compile", "upload"} =>
        /\ answer \in AnswerOf(kind)
        /\ kind = "itk" => answer # None /\ DOMAIN answer.passed # {}
        /\ kind = "acts" => Whole(kind, answer)
        /\ phase = "upload" => Whole(kind, answer)

(* The processor works on the asset as it was published. *)
HistoryHeld ==
    /\ phase = "compile" => history = asset[kind]
    /\ phase = "upload" =>
         history = Newest(Append(asset[kind], EntryOf(kind, answer)), Limit[kind])

Window ==
    /\ DOMAIN published = Kind /\ DOMAIN asset = Kind
    /\ \A k \in Kind : published[k] \in Seq(Records(k)) /\ asset[k] = Newest(EntriesOf(k), Limit[k])

NightInv == JobTyped /\ AnswerKept /\ HistoryHeld /\ Window

-----------------------------------------------------------------------------
(* The newest entries of a sequence are a sequence of as many as the limit    *)
(* allows, the last of them last.                                            *)
LEMMA NewestType ==
    ASSUME NEW S, NEW h \in Seq(S), NEW n \in Nat \ {0}
    PROVE  /\ Newest(h, n) \in Seq(S)
           /\ Len(Newest(h, n)) = IF Len(h) > n THEN n ELSE Len(h)
           /\ \A i \in 1..Len(Newest(h, n)) :
                Newest(h, n)[i] = h[IF Len(h) > n THEN Len(h) - n + i ELSE i]
  <1>1. CASE Len(h) > n
    <2> DEFINE from == Len(h) - n + 1
    <2>1. from \in Int /\ Len(h) \in Int /\ \A i \in from..Len(h) : h[i] \in S
      BY <1>1, ElementOfSeq
    <2>2. /\ SubSeq(h, from, Len(h)) \in Seq(S)
          /\ Len(SubSeq(h, from, Len(h))) = n
          /\ \A i \in 1..n : SubSeq(h, from, Len(h))[i] = h[from + i - 1]
      <3>1. from <= Len(h) /\ Len(h) - from + 1 = n
        BY <1>1
      <3> HIDE DEF from
      <3> QED
        BY <2>1, <3>1, SubSeqProperties
    <2>3. Newest(h, n) = SubSeq(h, from, Len(h))
      BY <1>1 DEF Newest
    <2> QED
      BY <1>1, <2>2, <2>3
  <1>2. CASE ~(Len(h) > n)
    BY <1>2 DEF Newest
  <1> QED
    BY <1>1, <1>2

(* Pruning after each entry keeps what pruning at the end would (main: append, *)
(* then history[-limit:]).                                                   *)
LEMMA NewestAppend ==
    ASSUME NEW S, NEW h \in Seq(S), NEW e \in S, NEW n \in Nat \ {0}
    PROVE  /\ Newest(Append(Newest(h, n), e), n) = Newest(Append(h, e), n)
           /\ Newest(Append(h, e), n) \in Seq(S)
           /\ Newest(Append(h, e), n)[Len(Newest(Append(h, e), n))] = e
  <1> DEFINE m == Newest(h, n)
             x == Append(m, e)
             y == Append(h, e)
  <1>1. /\ m \in Seq(S) /\ Len(m) = (IF Len(h) > n THEN n ELSE Len(h))
        /\ \A i \in 1..Len(m) : m[i] = h[IF Len(h) > n THEN Len(h) - n + i ELSE i]
    BY NewestType
  <1> HIDE DEF m
  <1>2. /\ x \in Seq(S) /\ Len(x) = Len(m) + 1 /\ x[Len(m) + 1] = e
        /\ \A i \in 1..Len(m) : x[i] = m[i]
    BY <1>1, AppendProperties
  <1>3. /\ y \in Seq(S) /\ Len(y) = Len(h) + 1 /\ y[Len(h) + 1] = e
        /\ \A i \in 1..Len(h) : y[i] = h[i]
    BY AppendProperties
  <1> HIDE DEF x, y
  <1>4. /\ Newest(x, n) \in Seq(S) /\ Len(Newest(x, n)) = (IF Len(x) > n THEN n ELSE Len(x))
        /\ \A i \in 1..Len(Newest(x, n)) :
             Newest(x, n)[i] = x[IF Len(x) > n THEN Len(x) - n + i ELSE i]
    BY <1>2, NewestType
  <1>5. /\ Newest(y, n) \in Seq(S) /\ Len(Newest(y, n)) = (IF Len(y) > n THEN n ELSE Len(y))
        /\ \A i \in 1..Len(Newest(y, n)) :
             Newest(y, n)[i] = y[IF Len(y) > n THEN Len(y) - n + i ELSE i]
    BY <1>3, NewestType
  <1>6. Len(h) \in Nat /\ Len(m) \in Nat
    BY <1>1
  <1>7. Len(Newest(x, n)) = Len(Newest(y, n))
    BY <1>1, <1>2, <1>3, <1>4, <1>5, <1>6
  <1>8. ASSUME NEW i \in 1..Len(Newest(y, n))
        PROVE  Newest(x, n)[i] = Newest(y, n)[i]
    <2>1. CASE Len(h) >= n
      <3>1. Len(m) = n /\ Len(x) = n + 1 /\ Len(y) = Len(h) + 1 /\ i \in 1..n
        BY <1>1, <1>2, <1>3, <1>5, <1>6, <1>8, <2>1
      <3>2. Newest(x, n)[i] = x[1 + i] /\ Newest(y, n)[i] = y[Len(h) + 1 - n + i]
        <4>1. /\ Len(x) > n /\ Len(x) - n + i = 1 + i /\ i \in 1..Len(Newest(x, n))
              /\ Len(y) > n /\ Len(y) - n + i = Len(h) + 1 - n + i
          BY <1>6, <1>7, <2>1, <3>1
        <4>2. Newest(x, n)[i] = x[Len(x) - n + i]
          BY <1>4, <4>1
        <4>3. Newest(y, n)[i] = y[Len(y) - n + i]
          BY <1>5, <4>1
        <4> QED
          BY <4>1, <4>2, <4>3
      <3>3. CASE i = n
        BY <1>2, <1>3, <1>6, <3>1, <3>2, <3>3
      <3>4. CASE i < n
        <4>1. 1 + i \in 1..Len(m) /\ Len(h) + 1 - n + i \in 1..Len(h)
          BY <1>6, <2>1, <3>1, <3>4
        <4>2. x[1 + i] = m[1 + i] /\ y[Len(h) + 1 - n + i] = h[Len(h) + 1 - n + i]
          BY <1>2, <1>3, <4>1
        <4>3. m[1 + i] = h[Len(h) + 1 - n + i]
          <5>1. CASE Len(h) > n
            <6>1. m[1 + i] = h[Len(h) - n + (1 + i)]
              BY <1>1, <4>1, <5>1
            <6>2. Len(h) - n + (1 + i) = Len(h) + 1 - n + i
              BY <1>6, <3>1
            <6> QED
              BY <6>1, <6>2
          <5>2. CASE Len(h) = n
            <6>1. m[1 + i] = h[1 + i]
              BY <1>1, <4>1, <5>2
            <6>2. 1 + i = Len(h) + 1 - n + i
              BY <1>6, <3>1, <5>2
            <6> QED
              BY <6>1, <6>2
          <5> QED
            BY <1>6, <2>1, <5>1, <5>2
        <4> QED
          BY <3>2, <4>2, <4>3
      <3> QED
        BY <3>1, <3>3, <3>4
    <2>2. CASE Len(h) < n
      <3>1. m = h
        BY <1>6, <2>2 DEF m, Newest
      <3> QED
        BY <3>1 DEF x, y
    <2> QED
      BY <1>6, <2>1, <2>2
  <1>9. Newest(x, n) = Newest(y, n)
    BY <1>4, <1>5, <1>7, <1>8, SeqEqual
  <1>10. Newest(y, n)[Len(Newest(y, n))] = e
    <2>1. CASE Len(y) > n
      <3>1. Len(Newest(y, n)) = n /\ n \in 1..n /\ Len(y) - n + n = Len(h) + 1
        BY <1>3, <1>5, <1>6, <2>1
      <3> QED
        BY <1>3, <1>5, <2>1, <3>1
    <2>2. CASE ~(Len(y) > n)
      <3>1. Len(Newest(y, n)) = Len(y) /\ Len(y) \in 1..Len(y)
        BY <1>3, <1>5, <1>6, <2>2
      <3> QED
        BY <1>3, <1>5, <2>2, <3>1
    <2> QED
      BY <2>1, <2>2
  <1> QED
    BY <1>5, <1>9, <1>10 DEF x, y, m

-----------------------------------------------------------------------------
LEMMA EntriesType ==
    ASSUME NEW k \in Kind, published[k] \in Seq(Records(k))
    PROVE  EntriesOf(k) \in Seq(Entries(k)) /\ Len(EntriesOf(k)) = Len(published[k])
  <1>1. \A i \in 1..Len(published[k]) : published[k][i] \in Records(k)
    BY ElementOfSeq
  <1>2. DOMAIN published[k] = 1..Len(published[k]) /\ Len(published[k]) \in Nat
    BY LenProperties
  <1>3. \A i \in 1..Len(published[k]) : published[k][i].entry \in Entries(k)
    BY <1>1 DEF Entries
  <1> QED
    BY <1>2, <1>3 DEF EntriesOf

LEMMA NightInitInv == Init => NightInv
  <1> SUFFICES ASSUME Init PROVE NightInv
    OBVIOUS
  <1>1. \A k \in Kind : EntriesOf(k) = <<>> /\ Newest(<<>>, Limit[k]) = <<>>
    BY NightlyAssumption DEF Init, EntriesOf, Newest
  <1> QED
    BY <1>1 DEF Init, NightInv, JobTyped, AnswerKept, HistoryHeld, Window, Kind

LEMMA WindowStays == ASSUME Window, UNCHANGED <<asset, published>> PROVE Window'
  BY DEF Window, EntriesOf

(* A job that starts or ends leaves the asset and what was published. *)
LEMMA RestInv ==
    ASSUME NightInv, NEW result \in BOOLEAN, Rest(result)
    PROVE  (JobTyped /\ AnswerKept /\ HistoryHeld)'
  BY DEF Rest, JobTyped, AnswerKept, HistoryHeld, Kind

(* A run that is recorded whole has every scenario it answered for. *)
LEMMA WholeEntry ==
    ASSUME NEW k \in Kind, NEW a \in AnswerOf(k), Whole(k, a)
    PROVE  /\ EntryOf(k, a) \in Entries(k)
           /\ [entry |-> EntryOf(k, a), answer |-> a] \in Records(k)
  BY DEF Records, Entries

(* What is uploaded: the window with one more entry. *)
LEMMA UploadInv == ASSUME NightInv, Upload PROVE NightInv'
  <1> DEFINE e == EntryOf(kind, answer)
             r == [entry |-> e, answer |-> answer]
             n == Limit[kind]
  <1>1. kind \in Kind /\ n \in Nat \ {0}
    BY NightlyAssumption DEF NightInv, JobTyped
  <1>2. answer \in AnswerOf(kind) /\ Whole(kind, answer)
    BY DEF NightInv, AnswerKept, Upload
  <1>3. e \in Entries(kind) /\ r \in Records(kind)
    BY <1>1, <1>2, WholeEntry
  <1>4. /\ history = Newest(Append(asset[kind], e), n)
        /\ asset[kind] = Newest(EntriesOf(kind), n)
        /\ published[kind] \in Seq(Records(kind))
        /\ DOMAIN published = Kind /\ DOMAIN asset = Kind
    BY <1>1 DEF NightInv, HistoryHeld, Window, Upload
  <1>5. EntriesOf(kind) \in Seq(Entries(kind)) /\ Len(EntriesOf(kind)) = Len(published[kind])
    BY <1>1, <1>4, EntriesType
  <1> HIDE DEF e, n
  <1>6. history = Newest(Append(EntriesOf(kind), e), n) /\ history[Len(history)] = e
    BY <1>1, <1>3, <1>4, <1>5, NewestAppend
  <1>7. /\ asset' = [asset EXCEPT ![kind] = history]
        /\ published' = [published EXCEPT ![kind] = Append(@, r)]
    BY <1>6 DEF Upload
  <1> HIDE DEF r
  <1>8. /\ published'[kind] = Append(published[kind], r) /\ published'[kind] \in Seq(Records(kind))
        /\ \A k \in Kind : k # kind => published'[k] = published[k] /\ asset'[k] = asset[k]
        /\ asset'[kind] = history /\ DOMAIN published' = Kind /\ DOMAIN asset' = Kind
    BY <1>1, <1>3, <1>4, <1>7
  <1>9. [i \in DOMAIN published'[kind] |-> published'[kind][i].entry] = Append(EntriesOf(kind), e)
    <2>1. /\ DOMAIN published'[kind] = 1..(Len(published[kind]) + 1)
          /\ published'[kind][Len(published[kind]) + 1] = r
          /\ \A i \in 1..Len(published[kind]) : published'[kind][i] = published[kind][i]
      BY <1>3, <1>4, <1>8, AppendProperties
    <2>2. /\ DOMAIN Append(EntriesOf(kind), e) = 1..(Len(published[kind]) + 1)
          /\ Append(EntriesOf(kind), e)[Len(published[kind]) + 1] = e
          /\ \A i \in 1..Len(published[kind]) : Append(EntriesOf(kind), e)[i] = EntriesOf(kind)[i]
          /\ Append(EntriesOf(kind), e) = [i \in 1..(Len(published[kind]) + 1) |->
                                             Append(EntriesOf(kind), e)[i]]
      <3> DEFINE h == EntriesOf(kind)
      <3>1. h \in Seq(Entries(kind)) /\ Len(h) = Len(published[kind])
        BY <1>5
      <3> HIDE DEF h
      <3>2. /\ Append(h, e) \in Seq(Entries(kind))
            /\ Len(Append(h, e)) = Len(h) + 1
            /\ \A i \in 1..Len(h) : Append(h, e)[i] = h[i]
            /\ Append(h, e)[Len(h) + 1] = e
        BY <1>3, <3>1, AppendProperties
      <3>3. DOMAIN Append(h, e) = 1..Len(Append(h, e))
        BY <3>2, LenProperties
      <3>4. Append(h, e) = [i \in 1..Len(Append(h, e)) |-> Append(h, e)[i]]
        <4>1. Append(h, e) \in [1..Len(Append(h, e)) -> Entries(kind)]
          BY <3>2, LenProperties
        <4> QED
          BY <4>1
      <3> QED
        BY <3>1, <3>2, <3>3, <3>4 DEF h
    <2>3. \A i \in 1..Len(published[kind]) : EntriesOf(kind)[i] = published[kind][i].entry
      BY <1>4 DEF EntriesOf
    <2>4. r.entry = e
      BY DEF r
    <2>5. Len(published[kind]) \in Nat
      BY <1>4
    <2>6. \A i \in 1..(Len(published[kind]) + 1) :
            published'[kind][i].entry = Append(EntriesOf(kind), e)[i]
      BY <2>1, <2>2, <2>3, <2>4, <2>5
    <2> QED
      BY <2>1, <2>2, <2>6
  <1>10. Window'
    <2> SUFFICES ASSUME NEW k \in Kind
                 PROVE  /\ published'[k] \in Seq(Records(k))
                        /\ asset'[k] = Newest([i \in DOMAIN published'[k] |-> published'[k][i].entry],
                                              Limit[k])
      BY <1>8 DEF Window, EntriesOf
    <2>1. CASE k = kind
      BY <2>1, <1>6, <1>8, <1>9 DEF n
    <2>2. CASE k # kind
      BY <2>2, <1>8 DEF NightInv, Window, EntriesOf
    <2> QED
      BY <2>1, <2>2
  <1>11. (JobTyped /\ AnswerKept /\ HistoryHeld)'
    BY RestInv DEF Upload
  <1> QED
    BY <1>10, <1>11 DEF NightInv

(* The conformance job, from its first request to the reading of its reports. *)
LEMMA ActsInv ==
    ASSUME NightInv, (\E list \in BindingLists : StartActs(list)) \/ Ask \/ Load
    PROVE  NightInv'
  <1>1. ASSUME NEW list \in BindingLists, StartActs(list) PROVE NightInv'
    <2>1. answer' = Nothing({list[i] : i \in DOMAIN list}) /\ DOMAIN list = 1..Len(list)
      BY <1>1, NightlyAssumption DEF StartActs
    <2>2. {list[i] : i \in DOMAIN list} \in SUBSET Bindings
      BY <2>1 DEF Bindings
    <2>3. answer' \in ActsAnswers
      <3> DEFINE D == {list[i] : i \in DOMAIN list}
      <3>1. answer' \in [D -> Reports \cup {None}]
        BY <2>1 DEF Nothing
      <3> QED
        BY <2>2, <3>1 DEF ActsAnswers
    <2>4. Window'
      BY <1>1, WindowStays DEF StartActs, NightInv
    <2> QED
      BY <1>1, <2>3, <2>4 DEF StartActs, NightInv, JobTyped, AnswerKept, HistoryHeld, Kind
  <1>2. CASE Ask
    <2>1. PICK r \in Reports \cup {None} : answer' = [answer EXCEPT ![bindings[at]] = r]
      BY <1>2 DEF Ask
    <2>2. PICK D \in SUBSET Bindings : answer \in [D -> Reports \cup {None}]
      BY <1>2 DEF Ask, NightInv, JobTyped, ActsAnswers
    <2>3. answer' \in [D -> Reports \cup {None}]
      BY <2>1, <2>2
    <2>4. answer' \in ActsAnswers
      BY <2>2, <2>3 DEF ActsAnswers
    <2>5. Window'
      BY <1>2, WindowStays DEF Ask, NightInv
    <2> QED
      BY <1>2, <2>4, <2>5 DEF Ask, NightInv, JobTyped, AnswerKept, HistoryHeld
  <1>3. CASE Load
    <2>1. Window'
      BY <1>3, WindowStays DEF Load, NightInv
    <2>2. CASE Publishable
      BY <1>3, <2>1, <2>2
         DEF Load, Publishable, Whole, AnswerOf, NightInv, JobTyped, AnswerKept, HistoryHeld, Kind
    <2>3. CASE ~Publishable
      BY <1>3, <2>1, <2>3, RestInv DEF Load, NightInv
    <2> QED
      BY <2>2, <2>3
  <1> QED
    BY <1>1, <1>2, <1>3

(* The request of a traversal job and the validation of its answer. *)
LEMMA ItkInv ==
    ASSUME NightInv, StartItk \/ Service \/ CurlGivesUp \/ Validate
    PROVE  NightInv'
  <1>0. Window'
    BY WindowStays
       DEF StartItk, Service, nightVars, PlanRefused, RunBreaks, RunEnds, Answered, CurlGivesUp,
           Validate, NightInv
  <1>1. CASE StartItk
    BY <1>0, <1>1 DEF StartItk, NightInv, JobTyped, AnswerKept, HistoryHeld, Kind
  <1>2. CASE Service
    <2>1. CASE UNCHANGED nightVars
      BY <1>0, <2>1 DEF nightVars, jobVars, NightInv, JobTyped, AnswerKept, HistoryHeld
    <2>2. ASSUME NEW a \in Served \cup {None}, Answered(a) PROVE NightInv'
      BY <1>0, <2>2 DEF Answered, NightInv, JobTyped, AnswerKept, HistoryHeld
    <2> QED
      BY <1>2, <2>1, <2>2 DEF Service, PlanRefused, RunBreaks, RunEnds
  <1>3. CASE CurlGivesUp
    BY <1>0, <1>3, RestInv DEF CurlGivesUp, NightInv
  <1>4. CASE Validate
    <2>1. CASE Usable
      BY <1>0, <1>4, <2>1
         DEF Validate, Usable, AnswerOf, Whole, NightInv, JobTyped, AnswerKept, HistoryHeld
    <2>2. CASE ~Usable
      BY <1>0, <1>4, <2>2, RestInv DEF Validate, NightInv
    <2> QED
      BY <2>1, <2>2
  <1> QED
    BY <1>1, <1>2, <1>3, <1>4

(* The processor reads the asset, adds the entry and saves. *)
LEMMA ProcessInv ==
    ASSUME NightInv, HistoryRead \/ HistoryUnavailable \/ Compile \/ UploadFails
    PROVE  NightInv'
  <1>0. Window'
    BY WindowStays DEF HistoryRead, HistoryUnavailable, Compile, UploadFails, NightInv
  <1>1. CASE HistoryRead
    BY <1>0, <1>1 DEF HistoryRead, NightInv, JobTyped, AnswerKept, HistoryHeld
  <1>2. CASE HistoryUnavailable \/ UploadFails
    BY <1>0, <1>2, RestInv DEF HistoryUnavailable, UploadFails, NightInv
  <1>3. CASE Compile
    <2>1. CASE kind = "itk" /\ Dropped(answer)
      BY <1>0, <1>3, <2>1, RestInv DEF Compile, NightInv
    <2>2. CASE ~(kind = "itk" /\ Dropped(answer))
      <3>1. Entry = EntryOf(kind, answer)
        BY DEF Entry, EntryOf
      <3>2. /\ history' = Newest(Append(history, Entry), Limit[kind])
            /\ phase = "compile" /\ phase' = "upload"
            /\ UNCHANGED <<kind, bindings, at, answer, asset, published>>
        BY <1>3, <2>2 DEF Compile
      <3>3. Whole(kind, answer) /\ answer \in AnswerOf(kind) /\ history = asset[kind]
        BY <2>2, <3>2 DEF NightInv, AnswerKept, HistoryHeld, JobTyped, Kind, Whole
      <3>4. AnswerKept'
        BY <3>2, <3>3 DEF NightInv, AnswerKept, AnswerOf, Whole, Dropped, Recordable, Valid
      <3> QED
        BY <1>0, <3>1, <3>2, <3>3, <3>4 DEF NightInv, JobTyped, HistoryHeld
    <2> QED
      BY <2>1, <2>2
  <1> QED
    BY <1>1, <1>2, <1>3

LEMMA NightInvNext == NightInv /\ [Next]_vars => NightInv'
  <1> SUFFICES ASSUME NightInv, [Next]_vars PROVE NightInv'
    OBVIOUS
  <1>1. CASE UNCHANGED nightVars
    BY <1>1, WindowStays DEF nightVars, jobVars, NightInv, JobTyped, AnswerKept, HistoryHeld
  <1> QED
    BY <1>1, ItkInv, ActsInv, ProcessInv, UploadInv DEF Next, Script, vars

(* The published history of each kind is the newest entries of all that were   *)
(* ever published, as many as its limit keeps, whatever fails on the way       *)
(* (fetch_existing_history, main).                                            *)
THEOREM HistorySound == Spec => []WindowKept
  <1>1. NightInv => WindowKept
    BY DEF NightInv, Window, EntriesOf, WindowKept
  <1> QED
    BY <1>1, NightInitInv, NightInvNext, PTL DEF Spec

(* Each is the whole of its run: every scenario or binding with a result, and   *)
(* a good verdict only if all of them are good (validate, build_record,       *)
(* build_run).                                                               *)
THEOREM EntriesSound == Spec => []EntryIsTheRun
  <1>1. NightInv => EntryIsTheRun
    <2> SUFFICES ASSUME NightInv, NEW k \in Kind, NEW i \in DOMAIN published[k]
                 PROVE  LET e == published[k][i].entry
                            a == published[k][i].answer
                        IN  CASE k = "itk" ->
                                   /\ e.results = a.passed /\ DOMAIN a.passed # {}
                                   /\ e.verdict = (FALSE \notin {a.passed[n] : n \in DOMAIN a.passed})
                              [] k = "acts" ->
                                   /\ e.results = a
                                   /\ \A b \in DOMAIN a : a[b] \notin {None, {}}
                                   /\ e.verdict = ({<<"must", "fail">>, <<"must", "error">>}
                                                     \cap UNION {a[b] : b \in DOMAIN a} = {})
      BY DEF EntryIsTheRun
    <2>1. published[k][i] \in Records(k)
      BY ElementOfSeq, LenProperties DEF NightInv, Window
    <2>2. PICK a \in AnswerOf(k) : Whole(k, a) /\ published[k][i] = [entry |-> EntryOf(k, a), answer |-> a]
      BY <2>1 DEF Records
    <2>3. CASE k = "itk"
      <3>1. a \in Served /\ DOMAIN a.passed # {} /\ Recordable(a) = DOMAIN a.passed
        BY <2>2, <2>3 DEF AnswerOf, Whole, Dropped
      <3>2. a.passed = [n \in DOMAIN a.passed |-> a.passed[n]]
            /\ \A n \in DOMAIN a.passed : a.passed[n] \in BOOLEAN
        BY <3>1, NightlyAssumption
      <3>3. ItkEntry(a).results = a.passed
        BY <3>1, <3>2 DEF ItkEntry
      <3>4. ItkEntry(a).verdict = (FALSE \notin {a.passed[n] : n \in DOMAIN a.passed})
        <4>1. ItkEntry(a).verdict = (\A n \in DOMAIN a.passed : a.passed[n])
          BY <3>1, NightlyAssumption DEF ItkEntry
        <4> QED
          BY <3>2, <4>1
      <3>5. published[k][i].answer = a /\ published[k][i].entry = ItkEntry(a)
        BY <2>2, <2>3 DEF EntryOf
      <3> QED
        BY <2>3, <3>1, <3>3, <3>4, <3>5
    <2>4. CASE k = "acts"
      <3>1. \A b \in DOMAIN a : a[b] \notin {None, {}}
        BY <2>2, <2>4 DEF Whole, Valid
      <3>2. ActsEntry(a).results = a
        BY DEF ActsEntry
      <3>3. ActsEntry(a).verdict = ({<<"must", "fail">>, <<"must", "error">>}
                                      \cap UNION {a[b] : b \in DOMAIN a} = {})
        BY DEF ActsEntry, Conformant
      <3>4. published[k][i].answer = a /\ published[k][i].entry = ActsEntry(a)
        BY <2>2, <2>4 DEF EntryOf
      <3> QED
        BY <2>4, <3>1, <3>2, <3>3, <3>4
    <2> QED
      BY <2>3, <2>4 DEF Kind
  <1> QED
    BY <1>1, NightInitInv, NightInvNext, PTL DEF Spec
=============================================================================
