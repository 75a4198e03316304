------------------------------ MODULE Nightly ------------------------------
(***************************************************************************)
(* The nightly jobs of an SDK (scripts/run_itk_shared.sh): a traversal run   *)
(* (POST /run, itk_report.py, process_results.py) or a conformance run       *)
(* (POST /run-acts once per binding, acts_report.py,                         *)
(* process_acts_results.py), each of which appends one entry to the rolling  *)
(* history that is published as a release asset.                             *)
(*                                                                         *)
(* The traversal run plans and fetches as in Fetch; what the cluster then    *)
(* does is in Cluster and ItkRun, and the conformance run in ActsRuns: here  *)
(* they answer.  The jobs of an SDK follow each other, in fresh workspaces,  *)
(* and the workflow (external) uploads what a job that succeeded has saved.   *)
(***************************************************************************)
EXTENDS Fetch

CONSTANTS
    Served,        \* answers with results: passed, a function of the scenarios
                   \* that ran, described, those that carry their metadata, and
                   \* all_passed, the service's verdict
    Placeholder,   \* the answer in which every scenario failed
    ScenarioFile,  \* names in the scenario file beside the script
    BindingLists,  \* ITK_ACTS_TRANSPORTS, as sequences
    Reports,       \* of a conformance run: sets of pairs of a level and a result
    Limit,         \* per kind, ITK_HISTORY_LIMIT and ACTS_HISTORY_LIMIT
    MaxJobs        \* bound: jobs

Kind == {"itk", "acts"}

ASSUME NightlyAssumption ==
    /\ Limit \in [Kind -> Nat \ {0}] /\ MaxJobs \in Nat
    /\ Placeholder \in Served /\ None \notin Reports
    /\ \A a \in Served : /\ a.passed \in [DOMAIN a.passed -> BOOLEAN]
                         /\ a.all_passed = (\A n \in DOMAIN a.passed : a.passed[n])
    /\ \A list \in BindingLists : list = [i \in 1..Len(list) |-> list[i]]

VARIABLES
    jobs, kind, phase,
    bindings,  \* of the conformance job
    at,        \* the binding it is at
    answer,    \* the file or files curl wrote; None is no file or no usable one
    failed,    \* RESULT is not 0
    history,   \* what the processor holds
    asset,     \* per kind, the published history; when empty, the URL answers 404
    published  \* history: per kind, all entries published, with their answers

jobVars   == <<kind, phase, bindings, at, answer, failed, history>>
nightVars == <<jobs, jobVars, asset, published>>
vars      == <<fetchVars, nightVars>>

(* Between jobs there is nothing planned and nothing checked out. *)
FetchReset ==
    /\ plan' = "idle" /\ next' = 1 /\ tries' = 0
    /\ shaCache' = Nothing(Line) /\ specs' = Nothing(Agent)
    /\ shown' = [l \in Line |-> {}]
    /\ stage' = [s \in Sha |-> "idle"] /\ attempts' = [s \in Sha |-> 0] /\ holds' = [s \in Sha |-> {}]
    /\ UNCHANGED remoteVars

Init ==
    /\ FetchInit
    /\ jobs = 0 /\ kind = "itk" /\ phase = "rest" /\ bindings = <<>> /\ at = 1
    /\ answer = None /\ failed = TRUE /\ history = <<>>
    /\ asset = [k \in Kind |-> <<>>] /\ published = [k \in Kind |-> <<>>]

(* The job exits. *)
Rest(result) ==
    /\ phase' = "rest" /\ failed' = result
    /\ kind' = "itk" /\ bindings' = <<>> /\ at' = 1 /\ answer' = None /\ history' = <<>>

-----------------------------------------------------------------------------
(* POST /run *)

(* RESULT is 1 until the run proves otherwise. *)
StartItk ==
    /\ phase = "rest" /\ jobs < MaxJobs /\ jobs' = jobs + 1
    /\ BeginPlan
    /\ kind' = "itk" /\ phase' = "wait" /\ failed' = TRUE
    /\ UNCHANGED <<bindings, at, answer, history, asset, published>>

Answered(a) ==
    /\ phase = "wait" /\ phase' = "report" /\ answer' = a
    /\ FetchReset /\ UNCHANGED <<jobs, kind, bindings, at, failed, history, asset, published>>

(* A PermanentError is answered 400 and an InfraFailure 502, without results. *)
PlanRefused == plan \in {"permanent", "infra"} /\ Answered(None)

(* Any other exception, 500. *)
RunBreaks == plan = "ready" /\ Answered(None)

(* Without a peer no scenario can run. *)
RunEnds ==
    /\ plan = "ready" /\ \A s \in Wanted : Over(s)
    /\ \E a \in Served :
         /\ (\A s \in Wanted : stage[s] \in Failed) => a = Placeholder
         /\ Answered(a)

(* Mutant: curl waits for as long as the refs take to resolve. *)
GivesUpOnceReady ==
    /\ phase = "wait" /\ plan = "ready" /\ Rest(TRUE) /\ FetchReset
    /\ UNCHANGED <<jobs, asset, published>>

(* --max-time ITK_RUN_TIMEOUT, or the connection breaks. *)
CurlGivesUp ==
    /\ phase = "wait" /\ Rest(TRUE) /\ FetchReset
    /\ UNCHANGED <<jobs, asset, published>>

Service ==
    \/ phase = "wait" /\ (Plan \/ \E s \in Sha : Checkout(s)) /\ UNCHANGED nightVars
    \/ PlanRefused \/ RunBreaks \/ RunEnds

-----------------------------------------------------------------------------
(* itk_report.validate, and process_results.main to the loading of its file *)

Usable == answer # None /\ DOMAIN answer.passed # {}

Validate ==
    /\ phase = "report"
    /\ IF Usable
       THEN /\ phase' = "fetch" /\ UNCHANGED <<kind, bindings, at, answer, failed, history>>
       ELSE Rest(TRUE)
    /\ UNCHANGED <<fetchVars, jobs, asset, published>>

-----------------------------------------------------------------------------
(* POST /run-acts, and acts_report.py, for each binding *)

StartActs(list) ==
    /\ phase = "rest" /\ jobs < MaxJobs /\ jobs' = jobs + 1
    /\ kind' = "acts" /\ phase' = "ask" /\ bindings' = list /\ at' = 1 /\ failed' = FALSE
    /\ answer' = Nothing({list[i] : i \in DOMAIN list})
    /\ UNCHANGED <<fetchVars, history, asset, published>>

(* acts_report.validate *)
Valid(report) == report # None /\ report # {}

(* None is an error envelope, or curl's failure; the others are still asked.  *)
Ask ==
    /\ phase = "ask" /\ at <= Len(bindings) /\ at' = at + 1
    /\ \E r \in Reports \cup {None} :
         /\ answer' = [answer EXCEPT ![bindings[at]] = r] /\ failed' = (failed \/ ~Valid(r))
    /\ UNCHANGED <<fetchVars, jobs, kind, phase, bindings, history, asset, published>>

(* process_acts_results.main: each report has tests, and each a transport of  *)
(* its own.                                                                   *)
Publishable ==
    /\ \A b \in DOMAIN answer : Valid(answer[b])
    /\ Cardinality(DOMAIN answer) = Len(bindings)

Load ==
    /\ phase = "ask" /\ at = Len(bindings) + 1
    /\ IF Publishable
       THEN /\ phase' = "fetch" /\ UNCHANGED <<kind, bindings, at, answer, failed, history>>
       ELSE Rest(TRUE)
    /\ UNCHANGED <<fetchVars, jobs, asset, published>>

-----------------------------------------------------------------------------
(* The rolling history *)

(* A 404, and only that, starts a fresh one. *)
HistoryRead ==
    /\ phase = "fetch" /\ phase' = "compile"
    /\ history' = asset[kind]
    /\ UNCHANGED <<fetchVars, jobs, kind, bindings, at, answer, failed, asset, published>>

(* Mutant: any error is taken for a missing asset. *)
FreshOnError ==
    /\ phase = "fetch" /\ phase' = "compile" /\ history' = <<>>
    /\ UNCHANGED <<fetchVars, jobs, kind, bindings, at, answer, failed, asset, published>>

HistoryUnavailable ==
    /\ phase = "fetch" /\ Rest(TRUE)
    /\ UNCHANGED <<fetchVars, jobs, asset, published>>

Newest(h, limit) == IF Len(h) > limit THEN SubSeq(h, Len(h) - limit + 1, Len(h)) ELSE h

(* build_record: a result says what it ran, or the scenario file does. *)
Recordable(a) == {n \in DOMAIN a.passed : n \in a.described \cup ScenarioFile}

(* Mutant: what cannot be recorded is left out. *)
NothingDropped(a) == FALSE

Dropped(a) == Recordable(a) # DOMAIN a.passed

ItkEntry(a) == [results |-> [n \in Recordable(a) |-> a.passed[n]], verdict |-> a.all_passed]

(* is_conformant, from the counts of the level must. *)
Conformant(report) == \A r \in {"fail", "error"} : <<"must", r>> \notin report

(* build_run: one entry of all bindings. *)
ActsEntry(a) == [results |-> a, verdict |-> \A b \in DOMAIN a : Conformant(a[b])]

Entry == IF kind = "itk" THEN ItkEntry(answer) ELSE ActsEntry(answer)

(* Append, prune and save; a run that cannot be recorded whole is refused.    *)
(* The exit code of process_results is the job's, and that of                 *)
(* process_acts_results only adds to it.                                      *)
Compile ==
    /\ phase = "compile"
    /\ IF kind = "itk" /\ Dropped(answer) THEN Rest(TRUE)
       ELSE /\ history' = Newest(Append(history, Entry), Limit[kind])
            /\ failed' = IF kind = "itk" THEN FALSE ELSE failed
            /\ phase' = "upload" /\ UNCHANGED <<kind, bindings, at, answer>>
    /\ UNCHANGED <<fetchVars, jobs, asset, published>>

(* The workflow replaces the asset. *)
Upload ==
    /\ phase = "upload" /\ ~failed
    /\ asset' = [asset EXCEPT ![kind] = history]
    /\ published' = [published EXCEPT ![kind] =
                        Append(@, [entry |-> history[Len(history)], answer |-> answer])]
    /\ Rest(FALSE) /\ UNCHANGED <<fetchVars, jobs>>

UploadFails ==
    /\ phase = "upload" /\ Rest(TRUE)
    /\ UNCHANGED <<fetchVars, jobs, asset, published>>

Script == Validate \/ HistoryRead \/ HistoryUnavailable \/ Compile \/ Upload \/ UploadFails

(* What the remote does between two plans is done at the start of the next.   *)
Next ==
    \/ StartItk \/ Service \/ CurlGivesUp
    \/ (\E list \in BindingLists : StartActs(list)) \/ Ask \/ Load
    \/ Script
    \/ phase = "wait" /\ Remote /\ UNCHANGED nightVars

(* The script of a traversal job goes on, and curl's clock runs; the service  *)
(* and the remote may stop at any point, and a conformance job with them: its *)
(* requests have no timeout.                                                  *)
Spec == Init /\ [][Next]_vars /\ WF_vars(CurlGivesUp) /\ WF_vars(kind = "itk" /\ Script)

-----------------------------------------------------------------------------
(* Properties *)

(* The published history is the newest entries that were ever published, as   *)
(* many as the limit keeps, of each kind: an unreachable asset, a job that    *)
(* fails or an upload that fails never costs one (fetch_existing_history,     *)
(* process_results.main, process_acts_results.main).                          *)
WindowKept ==
    \A k \in Kind :
        LET entries == [i \in DOMAIN published[k] |-> published[k][i].entry]
        IN  asset[k] = Newest(entries, Limit[k])

(* A published entry is a whole run: every scenario or binding that was asked *)
(* for and answered is in it, none of them empty or an error, and its verdict *)
(* is good only if each of theirs is ("a broken agent cannot be published as  *)
(* a clean night").                                                           *)
EntryIsTheRun ==
    \A k \in Kind : \A i \in DOMAIN published[k] :
        LET e == published[k][i].entry
            a == published[k][i].answer
        IN  CASE k = "itk" -> /\ e.results = a.passed /\ DOMAIN a.passed # {}
                              /\ e.verdict = (FALSE \notin {a.passed[n] : n \in DOMAIN a.passed})
              [] k = "acts" ->
                   /\ e.results = a
                   /\ \A b \in DOMAIN a : a[b] \notin {None, {}}
                   /\ e.verdict = ({<<"must", "fail">>, <<"must", "error">>}
                                     \cap UNION {a[b] : b \in DOMAIN a} = {})

(* A traversal job ends, whether or not the service ever answers:             *)
(* ITK_RUN_TIMEOUT bounds the request.                                        *)
ItkNightEnds == (kind = "itk" /\ phase # "rest") ~> phase = "rest"
=============================================================================
