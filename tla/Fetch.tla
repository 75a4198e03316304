------------------------------- MODULE Fetch -------------------------------
(***************************************************************************)
(* How the agents of a batch come from git: itk_runner.build_specs resolves *)
(* the ref of each to a commit (launcher/fetch.py, resolve_ref), and the    *)
(* commits are fetched and built side by side (fetch_commit,                *)
(* builders.build_in_place, codegen), under cache.checkout_and_build, which *)
(* BuildCache has the sharing of.                                           *)
(*                                                                         *)
(* The remote is external: refs move and vanish, commits are no longer      *)
(* served, a git call times out or fails at any time.                       *)
(***************************************************************************)
EXTENDS Integers, Sequences, FiniteSets

CONSTANTS
    N,          \* agents of the batch that are checked out
    Line,       \* pairs of a repository and a ref in the matrix
    LineOf,     \* per agent, its line
    Symbolic,   \* lines whose ref is neither a branch nor a tag (HEAD)
    Sha,        \* commits
    Tip0,       \* per line, the commit its ref is at when the model starts
    LangOf,     \* per commit, the language of its agent, or None
    Retries,    \* ITK_RETRIES
    MaxMoves,   \* bound: changes of the remote
    None

Agent == 1..N
Language == {"python", "go", "java", "rust", "ts", "dotnet"}

(* Mutant: Rust is left out of the set. *)
EarlyButRust == {"go", "java"}

Early == {"go", "rust", "java"}                      \* _CODEGEN_BEFORE_BUILD
Prepared == {"go", "rust", "java", "python", "ts"}   \* _CODEGEN_PREPARERS

ASSUME FetchAssumption ==
    /\ N \in Nat /\ Retries \in Nat /\ MaxMoves \in Nat
    /\ LineOf \in [Agent -> Line] /\ Symbolic \subseteq Line
    /\ None \notin Sha /\ Tip0 \in [Line -> Sha]
    /\ LangOf \in [Sha -> Language \cup {None}]

VARIABLES
    tip,       \* the commit of each ref, None once it is deleted
    lost,      \* commits the remote does not serve any more
    moves,
    plan,      \* of build_specs
    next,      \* the agent it is at
    tries,     \* attempts at its ref that have failed
    shaCache,
    specs,
    shown,     \* history: what each ref has been at since the plan began, None when deleted
    stage,     \* of each commit's checkout
    attempts,  \* of its fetch that have failed
    holds      \* what is in its tree

remoteVars == <<tip, lost, moves>>
planVars   == <<plan, next, tries, shaCache, specs>>
treeVars   == <<stage, attempts, holds>>
fetchVars  == <<remoteVars, planVars, shown, treeVars>>

Nothing(S) == [x \in S |-> None]

FetchInit ==
    /\ tip = Tip0 /\ lost = {} /\ moves = 0
    /\ plan = "idle" /\ next = 1 /\ tries = 0
    /\ shaCache = Nothing(Line) /\ specs = Nothing(Agent)
    /\ shown = [l \in Line |-> {}]
    /\ stage = [s \in Sha |-> "idle"] /\ attempts = [s \in Sha |-> 0] /\ holds = [s \in Sha |-> {}]

-----------------------------------------------------------------------------
(* The remote *)

(* To a branch there is, or one that is made again. *)
Push(l) ==
    /\ moves < MaxMoves
    /\ \E s \in Sha \ lost :
         /\ s # tip[l] /\ tip' = [tip EXCEPT ![l] = s]
         /\ shown' = [shown EXCEPT ![l] = @ \cup {s}]
    /\ moves' = moves + 1 /\ UNCHANGED <<lost, planVars, treeVars>>

Delete(l) ==
    /\ tip[l] # None /\ moves < MaxMoves
    /\ tip' = [tip EXCEPT ![l] = None] /\ shown' = [shown EXCEPT ![l] = @ \cup {None}]
    /\ moves' = moves + 1 /\ UNCHANGED <<lost, planVars, treeVars>>

(* A commit that no ref is at is collected. *)
Collect(s) ==
    /\ s \notin lost /\ moves < MaxMoves /\ \A l \in Line : tip[l] # s
    /\ lost' = lost \cup {s} /\ moves' = moves + 1
    /\ UNCHANGED <<tip, planVars, shown, treeVars>>

Remote == (\E l \in Line : Push(l) \/ Delete(l)) \/ \E s \in Sha : Collect(s)

-----------------------------------------------------------------------------
(* build_specs *)

line == LineOf[next]

BeginPlan ==
    /\ plan' = "query" /\ next' = 1 /\ tries' = 0
    /\ shaCache' = Nothing(Line) /\ specs' = Nothing(Agent)
    /\ shown' = [l \in Line |-> {tip[l]}]
    /\ UNCHANGED <<remoteVars, treeVars>>

(* Mutant: the commit is not remembered for the line. *)
SpecifyAlone(s) ==
    /\ specs' = [specs EXCEPT ![next] = s] /\ UNCHANGED shaCache
    /\ next' = next + 1 /\ tries' = 0 /\ plan' = "query"

Specify(s) ==
    /\ specs' = [specs EXCEPT ![next] = s]
    /\ shaCache' = [shaCache EXCEPT ![line] = s]
    /\ next' = next + 1 /\ tries' = 0 /\ plan' = "query"

(* Another agent of the line has been resolved. *)
Known ==
    /\ plan = "query" /\ next <= N /\ shaCache[line] # None
    /\ Specify(shaCache[line])

Asking == plan = "query" /\ next <= N /\ shaCache[line] = None /\ tries < Retries

Fruitless == tries' = tries + 1 /\ plan' = "query" /\ UNCHANGED <<next, shaCache, specs>>

Refuse == plan' = "permanent" /\ UNCHANGED <<next, tries, shaCache, specs>>

(* ls-remote --heads --tags --refs *)
QueryAnswers == Asking /\ line \notin Symbolic /\ tip[line] # None /\ Specify(tip[line])

(* It lists nothing: asked again without the filter. *)
QueryEmpty ==
    /\ Asking /\ (line \in Symbolic \/ tip[line] = None)
    /\ plan' = "fallback" /\ UNCHANGED <<next, tries, shaCache, specs>>

(* A marker in stderr: no such repository, no access, a failed authentication, *)
(* a 404; a ref that is missing is an empty answer and no failure.            *)
QueryRefused == Asking /\ Refuse

QueryFails == Asking /\ Fruitless

FallbackAnswers  == plan = "fallback" /\ tip[line] # None /\ Specify(tip[line])
FallbackEmpty    == plan = "fallback" /\ tip[line] = None /\ Refuse
FallbackTimesOut == plan = "fallback" /\ Fruitless

(* Its exit code is not classified as the first query's is. *)
FallbackFails == plan = "fallback" /\ Refuse

GiveUp ==
    /\ plan = "query" /\ next <= N /\ shaCache[line] = None /\ tries = Retries
    /\ plan' = "infra" /\ UNCHANGED <<next, tries, shaCache, specs>>

Ready == plan = "query" /\ next = N + 1 /\ plan' = "ready" /\ UNCHANGED <<next, tries, shaCache, specs>>

Plan ==
    /\ \/ Known \/ QueryAnswers \/ QueryEmpty \/ QueryRefused \/ QueryFails
       \/ FallbackAnswers \/ FallbackEmpty \/ FallbackTimesOut \/ FallbackFails
       \/ GiveUp \/ Ready
    /\ UNCHANGED <<remoteVars, shown, treeVars>>

-----------------------------------------------------------------------------
(* fetch_commit and build_in_place, of the commits planned *)

Wanted == {s \in Sha : \E a \in Agent : specs[a] = s}
Failed == {"permanent", "unfetched", "unbuilt"}
Over(s) == stage[s] \in Failed \cup {"built"}

To(s, st, contents) ==
    stage' = [stage EXCEPT ![s] = st] /\ holds' = [holds EXCEPT ![s] = contents]

(* cache.checkout_and_build removes the tree of whatever fails. *)
Fail(s, st) == To(s, st, {}) /\ UNCHANGED attempts

Begin(s) == stage[s] = "idle" /\ To(s, "init", {}) /\ UNCHANGED attempts

(* The next attempt starts in the same directory, as the last one left it. *)
Again(s, left) ==
    /\ attempts' = [attempts EXCEPT ![s] = @ + 1]
    /\ IF attempts[s] + 1 < Retries THEN To(s, "init", holds[s] \cup left) ELSE To(s, "unfetched", {})

Init_(s)     == stage[s] = "init" /\ To(s, "fetch", holds[s] \cup {"git"}) /\ UNCHANGED attempts
Fetched(s)   == stage[s] = "fetch" /\ s \notin lost /\ To(s, "checkout", holds[s] \cup {"objects"}) /\ UNCHANGED attempts

(* The same markers: a commit that is not served, or any that is refused. *)
NotOurRef(s) == stage[s] = "fetch" /\ Fail(s, "permanent")

(* Exit codes and timeouts, of each of the three; a checkout that is killed   *)
(* may leave the lock of its index.                                           *)
GitFails(s) == stage[s] \in {"init", "fetch", "checkout"} /\ Again(s, {})
CheckoutKilled(s) == stage[s] = "checkout" /\ Again(s, {"lock"})

(* The order of the two steps is the language's. *)
FirstStep(lang) == IF lang \in Early THEN "codegen" ELSE "build"
Follows(lang, step) ==
    IF step = FirstStep(lang) /\ lang \in Prepared
    THEN (CHOOSE other \in {"codegen", "build"} : other # step) ELSE "built"

CheckedOut(s) ==
    /\ stage[s] = "checkout" /\ "lock" \notin holds[s]
    /\ IF LangOf[s] = None THEN To(s, "unbuilt", {})
       ELSE To(s, FirstStep(LangOf[s]), holds[s] \cup {"source"})
    /\ UNCHANGED attempts

(* What a step reads of what the other makes, language by language: main.go    *)
(* imports the stubs, build.rs and the Maven plugin read the protos; the       *)
(* generators come with uv's grpcio-tools and with node_modules.              *)
Needs(lang, step) ==
    CASE <<lang, step>> \in {"go", "rust", "java"} \X {"build"} -> {"source", "codegen"}
      [] <<lang, step>> \in {"python", "ts"} \X {"codegen"}     -> {"source", "build"}
      [] OTHER -> {"source"}

(* What spawn runs: the agent as built, with the stubs of its instructions.   *)
Spawned(lang) == IF lang = "dotnet" THEN {"source", "build"} ELSE {"source", "build", "codegen"}

StepDone(s, step) ==
    /\ stage[s] = step /\ Needs(LangOf[s], step) \subseteq holds[s]
    /\ To(s, Follows(LangOf[s], step), holds[s] \cup {step}) /\ UNCHANGED attempts

StepFails(s, step) == stage[s] = step /\ Fail(s, "unbuilt")

Checkout(s) ==
    /\ plan = "ready" /\ s \in Wanted
    /\ \/ Begin(s) \/ Init_(s) \/ Fetched(s) \/ NotOurRef(s)
       \/ GitFails(s) \/ CheckoutKilled(s) \/ CheckedOut(s)
       \/ \E step \in {"codegen", "build"} : StepDone(s, step) \/ StepFails(s, step)
    /\ UNCHANGED <<remoteVars, planVars, shown>>

FetchNext == Remote \/ Plan \/ \E s \in Sha : Checkout(s)

-----------------------------------------------------------------------------
(* Properties *)

(* Agents of one line are planned at one commit, however the ref moves while  *)
(* the plan is made, and that commit was the ref's since the plan began:      *)
(* build_specs resolves each pair of repository and ref once.                 *)
OneShaPerRef ==
    \A a \in Agent : specs[a] # None =>
        /\ specs[a] \in shown[LineOf[a]]
        /\ \A b \in Agent : LineOf[b] = LineOf[a] => specs[b] \in {specs[a], None}

(* A step of the build starts only in a tree that has what its language's step *)
(* reads, and a tree is kept only with all that spawn runs, whatever the order *)
(* build_in_place takes the two steps in (_CODEGEN_BEFORE_BUILD).              *)
StepsFindTheirInputs ==
    \A s \in Sha :
        /\ stage[s] \in {"codegen", "build"} => Needs(LangOf[s], stage[s]) \subseteq holds[s]
        /\ stage[s] = "built" => Spawned(LangOf[s]) \subseteq holds[s]
=============================================================================
