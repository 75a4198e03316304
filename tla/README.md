# A TLA+ verification of a2a-itk

`a2a-itk` is the interoperability test kit of the A2A protocol. It builds the
agents of several SDKs from source, starts them, sends *traversals* through them
(ITK), interrogates one of them with a conformance corpus (ACTS), and records
verdicts. What can go wrong without a test noticing is in its launcher and in the
order of its runs: processes and threads share a build cache, ports, an environment
and one service, and a verdict is worth something only if the agent it is about is
the one that was meant. This directory models those parts, checks them with TLC on
small instances and proves the most important properties with TLAPS.

## Inventory

| Part | State it keeps | Operations | What is hard | What makes it correct |
| --- | --- | --- | --- | --- |
| Build cache, `test_suite/launcher/cache.py` | trees, sentinels, lock and pin files on disk; `_pin_refs` per process | `checkout_and_build`, `release`, `evict` | several processes and threads, `kill -9`, a clock, an eviction beside running tests | a tree in use stays; a sentinel means a finished build; pins are neither lost nor leaked; nothing waits for ever |
| Cluster, `launcher/cluster.py` with `ports.py`, `health.py`, `resolve.py` | handles, logs, pins, ports of one run; the process's port reservoir | `start_all`, `_start_one` in a thread pool, `__exit__` | failures of each stage on each worker, exceptions in workers, process groups, port collisions | teardown leaves nothing; agents run from pinned trees; results are complete; the block ends |
| ACTS front end, `acts_runner.py` | `os.environ` while a SUT deviates; results of the passes | `run`, `_run_pass`, `_rerun_deviation`, `_sut_env` | a process-wide variable set across awaits; splicing of verdicts | a SUT deviates only when asked; verdicts bear the configuration that gave them; what ran is final |
| ITK runner and service, `itk_runner.py`, `itk_service_v2.py` | `_execution_lock`, the matrix, the results of a run | `prepare`, `run_scenarios`, `_select_runnable`, `/run`, `/run-acts` | queueing of requests, dropped peers, trimmed scenarios, error mapping | no scenario disappears unreported; a run with nothing to test is not green |
| ACTS engine, `test_suite/acts/` | variable scopes, streams, webhook deliveries | `Runner.run_suite`, steps, polling, stream collection | concurrent streams, timeouts, late notifications | a fail is the SUT's fault and an error the harness's; a pass conformed; the run ends |
| Assertion language, `acts/assertions.py`, `acts/variables.py` | the scope of one test | `evaluate*`, `capture`, `substitute`, `resolve` | operators and fields in one map, paths that reach nothing, references among captures | an expect tree says what its paths read; a quantifier is not true of nothing; a capture is of the answer the step was judged by |
| Fetch and builders, `launcher/fetch.py`, `builders.py`, `codegen.py`, `itk_runner.build_specs` | the commits of a plan; a tree per commit while it is fetched and built | `resolve_ref`, `fetch_commit`, `build_in_place`, code generation | refs that move, commits that are collected, git that fails, hangs or is killed, retries in a used directory | one commit per line; a step of the build finds what it reads |
| Nightly jobs, `scripts/` | the rolling histories, published as release assets | `run_itk_shared.sh`, `itk_report.py`, `acts_report.py`, `process_results.py`, `process_acts_results.py` | a service that never answers, an asset that cannot be read or replaced, a run without results | the window keeps the newest entries; an entry is a whole run; the job ends |
| Scenario engine, `test_suite/scenarios/` | none | topology expansion, resolution, exclusions | edge cases of graphs and of filters | every scenario is run, trimmed or skipped with a reason |
| Traversal engine, `test_suite/__init__.py` | none | components, Euler walks, nested instructions | graphs that have no circuit | every edge is walked exactly once |
| Test library, `testlib.py`, `notifications_app.py` | the notification server's store | one traversal with its deadline | deliveries that arrive late or twice | a pass means that every hop was seen |

Around them are I/O and data without control of their own: `config.py`, `errors.py`,
`spec.py`, `matrix.py` (constants and parsers), `current.py` (command lines),
the ACTS dispatchers (one call each), the schemas and loaders of corpus and scenarios,
the dashboard and `pyproto`.

The parts meet as follows. The service or a command line calls `itk_runner` or
`acts_runner`. Both open a `Cluster`; its workers call `checkout_and_build` for
every peer and spawn it, and `__exit__` kills the agents and releases the pins.
`evict` is run by CI in a process of its own and shares only the cache directory
with the runners. `_execution_lock` serialises the runs of `itk_runner`; conformance
runs do not take it. The nightly script is a client of the service: it posts a request,
reads the answer from a file and extends a history that the workflow then uploads.

## Modules

| Module | Models | Checked by |
| --- | --- | --- |
| `BuildCache` | `cache.py`, and who calls it when | `cache_*` runs |
| `TreeStore` | the promise of the cache, without locks, pins and files | `cache_safety` (refinement) |
| `BuildCacheProofs` | type correctness, no leaked pin, sentinel and use of a tree, `TreeStore` implemented, pin files | TLAPS |
| `Cluster` | `cluster.py`, `ports.py`, `wait_ready` | `cluster_lifecycle` |
| `ClusterProofs` | complete outcomes, pins, teardown | TLAPS |
| `ActsRuns` | the passes of `acts_runner.py`, beside traversals | `acts_*` runs |
| `ActsRunsProofs` | environment and labels of serial runs, final results | TLAPS |
| `TraversalGraph` | edge lists, topologies, subgraphs: `topology.py`, pure parts of `test_suite/__init__.py` | through the next three |
| `Euler` | decomposition and Hierholzer's algorithm, a loop iteration a step | `traversal` |
| `Traversal` | one traversal with its notification server, deadline and verdict: `testlib.py` | `traversal` |
| `TraversalProofs` | the walk of every graph, what a pass has walked | TLAPS |
| `Resolver` | what a batch of declarations becomes: `resolver.py`, `exclusions.py` | through `ItkRun` |
| `ItkRun` | `POST /run` and `run_scenarios` | `itk_*` runs |
| `ItkRunProofs` | agents under the lock, results kept, walks as authored, losses reported | TLAPS |
| `ActsEngine` | `run_suite` against one SUT: `acts/runner.py`, `acts/streaming.py`, the failures of the dispatchers | `acts_engine` |
| `ActsEngineProofs` | errors blame the run, fails blame the SUT, a pass means that it conformed | TLAPS |
| `Variables` | paths into a response, scopes, captures, what a reference reads: `acts/variables.py` | through `ActsStep` |
| `ActsStep` | a test of unary steps over the values themselves, but for the judging: `acts/runner.py` | `acts_step` |
| `ActsStepProofs` | captures of the answer taken, polls that stop for cause | TLAPS |
| `Substitution` | the references of a value, and the value without them: `acts/variables.py` | through `ActsJudgement` |
| `Assertions` | the assertion language, operator by operator: `acts/assertions.py` | through `ActsJudgement` |
| `ActsJudgement` | how an answer is judged, which `ActsStep` leaves open: `acts/runner.py` | `acts_step` |
| `Fetch` | `build_specs`, `fetch.py`, the order of `builders.py` and `codegen.py` | through `Nightly` |
| `Nightly` | the nightly jobs of `scripts/`, with `Fetch` inside the traversal job | `nightly` |
| `NightlyProofs` | the plan, builds, the window and its entries | TLAPS |
| `MCBuildCache`, `MCCluster`, `MCActsRuns`, `MCTraversal`, `MCItkRun`, `MCActsEngine`, `MCActsStep`, `MCNightly` | values of the constants | |

`TreeStore` is what `Cluster` relies on: a target in `pins` there is a session that
is `using` in `BuildCache`, and `AgentsArePinned` says that agents run no longer
than that. `ActsRuns` abstracts a `Cluster` block to the spawn of its SUT, and what `run_suite` answers to the
reason for which each test was skipped; how a test that ran got its verdict is the subject of `ActsEngine`. `ItkRun`
takes from `Cluster` that some agents come up, or that `start_all` raises, and from
`Traversal` that a graph `Traversable` passes or fails, others fail: the verdicts are a
choice there. `Traversal` extends `Euler` and runs it inside its action `Build`.
`ActsEngine` knows of an answer only whether it conforms; `ActsStep` has the answers themselves, and
`ActsJudgement` what conforming is, for the unary steps. `Nightly` extends `Fetch`: between the request and the answer of a
traversal job the service plans and builds as `Fetch` says, and what its cluster and its walks
then do is a choice among answers (`Served`), as is a conformance run (`Reports`).

### BuildCache

A *session* is one `checkout_and_build` and the `release` that pairs with it. Its
`pc` follows the code: `lock` (waiting for the key's flock), `pin` and `write` (the two
halves of `_pin`: the count under `_pin_refs_lock`, the file after it), `lookup`,
`fetch`, `build`, `touch`, `leave`, then `using`; a failed fetch, a missing subdirectory
or a failed build removes the tree and goes through `drop`, `dropfile`, `abandon`. A
release is `release`, `unlink`: the two halves of `_unpin`, outside the key lock. `evict`
has its own `evPc`: it takes its snapshot, and for each tree decides, tries the key's
lock, tests and reclaims pins, removes, unlocks. Removal is two steps because `rmtree`
is not atomic, and the sentinel may go in either. `Kill` is `kill -9`: the kernel
drops flocks, everything on disk stays. A tree is absent, partial or complete, and its
size follows from that. Time is a counter, `Tick`.

`OverlappingRuns` says which callers there are. `FALSE` is the `Cluster` of
`itk_runner`: its checkouts are joined before its releases begin and runs are
serialised by `_execution_lock`. `TRUE` is several `LaunchSession`s in one process,
which the docstrings of the cache promise to support.

### Cluster

One `with Cluster()` block. `pc[t]` follows `_start_one`; `Begin` is the FIFO queue of
the thread pool. `PickPort` and `TakePort` are the two critical sections of
`_one_free_port`. `raised` is a worker that ends with an exception that `_start_one`
does not expect: `MapRaises` is what `executor.map` then does, cancelling what has not
begun. An agent may be the spawned process or a child of it (`Wrapped`): `proc` is
what was spawned and `children` the wrapped agents that live. A wrapper may exit by itself
(`Crash`) with its child or without it. `KillGroup` does nothing about a group whose leader has
exited; otherwise it signals the group and waits for the leader only, so that a `Stubborn` child may
stay. `Orphaned` are the children left in these two ways. A log is opened before the start that
needs it (`SpawnFails`), and known to `__exit__` by its process only (`logHandles`).

### ActsRuns

A request is a conformance run (local or of an external SUT) or a traversal. A step is
what the event loop does between two awaits: ending a pass, restoring the environment,
splicing the verdicts and setting the variable of the next pass is one step
(`Continue`). The SUT inherits the environment at `Spawn`. A verdict is the skip
reason (`"none"`: it ran), the deviations its SUT was in, and the stamp.
`Serial` is a caller that waits for one run before it starts another, as `run_acts.py`
and `scripts/run_itk_shared.sh` do.

### TraversalGraph, Euler, Traversal

A scenario is a sequence of agents, the entry agent first, and edges as pairs of
positions; without edges the graph is `Mesh`, every agent to every other. `adj` holds, per agent, the positions of
its edges that are not yet walked, so that doubled edges are told apart. `Euler` has one action per loop iteration: `OpenComponent`, `VisitAgent`
and `CloseComponent` are `_decompose_into_components`, with any agent of the frontier
next because Python's sets have no order; `Advance` and `Retreat` are the two branches
of Hierholzer's loop. `RefusedForCause` compares the test by degrees with a definition
that does not mention degrees: the edges can be arranged into closed walks.

`Traversal` is `_execute_with_deadline` and what it calls. `phase` is where the
coroutine is, `chain` and `depth` where the agents are. Agents are external: a hop
fails, succeeds, or is swallowed by an agent that goes on without an answer (`EndChain` at any depth;
`reached` says how far each chain came), and the entry agent may reply before its last chain. A
task's last notification arrives at some time or never. What the reply holds is which trace tokens were
written and which chains ended (`Written`, `Terminated`), and `TokensFound` is the comparison of
`_verify_send_message`. The terminal token is the transport's, so that with two circuits of one
transport a reply of which one is missing its end has it all the same. Texts of notifications are
abstracted to which expected state is contained in which task's text (`TextHas`).
The circuit of a component without the entry agent is handed to the entry agent like
the others, so that its first hop is not made by the agent in the trace token (`Caller`);
`PassWalksGraph` is therefore about graphs all of whose edges hang together with the
entry agent. `EulerPromise` gathers what the walk promises: every edge once, components apart, and the
refusal for a cause.

### Resolver, ItkRun

`Resolver` is the batch as constants and operators: filters, peers by capability, known
failures, variants, names. A name is a sequence of words: those of the declared name, the peer,
the variant. The list of scenarios is a set, each with its place `at` (declaration, variant, group), and `todo` is run in
the order of the places (`Before`). `Survives` and `RestrictToAvailable` say whether a scenario can do
without some of its agents, and what is then left of it. `ItkRun` is the handler with a `pc` between its awaits; `Answer` is every way out
of it. A subtest is a result with `sub`, its agents. The code keeps results in one dictionary keyed by
strings: `Key` is the words of that string, the scenario's name or `label-sub-a-b`, and `Execute`
replaces whatever has the key. `KeysApart` says that no scenario is named like a subtest of another, which
`resolve_all` does not check; `ResultsKept` is about batches of which it is true.
`startup` is a set of at most one report, of the agents that did not come up.

### ActsEngine

`suite` is a run's input, `verdicts` its growing list of results, `at` the step of the test at
hand. `SkipTest`, `LackCard`, `LackBehavior` and `Begin` are the ways through the head of
`run_test`; a step then goes through `_run_unary_step` and `_run_client_step` (`Dispatch`, `Reply`,
`Pending`, `Lost`), `_run_streaming_step` (`OpenStreams`, then `Collect` for each stream
in any order, then `EndStreams`) or `_run_webhook_step` (`AwaitWebhook`, `Read`,
`Check`, with `Deliver` and `DeadlinePasses` at any moment). `Conclude` is every way to a verdict,
`Abort` an exception that `run_test` does not handle. A polled step counts its attempts;
`scope` holds the names defined so far.

What a reply or an event says is reduced to whether it conforms (for a stream, assertions on its events, its status
and its captures are one choice, `content` in `EndStreams`), except for the states that
`monotonic_state` orders: there the model keeps the states and evaluates the stream as
`check_ordering` does (`StreamFits`). So the properties about streams are about order, counts, endings and blame. Against it stands a history, `wrong`: whenever somebody does something,
`wrong` notes who did something wrong. The SUT did when it sent an event it must not (`Illegal`
looks at *all* events before, whereas `MovesBack` compares with the last that had a
state), too many or too few, opened a stream to be refused, refused one, or kept one open past a
declared timeout; the harness did when an exchange failed or when the deadline of
the runner itself cut a stream. The verdicts are computed without it, and the properties
compare the two.

### Variables, ActsStep, Substitution, Assertions, ActsJudgement

A JSON value is a pair of its type and its content, and an assertion is such a value itself.
`Evaluate` and the operators below it follow `assertions.py` function by function, without the
paths and messages of failures. They are recursive over the tree and stay with TLC, so `ActsStep` has what it calls of
them as constant operators: `Ready` (is every reference of the parameters resolvable?), `Equal`
(a value and a literal of `until`), `Judge` and `JudgeAll` (how the step and the test end). The configuration gives them
`Resolvable`, `Same`, `StepOutcome` and `AllNamed` for values, so that `acts_step` checks the whole. In `ActsStep` the SUT
gives any of `Answers` to any request (`Reply`); `taken` is a history of the answers the steps passed with. `EvaluateUntil` follows the code
where a path reads nothing: `!=` then holds and the poll ends, although the docstring (`assertions.py:695-697`) says that the
condition is just false; `PollStopsForCause` exempts it (`open`). The
properties of `ActsJudgement` have a reading of their own: `BodyReadsPaths` unrolls an expect tree into *duties*, leaves at dot-paths, and compares
the verdict with what is read there; only for `one_of`, which is about how many of its alternatives hold, does it
ask `Evaluate` about each of these. `QuantifiersInspect` does so for wildcard paths, over the concrete
paths they stand for.

### Fetch, Nightly

`plan` is where `build_specs` is: `query` asks for the next agent's ref, `fallback` asks again without
the filter, `ready`, `permanent` and `infra` are its ends. `stage` follows each commit through
`fetch_commit` (`init`, `fetch`, `checkout`, again from `init` after a failure, in the same directory) and
`build_in_place` (`codegen` and `build` in the order of the language). `holds` is what is in the tree:
what git made, a lock a killed checkout left, the source, what the steps made. `shown` is a history of the
commits each ref was at while the plan was made. The remote moves refs, deletes them and makes them again, and
collects commits at any time while a job plans and builds. A marker in git's answer refuses at once whether or not the ref is
there (`QueryRefused`, `NotOurRef`), since a server that denies access says the same of both. What a
build step reads of the other is a table by language (`Needs`, from the docstring `builders.py:99-106`),
written apart from the set that orders the steps (`Early`, `_CODEGEN_BEFORE_BUILD`).

In `Nightly` a job goes from `wait` (curl in `POST /run`) or `ask` (curl in `POST /run-acts`, per
binding) over `report`, `fetch` (the history from its URL), `compile` and `upload` back to `rest`; any refusal
is `Rest(TRUE)`. `published` is a history of all entries that were ever uploaded, with the
answers they were made from: `WindowKept` compares the asset with it, and `EntryIsTheRun` each entry with its
answer. Jobs of one SDK follow each other; the upload is the workflow's and external.

## Runs

| Run | Bounds | Shows |
| --- | --- | --- |
| `cache_safety` | 1 key, 3 sessions in 2 processes that may die, the two of one process not overlapping, 1 evictor, clock 1..3, deadline 2 | `InUseIntact`, `SentinelMeansBuilt`, `NoLeakedPin`, `FileRepresentsUse`, and that the cache implements `TreeStore` (`ImplementsTreeStore`) |
| `cache_liveness` | 2 keys, a session in each of 2 mortal processes, eviction repeated | `NobodyWaitsForEver` (checkouts and evictions), `ShrinksToBudget` |
| `cache_release_race` | 1 key, 2 sessions of one process, overlapping | violation of `FileRepresentsUse` |
| `cluster_lifecycle` | a mount, a checkout and a wrapped checkout whose child may outlive its wrapper or a SIGTERM, 2 workers, 4 ports | `NothingLeft`, `AgentsArePinned`, `OutcomesComplete`, `BlockEnds` |
| `acts_serial` | 2 local runs (one of them can only be refused), 1 external run, 2 traversals, 6 kinds of test, a SUT that honours one of the two deviations | `EnvRestored`, `VerdictsLabelled`, `VerdictsStay`, `Answered` |
| `acts_concurrent` | 2 local runs at once, 1 traversal | violation of `EnvGoneAfter` |
| `itk_run` | 3 peers; a request with one of six bodies (legacy and traversal/v1, per peer and together, filters, exclusions, subtests, a duplicate name, an unknown agent), a second one for a pair; every subset of agents up, every verdict | `ClusterUnderLock`, `LossReported`, `GreenMeansTested`, `WalksAuthoredEdges`, `ResultsKept`, `Answered` |
| `itk_vanishing` | one legacy scenario with subtests and a graph that cannot be walked | violation of `GreenMeansTested` |
| `traversal` | every digraph of 3 agents with at most 5 edges, loops included; graphs of 4 and 5 agents with an agent visited twice, doubled edges, components apart, bad indices; pushes over 0, 1 and 2 transports | `EulerPromise`, `PassWalksGraph`, `Ends` |
| `acts_engine` | 11 suites of 1 or 2 tests with every kind of step, two of them over gRPC; 2 streams, at most 3 events on each, 2 attempts, at most 2 notifications | `FailBlamesSut`, `ErrorBlamesHarness`, `PassMeansConforming`, `Answered` |
| `acts_step` | tests of 1 and 2 steps, with every operator and every form of assertion; answers of several shapes, arrays of at most 2; at most 3 polls | `BodyReadsPaths`, `QuantifiersInspect`, `CapturesAreOfTheAnswerTaken`, `PollStopsForCause` |
| `nightly` | 2 jobs of either kind; 3 agents of 2 lines, one of them `HEAD`; 4 commits, of a language that generates first, one that builds first, one that only builds and one without an agent; 2 retries; 2 changes of the remote; windows of 1 and 2 entries | `OneShaPerRef`, `StepsFindTheirInputs`, `WindowKept`, `EntryIsTheRun`, `ItkNightEnds` |

Why the bounds are enough for the questions. Keys do not interact except through the
order of an eviction and its total, so safety needs one key and the liveness run two;
two sessions of one process and one of another are the smallest case in which a pin
file is shared and a second one is not; a clock of 3 with a deadline of 2 lets a pin
become stale while another is fresh. `FileRepresentsUse` is about the time up to the deadline: past it
an eviction removes the pin of a live process with its tree, and a later pin of that process is not written again. `ShrinksToBudget` has
a clock that stands still, so that pins fall with their processes there and not with time. In the cluster three targets on two workers make
one wait, and four ports for six make them scarce, so that port reuse, exhaustion and
refusal happen. Three agents and five edges have every local shape of the walk
(detours, loops, returns), the larger graphs add what needs a fourth agent or a second
component; two transports give every circuit two chains, of which one may end and the other not. A second
request is enough to wait for the lock. Six tests cover the four kinds of precondition and one that no pass
can meet. In the engine two
streams are enough for one to fail while the other is read and for two to fail differently; three
events let an order break across an event without a state, and let a stream pass a limit
of one or two; two notifications arrive before, between and after two reads. Two steps are enough for one to read
what the other has captured, and three polls for a condition to be met at once, late or never.
Two jobs overflow one window and fill the other; two agents of one line with one of another between them let a branch move
between two questions about it, and two changes of the remote let a ref vanish and come back, or a planned commit
be left by its ref and collected. Deadlock is not checked: requests and blocks come to an end.

The violations are disagreements between the code and what it says of itself;
`PROJECT.json` quotes the lines.

* `release` unlinks the pin file after it has left the lock of the refcount. A
  checkout of the same process in between writes a file that is then deleted, and
  an eviction may take its tree. (`cache_release_race`)
* Two concurrent `POST /run-acts` can leave a deviation's variable set for the life
  of the service. (`acts_concurrent`)
* A scenario with `build_subtests` whose graph cannot be walked is expanded into
  nothing: no result, no report, and a green response if it is alone. (`itk_vanishing`)

Other behaviour of this kind is in the models, where constants or an exemption in a
property keep it out of the passing runs:

* Two workers may be given the same port when the kernel offers it to both, because testing the reservoir
  and taking the port are two critical sections (`src/test_suite/launcher/ports.py:70`): `PickPort` and `TakePort`.
* The last notification of the entry agent contains all expected states, so that a push test
  passes when no called agent pushed (`src/testlib.py:309-313`), although its docstring says that it
  verifies "every hop pushed" (`src/testlib.py:284`): `TextHas`. No property says so of a pass.
* Over two circuits of one transport, which share a terminal token, a reply in which one circuit broke off at its
  end passes (`src/testlib.py:257-274`). Circuits other than the first are apart from the entry agent, so `Attached` excludes it.
* An eviction killed inside `rmtree` can leave a sentinel on half a tree: with an
  evictor in `Mortal`, `SentinelMeansBuilt` fails.
* "Teardown signals the whole group so grandchildren [...] don't leak" (`src/test_suite/launcher/cluster.py:11-15`)
  does not hold of a wrapper that has exited by itself, as `_kill_pgroup` returns at `poll()` (line 381), nor of a child that withstands the
  SIGTERM its wrapper stops on, as the wait is for the leader and no SIGKILL follows (line 389). Such a child
  runs on after its pin is released. The run `cluster_lifecycle` has both; `NothingLeft` and
  `AgentsArePinned` exempt these children (`Orphaned`) and no others.
* A start that fails after its log was opened leaves the log open (`src/test_suite/current.py:382`), although logs are
  closed "even on error" (`src/test_suite/launcher/cluster.py:30-31`). `NothingLeft` allows logs of such starts only.
* A scenario named like a subtest of another one (`label-sub-a-b`, `src/testlib.py:645`) replaces its result, or is
  replaced: `resolve_all` compares the names of scenarios only (`src/test_suite/scenarios/resolver.py:158-165`), and says why two names must
  differ. `MCItkRun` assumes `KeysApart`; with a batch of that kind `ResultsKept` fails.
* A missing mount makes `_start_one` raise, and so does an answer that is not HTTP on
  the port an agent should have; then the agent is already running and nobody kills
  it. `NothingLeft` and `AgentsArePinned` exempt these agents (`Escaped`).
* The induced subgraph of agents without edges between them is the empty list, which
  `create_test_suite` takes for the complete graph (`src/test_suite/__init__.py:206`): with
  `build_subtests` on a chain, agents that the scenario keeps apart call each other. The documentation says that a
  subtest is the induced subgraph (`docs/interoperability/02_architecture.md:116`). `WalksAuthoredEdges` exempts the empty list;
  the scenario "apart" of `MCItkRun` has such subtests.
* A variable that nothing defines is caught in a request (`error`) and in the source of a named
  assertion (`fail`). Named in `expect`, `expect_error`, the assertions of a webhook step or the payload
  of a `client_response` step, it raises `UnresolvedVariable` through `run_suite`, and the
  results of the other tests are lost. `Answered` and `FailBlamesSut` exempt such tests (`NamesNobody`).
* A connection dropped while a stream opens is a `fail` if the step expects an error
  (`ExpectsRefusal`).
* Over gRPC a lost call, or one that outlives the client's deadline, is a reply with an
  error (`_response_from_rpc_error`), so it is a `fail`, and for a step that asks for any error
  it is a pass. `runner.py:10` says otherwise of every binding; `FailBlamesSut` is restricted to HTTP.
* A deadline during the start of the notification server leaves the server running,
  because the start is outside the `try`; `Ends` exempts it.
* `until: path != v` holds when the path reads nothing, although the docstring
  (`src/test_suite/acts/assertions.py:695-697`) says that the condition is then just false; the tests
  (`tests/test_acts_assertions.py:629`) pin what the code does. `_same` tells `true` from `1` at the top level
  only. `items` of an empty array and an empty `match` hold, with no check made. A captured object
  that is substituted into `expect` is read as an assertion.
* The exit code of the fallback query is a `PermanentError` at once, whatever git said and without a retry
  (`src/test_suite/launcher/fetch.py:136-145`): an outage during a query of `HEAD` is answered 400.
  A docstring promises a `PermanentError` for a ref that does not exist (line 101); no property says more. With `ITK_RETRIES=0` a ref is given up without being asked for.
* A `.git/index.lock` that a killed checkout left makes every later attempt futile, because the
  attempts share the directory (`CheckedOut` needs the tree without it).
* Two overlapping jobs of one SDK would lose an entry, since each extends the history it has read; a limit of 0
  keeps everything and a negative one drops from the wrong end (`NightlyAssumption` excludes both).
  `acts_results_*.json` is not removed before a run as `raw_results.json` is, so the model's workspaces are fresh.
  One bad binding costs the night's conformance entry. A report whose tests of level `must` were
  all skipped is conformant.

## Fairness

A checkout moves because `fetch_commit` and every build have a timeout
(`WF` of `Checkout`); a waiting flock is served in turn by the kernel (`SF` of
`LockKey`). An eviction that has begun is a loop without waits (`WF`). Starting an
eviction is fair in `HookSpec` only, for `ShrinksToBudget`, which is about an eviction
that a hook repeats. Every wait in `_start_one` has a timeout, hence `WF` for each
worker; the body of the `with` block is assumed to end. The passes of a conformance
run and a traversal have deadlines (`WF`; in `Traversal` the deadline itself is an action of
the fair `Own`, the agents are not fair at all), and `asyncio.Lock` serves its waiters in
order (`SF` of `TakeLock`). In
`ActsEngine` the runner itself is fair (`WF` of `Runner`), an exchange ends because every client
has a timeout (`WF` of `Exchange`; over HTTP it bounds each read, 300 s, and not the whole reply, so
that a SUT which trickles a reply for ever is outside the model), and so do the streams and the webhook loop because
each has a deadline (`WF` of `Timers`). The SUT is not fair: it need not send, close or
notify. In `Nightly` curl's clock is fair (`WF` of `CurlGivesUp`), since the request has a `--max-time`, and so is the
script of a traversal job after it; the service and the remote are not fair at all. The
conformance job's curl has no timeout, so nothing is assumed and nothing promised of its end.
`ActsStep` has no liveness: the engine's is in `ActsEngine`. Kills, crashes and clock ticks are never fair.

## Proofs

`BuildCacheProofs` proves `TypeCorrect` and `NoPinLeaks` for every set of keys,
processes and sessions, with overlapping runs or without. The type of `pinRefs` is the
hard part: that no refcount falls below zero needs the invariant that each process's
count for a key is the *number* of its sessions there between `_pin` and `_unpin`
(`Pinners`), a cardinality that each step changes by one at most. `NoPinLeaks` adds
that a pin file without a count belongs to a session about to write or unlink it.

It also proves `SentinelSound` and `UseSound` under two assumptions that
the violations above show to be needed: no eviction is killed (`EvictorsSurvive`) and
runs do not overlap in a process. Its inductive invariant `IInv` relates the holder of
each key lock to the one session or eviction inside it, a sentinel to a complete tree
unless its removal has begun, a counted session to its pin file and that file's age
to the session's own, and the eviction's position to what it has just read: after
`_has_live_pin` found nothing, no protected session can exist on that key, because
a new one would need the lock. None of these parts is inductive alone.

`CacheImplementsStore` proves from the same invariant, and under the same assumptions, that
the cache implements `TreeStore`. Each step is one of its actions or a stutter: the first file
of a fetch is `StartBuild`, the touch of the sentinel `FinishBuild`, and a session that leaves the
lock does a `Join`, which finds the tree ready by `TreeInv`. The start of an `rmtree` is `Remove`, with no
protected user by `EvictInv`; so is a failed build, where a protected user would imply a sentinel.
Everything else, crashes and the clock included, only ends uses (`Depart`): time may end
a protection but never begins one (`FreshBefore`).

`FileStands` is about every counted session, not protected ones only, and holds with evictions
killed at any point. It assumes `~OverlappingRuns`, and says what it says until the clock passes a deadline
(`now <= RunDeadline`), since a later session of the same process does not renew the timestamp. The invariant
says, up to then, that a counted session has its file unless it is about to write it (`StandInv`), that who is about
to unlink the file was the last of its process on the key (`LastInv`), which is what fails when runs
overlap, and that an eviction removes only trees that nobody is counted for (`AloneInv`).

`ActsRunsProofs` proves `EnvSound` and `LabelsSound` under `Serial`: with at most
one local run active, the environment is exactly what the open pass asks for,
`_sut_env` always finds its variable unset, and so a SUT deviates at most as asked;
`took_effect` then makes the stamp exact. `VerdictsFinal` needs no `Serial`: that the
result of a test that ran stays is proved for concurrent runs too, from the invariant
`NoneYet`, that no test has a result before the main pass of its run reaches it.

`TraversalProofs` proves `EulerPromiseKept`: for every graph within `InputAssumption`, whatever order the
agents are visited in, the finished circuits are closed, walk every edge exactly as often as it is given and share no
agent, and a graph that is refused cannot be arranged into closed walks. `EulerInv` is what is known in between. While a
component is walked there is an *anchor*, the agent from which the last way back was taken: at every other
agent the edges not yet walked balance, and the top of the stack has one more to leave by (`Residue`). For each pair of agents, the
steps in the circuits, in the stack and in the way back, the one step that joins these two, and the edges not yet walked
are together the edges given (`Counted`). So a walk can only be stuck at its anchor, and a finished one is closed. That it has
then walked the whole component is `Whole` and `KeptApart`: components and circuits are closed sets of agents, each the
least around its first agent (`Reach`), and no unwalked edge leaves them.

`TraversalBuildsAsEuler` says that `Traversal` steps as `Euler` does or leaves it alone, so that the same invariant holds
there. `PassWalksGraphAlways` needs of it that a graph that hangs together with the entry agent gives one circuit
(`OneCircuit`), and `TravInv`: a pass has ended all chains, and chains are handed out in order, one per
transport and circuit. Tokens found in a reply, or states in a store, mean a chain of each transport that ended (`Terminated`,
`PushTerminates`), which with one circuit is the chain itself.

`ItkRunProofs` proves all five invariants of `itk_run`, for any peers, known failures, batch and requests
(`MatrixAssumption`, `BatchAssumption`). `LockSound` rests on `LockInv`: who is inside the lock's block holds
it, and agents exist inside only, which every way out of the handler keeps. `RunInv` describes a request by its values: its results come
from scenarios that were selected and have been run, each with all its tests, and what is still to do has none. From it
`ResultsStay` follows for batches of which `KeysApart` is true: two scenarios of one name are an error of resolution
(`OneOfAName`), a subtest's key begins with its scenario's name and goes on with `sub`
(`LongerKey`), so that keys of different tests differ (`KeysDiffer`). The results that a later test could
replace are therefore none. `LossIsReported` and `GreenIsTested` add `ReportInv`, about answers
given; every declaration that the request asks for is run, trimmed, skipped or refused (`OwedIsPrepared`).
Both theorems have the hypotheses `KeysApart` and `SubtestsCovered`, that a scenario with subtests which runs has a
test of each of its agents, whatever stays down. The latter is what the batch of `itk_vanishing` lacks, where the code indeed loses a scenario; TLC evaluates in `MCItkRun`
that both hold of every other batch. `WalksAreAuthored` needs no such hypothesis. It says that an edge is never called more
often than the declaration asks, by an embedding of the edges that were run in those that were authored: what `MapEdges` keeps
is picked from the edges of the scenario (`PickedIsEmbedded`, `MappedIsEmbedded`), and the mesh of fewer agents is embedded in the mesh of
all, which is the arithmetic of rows and columns (`MeshPlaces`).

`ActsEngineProofs` proves `ErrorBlamesHarnessAlways` for any suites that
satisfy `EngineAssumption`. `EngineInv` says that a stream which was lost, or ran out of
the runner's own time, has been noted in `wrong` (`LostIsHarness`); that is what the first
exception of the gather is judged by. Its second part adds `BlameInv` for
`FailBlamesSutAlways`: over HTTP, whatever `evaluate_stream` would reject of a stream has
already been put down to the SUT. The heart of it is that an event out of order with respect to
its predecessor among the events that have a state is out of order with respect to some earlier event.
For webhook steps it says that a read which returned too few notifications, after the
deadline, means that they were late.

`PassMeansConformingAlways` is the converse, over gRPC too, by `ConformInv`: what has been put down to the SUT
is still rejected when it is judged (`Rejected`), and outside the exchange at hand nothing is
(`CleanElsewhere`). It needs that in a stream without an adjacent step back no event breaks
with *any* earlier one (`Traced`): `MovesBack` looks at the last event with a state, the
history at all of them, and that they agree rests on `submitted` and the terminal states being what breaks
the order. It also needs that a stream to be refused is the only one of its step (`RefusedAlone`, which the
validator of `Step` enforces), because the first stream that raises stands for all of them.

`ClusterProofs` proves `OutcomesSound`, `PinsCoverAgents` and `BlockLeavesNothing` for any number of targets, workers
and ports, any of them wrapped and any of these children stubborn. The first has the invariant
`Inv`: where a worker is decides how many ports its target has (`Allocated`), a target has an answer
when its worker is done and a handle when the answer is ready (`Answering`), and the main thread has waited for
what it goes on to use (`Waited`). The others add `Custody`: a process that runs is known to its worker or to a handle, and a child that no group signal
has ended is one whose wrapper exited or which is stubborn (`Known`); both imply a pin until `__exit__`'s kills
are over (`Pinned`); handles and the logs they stand for are given up before pins (`Closing`). That a raised worker's agent is known to
nobody, and an orphan out of reach, is the exemption in the properties.

`NightlyProofs` proves all four invariants of `nightly`, for any agents, refs, commits, retries, answers,
limits and number of jobs. `FetchInv` relates the plan to `shaCache` and both to `shown` (`CacheKnows`), a plan to the agent it is at
(`PlanAt`), and a stage to what its tree holds (`TreeMade`). `NightInv` says of a job
that its answer is fit for its phase (`AnswerKept`), that the history it holds is the asset it has read with at most its own entry
added (`HistoryHeld`), and `WindowKept` itself. The one fact about sequences it rests on is that the newest entries of a
longer history are the newest of the newest with one more (`NewestAppend`).

`ActsStepProofs` proves `CapturesAreOfTheAnswerTaken` and `PollStopsForCause` for every document that satisfies
`StepAssumption`, every answer and every way of judging. The assumption is what the schema enforces (a test has
steps, their ids differ, `max_attempts` is at least one), that the captures of a step are a map, and that a literal of `until`, a text, a
number, a boolean or null, equals itself only; TLC evaluates it for the tests of `MCActsStep`, with `Same` for `Equal`.
The invariant `StepInv` says that under the id of a step not run yet nothing is recorded (`Unrecorded`), without which
an earlier `response` would be kept instead of the answer's; that under each step that passed the scope has
what its captures' paths read in the answer taken (`Holding`); and what the condition said of each
answer of the step at hand (`Polling`). That a record adds to its own step only (`Recording`) is why what was captured stays; that a
block without a miss binds every one of its names (`CapturesRead`) is why it is there.

Model-checked only: the liveness properties `BlockEnds`, `NobodyWaitsForEver`, `ShrinksToBudget`, `Answered`, `Ends` and
`ItkNightEnds`, which are out of the prover's reach, and the two invariants of `ActsJudgement`, which stands on
`Substitution` and `Assertions`, whose operators recurse over trees.

## Plan

Done: the cache, the cluster, fetch and builds, the conformance passes, the engine inside them and its
assertion language, `/run`, the traversals and the nightly jobs. What would come next, in this order:

1. The gate of pull requests in `run_itk_shared.sh`, which takes another way through the reports.
2. Events of a stream and notifications over the values themselves, as `ActsStep` has unary answers.

## Not modelled

The schemas, the loaders and the wire map of the corpus and of scenarios: pure functions of
documents that are validated before anything runs. The dispatchers' requests, envelopes and error parsing: one
call each, whose failures are in `ActsEngine`. `behaviors.py`'s parsing and delays. `config.py`, `errors.py`, `spec.py`, `matrix.py`:
constants and classes without state. The command lines of `current.py`. Failures of the runner's own webhook receiver (an
httpx error of its GET would leave `run_test` like an undefined variable). The contents of trees and messages,
encodings, log output, argument parsing, the dashboard. PID reuse and PID namespaces, which the cache assumes away; file
system errors other than crashes. What a build tool that outlives its timed-out parent does to the tree.
