----------------------------- MODULE ActsEngine -----------------------------
(***************************************************************************)
(* The conformance engine, test_suite/acts/runner.py and streaming.py: one *)
(* run_suite against one SUT over one binding.                             *)
(*                                                                         *)
(* The tests run one after another; beside the runner act the SUT, the     *)
(* network, the streams of one step (asyncio.gather) and the clock.  What  *)
(* a reply or an event says is reduced to whether it conforms to what the  *)
(* step asserts, but for the states that `monotonic_state' orders.  The    *)
(* named assertions of a test are those of its last step here.             *)
(***************************************************************************)
EXTENDS Naturals, Sequences, FiniteSets

CONSTANTS
    Suites,        \* what a run may be given: tests in load order, the agent card or
                   \* none, the binding: "http" (JSON-RPC and REST) or "grpc"
    Capabilities,  \* what this runner provides
    Behaviors,     \* the tck-* prefixes the SUT declares, or None
    Variables,     \* the variables the document and the caller define
    MaxEvents,     \* bound: the events a SUT sends on one stream
    MaxDelivered,  \* bound: the notifications a SUT delivers for one task
    None

KINDS   == {"operation", "raw", "client", "webhook", "assertion"}
Outcome == {"pass", "fail", "skip", "error"}
State   == {"submitted", "working", "completed", "failed", "none"}
Phase   == {"opening", "open", "closed", "cut", "timed out", "refused", "misrefused", "lost"}

(* A step (schema.py) is of one kind; where it opens streams, each entry    *)
(* says where that stream is cut.  `asserts', `sources' and `uses' are the  *)
(* names in its assertions, in their sources, and in its request; `attempts'*)
(* is 0 without `repeat', `timed' says it declares a timeout_ms (other than *)
(* 0), `refusal' that it expects an error, and names it if it streams (in   *)
(* the corpus every such step does).                                        *)
StepBlock ==
    [id : STRING, kind : KINDS, uses : SUBSET STRING, asserts : SUBSET STRING, sources : SUBSET STRING,
     attempts : Nat, streams : Seq(Nat \cup {None}), min : Nat, max : Nat \cup {None},
     timed : BOOLEAN, monotonic : BOOLEAN, refusal : BOOLEAN]

TestBlock ==
    [applies : BOOLEAN, requires : SUBSET STRING, preconditions : {"none", "met", "unmet"},
     behaviors : SUBSET STRING, steps : Seq(StepBlock)]

(* _counts_are_consistent, and no test asks for more events than it lets a  *)
(* stream send; a raw or client step without streams counts nothing.        *)
Countable(s) ==
    /\ s.max # None => s.min <= s.max
    /\ \A i \in DOMAIN s.streams : s.streams[i] # None => s.min <= s.streams[i]

(* expect_error and expect_stream exclude each other: a stream that is to   *)
(* be refused is the only one of its step, and nothing is asked of it.      *)
RefusedAlone(s) ==
    s.refusal /\ s.streams # <<>> =>
        s.streams = <<None>> /\ s.max = None /\ ~s.timed /\ ~s.monotonic

ASSUME EngineAssumption ==
    /\ None \notin Nat /\ MaxEvents \in Nat /\ MaxDelivered \in Nat
    /\ \A run \in Suites :
          /\ run.binding \in {"http", "grpc"}
          /\ run.tests \in Seq(TestBlock)
          /\ \A t \in DOMAIN run.tests :
                /\ run.tests[t].steps # <<>>
                /\ \A k \in DOMAIN run.tests[t].steps :
                       Countable(run.tests[t].steps[k]) /\ RefusedAlone(run.tests[t].steps[k])

VARIABLES
    suite,      \* the suite of this run
    verdicts,   \* the TestResults so far: the outcome and (history) what went wrong
    pc,         \* what the runner does
    at,         \* the step of the test at hand
    scope,      \* the names its Scope resolves
    attempt,    \* which attempt of a polled step this is
    conn,       \* the streams of the step: their phases and the events read
    delivered,  \* per notification delivered in this test, whether it conforms
    seen,       \* how many of them the last read of the receiver returned
    late,       \* the deadline of the webhook step has passed
    wrong       \* history: who did something wrong in this test

vars == <<suite, verdicts, pc, at, scope, attempt, conn, delivered, seen, late, wrong>>

PC     == {"gate", "step", "reply", "streams", "read", "check", "ended", "aborted"}

(* "sut": it did not conform.  "harness": the exchange failed, or the test  *)
(* or this run lacks something.  At the deadline of a webhook step too few  *)
(* notifications had come ("overdue"), or enough had, but not when the      *)
(* receiver was last read ("close").                                        *)
Cause == {"sut", "harness", "overdue", "close"}

Init ==
    /\ suite \in Suites
    /\ verdicts = <<>> /\ pc = "gate" /\ at = 1 /\ scope = {} /\ attempt = 0
    /\ conn = <<>> /\ delivered = <<>> /\ seen = 0 /\ late = FALSE /\ wrong = {}

test == suite.tests[Len(verdicts) + 1]
step == test.steps[at]
More == Len(verdicts) < Len(suite.tests)

-----------------------------------------------------------------------------
(* Results *)

(* The test ends with this outcome. *)
Conclude(outcome, by) ==
    /\ verdicts' = Append(verdicts, [result |-> outcome, wrong |-> wrong \cup by])
    /\ pc' = "gate" /\ at' = 1 /\ scope' = {} /\ attempt' = 0
    /\ delivered' = <<>> /\ seen' = 0 /\ late' = FALSE /\ wrong' = {}
    /\ UNCHANGED suite

(* An exception run_test does not handle leaves run_suite, and the results  *)
(* so far are lost with the rest.                                           *)
Abort ==
    /\ pc' = "aborted"
    /\ UNCHANGED <<suite, verdicts, at, scope, attempt, delivered, seen, late, wrong>>

(* The step passes: the next one, or the assertions of the test. *)
Pass ==
    IF at < Len(test.steps)
      THEN /\ pc' = "step" /\ at' = at + 1
           /\ scope' = scope \cup {step.id}
           /\ attempt' = 0 /\ seen' = 0 /\ late' = FALSE
           /\ UNCHANGED <<suite, verdicts, delivered, wrong>>
      ELSE Conclude("pass", {})

(* What `_finish' and the callers before it make of an exchange that took   *)
(* place: assertions name variables too.  An undefined one is caught in the *)
(* source of a named assertion and nowhere else.                            *)
Evaluate(conforms, by) ==
    \/ ~step.asserts \subseteq scope /\ Abort
    \/ ~conforms /\ Conclude("fail", by)
    \/ conforms /\ ~step.sources \subseteq scope /\ Conclude("fail", {"harness"})
    \/ conforms /\ step.asserts \cup step.sources \subseteq scope /\ Pass

-----------------------------------------------------------------------------
(* Gating *)

(* _skip_reason, before the card is looked at *)
NotApplicable(t) ==
    \/ ~t.applies
    \/ \E k \in 1..Len(t.steps) : t.steps[k].kind = "assertion"
    \/ ~t.requires \subseteq Capabilities

NoCard(t) == ~NotApplicable(t) /\ t.preconditions # "none" /\ ~suite.card
Skips(t)  == NotApplicable(t) \/ (t.preconditions = "unmet" /\ suite.card)
Gap(t)    == Behaviors # None /\ ~t.behaviors \subseteq Behaviors

SkipTest ==
    /\ pc = "gate" /\ More /\ Skips(test)
    /\ Conclude("skip", {}) /\ UNCHANGED conn

LackCard ==
    /\ pc = "gate" /\ More /\ NoCard(test)
    /\ Conclude("error", {"harness"}) /\ UNCHANGED conn

LackBehavior ==
    /\ pc = "gate" /\ More /\ ~Skips(test) /\ ~NoCard(test) /\ Gap(test)
    /\ Conclude("fail", {"sut"}) /\ UNCHANGED conn

Begin ==
    /\ pc = "gate" /\ More /\ ~Skips(test) /\ ~NoCard(test) /\ ~Gap(test)
    /\ pc' = "step" /\ scope' = Variables
    /\ UNCHANGED <<suite, verdicts, at, attempt, conn, delivered, seen, late, wrong>>

End ==
    /\ pc = "gate" /\ ~More
    /\ pc' = "ended"
    /\ UNCHANGED <<suite, verdicts, at, scope, attempt, conn, delivered, seen, late, wrong>>

-----------------------------------------------------------------------------
(* A step: what it names is resolved, and the request goes out.            *)

Resolved == step.uses \subseteq scope

Unresolved ==
    /\ pc = "step" /\ ~Resolved /\ step.kind # "client"
    /\ Conclude("error", {"harness"}) /\ UNCHANGED conn

(* A client_response step substitutes its payload outside any `try'.       *)
UnresolvedPayload ==
    /\ pc = "step" /\ ~Resolved /\ step.kind = "client"
    /\ Abort /\ UNCHANGED conn

\* Raw requests cannot be expressed in gRPC, nor can a stream be polled.
Inexpressible ==
    \/ step.kind = "raw" /\ suite.binding = "grpc"
    \/ step.streams # <<>> /\ step.attempts > 0

Refuse ==
    /\ pc = "step" /\ Resolved /\ Inexpressible
    /\ Conclude("error", {"harness"}) /\ UNCHANGED conn

Dispatch ==
    /\ pc = "step" /\ Resolved /\ ~Inexpressible
    /\ step.kind # "webhook" /\ step.streams = <<>>
    /\ pc' = "reply" /\ attempt' = 1
    /\ UNCHANGED <<suite, verdicts, at, scope, conn, delivered, seen, late, wrong>>

OpenStreams ==
    /\ pc = "step" /\ Resolved /\ ~Inexpressible /\ step.streams # <<>>
    /\ pc' = "streams"
    /\ conn' = [i \in 1..Len(step.streams) |-> [phase |-> "opening", events |-> <<>>]]
    /\ UNCHANGED <<suite, verdicts, at, scope, attempt, delivered, seen, late, wrong>>

AwaitWebhook ==
    /\ pc = "step" /\ Resolved /\ step.kind = "webhook"
    /\ pc' = "read"
    /\ UNCHANGED <<suite, verdicts, at, scope, attempt, conn, delivered, seen, late, wrong>>

-----------------------------------------------------------------------------
(* One request, one reply: operation, raw and client_response steps        *)

Reply ==
    /\ pc = "reply"
    /\ \E conforms \in BOOLEAN : Evaluate(conforms, {"sut"})
    /\ UNCHANGED conn

(* `repeat.until' does not hold of the reply. *)
Again(by) ==
    IF attempt < step.attempts
      THEN /\ attempt' = attempt + 1
           /\ UNCHANGED <<suite, verdicts, pc, at, scope, delivered, seen, late, wrong>>
      ELSE Conclude("fail", by)

Pending ==
    /\ pc = "reply" /\ step.attempts > 0
    /\ Again({"sut"}) /\ UNCHANGED conn

(* The exchange fails.  The HTTP dispatchers raise a DispatchError; the     *)
(* gRPC one makes a reply of it, an error of the SUT without a payload: an   *)
(* `until' may hold of that (path != value), and a step that expects nothing *)
(* or any error is content with it.                                         *)
Lost ==
    /\ pc = "reply" /\ UNCHANGED conn
    /\ \/ suite.binding = "http" /\ Conclude("error", {"harness"})
       \/ suite.binding = "grpc" /\ step.attempts > 0 /\ Again({"harness"})
       \/ /\ suite.binding = "grpc"
          /\ \E conforms \in BOOLEAN :
                (step.kind = "client" => ~conforms) /\ Evaluate(conforms, {"harness"})

-----------------------------------------------------------------------------
(* Streams: _collect for each, side by side                                *)

Reading  == {"opening", "open"}
Terminal == {"completed", "failed"}

(* History: what monotonic_state forbids, said of the whole stream. *)
Illegal(events, state) ==
    \E k \in DOMAIN events :
        /\ events[k] # "none" /\ state \notin {"none", events[k]}
        /\ state = "submitted" \/ events[k] \in Terminal

(* _collect's limit: one past max_count, or where this stream is cut. *)
Limit(i) ==
    LET past == IF step.max = None THEN {} ELSE {step.max + 1}
        cut  == IF step.streams[i] = None THEN {} ELSE {step.streams[i]} IN
    past \cup cut

AtLimit(i, events) == \E n \in Limit(i) : Len(events) >= n

(* Stream i enters a phase, and who is to blame for that. *)
Enter(i, phase, by) ==
    /\ conn' = [conn EXCEPT ![i].phase = phase]
    /\ wrong' = wrong \cup by
    /\ UNCHANGED <<suite, verdicts, pc, at, scope, attempt, delivered, seen, late>>

StreamOpens(i) ==
    /\ conn[i].phase = "opening"
    /\ Enter(i, "open", IF step.refusal THEN {"sut"} ELSE {})

(* An error document instead of a stream: the one that is due, or another. *)
StreamRefused(i) ==
    /\ conn[i].phase = "opening"
    /\ \/ Enter(i, "refused", IF step.refusal THEN {} ELSE {"sut"})
       \/ Enter(i, "misrefused", {"sut"})

(* The SUT sends an event; pump reads it and stops at the limit, whereupon  *)
(* _hang_up disconnects.                                                    *)
Event(i) ==
    /\ conn[i].phase = "open" /\ Len(conn[i].events) < MaxEvents
    /\ \E state \in State :
         LET events == Append(conn[i].events, state)
             back   == step.monotonic /\ Illegal(conn[i].events, state)
             over   == step.max # None /\ Len(events) > step.max IN
         /\ conn' = [conn EXCEPT ![i] = [phase  |-> IF AtLimit(i, events) THEN "cut" ELSE "open",
                                         events |-> events]]
         /\ wrong' = wrong \cup (IF back \/ over THEN {"sut"} ELSE {})
         /\ UNCHANGED <<suite, verdicts, pc, at, scope, attempt, delivered, seen, late>>

StreamCloses(i) ==
    /\ conn[i].phase = "open"
    /\ Enter(i, "closed", IF Len(conn[i].events) < step.min THEN {"sut"} ELSE {})

(* The connection fails.  Over gRPC that includes the call's own deadline,  *)
(* and before the first event it is taken for a refusal.                    *)
StreamLost(i) ==
    /\ conn[i].phase \in Reading
    /\ Enter(i, IF suite.binding = "grpc" /\ conn[i].events = <<>> THEN "misrefused" ELSE "lost",
             {"harness"})

(* Mutant: only a step that declares a timeout has one. *)
DeadlineDeclared(i) ==
    /\ conn[i].phase \in Reading /\ step.timed
    /\ Enter(i, "timed out", {"sut"})

(* wait_for cancels pump: the timeout of the step, or the runner's own. *)
Deadline(i) ==
    /\ conn[i].phase \in Reading
    /\ Enter(i, "timed out", IF step.timed THEN {"sut"} ELSE {"harness"})

Collect == pc = "streams" /\ \E i \in DOMAIN conn :
    StreamOpens(i) \/ StreamRefused(i) \/ Event(i) \/ StreamCloses(i) \/ StreamLost(i) \/ Deadline(i)

(* Mutant: an event is compared with the one right before it. *)
MovesBackAdjacent(events, n) ==
    \E k \in {n - 1} \cap DOMAIN events :
        /\ events[k] # "none" /\ events[n] \notin {"none", events[k]}
        /\ events[n] = "submitted" \/ events[k] \in Terminal

(* Event n against the last one before it that carries a state. *)
MovesBack(events, n) ==
    \E k \in 1..(n - 1) :
        /\ events[k] # "none" /\ events[n] \notin {"none", events[k]}
        /\ \A j \in (k + 1)..(n - 1) : events[j] = "none"
        /\ events[n] = "submitted" \/ events[k] \in Terminal

Ordered(events) == \A n \in DOMAIN events : ~MovesBack(events, n)

(* evaluate_stream: that the stream ended, how many events it had and in      *)
(* which order.                                                              *)
StreamFits(c) ==
    /\ c.phase # "timed out"
    /\ Len(c.events) >= step.min
    /\ step.max # None => Len(c.events) <= step.max
    /\ step.monotonic => Ordered(c.events)

Gathered == \A i \in DOMAIN conn : conn[i].phase \notin Reading

Raised  == {i \in DOMAIN conn : conn[i].phase \in {"refused", "misrefused", "lost"}}
Overdue == {i \in DOMAIN conn : conn[i].phase = "timed out"}

(* Mutants: every exception is a fail; every one is an error. *)
FirstRaisedFails(phase) ==
    IF step.refusal THEN Evaluate(phase = "refused", {}) ELSE Conclude("fail", {})

FirstRaisedErrs(phase) ==
    IF step.refusal THEN Evaluate(phase = "refused", {}) ELSE Conclude("error", {})

(* What the first stream that raised means, _stream_refusal. *)
FirstRaised(phase) ==
    IF step.refusal THEN Evaluate(phase = "refused", {})
    ELSE IF phase = "lost" THEN Conclude("error", {}) ELSE Conclude("fail", {})

(* What the events hold, the status and what is captured of the first stream  *)
(* are as the step asks, or the SUT is to blame.                             *)
EndStreams ==
    /\ pc = "streams" /\ Gathered /\ UNCHANGED conn
    /\ \/ \E i \in Raised : (\A j \in Raised : i <= j) /\ FirstRaised(conn[i].phase)
       \/ Raised = {} /\ Overdue # {} /\ ~step.timed /\ Conclude("error", {})
       \/ /\ Raised = {} /\ (Overdue = {} \/ step.timed)
          /\ \E content \in BOOLEAN :
               Evaluate(~step.refusal /\ content /\ \A i \in DOMAIN conn : StreamFits(conn[i]),
                        IF content THEN {} ELSE {"sut"})

-----------------------------------------------------------------------------
(* Webhook steps                                                           *)

Enough(n) == n >= step.min

(* The SUT delivers a notification, whatever the runner is at. *)
Deliver ==
    /\ pc \in {"step", "reply", "streams", "read", "check"} /\ Len(delivered) < MaxDelivered
    /\ \E conforms \in BOOLEAN : delivered' = Append(delivered, conforms)
    /\ UNCHANGED <<suite, verdicts, pc, at, scope, attempt, conn, seen, late, wrong>>

(* The deadline passes, while the runner reads or before it compares. *)
DeadlinePasses ==
    /\ pc \in {"read", "check"} /\ ~late
    /\ late' = TRUE
    /\ wrong' = wrong \cup (IF ~Enough(Len(delivered)) THEN {"overdue"}
                            ELSE IF pc = "check" /\ ~Enough(seen) THEN {"close"} ELSE {})
    /\ UNCHANGED <<suite, verdicts, pc, at, scope, attempt, conn, delivered, seen>>

(* read_webhook: the receiver's answer to a GET *)
Read ==
    /\ pc = "read"
    /\ seen' = Len(delivered) /\ pc' = "check"
    /\ UNCHANGED <<suite, verdicts, at, scope, attempt, conn, delivered, late, wrong>>

Check ==
    /\ pc = "check" /\ UNCHANGED conn
    /\ IF Enough(seen)
         THEN Evaluate(\A n \in 1..seen : delivered[n], {"sut"})
         ELSE IF late
           THEN Conclude("fail", {})
           ELSE /\ pc' = "read"
                /\ UNCHANGED <<suite, verdicts, at, scope, attempt, delivered, seen, late, wrong>>

-----------------------------------------------------------------------------

Runner ==
    \/ SkipTest \/ LackCard \/ LackBehavior \/ Begin \/ End
    \/ Unresolved \/ UnresolvedPayload \/ Refuse
    \/ Dispatch \/ OpenStreams \/ AwaitWebhook
    \/ EndStreams \/ Read \/ Check

(* A client's timeout bounds each exchange. *)
Exchange == Reply \/ Pending \/ Lost

Timers == DeadlinePasses \/ (pc = "streams" /\ \E i \in DOMAIN conn : Deadline(i))

Next == Runner \/ Exchange \/ Collect \/ Deliver \/ DeadlinePasses

Spec == Init /\ [][Next]_vars

FairSpec == Spec /\ WF_vars(Runner) /\ WF_vars(Exchange) /\ WF_vars(Timers)

-----------------------------------------------------------------------------
(* Properties *)

(* A streaming step that expects an error: _stream_refusal evaluates a      *)
(* dropped connection as if the SUT had answered it.                        *)
ExpectsRefusal(t) == \E k \in DOMAIN t.steps : t.steps[k].refusal

(* An assertion, the source of one, or the payload of a client_response     *)
(* step names a variable that nothing defines.                              *)
NamesNobody(t) ==
    \E k \in DOMAIN t.steps :
        ~(t.steps[k].asserts \cup t.steps[k].sources \cup t.steps[k].uses)
            \subseteq Variables \cup {t.steps[j].id : j \in 1..(k - 1)}

(* A fail is a statement about the SUT (runner.py:8): it did not conform,   *)
(* or its notifications had not come when they were last read.  So no lost  *)
(* connection and no deadline of our own is a fail, but for a stream that   *)
(* is to be refused, a source that names nobody, and gRPC (Lost).           *)
FailBlamesSut ==
    suite.binding = "http" => \A n \in DOMAIN verdicts :
        /\ verdicts[n].result = "fail"
        /\ ~ExpectsRefusal(suite.tests[n]) /\ ~NamesNobody(suite.tests[n])
        => verdicts[n].wrong \cap {"sut", "overdue", "close"} # {}

(* An error is a statement about the run (runner.py:12): whatever came of   *)
(* the other streams of the step, an exchange failed or something lacked.   *)
ErrorBlamesHarness ==
    \A n \in DOMAIN verdicts :
        verdicts[n].result = "error" => "harness" \in verdicts[n].wrong

(* A test passes only if nothing the SUT sent on any stream of any step of  *)
(* it was out of order, too much, too little or not asked for.              *)
PassMeansConforming ==
    \A n \in DOMAIN verdicts :
        verdicts[n].result = "pass" => "sut" \notin verdicts[n].wrong

(* The run ends, whatever the SUT does on its streams, in its replies to a  *)
(* poll and with its notifications; it breaks off only at a test that names *)
(* a variable nobody defines.                                               *)
Answered == <>(pc = "ended" \/ (pc = "aborted" /\ NamesNobody(test)))

=============================================================================
