--------------------------- MODULE ActsEngineProofs ---------------------------
(***************************************************************************)
(* Theorems about the conformance engine: an error is the harness's, a     *)
(* fail the SUT's, and a pass says the streams conformed, for every suite, *)
(* whatever the SUT does and however the streams of a step interleave.     *)
(***************************************************************************)
EXTENDS ActsEngine, TLAPS

Conn == [phase : Phase, events : Seq(State)]

(* The connections of the step, and whom each of its failures is put on.   *)
ConnOK == conn \in Seq(Conn)

Answerable(c) ==
    \/ c.phase = "lost"
    \/ c.phase = "timed out" /\ ~step.timed

LostIsHarness ==
    pc = "streams" => \A i \in DOMAIN conn : Answerable(conn[i]) => "harness" \in wrong

VerdictsOK == verdicts \in Seq([result : Outcome, wrong : SUBSET Cause]) /\ wrong \subseteq Cause

EngineInv == ConnOK /\ VerdictsOK /\ LostIsHarness /\ ErrorBlamesHarness

-----------------------------------------------------------------------------
(* Appending a verdict that blames the harness for an error.               *)
LEMMA ConcludeKeeps ==
    ASSUME VerdictsOK, ErrorBlamesHarness,
           NEW outcome \in Outcome, NEW by \in SUBSET Cause, Conclude(outcome, by),
           outcome = "error" => "harness" \in wrong \cup by
    PROVE  VerdictsOK' /\ ErrorBlamesHarness' /\ pc' = "gate"
<1> DEFINE v == [result |-> outcome, wrong |-> wrong \cup by]
<1>1. v \in [result : Outcome, wrong : SUBSET Cause]
  BY DEF VerdictsOK
<1>2. verdicts' = Append(verdicts, v) /\ wrong' = {} /\ pc' = "gate"
  BY DEF Conclude
<1>3. VerdictsOK'
  BY <1>1, <1>2 DEF VerdictsOK
<1>4. ASSUME NEW n \in DOMAIN verdicts', verdicts'[n].result = "error"
      PROVE  "harness" \in verdicts'[n].wrong
  <2>1. CASE n \in DOMAIN verdicts
    <3>1. verdicts'[n] = verdicts[n]
      BY <1>1, <1>2, <2>1 DEF VerdictsOK
    <3> QED  BY <2>1, <3>1, <1>4 DEF ErrorBlamesHarness
  <2>2. CASE n \notin DOMAIN verdicts
    <3>1. verdicts'[n] = v
      BY <1>1, <1>2, <2>2 DEF VerdictsOK
    <3> QED  BY <3>1, <1>4
  <2> QED  BY <2>1, <2>2
<1> QED  BY <1>2, <1>3, <1>4 DEF ErrorBlamesHarness

(* The other ways a step ends add no verdict. *)
LEMMA OthersKeep ==
    ASSUME VerdictsOK, ErrorBlamesHarness, verdicts' = verdicts, wrong' = wrong
    PROVE  VerdictsOK' /\ ErrorBlamesHarness'
  BY DEF VerdictsOK, ErrorBlamesHarness

LEMMA PassKeeps ==
    ASSUME VerdictsOK, ErrorBlamesHarness, Pass
    PROVE  VerdictsOK' /\ ErrorBlamesHarness' /\ pc' \in {"gate", "step"}
<1>1. CASE at < Len(test.steps)
  <2>1. verdicts' = verdicts /\ wrong' = wrong /\ pc' = "step"
    BY <1>1 DEF Pass
  <2> QED  BY <2>1, OthersKeep
<1>2. CASE ~(at < Len(test.steps))
  <2>1. Conclude("pass", {})
    BY <1>2 DEF Pass
  <2> QED  BY <2>1, ConcludeKeeps DEF Outcome
<1> QED  BY <1>1, <1>2

LEMMA EvaluateKeeps ==
    ASSUME VerdictsOK, ErrorBlamesHarness,
           NEW conforms \in BOOLEAN, NEW by \in SUBSET Cause, Evaluate(conforms, by)
    PROVE  VerdictsOK' /\ ErrorBlamesHarness' /\ pc' \in {"gate", "step", "aborted"}
<1>1. CASE Abort
  BY <1>1, OthersKeep DEF Abort
<1>2. CASE Conclude("fail", by) \/ Conclude("fail", {"harness"})
  BY <1>2, ConcludeKeeps DEF Outcome, Cause
<1>3. CASE Pass
  BY <1>3, PassKeeps
<1> QED  BY <1>1, <1>2, <1>3 DEF Evaluate

(* A step that leaves the connections alone, ends no verdict wrongly and    *)
(* does not start reading streams keeps the invariant.                      *)
LEMMA QuietKeeps ==
    ASSUME EngineInv, conn' = conn, VerdictsOK', ErrorBlamesHarness',
           pc' # "streams"
    PROVE  EngineInv'
  BY DEF EngineInv, ConnOK, LostIsHarness

-----------------------------------------------------------------------------
LEMMA EngineInit == Init => EngineInv
  BY DEF Init, EngineInv, ConnOK, VerdictsOK, LostIsHarness, ErrorBlamesHarness

(* What happens on one stream: nothing else of the run changes but who is   *)
(* to blame, and that only grows.                                           *)
LEMMA EnterKeeps ==
    ASSUME EngineInv, pc = "streams", NEW i \in DOMAIN conn, NEW c \in Conn, NEW by \in SUBSET Cause,
           conn' = [conn EXCEPT ![i] = c], wrong' = wrong \cup by,
           UNCHANGED <<suite, verdicts, pc, at>>,
           Answerable(c) => "harness" \in by
    PROVE  EngineInv'
<1>1. ConnOK'
  BY DEF EngineInv, ConnOK
<1>2. VerdictsOK' /\ ErrorBlamesHarness'
  BY DEF EngineInv, VerdictsOK, ErrorBlamesHarness
<1>4. step' = step
  BY DEF step, test
<1>5. ASSUME NEW j \in DOMAIN conn', Answerable(conn[j])'
      PROVE  "harness" \in wrong'
  <2>1. j \in DOMAIN conn /\ conn'[j] = IF j = i THEN c ELSE conn[j]
    BY DEF EngineInv, ConnOK
  <2>2. Answerable(IF j = i THEN c ELSE conn[j])
    BY <1>4, <1>5, <2>1 DEF Answerable
  <2> QED  BY <2>1, <2>2 DEF EngineInv, LostIsHarness
<1>6. LostIsHarness'
  BY <1>5 DEF LostIsHarness
<1> QED  BY <1>1, <1>2, <1>6 DEF EngineInv

LEMMA ConnElement == ASSUME ConnOK, NEW i \in DOMAIN conn PROVE conn[i] \in Conn
  BY DEF ConnOK

LEMMA PhaseKeeps ==
    ASSUME EngineInv, pc = "streams", NEW i \in DOMAIN conn, NEW phase \in Phase, NEW by \in SUBSET Cause,
           Enter(i, phase, by),
           phase = "lost" \/ (phase = "timed out" /\ ~step.timed) => "harness" \in by
    PROVE  EngineInv'
<1> DEFINE c == [conn[i] EXCEPT !.phase = phase]
<1>1. conn[i] \in Conn
  BY ConnElement DEF EngineInv
<1>2. c \in Conn /\ c.phase = phase
  BY <1>1 DEF Conn
<1>3. conn' = [conn EXCEPT ![i] = c] /\ wrong' = wrong \cup by /\ UNCHANGED <<suite, verdicts, pc, at>>
  BY DEF Enter
<1>4. Answerable(c) => "harness" \in by
  BY <1>2 DEF Answerable
<1> HIDE DEF c
<1> QED  BY <1>2, <1>3, <1>4, EnterKeeps

LEMMA CollectKeeps == EngineInv /\ Collect => EngineInv'
<1> SUFFICES ASSUME EngineInv, pc = "streams", NEW i \in DOMAIN conn,
                    \/ StreamOpens(i) \/ StreamRefused(i) \/ Event(i)
                    \/ StreamCloses(i) \/ StreamLost(i) \/ Deadline(i)
             PROVE  EngineInv'
  BY DEF Collect
<1>1. CASE StreamOpens(i)
  BY <1>1, PhaseKeeps DEF StreamOpens, Phase, Cause
<1>2. CASE StreamRefused(i)
  BY <1>2, PhaseKeeps DEF StreamRefused, Phase, Cause
<1>3. CASE Event(i)
  <2>1. PICK state \in State : 
          LET events == Append(conn[i].events, state)
          IN  /\ conn' = [conn EXCEPT ![i] = [phase  |-> IF AtLimit(i, events) THEN "cut" ELSE "open",
                                              events |-> events]]
              /\ \E by \in SUBSET Cause : wrong' = wrong \cup by
              /\ UNCHANGED <<suite, verdicts, pc, at>>
    BY <1>3 DEF Event, Cause
  <2> DEFINE events == Append(conn[i].events, state)
             c == [phase |-> IF AtLimit(i, events) THEN "cut" ELSE "open", events |-> events]
  <2>2. conn[i] \in Conn
    BY ConnElement DEF EngineInv
  <2>3. events \in Seq(State)
    BY <2>2 DEF Conn
  <2>4. c \in Conn /\ ~Answerable(c)
    BY <2>3 DEF Conn, Phase, Answerable
  <2> HIDE DEF c
  <2>5. conn' = [conn EXCEPT ![i] = c]
    BY <2>1 DEF c
  <2>6. PICK by \in SUBSET Cause : wrong' = wrong \cup by
    BY <2>1
  <2> QED  BY <2>1, <2>4, <2>5, <2>6, EnterKeeps
<1>4. CASE StreamCloses(i)
  BY <1>4, PhaseKeeps DEF StreamCloses, Phase, Cause
<1>5. CASE StreamLost(i)
  BY <1>5, PhaseKeeps DEF StreamLost, Phase, Cause
<1>6. CASE Deadline(i)
  BY <1>6, PhaseKeeps DEF Deadline, Phase, Cause
<1> QED  BY <1>1, <1>2, <1>3, <1>4, <1>5, <1>6

(* The streams are all read: what is concluded from them. *)
LEMMA EndStreamsKeeps == EngineInv /\ EndStreams => EngineInv'
<1> SUFFICES ASSUME EngineInv, EndStreams PROVE EngineInv'
  OBVIOUS
<1>1. pc = "streams" /\ Gathered /\ conn' = conn /\ VerdictsOK /\ ErrorBlamesHarness /\ LostIsHarness
  BY DEF EndStreams, EngineInv
<1>2. ASSUME NEW i \in Raised, FirstRaised(conn[i].phase)
      PROVE  EngineInv'
  <2> DEFINE phase == conn[i].phase
  <2>1. FirstRaised(phase) /\ i \in DOMAIN conn
    BY <1>2 DEF Raised
  <2>2. phase = "lost" => "harness" \in wrong
    BY <1>1, <2>1 DEF LostIsHarness, Answerable
  <2> HIDE DEF phase
  <2>3. CASE step.refusal
    <3>1. Evaluate(phase = "refused", {})
      BY <2>1, <2>3 DEF FirstRaised
    <3>2. VerdictsOK' /\ ErrorBlamesHarness' /\ pc' \in {"gate", "step", "aborted"}
      BY <1>1, <3>1, EvaluateKeeps DEF Cause
    <3> QED  BY <1>1, <3>2, QuietKeeps
  <2>4. CASE ~step.refusal
    <3>1. (Conclude("error", {}) /\ phase = "lost") \/ Conclude("fail", {})
      BY <2>1, <2>4 DEF FirstRaised
    <3>2. VerdictsOK' /\ ErrorBlamesHarness' /\ pc' = "gate"
      BY <1>1, <2>2, <3>1, ConcludeKeeps DEF Cause, Outcome
    <3> QED  BY <1>1, <3>2, QuietKeeps
  <2> QED  BY <2>3, <2>4
<1>3. CASE Overdue # {} /\ ~step.timed /\ Conclude("error", {})
  <2>1. Conclude("error", {})
    BY <1>3
  <2>2. "harness" \in wrong
    BY <1>1, <1>3 DEF Overdue, LostIsHarness, Answerable
  <2>3. VerdictsOK' /\ ErrorBlamesHarness' /\ pc' = "gate"
    BY <1>1, <2>1, <2>2, ConcludeKeeps DEF Cause, Outcome
  <2> QED  BY <1>1, <2>3, QuietKeeps
<1>4. ASSUME NEW content \in BOOLEAN,
             Evaluate(~step.refusal /\ content /\ \A i \in DOMAIN conn : StreamFits(conn[i]),
                      IF content THEN {} ELSE {"sut"})
      PROVE  EngineInv'
  <2> DEFINE fits == ~step.refusal /\ content /\ \A i \in DOMAIN conn : StreamFits(conn[i])
             by   == IF content THEN {} ELSE {"sut"}
  <2>1. Evaluate(fits, by) /\ fits \in BOOLEAN /\ by \in SUBSET Cause
    BY <1>4 DEF Cause
  <2> HIDE DEF fits, by
  <2>2. VerdictsOK' /\ ErrorBlamesHarness' /\ pc' \in {"gate", "step", "aborted"}
    BY <1>1, <2>1, EvaluateKeeps
  <2> QED  BY <1>1, <2>2, QuietKeeps
<1> QED  BY <1>2, <1>3, <1>4 DEF EndStreams

(* Every other step leaves the connections alone. *)
LEMMA GateKeeps ==
    EngineInv /\ (SkipTest \/ LackCard \/ LackBehavior \/ Begin \/ End) => EngineInv'
<1> SUFFICES ASSUME EngineInv, SkipTest \/ LackCard \/ LackBehavior \/ Begin \/ End
             PROVE  EngineInv'
  OBVIOUS
<1>1. VerdictsOK /\ ErrorBlamesHarness /\ pc = "gate" /\ conn' = conn
  BY DEF EngineInv, SkipTest, LackCard, LackBehavior, Begin, End
<1>2. CASE SkipTest \/ LackCard \/ LackBehavior
  <2>1. Conclude("skip", {}) \/ Conclude("error", {"harness"}) \/ Conclude("fail", {"sut"})
    BY <1>2 DEF SkipTest, LackCard, LackBehavior
  <2>2. VerdictsOK' /\ ErrorBlamesHarness' /\ pc' = "gate"
    BY <1>1, <2>1, ConcludeKeeps DEF Outcome, Cause
  <2> QED  BY <1>1, <2>2, QuietKeeps
<1>3. CASE Begin \/ End
  <2>1. verdicts' = verdicts /\ wrong' = wrong /\ pc' # "streams"
    BY <1>3 DEF Begin, End
  <2> QED  BY <1>1, <2>1, OthersKeep, QuietKeeps
<1> QED  BY <1>2, <1>3

LEMMA StepKeeps ==
    EngineInv /\ (Unresolved \/ UnresolvedPayload \/ Refuse \/ Dispatch \/ OpenStreams \/ AwaitWebhook)
        => EngineInv'
<1> SUFFICES ASSUME EngineInv,
                    Unresolved \/ UnresolvedPayload \/ Refuse \/ Dispatch \/ OpenStreams \/ AwaitWebhook
             PROVE  EngineInv'
  OBVIOUS
<1>1. VerdictsOK /\ ErrorBlamesHarness /\ pc = "step"
  BY DEF EngineInv, Unresolved, UnresolvedPayload, Refuse, Dispatch, OpenStreams, AwaitWebhook
<1>2. CASE Unresolved \/ Refuse
  <2>1. Conclude("error", {"harness"}) /\ conn' = conn
    BY <1>2 DEF Unresolved, Refuse
  <2>2. VerdictsOK' /\ ErrorBlamesHarness' /\ pc' = "gate"
    BY <1>1, <2>1, ConcludeKeeps DEF Outcome, Cause
  <2> QED  BY <1>1, <2>1, <2>2, QuietKeeps
<1>3. CASE UnresolvedPayload \/ Dispatch \/ AwaitWebhook
  <2>1. verdicts' = verdicts /\ wrong' = wrong /\ pc' # "streams" /\ conn' = conn
    BY <1>3 DEF UnresolvedPayload, Abort, Dispatch, AwaitWebhook
  <2> QED  BY <1>1, <2>1, OthersKeep, QuietKeeps
<1>4. CASE OpenStreams
  <2>1. conn' = [i \in 1..Len(step.streams) |-> [phase |-> "opening", events |-> <<>>]]
    BY <1>4 DEF OpenStreams
  <2>2. Len(step.streams) \in Nat => ConnOK'
    BY <2>1 DEF ConnOK, Conn, Phase
  <2>3. VerdictsOK' /\ ErrorBlamesHarness'
    BY <1>1, <1>4, OthersKeep DEF OpenStreams
  <2>4. pc' = "streams"
    BY <1>4 DEF OpenStreams
  <2>5. LostIsHarness'
    BY <2>1 DEF LostIsHarness, Answerable
  <2> QED  BY <2>2, <2>3, <2>4, <2>5 DEF EngineInv
<1> QED  BY <1>2, <1>3, <1>4

LEMMA ExchangeKeeps == EngineInv /\ Exchange => EngineInv'
<1> SUFFICES ASSUME EngineInv, Exchange PROVE EngineInv'
  OBVIOUS
<1>1. VerdictsOK /\ ErrorBlamesHarness /\ pc = "reply" /\ conn' = conn
  BY DEF EngineInv, Exchange, Reply, Pending, Lost
<1>2. CASE Reply
  <2>1. VerdictsOK' /\ ErrorBlamesHarness' /\ pc' \in {"gate", "step", "aborted"}
    BY <1>1, <1>2, EvaluateKeeps DEF Reply, Cause
  <2> QED  BY <1>1, <2>1, QuietKeeps
<1>3. ASSUME NEW by \in SUBSET Cause, Again(by)
      PROVE  EngineInv'
  <2>1. CASE attempt < step.attempts
    <3>1. verdicts' = verdicts /\ wrong' = wrong /\ pc' = pc
      BY <1>3, <2>1 DEF Again
    <3> QED  BY <1>1, <3>1, OthersKeep, QuietKeeps
  <2>2. CASE ~(attempt < step.attempts)
    <3>1. Conclude("fail", by)
      BY <1>3, <2>2 DEF Again
    <3>2. VerdictsOK' /\ ErrorBlamesHarness' /\ pc' = "gate"
      BY <1>1, <3>1, ConcludeKeeps DEF Outcome
    <3> QED  BY <1>1, <3>2, QuietKeeps
  <2> QED  BY <2>1, <2>2
<1>4. CASE Pending
  BY <1>3, <1>4 DEF Pending, Cause
<1>5. CASE Lost
  <2>1. \/ Again({"harness"}) \/ Conclude("error", {"harness"})
        \/ \E conforms \in BOOLEAN : Evaluate(conforms, {"harness"})
    BY <1>5 DEF Lost
  <2>2. CASE Again({"harness"})
    BY <1>3, <2>2 DEF Cause
  <2>3. CASE Conclude("error", {"harness"})
    <3>1. VerdictsOK' /\ ErrorBlamesHarness' /\ pc' = "gate"
      BY <1>1, <2>3, ConcludeKeeps DEF Outcome, Cause
    <3> QED  BY <1>1, <3>1, QuietKeeps
  <2>4. CASE \E conforms \in BOOLEAN : Evaluate(conforms, {"harness"})
    <3>1. VerdictsOK' /\ ErrorBlamesHarness' /\ pc' \in {"gate", "step", "aborted"}
      BY <1>1, <2>4, EvaluateKeeps DEF Cause
    <3> QED  BY <1>1, <3>1, QuietKeeps
  <2> QED  BY <2>1, <2>2, <2>3, <2>4
<1> QED  BY <1>2, <1>4, <1>5 DEF Exchange

LEMMA WebhookKeeps == EngineInv /\ (Deliver \/ DeadlinePasses \/ Read \/ Check) => EngineInv'
<1> SUFFICES ASSUME EngineInv, Deliver \/ DeadlinePasses \/ Read \/ Check
             PROVE  EngineInv'
  OBVIOUS
<1>1. VerdictsOK /\ ErrorBlamesHarness /\ conn' = conn
  BY DEF EngineInv, Deliver, DeadlinePasses, Read, Check
<1>2. CASE Deliver
  <2>1. UNCHANGED <<suite, verdicts, pc, at, conn, wrong>>
    BY <1>2 DEF Deliver
  <2> QED  BY <2>1 DEF EngineInv, ConnOK, VerdictsOK, LostIsHarness,
                       ErrorBlamesHarness, Answerable, step, test
<1>3. CASE DeadlinePasses
  <2>1. /\ verdicts' = verdicts /\ pc # "streams" /\ pc' = pc
        /\ \E by \in SUBSET Cause : wrong' = wrong \cup by
    BY <1>3 DEF DeadlinePasses, Cause
  <2>2. VerdictsOK' /\ ErrorBlamesHarness'
    BY <1>1, <2>1 DEF VerdictsOK, ErrorBlamesHarness
  <2> QED  BY <1>1, <2>1, <2>2, QuietKeeps
<1>4. CASE Read
  <2>1. verdicts' = verdicts /\ wrong' = wrong /\ pc # "streams" /\ pc' # "streams"
    BY <1>4 DEF Read
  <2> QED  BY <1>1, <2>1, OthersKeep, QuietKeeps
<1>5. CASE Check
  <2>1. pc = "check"
    BY <1>5 DEF Check
  <2>2. CASE Enough(seen)
    <3> DEFINE fits == \A n \in 1..seen : delivered[n]
    <3>1. Evaluate(fits, {"sut"}) /\ fits \in BOOLEAN
      BY <1>5, <2>2 DEF Check
    <3> HIDE DEF fits
    <3>2. VerdictsOK' /\ ErrorBlamesHarness' /\ pc' \in {"gate", "step", "aborted"}
      BY <1>1, <3>1, EvaluateKeeps DEF Cause
    <3> QED  BY <1>1, <2>1, <3>2, QuietKeeps
  <2>3. CASE ~Enough(seen) /\ late
    <3>1. Conclude("fail", {})
      BY <1>5, <2>3 DEF Check
    <3>2. VerdictsOK' /\ ErrorBlamesHarness' /\ pc' = "gate"
      BY <1>1, <3>1, ConcludeKeeps DEF Outcome, Cause
    <3> QED  BY <1>1, <2>1, <3>2, QuietKeeps
  <2>4. CASE ~Enough(seen) /\ ~late
    <3>1. verdicts' = verdicts /\ wrong' = wrong /\ pc' = "read"
      BY <1>5, <2>4 DEF Check
    <3> QED  BY <1>1, <2>1, <3>1, OthersKeep, QuietKeeps
  <2> QED  BY <2>2, <2>3, <2>4
<1> QED  BY <1>2, <1>3, <1>4, <1>5

-----------------------------------------------------------------------------
LEMMA EngineStep == EngineInv /\ [Next]_vars => EngineInv'
<1>1. EngineInv /\ UNCHANGED vars => EngineInv'
  BY DEF vars, EngineInv, ConnOK, VerdictsOK, LostIsHarness,
         ErrorBlamesHarness, Answerable, step, test
<1> QED  BY <1>1, GateKeeps, StepKeeps, ExchangeKeeps, CollectKeeps, EndStreamsKeeps, WebhookKeeps
            DEF Next, Runner

(* An error is never the SUT's alone: an exchange failed, or the test or    *)
(* the run lacked something, whatever came of the step's other streams.     *)
THEOREM ErrorBlamesHarnessAlways == Spec => []ErrorBlamesHarness
<1>1. EngineInv => ErrorBlamesHarness
  BY DEF EngineInv
<1> QED  BY <1>1, EngineInit, EngineStep, PTL DEF Spec

-----------------------------------------------------------------------------
(***************************************************************************)
(* A fail is about the SUT, over HTTP: for every suite and every behaviour *)
(* of SUT, network and clock.  The strengthening says, per stream, that    *)
(* whatever evaluate_stream would reject has been put down to the SUT when *)
(* it happened, and per webhook step that a read which finds too little at *)
(* the deadline means a late notification.                                 *)
(*                                                                         *)
(* A pass means that the SUT conformed, over either binding: whatever is   *)
(* put down to the SUT is still something evaluate_stream rejects when it  *)
(* is asked (ConformInv).                                                  *)
(***************************************************************************)
Blame == {"sut", "overdue", "close"}

Excused(t) == ExpectsRefusal(t) \/ NamesNobody(t)

Placed ==
    /\ suite \in Suites /\ verdicts \in Seq([result : Outcome, wrong : SUBSET Cause])
    /\ pc \in PC
    /\ pc = "gate" => at = 1
    /\ pc \notin {"gate", "ended"} => More /\ at \in 1..Len(test.steps)

Within == pc \in {"step", "reply", "streams", "read", "check"}

Scoped ==
    Within => Variables \cup {test.steps[j].id : j \in 1..(at - 1)} \subseteq scope

(* s is the step, w who is to blame so far. *)
StreamBlamed(s, c, w) ==
    /\ c.phase \in {"refused", "misrefused"} => "sut" \in w
    /\ c.phase = "timed out" /\ s.timed => "sut" \in w
    /\ c.phase = "closed" /\ Len(c.events) < s.min => "sut" \in w
    /\ c.phase = "cut" => Len(c.events) >= s.min
    /\ s.max # None /\ Len(c.events) > s.max => "sut" \in w
    /\ s.monotonic /\ ~Ordered(c.events) => "sut" \in w

StreamsBlamed ==
    pc = "streams" =>
        /\ DOMAIN conn = DOMAIN step.streams
        /\ ~step.refusal => \A i \in DOMAIN conn : StreamBlamed(step, conn[i], wrong)

HookBlamed ==
    /\ delivered \in Seq(BOOLEAN) /\ seen \in Nat /\ late \in BOOLEAN
    /\ pc \in {"gate", "step", "reply", "streams"} => ~late
    /\ pc \in {"read", "check"} /\ late /\ ~Enough(Len(delivered)) => "overdue" \in wrong
    /\ pc = "check" /\ late /\ ~Enough(seen) => wrong \cap {"overdue", "close"} # {}

BlameInv ==
    /\ suite.binding = "http"
    /\ ConnOK /\ Placed /\ Scoped /\ StreamsBlamed /\ HookBlamed /\ FailBlamesSut

LEMMA StepTyped ==
    ASSUME Placed, pc \notin {"gate", "ended"}
    PROVE  /\ test \in TestBlock /\ step \in StepBlock /\ Countable(step)
           /\ at \in DOMAIN test.steps /\ Len(verdicts) + 1 \in DOMAIN suite.tests
<1>1. suite.tests \in Seq(TestBlock) /\ Len(verdicts) \in Nat /\ Len(verdicts) < Len(suite.tests)
  BY EngineAssumption DEF Placed, More
<1>2. Len(verdicts) + 1 \in DOMAIN suite.tests
  BY <1>1
<1>3. test \in TestBlock
  BY <1>1, <1>2 DEF test
<1>4. test.steps \in Seq(StepBlock)
  BY <1>3 DEF TestBlock
<1>5. at \in DOMAIN test.steps
  BY <1>4 DEF Placed
<1>6. step \in StepBlock
  BY <1>4, <1>5 DEF step
<1>7. Countable(step)
  BY <1>2, <1>5, EngineAssumption DEF step, test, Placed
<1> QED  BY <1>2, <1>3, <1>5, <1>6, <1>7

(* The rest of the invariant when a test is concluded. *)
LEMMA ConcludeBlames ==
    ASSUME BlameInv, NEW outcome \in Outcome, NEW by \in SUBSET Cause, Conclude(outcome, by),
           wrong \subseteq Cause, More, conn' = conn,
           outcome = "fail" => (wrong \cup by) \cap Blame # {} \/ Excused(test)
    PROVE  BlameInv'
<1> DEFINE v == [result |-> outcome, wrong |-> wrong \cup by]
<1>1. v \in [result : Outcome, wrong : SUBSET Cause] /\ verdicts \in Seq([result : Outcome, wrong : SUBSET Cause])
  BY DEF BlameInv, Placed
<1>2. verdicts' = Append(verdicts, v) /\ pc' = "gate" /\ suite' = suite /\ at' = 1
  BY DEF Conclude
<1>3. ConnOK' /\ Placed'
  BY <1>1, <1>2 DEF BlameInv, ConnOK, Placed, PC
<1>4. Scoped' /\ StreamsBlamed' /\ HookBlamed'
  <2>1. delivered' = <<>> /\ seen' = 0 /\ late' = FALSE
    BY DEF Conclude
  <2>2. Scoped' /\ StreamsBlamed'
    BY <1>2 DEF Scoped, Within, StreamsBlamed
  <2>3. <<>> \in Seq(BOOLEAN)
    OBVIOUS
  <2>4. delivered' \in Seq(BOOLEAN)
    BY <2>1, <2>3
  <2>5. HookBlamed'
    BY <1>2, <2>1, <2>4 DEF HookBlamed
  <2> QED  BY <2>2, <2>5
<1>5. ASSUME NEW n \in DOMAIN verdicts', verdicts'[n].result = "fail", ~Excused(suite.tests[n])
      PROVE  verdicts'[n].wrong \cap Blame # {}
  <2>1. CASE n \in DOMAIN verdicts
    <3>1. verdicts'[n] = verdicts[n]
      BY <1>1, <1>2, <2>1
    <3> QED  BY <2>1, <3>1, <1>5 DEF BlameInv, FailBlamesSut, Blame, Excused
  <2>2. CASE n \notin DOMAIN verdicts
    <3>1. n = Len(verdicts) + 1 /\ verdicts'[n] = v
      BY <1>1, <1>2, <2>2
    <3>2. suite.tests[n] = test
      BY <3>1 DEF test
    <3> QED  BY <3>1, <3>2, <1>5
  <2> QED  BY <2>1, <2>2
<1>6. FailBlamesSut'
  BY <1>2, <1>5 DEF FailBlamesSut, Blame, Excused
<1>7. suite'.binding = "http"
  BY <1>2 DEF BlameInv
<1> QED  BY <1>3, <1>4, <1>6, <1>7 DEF BlameInv

LEMMA AbortBlames ==
    ASSUME BlameInv, Abort, conn' = conn, pc \notin {"gate", "ended"}
    PROVE  BlameInv'
<1>1. UNCHANGED <<suite, verdicts, at, conn, delivered, seen, late>> /\ pc' = "aborted"
  BY DEF Abort
<1>2. Placed'
  BY <1>1 DEF BlameInv, Placed, PC, More, test
<1>3. Scoped' /\ StreamsBlamed' /\ HookBlamed'
  BY <1>1 DEF BlameInv, Scoped, Within, StreamsBlamed, HookBlamed
<1>4. ConnOK' /\ FailBlamesSut' /\ suite'.binding = "http"
  BY <1>1 DEF BlameInv, ConnOK, FailBlamesSut
<1> QED  BY <1>2, <1>3, <1>4 DEF BlameInv

LEMMA PassBlames ==
    ASSUME BlameInv, wrong \subseteq Cause, Pass, conn' = conn, Within
    PROVE  BlameInv'
<1>1. More /\ test.steps \in Seq(StepBlock) /\ at \in 1..Len(test.steps)
  BY StepTyped DEF BlameInv, Placed, Within, TestBlock
<1>2. CASE at < Len(test.steps)
  <2>1. /\ pc' = "step" /\ at' = at + 1 /\ late' = FALSE /\ seen' = 0
        /\ scope' = scope \cup {step.id}
        /\ UNCHANGED <<suite, verdicts, delivered, wrong>>
    BY <1>2 DEF Pass
  <2>2. test' = test
    BY <2>1 DEF test
  <2>3. Placed'
    BY <1>1, <1>2, <2>1, <2>2 DEF BlameInv, Placed, More, PC
  <2>4. Scoped'
    <3>1. Variables \cup {test.steps[j].id : j \in 1..(at - 1)} \subseteq scope
      BY DEF BlameInv, Scoped
    <3>2. \A j \in 1..(at' - 1) : j = at \/ j \in 1..(at - 1)
      BY <1>1, <2>1
    <3>3. \A j \in 1..(at' - 1) : test.steps[j].id \in scope'
      BY <2>1, <3>1, <3>2 DEF step
    <3> QED  BY <2>1, <2>2, <3>1, <3>3 DEF Scoped
  <2>5. StreamsBlamed' /\ HookBlamed'
    BY <2>1 DEF BlameInv, StreamsBlamed, HookBlamed
  <2>6. ConnOK' /\ FailBlamesSut' /\ suite'.binding = "http"
    BY <2>1 DEF BlameInv, ConnOK, FailBlamesSut
  <2> QED  BY <2>3, <2>4, <2>5, <2>6 DEF BlameInv
<1>3. CASE ~(at < Len(test.steps))
  <2>1. Conclude("pass", {})
    BY <1>3 DEF Pass
  <2> QED  BY <1>1, <2>1, ConcludeBlames DEF Outcome
<1> QED  BY <1>2, <1>3

LEMMA EvaluateBlames ==
    ASSUME BlameInv, wrong \subseteq Cause, Within, conn' = conn,
           NEW conforms \in BOOLEAN, NEW by \in SUBSET Cause, Evaluate(conforms, by),
           ~conforms => (wrong \cup by) \cap Blame # {} \/ Excused(test)
    PROVE  BlameInv'
<1>1. More /\ pc \notin {"gate", "ended"}
  BY DEF BlameInv, Placed, Within
<1>2. CASE Abort
  BY <1>1, <1>2, AbortBlames
<1>3. CASE ~conforms /\ Conclude("fail", by)
  BY <1>1, <1>3, ConcludeBlames DEF Outcome
<1>4. CASE Pass
  BY <1>4, PassBlames
<1>5. CASE ~step.sources \subseteq scope /\ Conclude("fail", {"harness"})
  <2>1. at \in DOMAIN test.steps /\ Variables \cup {test.steps[j].id : j \in 1..(at - 1)} \subseteq scope
    BY <1>1, StepTyped DEF BlameInv, Scoped
  <2>2. NamesNobody(test)
    BY <1>5, <2>1 DEF NamesNobody, step
  <2>3. Excused(test)
    BY <2>2 DEF Excused
  <2> QED  BY <1>1, <1>5, <2>3, ConcludeBlames DEF Outcome, Cause
<1> QED  BY <1>2, <1>3, <1>4, <1>5 DEF Evaluate

-----------------------------------------------------------------------------
(* A step of the same request that adds no verdict.                        *)
LEMMA MoveBlames ==
    ASSUME BlameInv, Within, UNCHANGED <<suite, verdicts, at, scope, conn>>, wrong \subseteq wrong',
           pc' \in {"step", "reply", "streams", "read", "check"}, pc' = "streams" => pc = "streams",
           HookBlamed'
    PROVE  BlameInv'
<1>1. test' = test /\ step' = step
  BY DEF test, step
<1>2. Placed'
  BY <1>1 DEF BlameInv, Placed, PC, More, Within
<1>3. Scoped'
  BY <1>1 DEF BlameInv, Scoped
<1>4. StreamsBlamed'
  BY <1>1 DEF BlameInv, StreamsBlamed, StreamBlamed
<1>5. ConnOK' /\ FailBlamesSut' /\ suite'.binding = "http"
  BY DEF BlameInv, ConnOK, FailBlamesSut
<1> QED  BY <1>2, <1>3, <1>4, <1>5 DEF BlameInv

LEMMA BlameInit == Init /\ suite.binding = "http" => BlameInv
<1> SUFFICES ASSUME Init, suite.binding = "http" PROVE BlameInv
  OBVIOUS
<1>1. <<>> \in Seq(BOOLEAN) /\ <<>> \in Seq([result : Outcome, wrong : SUBSET Cause]) /\ <<>> \in Seq(Conn)
  OBVIOUS
<1>2. ConnOK /\ Placed
  BY <1>1 DEF Init, ConnOK, Placed, PC
<1>3. Scoped /\ StreamsBlamed
  BY DEF Init, Scoped, Within, StreamsBlamed
<1>4. HookBlamed
  BY <1>1 DEF Init, HookBlamed
<1>5. FailBlamesSut
  BY DEF Init, FailBlamesSut
<1> QED  BY <1>2, <1>3, <1>4, <1>5 DEF BlameInv

LEMMA GateBlames ==
    ASSUME BlameInv, wrong \subseteq Cause, SkipTest \/ LackCard \/ LackBehavior \/ Begin \/ End
    PROVE  BlameInv'
<1>1. CASE SkipTest \/ LackCard \/ LackBehavior
  <2>1. More /\ conn' = conn
    BY <1>1 DEF SkipTest, LackCard, LackBehavior
  <2>2. CASE SkipTest \/ LackCard
    BY <2>1, <2>2, ConcludeBlames DEF SkipTest, LackCard, Outcome, Cause
  <2>3. CASE LackBehavior
    BY <2>1, <2>3, ConcludeBlames DEF LackBehavior, Outcome, Cause, Blame
  <2> QED  BY <1>1, <2>2, <2>3
<1>2. CASE Begin
  <2>1. /\ pc = "gate" /\ pc' = "step" /\ scope' = Variables /\ More
        /\ UNCHANGED <<suite, verdicts, at, conn, delivered, seen, late, wrong>>
    BY <1>2 DEF Begin
  <2>2. test' = test /\ at = 1 /\ at' = 1
    BY <2>1 DEF test, BlameInv, Placed
  <2>3. test.steps \in Seq(StepBlock) /\ test.steps # <<>>
    <3>1. suite.tests \in Seq(TestBlock) /\ Len(verdicts) + 1 \in DOMAIN suite.tests
      BY <2>1, EngineAssumption DEF BlameInv, Placed, More
    <3>2. test \in TestBlock /\ test.steps # <<>>
      BY <3>1, EngineAssumption DEF BlameInv, Placed, test
    <3> QED  BY <3>2 DEF TestBlock
  <2>4. 1 \in 1..Len(test.steps)
    BY <2>3
  <2>5. Placed'
    BY <2>1, <2>2, <2>4 DEF BlameInv, Placed, PC, More
  <2>6. Scoped'
    BY <2>1, <2>2 DEF Scoped
  <2>7. StreamsBlamed' /\ HookBlamed'
    BY <2>1 DEF BlameInv, StreamsBlamed, HookBlamed
  <2>8. ConnOK' /\ FailBlamesSut' /\ suite'.binding = "http"
    BY <2>1 DEF BlameInv, ConnOK, FailBlamesSut
  <2> QED  BY <2>5, <2>6, <2>7, <2>8 DEF BlameInv
<1>3. CASE End
  <2>1. /\ pc' = "ended"
        /\ UNCHANGED <<suite, verdicts, at, conn, delivered, seen, late>>
    BY <1>3 DEF End
  <2>2. Placed' /\ Scoped' /\ StreamsBlamed'
    BY <2>1 DEF BlameInv, Placed, PC, Scoped, Within, StreamsBlamed
  <2>3. HookBlamed'
    BY <2>1 DEF BlameInv, HookBlamed
  <2>4. ConnOK' /\ FailBlamesSut' /\ suite'.binding = "http"
    BY <2>1 DEF BlameInv, ConnOK, FailBlamesSut
  <2> QED  BY <2>2, <2>3, <2>4 DEF BlameInv
<1> QED  BY <1>1, <1>2, <1>3

LEMMA StepBlames ==
    ASSUME BlameInv, wrong \subseteq Cause,
           Unresolved \/ UnresolvedPayload \/ Refuse \/ Dispatch \/ OpenStreams \/ AwaitWebhook
    PROVE  BlameInv'
<1>1. pc = "step" /\ Within
  BY DEF Unresolved, UnresolvedPayload, Refuse, Dispatch, OpenStreams, AwaitWebhook, Within
<1>2. More /\ pc \notin {"gate", "ended"}
  BY <1>1 DEF BlameInv, Placed
<1>3. CASE Unresolved \/ Refuse
  BY <1>2, <1>3, ConcludeBlames DEF Unresolved, Refuse, Outcome, Cause
<1>4. CASE UnresolvedPayload
  BY <1>2, <1>4, AbortBlames DEF UnresolvedPayload
<1>5. CASE Dispatch \/ AwaitWebhook
  <2>1. /\ UNCHANGED <<suite, verdicts, at, scope, conn, wrong, delivered, seen, late>>
        /\ pc' \in {"reply", "read"}
    BY <1>5 DEF Dispatch, AwaitWebhook
  <2>2. HookBlamed'
    BY <1>1, <2>1 DEF BlameInv, HookBlamed
  <2> QED  BY <1>1, <2>1, <2>2, MoveBlames
<1>6. CASE OpenStreams
  <2>1. /\ UNCHANGED <<suite, verdicts, at, scope, wrong, delivered, seen, late>>
        /\ pc' = "streams"
        /\ conn' = [i \in 1..Len(step.streams) |-> [phase |-> "opening", events |-> <<>>]]
    BY <1>6 DEF OpenStreams
  <2>2. test' = test /\ step' = step
    BY <2>1 DEF test, step
  <2>3. step \in StepBlock
    BY <1>2, StepTyped DEF BlameInv
  <2>4. step.streams \in Seq(Nat \cup {None}) /\ step.max \in Nat \cup {None}
    BY <2>3 DEF StepBlock
  <2>5. DOMAIN conn' = DOMAIN step.streams /\ ConnOK'
    BY <2>1, <2>4 DEF ConnOK, Conn, Phase
  <2>6. ASSUME NEW i \in DOMAIN conn'
        PROVE  StreamBlamed(step, conn[i], wrong)'
    <3>1. conn'[i].phase = "opening" /\ conn'[i].events = <<>>
      BY <2>1, <2>4
    <3>2. Ordered(<<>>) /\ Len(<<>>) = 0
      BY DEF Ordered
    <3> QED  BY <2>2, <2>4, <3>1, <3>2 DEF StreamBlamed
  <2>7. StreamsBlamed'
    BY <2>2, <2>5, <2>6 DEF StreamsBlamed
  <2>8. Placed' /\ Scoped'
    BY <1>1, <2>1, <2>2 DEF BlameInv, Placed, PC, More, Scoped, Within
  <2>9. HookBlamed'
    BY <1>1, <2>1 DEF BlameInv, HookBlamed
  <2>10. FailBlamesSut' /\ suite'.binding = "http"
    BY <2>1 DEF BlameInv, FailBlamesSut
  <2> QED  BY <2>5, <2>7, <2>8, <2>9, <2>10 DEF BlameInv
<1> QED  BY <1>3, <1>4, <1>5, <1>6

LEMMA ExchangeBlames ==
    ASSUME BlameInv, wrong \subseteq Cause, Exchange
    PROVE  BlameInv'
<1>1. pc = "reply" /\ Within /\ conn' = conn /\ suite.binding = "http"
  BY DEF Exchange, Reply, Pending, Lost, Within, BlameInv
<1>2. More
  BY <1>1 DEF BlameInv, Placed
<1>3. CASE Reply
  BY <1>1, <1>3, EvaluateBlames DEF Reply, Cause, Blame
<1>4. CASE Pending
  <2>1. CASE attempt < step.attempts
    <3>1. UNCHANGED <<suite, verdicts, pc, at, scope, conn, wrong, delivered, seen, late>>
      BY <1>1, <1>4, <2>1 DEF Pending, Again
    <3>2. HookBlamed'
      BY <1>1, <3>1 DEF BlameInv, HookBlamed
    <3> QED  BY <1>1, <3>1, <3>2, MoveBlames
  <2>2. CASE ~(attempt < step.attempts)
    <3>1. Conclude("fail", {"sut"})
      BY <1>4, <2>2 DEF Pending, Again
    <3> QED  BY <1>1, <1>2, <3>1, ConcludeBlames DEF Outcome, Cause, Blame
  <2> QED  BY <2>1, <2>2
<1>5. CASE Lost
  <2>1. Conclude("error", {"harness"})
    BY <1>1, <1>5 DEF Lost
  <2> QED  BY <1>1, <1>2, <2>1, ConcludeBlames DEF Outcome, Cause
<1> QED  BY <1>3, <1>4, <1>5 DEF Exchange

LEMMA WebhookBlames ==
    ASSUME BlameInv, wrong \subseteq Cause, Deliver \/ DeadlinePasses \/ Read \/ Check
    PROVE  BlameInv'
<1>1. Within /\ pc \notin {"gate", "ended"}
  BY DEF Deliver, DeadlinePasses, Read, Check, Within
<1>2. More /\ step.min \in Nat /\ step \in StepBlock
  BY <1>1, StepTyped DEF BlameInv, Placed, StepBlock
<1>3. delivered \in Seq(BOOLEAN) /\ seen \in Nat /\ late \in BOOLEAN
  BY DEF BlameInv, HookBlamed
<1>4. CASE Deliver
  <2>1. UNCHANGED <<suite, verdicts, pc, at, scope, conn, seen, late, wrong>>
    BY <1>4 DEF Deliver
  <2>2. delivered' \in Seq(BOOLEAN) /\ Len(delivered') = Len(delivered) + 1
    BY <1>3, <1>4 DEF Deliver
  <2>3. step' = step
    BY <2>1 DEF step, test
  <2>4. Len(delivered) \in Nat
    BY <1>3
  <2>5. HookBlamed'
    BY <1>2, <2>1, <2>2, <2>3, <2>4 DEF BlameInv, HookBlamed, Enough
  <2>6. pc' \in {"step", "reply", "streams", "read", "check"}
    BY <1>4 DEF Deliver
  <2> QED  BY <1>1, <2>1, <2>5, <2>6, MoveBlames
<1>5. CASE DeadlinePasses
  <2>1. /\ UNCHANGED <<suite, verdicts, pc, at, scope, conn, delivered, seen>>
        /\ pc \in {"read", "check"} /\ late' = TRUE /\ wrong \subseteq wrong'
        /\ ~Enough(Len(delivered)) => "overdue" \in wrong'
        /\ pc = "check" /\ ~Enough(seen) => wrong' \cap {"overdue", "close"} # {}
    BY <1>5 DEF DeadlinePasses
  <2>2. step' = step
    BY <2>1 DEF step, test
  <2>3. HookBlamed'
    BY <1>3, <2>1, <2>2 DEF HookBlamed, Enough
  <2> QED  BY <1>1, <2>1, <2>3, MoveBlames
<1>6. CASE Read
  <2>1. /\ UNCHANGED <<suite, verdicts, at, scope, conn, delivered, late, wrong>>
        /\ pc = "read" /\ pc' = "check" /\ seen' = Len(delivered)
    BY <1>6 DEF Read
  <2>2. step' = step /\ Len(delivered) \in Nat
    BY <1>3, <2>1 DEF step, test
  <2>3. HookBlamed'
    BY <1>3, <2>1, <2>2 DEF BlameInv, HookBlamed, Enough
  <2> QED  BY <1>1, <2>1, <2>3, MoveBlames
<1>7. CASE Check
  <2>1. pc = "check" /\ conn' = conn
    BY <1>7 DEF Check
  <2>2. CASE Enough(seen)
    <3> DEFINE fits == \A n \in 1..seen : delivered[n]
    <3>1. Evaluate(fits, {"sut"}) /\ fits \in BOOLEAN
      BY <1>7, <2>2 DEF Check
    <3> HIDE DEF fits
    <3> QED  BY <1>1, <2>1, <3>1, EvaluateBlames DEF Cause, Blame
  <2>3. CASE ~Enough(seen) /\ late
    <3>1. Conclude("fail", {}) /\ wrong \cap {"overdue", "close"} # {}
      BY <1>7, <2>1, <2>3 DEF Check, BlameInv, HookBlamed
    <3> QED  BY <1>2, <2>1, <3>1, ConcludeBlames DEF Outcome, Blame
  <2>4. CASE ~Enough(seen) /\ ~late
    <3>1. /\ UNCHANGED <<suite, verdicts, at, scope, conn, delivered, seen, late, wrong>>
          /\ pc' = "read"
      BY <1>7, <2>1, <2>4 DEF Check
    <3>2. HookBlamed'
      BY <1>3, <2>4, <3>1 DEF BlameInv, HookBlamed
    <3> QED  BY <1>1, <3>1, <3>2, MoveBlames
  <2> QED  BY <2>2, <2>3, <2>4
<1> QED  BY <1>4, <1>5, <1>6, <1>7

-----------------------------------------------------------------------------
(* What happens on one stream.                                             *)
LEMMA BlameGrows ==
    ASSUME NEW s, NEW c, NEW v, NEW w, v \subseteq w, StreamBlamed(s, c, v)
    PROVE  StreamBlamed(s, c, w)
<1>1. "sut" \in v => "sut" \in w
  OBVIOUS
<1> QED  BY <1>1 DEF StreamBlamed

LEMMA EnterBlames ==
    ASSUME BlameInv, pc = "streams", NEW i \in DOMAIN conn, NEW c \in Conn, NEW by \in SUBSET Cause,
           conn' = [conn EXCEPT ![i] = c], wrong' = wrong \cup by,
           UNCHANGED <<suite, verdicts, pc, at, scope, delivered, seen, late>>,
           ~step.refusal => StreamBlamed(step, c, wrong \cup by)
    PROVE  BlameInv'
<1>1. test' = test /\ step' = step
  BY DEF test, step
<1>2. ConnOK'
  BY DEF BlameInv, ConnOK
<1>3. Placed' /\ Scoped'
  BY <1>1 DEF BlameInv, Placed, PC, More, Scoped, Within
<1>4. DOMAIN conn' = DOMAIN step.streams
  BY DEF BlameInv, ConnOK, StreamsBlamed
<1>5. ASSUME ~step.refusal, NEW j \in DOMAIN conn'
      PROVE  StreamBlamed(step, conn[j], wrong)'
  <2>1. j \in DOMAIN conn /\ conn'[j] = IF j = i THEN c ELSE conn[j]
    BY DEF BlameInv, ConnOK
  <2>2. CASE j = i
    <3>1. conn'[j] = c
      BY <2>1, <2>2
    <3> QED  BY <1>1, <1>5, <3>1 DEF StreamBlamed
  <2>3. CASE j # i
    <3>1. conn'[j] = conn[j] /\ StreamBlamed(step, conn[j], wrong)
      BY <1>5, <2>1, <2>3 DEF BlameInv, StreamsBlamed
    <3>2. StreamBlamed(step, conn[j], wrong')
      BY <3>1, BlameGrows
    <3> QED  BY <1>1, <3>1, <3>2
  <2> QED  BY <2>2, <2>3
<1>6. StreamsBlamed'
  BY <1>1, <1>4, <1>5 DEF StreamsBlamed
<1>7. HookBlamed'
  BY DEF BlameInv, HookBlamed
<1>8. FailBlamesSut' /\ suite'.binding = "http"
  BY DEF BlameInv, FailBlamesSut
<1> QED  BY <1>2, <1>3, <1>6, <1>7, <1>8 DEF BlameInv

LEMMA PhaseBlames ==
    ASSUME BlameInv, pc = "streams", NEW i \in DOMAIN conn, NEW phase \in Phase, NEW by \in SUBSET Cause,
           Enter(i, phase, by), phase # "cut",
           phase \in {"refused", "misrefused"} /\ ~step.refusal => "sut" \in by,
           phase = "timed out" /\ step.timed => "sut" \in by,
           phase = "closed" /\ Len(conn[i].events) < step.min => "sut" \in by
    PROVE  BlameInv'
<1> DEFINE c == [conn[i] EXCEPT !.phase = phase]
<1>1. conn[i] \in Conn
  BY ConnElement DEF BlameInv
<1>2. c \in Conn /\ c.phase = phase /\ c.events = conn[i].events
  BY <1>1 DEF Conn
<1>3. /\ conn' = [conn EXCEPT ![i] = c] /\ wrong' = wrong \cup by
      /\ UNCHANGED <<suite, verdicts, pc, at, scope, delivered, seen, late>>
  BY DEF Enter
<1> HIDE DEF c
<1>4. ASSUME ~step.refusal
      PROVE  StreamBlamed(step, c, wrong \cup by)
  <2>1. StreamBlamed(step, conn[i], wrong)
    BY <1>4 DEF BlameInv, StreamsBlamed
  <2> QED  BY <1>2, <1>4, <2>1 DEF StreamBlamed
<1> QED  BY <1>2, <1>3, <1>4, EnterBlames

(* An event that breaks the order of its stream is illegal when it arrives. *)
LEMMA OrderedGrows ==
    ASSUME NEW events \in Seq(State), NEW state \in State, Ordered(events), ~Illegal(events, state)
    PROVE  Ordered(Append(events, state))
<1> DEFINE more == Append(events, state)
           last == Len(events) + 1
<1>1. /\ DOMAIN more = DOMAIN events \cup {last} /\ last \notin DOMAIN events /\ last \in Nat
      /\ more[last] = state /\ \A n \in DOMAIN events : more[n] = events[n]
      /\ DOMAIN events = 1..Len(events) /\ Len(events) \in Nat
  OBVIOUS
<1> HIDE DEF more
<1>2. ASSUME NEW n \in DOMAIN more, MovesBack(more, n)
      PROVE  FALSE
  <2>1. PICK k \in 1..(n - 1) :
          /\ more[k] # "none" /\ more[n] \notin {"none", more[k]}
          /\ \A j \in (k + 1)..(n - 1) : more[j] = "none"
          /\ more[n] = "submitted" \/ more[k] \in Terminal
    BY <1>2 DEF MovesBack
  <2>2. CASE n \in DOMAIN events
    <3>1. k \in DOMAIN events /\ \A j \in (k + 1)..(n - 1) : j \in DOMAIN events
      BY <1>1, <2>2
    <3>2. MovesBack(events, n)
      BY <1>1, <2>1, <2>2, <3>1 DEF MovesBack
    <3> QED  BY <2>2, <3>2 DEF Ordered
  <2>3. CASE n = last
    <3>1. k \in DOMAIN events
      BY <1>1, <2>3
    <3> QED  BY <1>1, <2>1, <2>3, <3>1 DEF Illegal
  <2> QED  BY <1>1, <2>2, <2>3
<1> QED  BY <1>2 DEF Ordered, more

LEMMA EventBlames ==
    ASSUME BlameInv, pc = "streams", NEW i \in DOMAIN conn, Event(i)
    PROVE  BlameInv'
<1>1. PICK state \in State :
        LET events == Append(conn[i].events, state)
            back   == step.monotonic /\ Illegal(conn[i].events, state)
            over   == step.max # None /\ Len(events) > step.max IN
        /\ conn' = [conn EXCEPT ![i] = [phase  |-> IF AtLimit(i, events) THEN "cut" ELSE "open",
                                        events |-> events]]
        /\ wrong' = wrong \cup (IF back \/ over THEN {"sut"} ELSE {})
        /\ UNCHANGED <<suite, verdicts, pc, at, scope, attempt, delivered, seen, late>>
  BY DEF Event
<1> DEFINE old    == conn[i].events
           events == Append(old, state)
           back   == step.monotonic /\ Illegal(old, state)
           over   == step.max # None /\ Len(events) > step.max
           by     == IF back \/ over THEN {"sut"} ELSE {}
           c      == [phase |-> IF AtLimit(i, events) THEN "cut" ELSE "open", events |-> events]
<1>2. old \in Seq(State)
  BY ConnElement DEF BlameInv, Conn
<1>3. events \in Seq(State) /\ Len(events) = Len(old) + 1 /\ Len(old) \in Nat
  BY <1>2
<1>4. c \in Conn /\ by \in SUBSET Cause
  BY <1>3 DEF Conn, Phase, Cause
<1>5. step \in StepBlock /\ Countable(step) /\ i \in DOMAIN step.streams
  BY StepTyped DEF BlameInv, StreamsBlamed
<1>6. step.min \in Nat /\ step.max \in Nat \cup {None} /\ step.streams \in Seq(Nat \cup {None})
  BY <1>5 DEF StepBlock
<1>7. step.streams[i] \in Nat \cup {None} /\ None \notin Nat
  BY <1>5, <1>6, EngineAssumption
<1>8. AtLimit(i, events) => Len(events) >= step.min
  BY <1>3, <1>5, <1>6, <1>7 DEF AtLimit, Limit, Countable
<1>9. ASSUME ~step.refusal
      PROVE  StreamBlamed(step, c, wrong \cup by)
  <2>1. StreamBlamed(step, conn[i], wrong)
    BY <1>9 DEF BlameInv, StreamsBlamed
  <2>2. step.monotonic /\ ~Ordered(events) => "sut" \in wrong \cup by
    BY <1>2, <2>1, OrderedGrows DEF StreamBlamed
  <2>3. step.max # None /\ Len(events) > step.max => "sut" \in wrong \cup by
    OBVIOUS
  <2>4. c.phase \in {"cut", "open"} /\ c.events = events /\ (c.phase = "cut" => AtLimit(i, events))
    OBVIOUS
  <2> HIDE DEF c, by, events
  <2> QED  BY <1>8, <2>2, <2>3, <2>4 DEF StreamBlamed
<1>10. /\ conn' = [conn EXCEPT ![i] = c] /\ wrong' = wrong \cup by
       /\ UNCHANGED <<suite, verdicts, pc, at, scope, delivered, seen, late>>
  BY <1>1
<1> HIDE DEF c, by
<1> QED  BY <1>4, <1>9, <1>10, EnterBlames

LEMMA CollectBlames ==
    ASSUME BlameInv, Collect
    PROVE  BlameInv'
<1> SUFFICES ASSUME pc = "streams", NEW i \in DOMAIN conn,
                    \/ StreamOpens(i) \/ StreamRefused(i) \/ Event(i)
                    \/ StreamCloses(i) \/ StreamLost(i) \/ Deadline(i)
             PROVE  BlameInv'
  BY DEF Collect
<1>1. CASE StreamOpens(i)
  BY <1>1, PhaseBlames DEF StreamOpens, Phase, Cause
<1>2. CASE StreamRefused(i)
  BY <1>2, PhaseBlames DEF StreamRefused, Phase, Cause
<1>3. CASE Event(i)
  BY <1>3, EventBlames
<1>4. CASE StreamCloses(i)
  BY <1>4, PhaseBlames DEF StreamCloses, Phase, Cause
<1>5. CASE StreamLost(i)
  BY <1>5, PhaseBlames DEF StreamLost, Phase, Cause, BlameInv
<1>6. CASE Deadline(i)
  BY <1>6, PhaseBlames DEF Deadline, Phase, Cause
<1> QED  BY <1>1, <1>2, <1>3, <1>4, <1>5, <1>6

LEMMA EndStreamsBlames ==
    ASSUME BlameInv, wrong \subseteq Cause, EndStreams
    PROVE  BlameInv'
<1>1. pc = "streams" /\ Gathered /\ conn' = conn /\ Within
  BY DEF EndStreams, Within
<1>2. More /\ at \in DOMAIN test.steps /\ step.min \in Nat /\ step.max \in Nat \cup {None}
  BY <1>1, StepTyped DEF BlameInv, Placed, StepBlock
<1>3. step.refusal => Excused(test)
  BY <1>2 DEF Excused, ExpectsRefusal, step
<1>4. ASSUME NEW i \in Raised, FirstRaised(conn[i].phase)
      PROVE  BlameInv'
  <2> DEFINE phase == conn[i].phase
  <2>1. FirstRaised(phase) /\ i \in DOMAIN conn /\ phase \in {"refused", "misrefused", "lost"}
    BY <1>4 DEF Raised
  <2>2. ~step.refusal => StreamBlamed(step, conn[i], wrong)
    BY <1>1, <2>1 DEF BlameInv, StreamsBlamed
  <2>3. ~step.refusal /\ phase # "lost" => "sut" \in wrong
    BY <2>1, <2>2 DEF StreamBlamed
  <2> HIDE DEF phase
  <2>4. CASE step.refusal
    <3>1. Evaluate(phase = "refused", {})
      BY <2>1, <2>4 DEF FirstRaised
    <3> QED  BY <1>1, <1>3, <2>4, <3>1, EvaluateBlames DEF Cause
  <2>5. CASE ~step.refusal /\ phase = "lost"
    <3>1. Conclude("error", {})
      BY <2>1, <2>5 DEF FirstRaised
    <3> QED  BY <1>1, <1>2, <3>1, ConcludeBlames DEF Outcome, Cause
  <2>6. CASE ~step.refusal /\ phase # "lost"
    <3>1. Conclude("fail", {})
      BY <2>1, <2>6 DEF FirstRaised
    <3> QED  BY <1>1, <1>2, <2>3, <2>6, <3>1, ConcludeBlames DEF Outcome, Cause, Blame
  <2> QED  BY <2>4, <2>5, <2>6
<1>5. CASE Conclude("error", {})
  BY <1>1, <1>2, <1>5, ConcludeBlames DEF Outcome, Cause
<1>6. ASSUME Raised = {}, Overdue = {} \/ step.timed,
             NEW content \in BOOLEAN,
             Evaluate(~step.refusal /\ content /\ \A i \in DOMAIN conn : StreamFits(conn[i]),
                      IF content THEN {} ELSE {"sut"})
      PROVE  BlameInv'
  <2> DEFINE fits == ~step.refusal /\ content /\ \A i \in DOMAIN conn : StreamFits(conn[i])
             by   == IF content THEN {} ELSE {"sut"}
  <2>1. Evaluate(fits, by) /\ fits \in BOOLEAN /\ by \in SUBSET Cause
    BY <1>6 DEF Cause
  <2>2. ASSUME ~step.refusal, NEW i \in DOMAIN conn, ~StreamFits(conn[i])
        PROVE  "sut" \in wrong
    <3>1. StreamBlamed(step, conn[i], wrong) /\ conn[i] \in Conn
      BY <1>1, <2>2, ConnElement DEF BlameInv, StreamsBlamed
    <3>2. conn[i].phase \in Phase
      BY <3>1 DEF Conn
    <3>3. conn[i].phase \in {"closed", "cut", "timed out"}
      BY <1>1, <1>6, <3>2 DEF Phase, Gathered, Reading, Raised
    <3>4. conn[i].phase = "timed out" => step.timed
      BY <1>6 DEF Overdue
    <3> DEFINE c == conn[i]
               events == c.events
    <3>5. events \in Seq(State)
      BY <3>1 DEF Conn
    <3>6. \/ c.phase = "timed out" \/ ~(Len(events) >= step.min)
          \/ step.max # None /\ ~(Len(events) <= step.max)
          \/ step.monotonic /\ ~Ordered(events)
      BY <2>2 DEF StreamFits
    <3>7. /\ c.phase = "timed out" /\ step.timed => "sut" \in wrong
          /\ c.phase = "closed" /\ Len(events) < step.min => "sut" \in wrong
          /\ c.phase = "cut" => Len(events) >= step.min
          /\ step.max # None /\ Len(events) > step.max => "sut" \in wrong
          /\ step.monotonic /\ ~Ordered(events) => "sut" \in wrong
      BY <3>1 DEF StreamBlamed
    <3> HIDE DEF c, events
    <3>8. Len(events) \in Nat
      BY <3>5
    <3>9. CASE c.phase = "timed out"
      BY <3>4, <3>7, <3>9 DEF c
    <3>10. CASE ~(Len(events) >= step.min)
      <4> DEFINE min == step.min
                 len == Len(events)
      <4>1. min \in Nat /\ len \in Nat /\ ~(len >= min)
        BY <1>2, <3>8, <3>10
      <4>2. (c.phase = "closed" /\ len < min => "sut" \in wrong) /\ (c.phase = "cut" => len >= min)
        BY <3>7
      <4> HIDE DEF min, len
      <4>3. len < min
        BY <4>1
      <4> QED  BY <3>3, <3>4, <3>7, <4>1, <4>2, <4>3 DEF c
    <3>11. CASE step.max # None /\ ~(Len(events) <= step.max)
      <4> DEFINE max == step.max
                 len == Len(events)
      <4>1. max \in Nat /\ len \in Nat /\ ~(len <= max) /\ max # None
        BY <1>2, <3>8, <3>11
      <4>2. max # None /\ len > max => "sut" \in wrong
        BY <3>7
      <4> HIDE DEF max, len
      <4>3. len > max
        BY <4>1
      <4> QED  BY <4>1, <4>2, <4>3
    <3> QED  BY <3>6, <3>7, <3>9, <3>10, <3>11
  <2>3. ~fits => "sut" \in wrong \cup by \/ Excused(test)
    BY <1>3, <2>2
  <2> HIDE DEF fits, by
  <2> QED  BY <1>1, <2>1, <2>3, EvaluateBlames DEF Blame
<1> QED  BY <1>4, <1>5, <1>6 DEF EndStreams

-----------------------------------------------------------------------------
LEMMA BlameStep == BlameInv /\ EngineInv /\ [Next]_vars => BlameInv'
<1> SUFFICES ASSUME BlameInv, EngineInv, [Next]_vars PROVE BlameInv'
  OBVIOUS
<1>1. wrong \subseteq Cause
  BY DEF EngineInv, VerdictsOK
<1>2. CASE UNCHANGED vars
  <2>1. test' = test /\ step' = step
    BY <1>2 DEF vars, test, step
  <2>2. Placed' /\ Scoped'
    BY <1>2, <2>1 DEF vars, BlameInv, Placed, More, Scoped, Within
  <2>3. StreamsBlamed'
    BY <1>2, <2>1 DEF vars, BlameInv, StreamsBlamed
  <2>4. HookBlamed'
    BY <1>2, <2>1 DEF vars, BlameInv, HookBlamed, Enough
  <2>5. ConnOK' /\ FailBlamesSut' /\ suite'.binding = "http"
    BY <1>2 DEF vars, BlameInv, ConnOK, FailBlamesSut
  <2> QED  BY <2>2, <2>3, <2>4, <2>5 DEF BlameInv
<1>3. CASE Next
  BY <1>1, <1>3, GateBlames, StepBlames, ExchangeBlames, CollectBlames, EndStreamsBlames, WebhookBlames
     DEF Next, Runner
<1> QED  BY <1>2, <1>3

(* A run keeps its suite. *)
LEMMA SuiteStays == [Next]_vars => suite' = suite
<1> SUFFICES ASSUME [Next]_vars PROVE suite' = suite
  OBVIOUS
<1>1. ASSUME NEW outcome, NEW by, Conclude(outcome, by) PROVE suite' = suite
  BY <1>1 DEF Conclude
<1>2. ASSUME NEW conforms, NEW by, Evaluate(conforms, by) PROVE suite' = suite
  <2>1. CASE Pass
    BY <1>1, <2>1 DEF Pass
  <2> QED  BY <1>1, <1>2, <2>1 DEF Evaluate, Abort
<1>3. CASE Runner
  <2>1. CASE EndStreams
    <3>1. ASSUME NEW phase, FirstRaised(phase) PROVE suite' = suite
      BY <1>1, <1>2, <3>1 DEF FirstRaised
    <3> QED  BY <1>1, <1>2, <2>1, <3>1 DEF EndStreams
  <2>2. CASE Check
    BY <1>1, <1>2, <2>2 DEF Check
  <2>3. CASE SkipTest \/ LackCard \/ LackBehavior \/ Unresolved \/ Refuse
    BY <1>1, <2>3 DEF SkipTest, LackCard, LackBehavior, Unresolved, Refuse
  <2>4. CASE Begin \/ End \/ UnresolvedPayload \/ Dispatch \/ OpenStreams \/ AwaitWebhook \/ Read
    BY <2>4 DEF Begin, End, UnresolvedPayload, Abort, Dispatch, OpenStreams, AwaitWebhook, Read
  <2> QED  BY <1>3, <2>1, <2>2, <2>3, <2>4 DEF Runner
<1>4. CASE Exchange
  <2>1. ASSUME NEW by, Again(by) PROVE suite' = suite
    BY <1>1, <2>1 DEF Again
  <2> QED  BY <1>1, <1>2, <1>4, <2>1 DEF Exchange, Reply, Pending, Lost
<1>5. CASE Collect
  BY <1>5 DEF Collect, StreamOpens, StreamRefused, Event, StreamCloses, StreamLost, Deadline, Enter
<1>6. CASE Deliver \/ DeadlinePasses \/ UNCHANGED vars
  BY <1>6 DEF Deliver, DeadlinePasses, vars
<1> QED  BY <1>3, <1>4, <1>5, <1>6 DEF Next

(* Over HTTP a test fails only if the SUT did not conform, or its           *)
(* notifications had not come when they were last read (runner.py:8), but   *)
(* for a stream that is to be refused and a source that names nobody.       *)
THEOREM FailBlamesSutAlways == Spec => []FailBlamesSut
<1> DEFINE HttpInv == suite.binding = "http" => BlameInv
<1>1. Init => EngineInv /\ HttpInv
  BY EngineInit, BlameInit
<1>2. EngineInv /\ HttpInv /\ [Next]_vars => (EngineInv /\ HttpInv)'
  <2> SUFFICES ASSUME EngineInv, HttpInv, [Next]_vars PROVE EngineInv' /\ HttpInv'
    OBVIOUS
  <2>1. suite' = suite
    BY SuiteStays
  <2> QED  BY <2>1, EngineStep, BlameStep
<1>3. HttpInv => FailBlamesSut
  BY DEF BlameInv, FailBlamesSut
<1> HIDE DEF HttpInv
<1> QED  BY <1>1, <1>2, <1>3, PTL DEF Spec

-----------------------------------------------------------------------------
(* The converse: what was put down to the SUT on a stream shows in what      *)
(* evaluate_stream sees of it.                                               *)

(* An event of state f after one of state e. *)
Breaks(e, f) == e # "none" /\ f \notin {"none", e} /\ (f = "submitted" \/ e \in Terminal)

(* There is a last event with a state, if there is any ... *)
HasLast(events) ==
    (\E k \in DOMAIN events : events[k] # "none") =>
        \E m \in DOMAIN events :
            events[m] # "none" /\ \A j \in DOMAIN events : j > m => events[j] = "none"

(* ... and where no event breaks the order with its predecessor, none does  *)
(* with any earlier event.                                                  *)
Settled(events) == \A n \in DOMAIN events : \A k \in 1..(n - 1) : ~Breaks(events[k], events[n])

Traced(events) == HasLast(events) /\ (Ordered(events) => Settled(events))

LEMMA TracedGrows ==
    ASSUME NEW events \in Seq(State), NEW state \in State, Traced(events)
    PROVE  /\ Traced(Append(events, state))
           /\ ~Ordered(events) \/ Illegal(events, state) => ~Ordered(Append(events, state))
<1> DEFINE more == Append(events, state)
           last == Len(events) + 1
<1>1. /\ DOMAIN more = DOMAIN events \cup {last} /\ last \notin DOMAIN events /\ last \in Nat
      /\ more[last] = state /\ \A n \in DOMAIN events : more[n] = events[n] /\ n < last
      /\ DOMAIN events = 1..Len(events) /\ Len(events) \in Nat
      /\ \A n \in DOMAIN events : 1..(n - 1) \subseteq DOMAIN events
      /\ 1..(last - 1) = DOMAIN events /\ DOMAIN events \subseteq Nat
  OBVIOUS
<1> HIDE DEF more, last
<1>2. HasLast(more)
  <2>1. CASE state # "none"
    <3>1. last \in DOMAIN more /\ more[last] # "none" /\ \A j \in DOMAIN more : ~(j > last)
      BY <1>1, <2>1
    <3> QED  BY <3>1 DEF HasLast
  <2>2. CASE state = "none"
    <3>1. SUFFICES ASSUME NEW k \in DOMAIN more, more[k] # "none"
                   PROVE  \E m \in DOMAIN more : more[m] # "none" /\ \A j \in DOMAIN more : j > m => more[j] = "none"
      BY DEF HasLast
    <3>2. k \in DOMAIN events /\ events[k] # "none"
      BY <1>1, <2>2, <3>1
    <3>3. PICK m \in DOMAIN events : events[m] # "none" /\ \A j \in DOMAIN events : j > m => events[j] = "none"
      BY <3>2 DEF Traced, HasLast
    <3>4. m \in DOMAIN more /\ more[m] # "none" /\ \A j \in DOMAIN more : j > m => more[j] = "none"
      BY <1>1, <2>2, <3>3
    <3> QED  BY <3>4
  <2> QED  BY <2>1, <2>2
<1>3. ASSUME ~Ordered(events) PROVE ~Ordered(more)
  <2>1. PICK n \in DOMAIN events : MovesBack(events, n)
    BY <1>3 DEF Ordered
  <2>2. PICK k \in 1..(n - 1) :
          /\ events[k] # "none" /\ events[n] \notin {"none", events[k]}
          /\ \A j \in (k + 1)..(n - 1) : events[j] = "none"
          /\ events[n] = "submitted" \/ events[k] \in Terminal
    BY <2>1 DEF MovesBack
  <2>3. k \in DOMAIN events /\ \A j \in (k + 1)..(n - 1) : j \in DOMAIN events
    BY <1>1
  <2>4. more[n] = events[n] /\ more[k] = events[k] /\ \A j \in (k + 1)..(n - 1) : more[j] = events[j]
    BY <1>1, <2>3
  <2>5. MovesBack(more, n)
    BY <2>2, <2>4 DEF MovesBack
  <2> QED  BY <1>1, <2>5 DEF Ordered
<1>4. ASSUME Ordered(events), Illegal(events, state) PROVE ~Ordered(more)
  <2>1. PICK k \in DOMAIN events : Breaks(events[k], state)
    BY <1>4 DEF Illegal, Breaks
  <2>2. PICK m \in DOMAIN events : events[m] # "none" /\ \A j \in DOMAIN events : j > m => events[j] = "none"
    BY <2>1 DEF Breaks, Traced, HasLast
  <2>3. k < m \/ k = m
    BY <1>1, <2>1, <2>2 DEF Breaks
  <2>4. k < m => ~Breaks(events[k], events[m])
    BY <1>1, <1>4 DEF Traced, Settled
  <2>5. Breaks(events[m], state)
    BY <2>1, <2>2, <2>3, <2>4 DEF Breaks
  <2>6. m \in 1..(last - 1) /\ \A j \in (m + 1)..(last - 1) : more[j] = "none"
    BY <1>1, <2>2
  <2>7. MovesBack(more, last)
    BY <1>1, <2>5, <2>6 DEF MovesBack, Breaks
  <2> QED  BY <1>1, <2>7 DEF Ordered
<1>5. ASSUME Ordered(more) PROVE Settled(more)
  <2>1. Ordered(events) /\ ~Illegal(events, state) /\ Settled(events)
    BY <1>3, <1>4, <1>5 DEF Traced
  <2>2. ASSUME NEW n \in DOMAIN more, NEW k \in 1..(n - 1) PROVE ~Breaks(more[k], more[n])
    <3>1. CASE n \in DOMAIN events
      <4>1. k \in DOMAIN events /\ more[n] = events[n] /\ more[k] = events[k]
        BY <1>1, <3>1
      <4> QED  BY <2>1, <3>1, <4>1 DEF Settled
    <3>2. CASE n = last
      <4>1. k \in DOMAIN events /\ more[k] = events[k] /\ more[n] = state
        BY <1>1, <3>2
      <4> QED  BY <2>1, <4>1 DEF Illegal, Breaks
    <3> QED  BY <1>1, <3>1, <3>2
  <2> QED  BY <2>2 DEF Settled
<1> QED  BY <1>2, <1>3, <1>4, <1>5 DEF Traced, more

(* What a step rejects of a stream of its own. *)
Rejected(s, c) ==
    \/ s.refusal /\ c.phase \notin {"opening", "refused"}
    \/ ~s.refusal /\ c.phase \in {"refused", "misrefused"}
    \/ c.phase = "timed out" /\ s.timed
    \/ c.phase = "closed" /\ Len(c.events) < s.min
    \/ s.max # None /\ Len(c.events) > s.max
    \/ s.monotonic /\ ~Ordered(c.events)

StreamsTraced ==
    pc = "streams" =>
        /\ DOMAIN conn = DOMAIN step.streams
        /\ \A i \in DOMAIN conn : Traced(conn[i].events)
        /\ "sut" \in wrong => \E i \in DOMAIN conn : Rejected(step, conn[i])

(* Elsewhere what the SUT does wrong ends the test. *)
CleanElsewhere == pc \in {"gate", "step", "reply", "read", "check"} => "sut" \notin wrong

ConformInv == Placed /\ StreamsTraced /\ CleanElsewhere /\ PassMeansConforming

LEMMA ConcludeConforms ==
    ASSUME ConformInv, NEW outcome \in Outcome, NEW by \in SUBSET Cause, Conclude(outcome, by),
           wrong \subseteq Cause, More, outcome = "pass" => "sut" \notin wrong \cup by
    PROVE  ConformInv'
<1> DEFINE v == [result |-> outcome, wrong |-> wrong \cup by]
<1>1. v \in [result : Outcome, wrong : SUBSET Cause] /\ verdicts \in Seq([result : Outcome, wrong : SUBSET Cause])
  BY DEF ConformInv, Placed
<1>2. verdicts' = Append(verdicts, v) /\ pc' = "gate" /\ suite' = suite /\ at' = 1 /\ wrong' = {}
  BY DEF Conclude
<1>3. Placed'
  BY <1>1, <1>2 DEF ConformInv, Placed, PC
<1>4. StreamsTraced' /\ CleanElsewhere'
  BY <1>2 DEF StreamsTraced, CleanElsewhere
<1>5. ASSUME NEW n \in DOMAIN verdicts', verdicts'[n].result = "pass"
      PROVE  "sut" \notin verdicts'[n].wrong
  <2>1. CASE n \in DOMAIN verdicts
    <3>1. verdicts'[n] = verdicts[n]
      BY <1>1, <1>2, <2>1
    <3> QED  BY <2>1, <3>1, <1>5 DEF ConformInv, PassMeansConforming
  <2>2. CASE n \notin DOMAIN verdicts
    <3>1. verdicts'[n] = v
      BY <1>1, <1>2, <2>2
    <3> QED  BY <3>1, <1>5
  <2> QED  BY <2>1, <2>2
<1> QED  BY <1>3, <1>4, <1>5 DEF ConformInv, PassMeansConforming

(* The runner goes on with the test, and reads no streams. *)
LEMMA MoveConforms ==
    ASSUME ConformInv, Within, UNCHANGED <<suite, verdicts, at>>,
           pc' \in {"step", "reply", "read", "check", "aborted"},
           pc' = "aborted" \/ "sut" \notin wrong'
    PROVE  ConformInv'
<1>1. test' = test /\ pc \notin {"gate", "ended"}
  BY DEF test, Within
<1>2. Placed'
  BY <1>1 DEF ConformInv, Placed, PC, More
<1>3. StreamsTraced' /\ CleanElsewhere'
  BY DEF StreamsTraced, CleanElsewhere
<1>4. PassMeansConforming'
  BY DEF ConformInv, PassMeansConforming
<1> QED  BY <1>2, <1>3, <1>4 DEF ConformInv

LEMMA PassConforms ==
    ASSUME ConformInv, wrong \subseteq Cause, Pass, Within, "sut" \notin wrong
    PROVE  ConformInv'
<1>1. More /\ test.steps \in Seq(StepBlock) /\ at \in 1..Len(test.steps)
  BY StepTyped DEF ConformInv, Placed, Within, TestBlock
<1>2. CASE at < Len(test.steps)
  <2>1. /\ pc' = "step" /\ at' = at + 1
        /\ UNCHANGED <<suite, verdicts, wrong>>
    BY <1>2 DEF Pass
  <2>2. test' = test
    BY <2>1 DEF test
  <2>3. Placed'
    BY <1>1, <1>2, <2>1, <2>2 DEF ConformInv, Placed, More, PC
  <2>4. StreamsTraced' /\ CleanElsewhere' /\ PassMeansConforming'
    BY <2>1 DEF ConformInv, StreamsTraced, CleanElsewhere, PassMeansConforming
  <2> QED  BY <2>3, <2>4 DEF ConformInv
<1>3. CASE ~(at < Len(test.steps))
  <2>1. Conclude("pass", {})
    BY <1>3 DEF Pass
  <2> QED  BY <1>1, <2>1, ConcludeConforms DEF Outcome
<1> QED  BY <1>2, <1>3

LEMMA EvaluateConforms ==
    ASSUME ConformInv, wrong \subseteq Cause, Within,
           NEW conforms \in BOOLEAN, NEW by \in SUBSET Cause, Evaluate(conforms, by),
           conforms => "sut" \notin wrong
    PROVE  ConformInv'
<1>1. More /\ pc \notin {"gate", "ended"}
  BY DEF ConformInv, Placed, Within
<1>2. CASE Abort
  <2>1. UNCHANGED <<suite, verdicts, at>> /\ pc' = "aborted"
    BY <1>2 DEF Abort
  <2> QED  BY <2>1, MoveConforms
<1>3. CASE Conclude("fail", by) \/ Conclude("fail", {"harness"})
  BY <1>1, <1>3, ConcludeConforms DEF Outcome, Cause
<1>4. CASE conforms /\ Pass
  BY <1>4, PassConforms
<1> QED  BY <1>2, <1>3, <1>4 DEF Evaluate

-----------------------------------------------------------------------------
LEMMA ConformInit == Init => ConformInv
<1> SUFFICES ASSUME Init PROVE ConformInv
  OBVIOUS
<1>1. <<>> \in Seq([result : Outcome, wrong : SUBSET Cause])
  OBVIOUS
<1> QED  BY <1>1 DEF Init, ConformInv, Placed, PC, StreamsTraced, CleanElsewhere, PassMeansConforming

LEMMA GateConforms ==
    ASSUME ConformInv, wrong \subseteq Cause, SkipTest \/ LackCard \/ LackBehavior \/ Begin \/ End
    PROVE  ConformInv'
<1>1. CASE SkipTest \/ LackCard \/ LackBehavior
  BY <1>1, ConcludeConforms DEF SkipTest, LackCard, LackBehavior, Outcome, Cause
<1>2. CASE Begin
  <2>1. /\ pc = "gate" /\ pc' = "step" /\ More
        /\ UNCHANGED <<suite, verdicts, at, wrong>>
    BY <1>2 DEF Begin
  <2>2. test' = test /\ at' = 1
    BY <2>1 DEF test, ConformInv, Placed
  <2>3. test.steps \in Seq(StepBlock) /\ test.steps # <<>>
    <3>1. suite.tests \in Seq(TestBlock) /\ Len(verdicts) + 1 \in DOMAIN suite.tests
      BY <2>1, EngineAssumption DEF ConformInv, Placed, More
    <3>2. test \in TestBlock /\ test.steps # <<>>
      BY <3>1, EngineAssumption DEF ConformInv, Placed, test
    <3> QED  BY <3>2 DEF TestBlock
  <2>4. 1 \in 1..Len(test.steps)
    BY <2>3
  <2>5. Placed'
    BY <2>1, <2>2, <2>4 DEF ConformInv, Placed, PC, More
  <2>6. StreamsTraced' /\ CleanElsewhere' /\ PassMeansConforming'
    BY <2>1 DEF ConformInv, StreamsTraced, CleanElsewhere, PassMeansConforming
  <2> QED  BY <2>5, <2>6 DEF ConformInv
<1>3. CASE End
  <2>1. pc' = "ended" /\ UNCHANGED <<suite, verdicts, at>>
    BY <1>3 DEF End
  <2> QED
    BY <2>1 DEF ConformInv, Placed, PC, StreamsTraced, CleanElsewhere, PassMeansConforming
<1> QED  BY <1>1, <1>2, <1>3

LEMMA StepConforms ==
    ASSUME ConformInv, wrong \subseteq Cause,
           Unresolved \/ UnresolvedPayload \/ Refuse \/ Dispatch \/ OpenStreams \/ AwaitWebhook
    PROVE  ConformInv'
<1>1. pc = "step" /\ Within /\ More /\ "sut" \notin wrong
  BY DEF Unresolved, UnresolvedPayload, Refuse, Dispatch, OpenStreams, AwaitWebhook, Within,
         ConformInv, Placed, CleanElsewhere
<1>2. CASE Unresolved \/ Refuse
  BY <1>1, <1>2, ConcludeConforms DEF Unresolved, Refuse, Outcome, Cause
<1>3. CASE UnresolvedPayload \/ Dispatch \/ AwaitWebhook
  <2>1. /\ UNCHANGED <<suite, verdicts, at, wrong>>
        /\ pc' \in {"reply", "read", "aborted"}
    BY <1>3 DEF UnresolvedPayload, Abort, Dispatch, AwaitWebhook
  <2> QED  BY <1>1, <2>1, MoveConforms
<1>4. CASE OpenStreams
  <2>1. /\ UNCHANGED <<suite, verdicts, at, wrong>> /\ pc' = "streams"
        /\ conn' = [i \in 1..Len(step.streams) |-> [phase |-> "opening", events |-> <<>>]]
    BY <1>4 DEF OpenStreams
  <2>2. test' = test /\ step' = step
    BY <2>1 DEF test, step
  <2>3. step.streams \in Seq(Nat \cup {None})
    BY <1>1, StepTyped DEF ConformInv, StepBlock
  <2>4. Traced(<<>>)
    BY DEF Traced, HasLast, Settled
  <2>5. DOMAIN conn' = DOMAIN step.streams /\ \A i \in DOMAIN conn' : conn'[i].events = <<>>
    BY <2>1, <2>3
  <2>6. StreamsTraced'
    BY <1>1, <2>1, <2>2, <2>4, <2>5 DEF StreamsTraced
  <2>7. Placed'
    BY <1>1, <2>1, <2>2 DEF ConformInv, Placed, PC, More
  <2>8. CleanElsewhere' /\ PassMeansConforming'
    BY <2>1 DEF ConformInv, CleanElsewhere, PassMeansConforming
  <2> QED  BY <2>6, <2>7, <2>8 DEF ConformInv
<1> QED  BY <1>2, <1>3, <1>4

LEMMA ExchangeConforms ==
    ASSUME ConformInv, wrong \subseteq Cause, Exchange
    PROVE  ConformInv'
<1>1. pc = "reply" /\ Within /\ More /\ "sut" \notin wrong
  BY DEF Exchange, Reply, Pending, Lost, Within, ConformInv, Placed, CleanElsewhere
<1>2. CASE Reply
  BY <1>1, <1>2, EvaluateConforms DEF Reply, Cause
<1>3. ASSUME NEW by \in SUBSET Cause, Again(by)
      PROVE  ConformInv'
  <2>1. CASE attempt < step.attempts
    <3>1. UNCHANGED <<suite, verdicts, pc, at, wrong>>
      BY <1>3, <2>1 DEF Again
    <3> QED  BY <1>1, <3>1, MoveConforms
  <2>2. CASE ~(attempt < step.attempts)
    <3>1. Conclude("fail", by)
      BY <1>3, <2>2 DEF Again
    <3> QED  BY <1>1, <3>1, ConcludeConforms DEF Outcome
  <2> QED  BY <2>1, <2>2
<1>4. CASE Pending
  BY <1>3, <1>4 DEF Pending, Cause
<1>5. CASE Lost
  <2>1. \/ Again({"harness"}) \/ Conclude("error", {"harness"})
        \/ \E conforms \in BOOLEAN : Evaluate(conforms, {"harness"})
    BY <1>5 DEF Lost
  <2>2. CASE Again({"harness"})
    BY <1>3, <2>2 DEF Cause
  <2>3. CASE Conclude("error", {"harness"})
    BY <1>1, <2>3, ConcludeConforms DEF Outcome, Cause
  <2>4. CASE \E conforms \in BOOLEAN : Evaluate(conforms, {"harness"})
    BY <1>1, <2>4, EvaluateConforms DEF Cause
  <2> QED  BY <2>1, <2>2, <2>3, <2>4
<1> QED  BY <1>2, <1>4, <1>5 DEF Exchange

LEMMA WebhookConforms ==
    ASSUME ConformInv, wrong \subseteq Cause, Deliver \/ DeadlinePasses \/ Read \/ Check
    PROVE  ConformInv'
<1>1. Within /\ More
  BY DEF Deliver, DeadlinePasses, Read, Check, Within, ConformInv, Placed
<1>2. CASE Deliver
  <2>1. UNCHANGED <<suite, verdicts, pc, at, conn, wrong>>
    BY <1>2 DEF Deliver
  <2>2. test' = test /\ step' = step
    BY <2>1 DEF test, step
  <2> QED
    BY <2>1, <2>2 DEF ConformInv, Placed, More, StreamsTraced, CleanElsewhere, PassMeansConforming
<1>3. CASE DeadlinePasses
  <2>1. UNCHANGED <<suite, verdicts, pc, at>> /\ pc \in {"read", "check"} /\ "sut" \notin wrong
    BY <1>3 DEF DeadlinePasses, ConformInv, CleanElsewhere
  <2>2. "sut" \notin wrong'
    BY <1>3, <2>1 DEF DeadlinePasses
  <2> QED  BY <1>1, <2>1, <2>2, MoveConforms
<1>4. CASE Read
  <2>1. UNCHANGED <<suite, verdicts, at, wrong>> /\ pc = "read" /\ pc' = "check"
    BY <1>4 DEF Read
  <2> QED  BY <1>1, <2>1, MoveConforms DEF ConformInv, CleanElsewhere
<1>5. CASE Check
  <2>1. pc = "check" /\ "sut" \notin wrong
    BY <1>5 DEF Check, ConformInv, CleanElsewhere
  <2>2. CASE Enough(seen)
    <3> DEFINE fits == \A n \in 1..seen : delivered[n]
    <3>1. Evaluate(fits, {"sut"}) /\ fits \in BOOLEAN
      BY <1>5, <2>2 DEF Check
    <3> HIDE DEF fits
    <3> QED  BY <1>1, <2>1, <3>1, EvaluateConforms DEF Cause
  <2>3. CASE ~Enough(seen) /\ late
    <3>1. Conclude("fail", {})
      BY <1>5, <2>3 DEF Check
    <3> QED  BY <1>1, <3>1, ConcludeConforms DEF Outcome
  <2>4. CASE ~Enough(seen) /\ ~late
    <3>1. UNCHANGED <<suite, verdicts, at, wrong>> /\ pc' = "read"
      BY <1>5, <2>4 DEF Check
    <3> QED  BY <1>1, <2>1, <3>1, MoveConforms
  <2> QED  BY <2>2, <2>3, <2>4
<1> QED  BY <1>2, <1>3, <1>4, <1>5

-----------------------------------------------------------------------------
(* One stream goes on: it stays rejected, and is when the SUT is blamed.    *)
LEMMA EnterConforms ==
    ASSUME ConformInv, ConnOK, pc = "streams", NEW i \in DOMAIN conn, NEW c, NEW by,
           conn' = [conn EXCEPT ![i] = c], wrong' = wrong \cup by,
           UNCHANGED <<suite, verdicts, pc, at>>,
           Traced(c.events),
           Rejected(step, conn[i]) \/ "sut" \in by => Rejected(step, c)
    PROVE  ConformInv'
<1>1. test' = test /\ step' = step
  BY DEF test, step
<1>2. DOMAIN conn' = DOMAIN conn /\ conn'[i] = c /\ \A j \in DOMAIN conn : j # i => conn'[j] = conn[j]
  BY DEF ConnOK
<1>3. \A j \in DOMAIN conn' : Traced(conn'[j].events)
  BY <1>2 DEF ConformInv, StreamsTraced
<1>4. ASSUME "sut" \in wrong' PROVE \E j \in DOMAIN conn' : Rejected(step, conn'[j])
  <2>1. CASE "sut" \in by
    BY <1>2, <2>1
  <2>2. CASE "sut" \in wrong
    <3>1. PICK j \in DOMAIN conn : Rejected(step, conn[j])
      BY <2>2 DEF ConformInv, StreamsTraced
    <3>2. Rejected(step, conn'[j])
      BY <1>2, <3>1
    <3> QED  BY <1>2, <3>2
  <2> QED  BY <1>4, <2>1, <2>2
<1>5. StreamsTraced'
  BY <1>1, <1>2, <1>3, <1>4 DEF ConformInv, StreamsTraced, Rejected
<1>6. Placed' /\ CleanElsewhere' /\ PassMeansConforming'
  BY <1>1 DEF ConformInv, Placed, More, CleanElsewhere, PassMeansConforming
<1> QED  BY <1>5, <1>6 DEF ConformInv

LEMMA PhaseConforms ==
    ASSUME ConformInv, ConnOK, pc = "streams", NEW i \in DOMAIN conn, NEW phase \in Phase, NEW by,
           Enter(i, phase, by), conn[i].phase \in Reading,
           phase \notin {"opening", "cut"}, phase = "refused" => conn[i].phase = "opening",
           "sut" \in by => Rejected(step, [conn[i] EXCEPT !.phase = phase])
    PROVE  ConformInv'
<1> DEFINE c == [conn[i] EXCEPT !.phase = phase]
<1>1. c.phase = phase /\ c.events = conn[i].events
  BY ConnElement DEF Conn
<1>2. /\ conn' = [conn EXCEPT ![i] = c] /\ wrong' = wrong \cup by
      /\ UNCHANGED <<suite, verdicts, pc, at>>
  BY DEF Enter
<1>3. "sut" \in by => Rejected(step, c)
  OBVIOUS
<1> HIDE DEF c
<1>4. Rejected(step, conn[i]) => Rejected(step, c)
  BY <1>1 DEF Rejected, Reading
<1>5. Traced(c.events)
  BY <1>1 DEF ConformInv, StreamsTraced
<1> QED  BY <1>2, <1>3, <1>4, <1>5, EnterConforms

LEMMA EventConforms ==
    ASSUME ConformInv, ConnOK, pc = "streams", NEW i \in DOMAIN conn, Event(i)
    PROVE  ConformInv'
<1> DEFINE old == conn[i].events
<1>1. PICK state \in State :
        LET events == Append(old, state)
            back   == step.monotonic /\ Illegal(old, state)
            over   == step.max # None /\ Len(events) > step.max IN
        /\ conn' = [conn EXCEPT ![i] = [phase  |-> IF AtLimit(i, events) THEN "cut" ELSE "open",
                                        events |-> events]]
        /\ wrong' = wrong \cup (IF back \/ over THEN {"sut"} ELSE {})
        /\ UNCHANGED <<suite, verdicts, pc, at>>
  BY DEF Event
<1> DEFINE events == Append(old, state)
           back   == step.monotonic /\ Illegal(old, state)
           over   == step.max # None /\ Len(events) > step.max
           by     == IF back \/ over THEN {"sut"} ELSE {}
           c      == [phase |-> IF AtLimit(i, events) THEN "cut" ELSE "open", events |-> events]
<1>2. old \in Seq(State) /\ Traced(old) /\ conn[i].phase = "open"
  BY ConnElement DEF Conn, Event, ConformInv, StreamsTraced
<1>3. Len(events) = Len(old) + 1 /\ Len(old) \in Nat
  BY <1>2
<1>4. Traced(events) /\ (~Ordered(old) \/ Illegal(old, state) => ~Ordered(events))
  BY <1>2, TracedGrows
<1>5. step.max \in Nat \cup {None}
  BY StepTyped DEF ConformInv, StepBlock
<1>6. step.max # None /\ Len(old) > step.max => Len(events) > step.max
  BY <1>3, <1>5
<1>7. c.phase \in {"cut", "open"} /\ c.events = events
  OBVIOUS
<1>8. "sut" \in by => back \/ over
  OBVIOUS
<1>9. conn' = [conn EXCEPT ![i] = c] /\ wrong' = wrong \cup by /\ UNCHANGED <<suite, verdicts, pc, at>>
  BY <1>1
<1> HIDE DEF c, by, events
<1>10. Rejected(step, conn[i]) => Rejected(step, c)
  BY <1>2, <1>4, <1>6, <1>7 DEF Rejected
<1>11. "sut" \in by => Rejected(step, c)
  BY <1>4, <1>7, <1>8 DEF Rejected
<1> QED  BY <1>4, <1>7, <1>9, <1>10, <1>11, EnterConforms

LEMMA CollectConforms ==
    ASSUME ConformInv, ConnOK, Collect
    PROVE  ConformInv'
<1> SUFFICES ASSUME pc = "streams", NEW i \in DOMAIN conn,
                    \/ StreamOpens(i) \/ StreamRefused(i) \/ Event(i)
                    \/ StreamCloses(i) \/ StreamLost(i) \/ Deadline(i)
             PROVE  ConformInv'
  BY DEF Collect
<1> DEFINE in(phase) == [conn[i] EXCEPT !.phase = phase]
<1>0. \A phase \in Phase : in(phase).phase = phase /\ in(phase).events = conn[i].events
  BY ConnElement DEF Conn
<1> HIDE DEF in
<1>1. CASE StreamOpens(i)
  <2>1. step.refusal => Rejected(step, in("open"))
    BY <1>0 DEF Rejected, Phase
  <2> QED  BY <1>1, <2>1, PhaseConforms DEF StreamOpens, Phase, Reading, in
<1>2. CASE StreamRefused(i)
  <2>1. (~step.refusal => Rejected(step, in("refused"))) /\ Rejected(step, in("misrefused"))
    BY <1>0 DEF Rejected, Phase
  <2> QED  BY <1>2, <2>1, PhaseConforms DEF StreamRefused, Phase, Reading, in
<1>3. CASE Event(i)
  BY <1>3, EventConforms
<1>4. CASE StreamCloses(i)
  <2>1. Len(conn[i].events) < step.min => Rejected(step, in("closed"))
    BY <1>0 DEF Rejected, Phase
  <2> QED  BY <1>4, <2>1, PhaseConforms DEF StreamCloses, Phase, Reading, in
<1>5. CASE StreamLost(i)
  BY <1>5, PhaseConforms DEF StreamLost, Phase
<1>6. CASE Deadline(i)
  <2>1. step.timed => Rejected(step, in("timed out"))
    BY <1>0 DEF Rejected, Phase
  <2> QED  BY <1>6, <2>1, PhaseConforms DEF Deadline, Phase, in
<1> QED  BY <1>1, <1>2, <1>3, <1>4, <1>5, <1>6

(* A step goes on only if none of its streams is rejected.  It matters that *)
(* a stream to be refused is alone: the first one that raised stands for    *)
(* them all.                                                                *)
LEMMA EndStreamsConforms ==
    ASSUME ConformInv, ConnOK, wrong \subseteq Cause, EndStreams
    PROVE  ConformInv'
<1>1. pc = "streams" /\ Within /\ More
  BY DEF EndStreams, Within, ConformInv, Placed
<1>2. /\ DOMAIN conn = DOMAIN step.streams
      /\ "sut" \in wrong => \E i \in DOMAIN conn : Rejected(step, conn[i])
  BY <1>1 DEF ConformInv, StreamsTraced
<1>3. /\ step \in StepBlock /\ suite \in Suites
      /\ Len(verdicts) + 1 \in DOMAIN suite.tests /\ at \in DOMAIN test.steps
  BY <1>1, StepTyped DEF ConformInv, Placed
<1>4. RefusedAlone(step)
  BY <1>3, EngineAssumption DEF step, test
<1>5. step.min \in Nat /\ step.max \in Nat \cup {None} /\ step.streams \in Seq(Nat \cup {None})
  BY <1>3 DEF StepBlock
<1>6. ASSUME NEW i \in Raised, FirstRaised(conn[i].phase)
      PROVE  ConformInv'
  <2>1. i \in DOMAIN conn /\ conn[i].phase \in {"refused", "misrefused", "lost"}
    BY <1>6 DEF Raised
  <2>2. CASE step.refusal
    <3> DEFINE due == conn[i].phase = "refused"
    <3>1. Evaluate(due, {}) /\ due \in BOOLEAN
      BY <1>6, <2>2 DEF FirstRaised
    <3>2. step.streams = <<None>> /\ step.max = None /\ ~step.timed /\ ~step.monotonic
      <4>1. step.streams # <<>>
        BY <1>2, <2>1
      <4> QED  BY <1>4, <2>2, <4>1 DEF RefusedAlone
    <3>3. due => ~Rejected(step, conn[i])
      BY <2>2, <3>2 DEF Rejected
    <3>4. due => "sut" \notin wrong
      <4>1. \A j \in DOMAIN conn : j = i
        BY <1>2, <2>1, <3>2
      <4> QED  BY <1>2, <3>3, <4>1
    <3> HIDE DEF due
    <3> QED  BY <1>1, <3>1, <3>4, EvaluateConforms
  <2>3. CASE ~step.refusal
    <3>1. Conclude("error", {}) \/ Conclude("fail", {})
      BY <1>6, <2>3 DEF FirstRaised
    <3> QED  BY <1>1, <3>1, ConcludeConforms DEF Outcome
  <2> QED  BY <2>2, <2>3
<1>7. CASE Conclude("error", {})
  BY <1>1, <1>7, ConcludeConforms DEF Outcome
<1>8. ASSUME Raised = {}, NEW content \in BOOLEAN,
             Evaluate(~step.refusal /\ content /\ \A i \in DOMAIN conn : StreamFits(conn[i]),
                      IF content THEN {} ELSE {"sut"})
      PROVE  ConformInv'
  <2> DEFINE fits == ~step.refusal /\ content /\ \A i \in DOMAIN conn : StreamFits(conn[i])
             by   == IF content THEN {} ELSE {"sut"}
  <2>1. Evaluate(fits, by) /\ fits \in BOOLEAN /\ by \in SUBSET Cause
    BY <1>8 DEF Cause
  <2>2. ASSUME ~step.refusal, NEW i \in DOMAIN conn, StreamFits(conn[i])
        PROVE  ~Rejected(step, conn[i])
    <3>1. conn[i].events \in Seq(State)
      BY ConnElement DEF Conn
    <3>2. Len(conn[i].events) \in Nat
      BY <3>1
    <3>3. conn[i].phase \notin {"refused", "misrefused"}
      BY <1>8 DEF Raised
    <3>4. ~(Len(conn[i].events) < step.min) /\ ~(step.max # None /\ Len(conn[i].events) > step.max)
      <4>1. Len(conn[i].events) >= step.min /\ (step.max # None => Len(conn[i].events) <= step.max)
        BY <2>2 DEF StreamFits
      <4> QED  BY <1>5, <3>2, <4>1
    <3> QED  BY <2>2, <3>3, <3>4 DEF Rejected, StreamFits
  <2>3. fits => "sut" \notin wrong
    BY <1>2, <2>2
  <2> HIDE DEF fits, by
  <2> QED  BY <1>1, <2>1, <2>3, EvaluateConforms
<1> QED  BY <1>6, <1>7, <1>8 DEF EndStreams

LEMMA ConformStep == ConformInv /\ EngineInv /\ [Next]_vars => ConformInv'
<1> SUFFICES ASSUME ConformInv, EngineInv, [Next]_vars PROVE ConformInv'
  OBVIOUS
<1>1. ConnOK /\ wrong \subseteq Cause
  BY DEF EngineInv, VerdictsOK
<1>2. CASE UNCHANGED vars
  <2>1. test' = test /\ step' = step
    BY <1>2 DEF vars, test, step
  <2> QED
    BY <1>2, <2>1 DEF vars, ConformInv, Placed, More, StreamsTraced, CleanElsewhere, PassMeansConforming
<1>3. CASE Next
  BY <1>1, <1>3, GateConforms, StepConforms, ExchangeConforms, CollectConforms, EndStreamsConforms,
     WebhookConforms DEF Next, Runner
<1> QED  BY <1>2, <1>3

(* A test passes only if nothing the SUT sent in it was out of order, too   *)
(* much, too little or not asked for, over every binding: whatever it did   *)
(* wrong on a stream still shows when the streams are judged                *)
(* (evaluate_stream, _stream_refusal).                                      *)
THEOREM PassMeansConformingAlways == Spec => []PassMeansConforming
<1>1. ConformInv => PassMeansConforming
  BY DEF ConformInv
<1> QED  BY <1>1, EngineInit, EngineStep, ConformInit, ConformStep, PTL DEF Spec

=============================================================================
