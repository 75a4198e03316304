------------------------------ MODULE ActsStep ------------------------------
(***************************************************************************)
(* One test of test_suite/acts/runner.py over the values themselves: its    *)
(* steps call an operation, are polled, capture and are judged, against the *)
(* scope the earlier answers have filled.  ActsEngine has every kind of     *)
(* step, of which it knows only whether an answer conforms; here are the    *)
(* unary operation steps.  What conforming is, is ActsJudgement's: the      *)
(* steps need of it that it is a function of the answer and the scope.      *)
(*                                                                         *)
(* The SUT is external: it gives any answer to any request.                 *)
(***************************************************************************)
EXTENDS Variables

CONSTANTS
    Tests,            \* records of variables, steps and assertions
    Answers,          \* records of payload, error, status and headers
    DefaultAttempts,  \* DEFAULT_MAX_ATTEMPTS
    None,
    Ready(_, _),      \* are all references of a value resolvable in a scope?
    Equal(_, _),      \* does a value equal a literal?
    Judge(_, _, _),   \* how a step ends by an answer, in a scope
    JudgeAll(_, _)    \* how a list of assertions on earlier answers ends

Listed(s) == Len(s) \in Nat /\ DOMAIN s = 1..Len(s)

(* What the schema grants of a document (schema.py: steps:714, ids:722,      *)
(* max_attempts:331; the names of a capture are the keys of a map), and what *)
(* a literal is: a text, a number, a boolean or null (_literal), of which a  *)
(* value in a response has only itself for an equal.                         *)
ASSUME StepAssumption ==
    /\ DefaultAttempts \in Nat \ {0}
    /\ \A t \in Tests :
         /\ Listed(t.steps) /\ Len(t.steps) > 0
         /\ \A k, l \in DOMAIN t.steps : t.steps[k].id = t.steps[l].id => k = l
         /\ \A k \in DOMAIN t.steps :
              LET s == t.steps[k]
              IN  /\ \A i, j \in DOMAIN s.capture : s.capture[i][1] = s.capture[j][1] => i = j
                  /\ s.repeat # None =>
                       /\ s.repeat.max \in (Nat \ {0}) \cup {None}
                       /\ MISSING \notin Range(s.repeat.literals)
                       /\ \A a \in Answers, i \in DOMAIN s.repeat.literals :
                            LET v == ReadPath(a.payload, s.repeat.path)
                                literal == s.repeat.literals[i]
                            IN  Equal(v, literal) <=> v = literal

VARIABLES
    test,
    at,        \* the step being run
    pc,
    polls,     \* the answers the step has had, the last one the latest
    scope,
    result,
    taken      \* history: per step that passed, the answer it was judged by

vars == <<test, at, pc, polls, scope, result, taken>>

step == test.steps[at]

Init ==
    /\ test \in Tests
    /\ at = 1 /\ pc = "step" /\ polls = <<>> /\ taken = <<>> /\ result = None
    /\ scope = [captures |-> <<>>, variables |-> test.variables]

Conclude(outcome) == result' = outcome /\ pc' = "over" /\ UNCHANGED <<at, scope, taken>>

-----------------------------------------------------------------------------
(* _run_unary_step *)

(* A raw request is not repeated. *)
Polls(s) == ~s.raw /\ s.repeat # None

Prepare ==
    /\ pc = "step"
    /\ IF Ready(scope, step.params) /\ (Polls(step) => Ready(scope, step.repeat.uses))
         THEN pc' = "sent" /\ UNCHANGED <<at, scope, taken, result>>
         ELSE Conclude("error")
    /\ polls' = <<>> /\ UNCHANGED test

Attempts(s) == IF s.repeat.max = None THEN DefaultAttempts ELSE s.repeat.max

(* evaluate_until: a path, one of `==', `!=' and `in', and the literals.      *)
EvaluateUntil(until, response) ==
    LET actual == ReadPath(response, until.path)
        equal  == \E i \in DOMAIN until.literals : Equal(actual, until.literals[i])
    IN  IF until.op = "!=" THEN ~equal ELSE equal

Taken(s, answer) == Polls(s) => EvaluateUntil(s.repeat, answer.payload)

(* UntilError: the first answer finds the condition to be none. *)
Garbled == Polls(step) /\ ~step.repeat.parses

(* Mutant: the attempts are counted before the one just made. *)
PollOnceMore(answer) ==
    /\ ~Taken(step, answer) /\ Len(polls) < Attempts(step)
    /\ UNCHANGED <<at, pc, scope, taken, result>>

PollAgain(answer) ==
    /\ ~Taken(step, answer) /\ Len(polls') < Attempts(step)
    /\ UNCHANGED <<at, pc, scope, taken, result>>

PollExhausted(answer) ==
    /\ ~Taken(step, answer) /\ Len(polls') >= Attempts(step)
    /\ Conclude("fail")

(* The answer is recorded, then what the step captures of it. *)
Recorded(answer) ==
    Capture(RecordResponse(scope, step.id, answer.payload), step.id, step.capture, answer.payload)

CaptureMisses(answer) ==
    /\ Taken(step, answer) /\ Recorded(answer).missed
    /\ scope' = Recorded(answer).scope
    /\ result' = "fail" /\ pc' = "over" /\ UNCHANGED <<at, taken>>

(* The first step that does not pass ends the test. *)
StepStops(answer) ==
    /\ Taken(step, answer) /\ ~Recorded(answer).missed
    /\ scope' = Recorded(answer).scope
    /\ Judge(step, answer, scope') # "pass"
    /\ result' = Judge(step, answer, scope') /\ pc' = "over" /\ UNCHANGED <<at, taken>>

StepPasses(answer) ==
    /\ Taken(step, answer) /\ ~Recorded(answer).missed
    /\ scope' = Recorded(answer).scope
    /\ Judge(step, answer, scope') = "pass"
    /\ taken' = Append(taken, answer)
    /\ IF at < Len(test.steps)
         THEN at' = at + 1 /\ pc' = "step" /\ UNCHANGED result
         ELSE at' = at /\ pc' = "over" /\ result' = JudgeAll(test.assertions, scope')

Reply ==
    /\ pc = "sent" /\ UNCHANGED test
    /\ \E answer \in Answers :
         /\ polls' = Append(polls, answer)
         /\ \/ Garbled /\ Conclude("error")
            \/ /\ ~Garbled
               /\ \/ PollAgain(answer) \/ PollExhausted(answer)
                  \/ CaptureMisses(answer) \/ StepStops(answer) \/ StepPasses(answer)

Next == Prepare \/ Reply

Spec     == Init /\ [][Next]_vars

-----------------------------------------------------------------------------
(* What later steps read of an earlier one is what the answer it was judged   *)
(* by holds, value and type, however often it was polled before and whatever  *)
(* steps came after.                                                          *)
CapturesAreOfTheAnswerTaken ==
    \A k \in DOMAIN taken :
        LET s == test.steps[k]
        IN  /\ \A i \in DOMAIN s.capture :
                 Resolve(scope, <<s.id, s.capture[i][1]>>) = ReadPath(taken[k].payload, s.capture[i][2])
            /\ (\A i \in DOMAIN s.capture : s.capture[i][1] # "response") =>
                 Resolve(scope, <<s.id, "response">>) = taken[k].payload

(* A poll goes on as long as its condition does not hold and attempts are     *)
(* left: no answer before the last satisfied it, the one the step is judged   *)
(* by does, and a step that gave up has asked as often as it may.  Exempt is   *)
(* `!=' on an answer in which the path reads nothing (open): the docstring says *)
(* it "is just false and the runner tries again" (assertions.py:695-697), and  *)
(* the code takes it for met.                                                *)
PollStopsForCause ==
    pc \in {"sent", "over"} /\ polls # <<>> /\ Polls(step) /\ step.repeat.parses =>
        LET reads(answer) == ReadPath(answer.payload, step.repeat.path)
            met(answer) == /\ reads(answer) # MISSING
                           /\ (reads(answer) \in Range(step.repeat.literals)) = (step.repeat.op # "!=")
            open(answer) == step.repeat.op = "!=" /\ reads(answer) = MISSING
        IN  /\ \A i \in 1..Len(polls) - 1 : ~met(polls[i])
            /\ Len(polls) <= Attempts(step)
            /\ pc = "sent" => Len(polls) < Attempts(step)
            /\ pc = "over" /\ ~met(Last(polls)) /\ ~open(Last(polls)) =>
                 result = "fail" /\ Len(polls) = Attempts(step)
            /\ Len(taken) = at => met(Last(polls)) \/ open(Last(polls))
=============================================================================
