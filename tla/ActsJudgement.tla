---------------------------- MODULE ActsJudgement ----------------------------
(***************************************************************************)
(* How test_suite/acts/runner.py judges an answer: the assertions of the    *)
(* step, then those on what earlier answers left in the scope.  These are   *)
(* the meaning of ActsStep's Ready, Equal, Judge and JudgeAll (Resolvable,  *)
(* Same, StepOutcome and AllNamed), and what a test's verdict says of the   *)
(* answers is stated here.                                                  *)
(***************************************************************************)
EXTENDS ActsStep, Assertions

-----------------------------------------------------------------------------
(* _evaluate_outcome *)

(* _observed_error: the details are always there. *)
Observed(error) ==
    LET given == {n \in {"error_type", "message", "details"} : error[n] # MISSING}
    IN  <<"object", [n \in given |-> error[n]]>>

Declares(s, block) == s[block] # None

(* An expected refusal that did not come is told before anything is resolved. *)
NotRefused(s, answer) == Declares(s, "error") /\ answer.error = None

(* A body is looked for in a refused operation's answer only by a raw step. *)
NoBody(s, answer) == Declares(s, "body") /\ answer.error # None /\ ~s.raw

(* A reference nothing resolves in what is reached is an exception that       *)
(* leaves run_test.                                                           *)
Raises(s, answer, sc) ==
    /\ ~NotRefused(s, answer)
    /\ \E b \in {"error", "status", "headers", "body"} :
         Declares(s, b) /\ (b = "body" => ~NoBody(s, answer)) /\ ~Resolvable(sc, s[b])

Evaluated(s, answer, sc) ==
    LET In(block) == Substitute(sc, s[block])
    IN  /\ ~NotRefused(s, answer) /\ ~NoBody(s, answer)
        /\ Declares(s, "error")   => EvaluateError(In("error")[2], Observed(answer.error))
        /\ Declares(s, "status")  => Evaluate(In("status"), answer.status)
        /\ Declares(s, "headers") => EvaluateHeaders(In("headers")[2], answer.headers)
        /\ Declares(s, "body")    => EvaluateMap(In("body")[2], answer.payload)

(* _evaluate_named: an unresolved source fails, an unresolved match raises,   *)
(* and the first assertion that does not hold decides.                        *)
NamedOutcome(a, sc) ==
    IF ~Resolvable(sc, <<"ref", a.source>>) THEN "fail"
    ELSE IF ~Resolvable(sc, a.match) THEN "raised"
    ELSE IF EvaluateNamed([a EXCEPT !.match = Substitute(sc, @)], Resolve(sc, a.source))
         THEN "pass" ELSE "fail"

AllNamed(assertions, sc) ==
    LET amiss == {i \in DOMAIN assertions : NamedOutcome(assertions[i], sc) # "pass"}
    IN  IF amiss = {} THEN "pass" ELSE NamedOutcome(assertions[Min(amiss)], sc)

(* How a step ends that has its captures: the assertions of its own answer,   *)
(* then those on earlier ones (_finish).                                      *)
StepOutcome(s, answer, sc) ==
    IF Raises(s, answer, sc) THEN "raised"
    ELSE IF ~Evaluated(s, answer, sc) THEN "fail"
    ELSE AllNamed(s.assertions, sc)

-----------------------------------------------------------------------------
(* What a body asserts, said apart from the way it is evaluated: the set of   *)
(* its duties, each at the path of the response it is about.                  *)

Under(segment, duties) == {[d EXCEPT !.path = <<segment>> \o @] : d \in duties}

RECURSIVE Duties(_), Borne(_, _)

Duties(a) ==
    LET Duty(op, argument) == {[path |-> <<>>, op |-> op, argument |-> argument]}
        OfKey(k) ==
            IF ~Operator(k, a[2][k]) THEN Under(<<"key", k>>, Duties(a[2][k]))
            ELSE IF k = "all_of" THEN UNION {Duties(a[2][k][2][i]) : i \in DOMAIN a[2][k][2]}
            ELSE IF k = "items" /\ Array(a[2][k]) THEN Duties(a[2][k])
            ELSE Duty(k, a[2][k])
    IN  CASE Object(a) -> UNION {OfKey(k) : k \in DOMAIN a[2]}
          [] Array(a)  -> Duty("length", Len(a[2]))
                            \cup UNION {Under(<<"at", i - 1>>, Duties(a[2][i])) : i \in DOMAIN a[2]}
          [] OTHER -> Duty("equals", a)

Borne(d, payload) ==
    LET v == ReadPath(payload, d.path)
        All(a, w) == \A e \in Duties(a) : Borne(e, w)
    IN  CASE d.op = "equals" -> v # MISSING /\ Same(v, d.argument)
          [] d.op = "length" -> Array(v) /\ Len(v[2]) >= d.argument
          [] d.op = "any_of" -> \E i \in DOMAIN d.argument[2] : All(d.argument[2][i], v)
          [] d.op = "not"    -> ~All(d.argument, v)
          [] d.op = "items"  -> Array(v) /\ \A i \in DOMAIN v[2] : All(d.argument, v[2][i])
          [] OTHER -> ApplyLeaf(d.op, d.argument, v)

Bears(payload, a) == \A d \in Duties(a) : Borne(d, payload)

(* An expect tree says of the response what its dot-paths read there: a step  *)
(* passes only if every duty of its body is borne at its path, and a step     *)
(* that asserts nothing but a body fails only if one is not (spec 5.2 forbids *)
(* dot-paths as keys because nesting does the same job).                      *)
BodyReadsPaths ==
    /\ \A k \in DOMAIN taken :
         LET s == test.steps[k]
         IN  Declares(s, "body") =>
                /\ taken[k].error = None \/ s.raw
                /\ Bears(taken[k].payload, Substitute(scope, s.body))
    /\ (/\ result = "fail" /\ Len(polls) = 1 /\ Len(taken) = at - 1
        /\ step.repeat = None /\ step.capture = <<>> /\ step.assertions = <<>>
        /\ {b \in {"error", "status", "headers", "body"} : Declares(step, b)} = {"body"})
       => NoBody(step, polls[1]) \/ ~Bears(polls[1].payload, Substitute(scope, step.body))

(* The paths a wildcard path stands for, over arrays of at most three. *)
Concrete(path) ==
    {[i \in DOMAIN path |-> IF path[i] = WILDCARD THEN <<"at", c[i]>> ELSE path[i]] :
        c \in [DOMAIN path -> 0..2]}

Claimed(a) ==
    LET value   == ReadPath(Resolve(scope, a.source), a.path)
        places  == {p \in Concrete(a.each) : ReadPath(value, p) # MISSING}
        fitting == {p \in places : Bears(ReadPath(value, p), Substitute(scope, a.match))}
    IN  CASE a.mode = "match" -> Bears(value, Substitute(scope, a.match))
          [] a.mode = "any"   -> fitting # {}
          [] a.mode = "all"   -> places # {} /\ fitting = places
          [] a.mode = "none"  -> fitting = {}

(* The assertions on earlier answers are claims about the places their path   *)
(* reaches: when every step has passed, the test passes if and only if all    *)
(* are true, and `any' and `all' are never true of nothing.                   *)
QuantifiersInspect ==
    Len(taken) = Len(test.steps) /\ result \in {"pass", "fail"} =>
        (result = "pass") = \A i \in DOMAIN test.assertions :
            /\ Resolvable(scope, <<"ref", test.assertions[i].source>>)
            /\ Claimed(test.assertions[i])
==============================================================================
