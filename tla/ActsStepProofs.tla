--------------------------- MODULE ActsStepProofs ---------------------------
(***************************************************************************)
(* Theorems about ActsStep, for every document the schema admits, every     *)
(* answer of a SUT and every way of judging it.                             *)
(*                                                                         *)
(* The parts of the inductive invariant:                                   *)
(*   Typed        the types, and how many steps have passed                *)
(*   Unrecorded   nothing is recorded under a step that has not been run    *)
(*   Holding      the captures of a step that passed are those of the       *)
(*                answer it was judged by                                  *)
(*   Polling      what the condition said of the answers of the step so far *)
(***************************************************************************)
EXTENDS ActsStep, SequenceTheorems, TLAPS

IsScope(sc) == sc = [captures |-> sc.captures, variables |-> sc.variables]

Typed ==
    /\ test \in Tests /\ at \in 1..Len(test.steps)
    /\ pc \in {"step", "sent", "over"}
    /\ polls \in Seq(Answers) /\ taken \in Seq(Answers)
    /\ Len(taken) \in {at - 1, at} /\ (pc # "over" => Len(taken) = at - 1)
    /\ IsScope(scope)

Unrecorded ==
    pc # "over" =>
        \A k \in at..Len(test.steps) : test.steps[k].id \notin DOMAIN scope.captures

(* Under the step, the scope has what the answer has at the captures' paths,  *)
(* and the whole answer unless a capture of that name takes its place.        *)
Holds(sc, s, answer) ==
    /\ \A i \in DOMAIN s.capture :
         /\ Named(sc, s.id, s.capture[i][1])
         /\ sc.captures[s.id][s.capture[i][1]] = ReadPath(answer.payload, s.capture[i][2])
    /\ (\A i \in DOMAIN s.capture : s.capture[i][1] # "response") =>
         Named(sc, s.id, "response") /\ sc.captures[s.id]["response"] = answer.payload

Holding == \A k \in 1..Len(taken) : Holds(scope, test.steps[k], taken[k])

Polling ==
    /\ pc \in {"sent", "over"} => \A i \in 1..Len(polls) - 1 : ~Taken(step, polls[i])
    /\ pc = "sent" /\ polls # <<>> =>
         ~Taken(step, polls[Len(polls)]) /\ Len(polls) < Attempts(step)
    /\ pc = "over" /\ polls # <<>> =>
         /\ Polls(step) => Len(polls) <= Attempts(step)
         /\ \/ Garbled
            \/ Taken(step, polls[Len(polls)])
            \/ result = "fail" /\ Len(polls) = Attempts(step) /\ Len(taken) = at - 1

StepInv == Typed /\ Unrecorded /\ Holding /\ Polling

-----------------------------------------------------------------------------
(***************************************************************************)
(* The scope                                                               *)
(***************************************************************************)
(* A record adds to what its step has, and to no other step's (record).      *)
LEMMA Recording ==
    ASSUME NEW sc, IsScope(sc), NEW id, NEW values
    PROVE  /\ IsScope(Record(sc, id, values))
           /\ DOMAIN Record(sc, id, values).captures = DOMAIN sc.captures \cup {id}
           /\ Record(sc, id, values).captures[id] = Merge(values, Kept(sc, id))
           /\ \A o \in DOMAIN sc.captures :
                o # id => Record(sc, id, values).captures[o] = sc.captures[o]
<1> DEFINE captures == Bind(sc.captures, id, Merge(values, Kept(sc, id)))
<1>1. Record(sc, id, values) = [captures |-> captures, variables |-> sc.variables]
  BY DEF Record, IsScope
<1>2. /\ DOMAIN captures = DOMAIN sc.captures \cup {id}
      /\ captures[id] = Merge(values, Kept(sc, id))
      /\ \A o \in DOMAIN sc.captures : o # id => captures[o] = sc.captures[o]
  BY DEF Bind
<1> HIDE DEF captures
<1> QED  BY <1>1, <1>2 DEF IsScope

(* What a scope holds of a step stays while others record.                   *)
LEMMA HoldsElsewhere ==
    ASSUME NEW sc, IsScope(sc), NEW id, NEW values, NEW s, NEW a, s.id # id, Holds(sc, s, a)
    PROVE  Holds(Record(sc, id, values), s, a)
<1> DEFINE r == Record(sc, id, values)
<1>1. \A name : Named(sc, s.id, name) =>
         Named(r, s.id, name) /\ r.captures[s.id] = sc.captures[s.id]
  BY Recording DEF Named
<1> HIDE DEF r
<1>2. \A i \in DOMAIN s.capture :
         /\ Named(r, s.id, s.capture[i][1])
         /\ r.captures[s.id][s.capture[i][1]] = ReadPath(a.payload, s.capture[i][2])
  BY <1>1 DEF Holds
<1>3. (\A i \in DOMAIN s.capture : s.capture[i][1] # "response") =>
         Named(r, s.id, "response") /\ r.captures[s.id]["response"] = a.payload
  BY <1>1 DEF Holds
<1> QED  BY <1>2, <1>3 DEF Holds, r

(* What recording an answer leaves of a scope: the response, and what is read *)
(* of the captures' paths (record_response, capture).                        *)
Answered(sc, s, a) ==
    Capture(RecordResponse(sc, s.id, a.payload), s.id, s.capture, a.payload)

LEMMA AnsweredElsewhere ==
    ASSUME NEW sc, IsScope(sc), NEW s, NEW a
    PROVE  /\ IsScope(Answered(sc, s, a).scope)
           /\ DOMAIN Answered(sc, s, a).scope.captures = DOMAIN sc.captures \cup {s.id}
           /\ \A r, b : r.id # s.id /\ Holds(sc, r, b) => Holds(Answered(sc, s, a).scope, r, b)
<1> DEFINE sc1 == RecordResponse(sc, s.id, a.payload)
<1>1. /\ IsScope(sc1) /\ DOMAIN sc1.captures \cup {s.id} = DOMAIN sc.captures \cup {s.id}
      /\ \A r, b : r.id # s.id /\ Holds(sc, r, b) => Holds(sc1, r, b)
  <2>1. CASE Named(sc, s.id, "response")
    <3>1. sc1 = sc
      BY <2>1 DEF RecordResponse
    <3> QED  BY <3>1
  <2>2. CASE ~Named(sc, s.id, "response")
    <3> DEFINE values == Bind(<<>>, "response", a.payload)
    <3>1. sc1 = Record(sc, s.id, values)
      BY <2>2 DEF RecordResponse
    <3> HIDE DEF sc1, values
    <3>2. IsScope(sc1) /\ DOMAIN sc1.captures = DOMAIN sc.captures \cup {s.id}
      BY <3>1, Recording
    <3>3. \A r, b : r.id # s.id /\ Holds(sc, r, b) => Holds(sc1, r, b)
      BY <3>1, HoldsElsewhere
    <3> QED  BY <3>2, <3>3
  <2> QED  BY <2>1, <2>2
<1>2. PICK values : Answered(sc, s, a).scope = Record(sc1, s.id, values)
  BY DEF Answered, Capture
<1> HIDE DEF sc1
<1>3. /\ IsScope(Record(sc1, s.id, values))
      /\ DOMAIN Record(sc1, s.id, values).captures = DOMAIN sc1.captures \cup {s.id}
  BY <1>1, Recording
<1>4. \A r, b : r.id # s.id /\ Holds(sc, r, b) => Holds(Record(sc1, s.id, values), r, b)
  BY <1>1, HoldsElsewhere
<1> QED  BY <1>1, <1>2, <1>3, <1>4

DistinctNames(block) ==
    \A i, j \in DOMAIN block : block[i][1] = block[j][1] => i = j

(* Under a step, `new' has what a block reads of a response, and of any other *)
(* name what `sc' has.                                                       *)
ReadInto(new, sc, id, block, response) ==
    /\ \A i \in DOMAIN block :
         /\ Named(new, id, block[i][1])
         /\ new.captures[id][block[i][1]] = ReadPath(response, block[i][2])
    /\ \A name : Named(sc, id, name) /\ (\A i \in DOMAIN block : block[i][1] # name) =>
         Named(new, id, name) /\ new.captures[id][name] = sc.captures[id][name]

(* A block none of whose paths misses names what its paths read (capture).   *)
LEMMA CapturesRead ==
    ASSUME NEW sc, IsScope(sc), NEW id, NEW block, NEW response, DistinctNames(block),
           ~Capture(sc, id, block, response).missed
    PROVE  ReadInto(Capture(sc, id, block, response).scope, sc, id, block, response)
<1> DEFINE value(i) == ReadPath(response, block[i][2])
           misses == {i \in DOMAIN block : value(i) = MISSING}
           read   == {i \in DOMAIN block : \A j \in misses : i < j}
           values == [name \in {block[i][1] : i \in read} |->
                         value(CHOOSE i \in read : block[i][1] = name)]
           new    == Record(sc, id, values)
<1>1. misses = {} /\ Capture(sc, id, block, response).scope = new
  BY DEF Capture
<1>2. read = DOMAIN block
  BY <1>1
<1>3. DOMAIN values = {block[i][1] : i \in DOMAIN block}
  BY <1>2
<1>4. ASSUME NEW i \in DOMAIN block PROVE values[block[i][1]] = value(i)
  <2>1. (CHOOSE j \in read : block[j][1] = block[i][1]) = i
    BY <1>2 DEF DistinctNames
  <2>2. values[block[i][1]] = value(CHOOSE j \in read : block[j][1] = block[i][1])
    BY <1>3
  <2> QED  BY <2>1, <2>2
<1> HIDE DEF values, value
<1>5. id \in DOMAIN new.captures /\ new.captures[id] = Merge(values, Kept(sc, id))
  BY Recording
<1> HIDE DEF new
<1>6. ASSUME NEW name \in DOMAIN values
      PROVE  Named(new, id, name) /\ new.captures[id][name] = values[name]
  BY <1>5 DEF Named, Merge
<1>7. ASSUME NEW name, Named(sc, id, name), name \notin DOMAIN values
      PROVE  Named(new, id, name) /\ new.captures[id][name] = sc.captures[id][name]
  BY <1>5, <1>7 DEF Named, Merge, Kept
<1>8. \A i \in DOMAIN block :
         Named(new, id, block[i][1]) /\ new.captures[id][block[i][1]] = value(i)
  BY <1>3, <1>4, <1>6
<1>9. \A name : (\A i \in DOMAIN block : block[i][1] # name) => name \notin DOMAIN values
  BY <1>3
<1> QED  BY <1>1, <1>7, <1>8, <1>9 DEF value, ReadInto

(* An answer that is recorded under a step for the first time is held.       *)
LEMMA AnsweredHolds ==
    ASSUME NEW sc, IsScope(sc), NEW s, NEW a,
           s.id \notin DOMAIN sc.captures,
           DistinctNames(s.capture), ~Answered(sc, s, a).missed
    PROVE  Holds(Answered(sc, s, a).scope, s, a)
<1> DEFINE first == Bind(<<>>, "response", a.payload)
           sc1   == Record(sc, s.id, first)
           new   == Answered(sc, s, a).scope
<1>1. ~Named(sc, s.id, "response")
  BY DEF Named
<1>2. Answered(sc, s, a) = Capture(sc1, s.id, s.capture, a.payload)
  BY <1>1 DEF Answered, RecordResponse
<1>3. "response" \in DOMAIN first /\ first["response"] = a.payload
  BY DEF Bind
<1> HIDE DEF first
<1>4. IsScope(sc1) /\ s.id \in DOMAIN sc1.captures /\ sc1.captures[s.id] = Merge(first, Kept(sc, s.id))
  BY Recording
<1> HIDE DEF sc1
<1>5. Named(sc1, s.id, "response") /\ sc1.captures[s.id]["response"] = a.payload
  BY <1>3, <1>4 DEF Named, Merge
<1>6. ReadInto(new, sc1, s.id, s.capture, a.payload)
  <2>1. ~Capture(sc1, s.id, s.capture, a.payload).missed
    BY <1>2
  <2>2. ReadInto(Capture(sc1, s.id, s.capture, a.payload).scope, sc1, s.id, s.capture, a.payload)
    BY <1>4, <2>1, CapturesRead
  <2> QED  BY <1>2, <2>2
<1> HIDE DEF new
<1> QED  BY <1>5, <1>6 DEF Holds, ReadInto, new

(* A reference to what a step has recorded reads it (resolve).               *)
LEMMA ResolveNamed ==
    ASSUME NEW sc, NEW id, NEW name, Named(sc, id, name)
    PROVE  Resolve(sc, <<id, name>>) = sc.captures[id][name]
<1> DEFINE ref == <<id, name>>
<1>1. Len(ref) = 2 /\ ref[1] = id /\ ref[2] = name /\ ref # <<"$uuid">>
  <2>1. Len(<<"$uuid">>) = 1
    OBVIOUS
  <2> QED  BY <2>1
<1> HIDE DEF ref
<1>2. Resolve(sc, ref) = sc.captures[ref[1]][ref[2]]
  BY <1>1 DEF Resolve
<1> QED  BY <1>1, <1>2 DEF ref

-----------------------------------------------------------------------------
(***************************************************************************)
(* The steps                                                               *)
(***************************************************************************)
(* What a document grants of the step at hand and of the others (schema).    *)
LEMMA StepsListed ==
    ASSUME Typed
    PROVE  /\ Len(test.steps) \in Nat /\ DOMAIN test.steps = 1..Len(test.steps)
           /\ at \in DOMAIN test.steps
           /\ \A k, l \in DOMAIN test.steps : test.steps[k].id = test.steps[l].id => k = l
           /\ \A k \in DOMAIN test.steps : DistinctNames(test.steps[k].capture)
  BY StepAssumption DEF Typed, Listed, DistinctNames

(* What the document grants of a poll (Repeat, _literal).                    *)
LEMMA RepeatListed ==
    ASSUME Typed, step.repeat # None
    PROVE  /\ step.repeat.max \in (Nat \ {0}) \cup {None}
           /\ MISSING \notin Range(step.repeat.literals)
           /\ \A a \in Answers, i \in DOMAIN step.repeat.literals :
                LET v == ReadPath(a.payload, step.repeat.path)
                    literal == step.repeat.literals[i]
                IN  Equal(v, literal) <=> v = literal
<1> DEFINE Grants(s) ==
        /\ s.repeat.max \in (Nat \ {0}) \cup {None}
        /\ MISSING \notin Range(s.repeat.literals)
        /\ \A a \in Answers, i \in DOMAIN s.repeat.literals :
             LET v == ReadPath(a.payload, s.repeat.path)
                 literal == s.repeat.literals[i]
             IN  Equal(v, literal) <=> v = literal
<1>1. \A t \in Tests : \A k \in DOMAIN t.steps : t.steps[k].repeat # None => Grants(t.steps[k])
  BY StepAssumption
<1> HIDE DEF Grants
<1>2. test \in Tests /\ at \in DOMAIN test.steps
  BY StepsListed DEF Typed
<1>3. Grants(step)
  BY <1>1, <1>2 DEF step
<1> QED  BY <1>3 DEF Grants

(* Attempts are at least one (Repeat.max_attempts, DEFAULT_MAX_ATTEMPTS).     *)
LEMMA AttemptsCount ==
    ASSUME Typed, Polls(step)
    PROVE  Attempts(step) \in Nat \ {0}
<1>1. step.repeat.max \in (Nat \ {0}) \cup {None}
  BY RepeatListed DEF Polls
<1>2. DefaultAttempts \in Nat \ {0}
  BY StepAssumption
<1> QED  BY <1>1, <1>2 DEF Attempts

(* Only a step that is polled waits (evaluate_until is asked of no other).   *)
LEMMA Waiting ==
    ASSUME Typed, NEW answer, ~Taken(step, answer)
    PROVE  Polls(step) /\ Attempts(step) \in Nat \ {0}
<1>1. Polls(step)
  BY DEF Taken, Polls
<1> QED  BY <1>1, AttemptsCount

LEMMA InitInv == Init => StepInv
<1> SUFFICES ASSUME Init PROVE StepInv
  OBVIOUS
<1>1. Typed
  <2>1. test \in Tests /\ Len(test.steps) \in Nat /\ Len(test.steps) > 0
    BY StepAssumption DEF Init, Listed
  <2> QED  BY <2>1 DEF Init, Typed, IsScope
<1>2. Unrecorded /\ Holding /\ Polling
  BY DEF Init, Unrecorded, Holding, Polling
<1> QED  BY <1>1, <1>2 DEF StepInv

(* A step that begins has had no answer (_prepare_params).                   *)
LEMMA PrepareInv == StepInv /\ Prepare => StepInv'
<1> SUFFICES ASSUME StepInv, Prepare PROVE StepInv'
  OBVIOUS
<1>1. /\ UNCHANGED <<test, at, scope, taken>> /\ polls' = <<>>
      /\ pc = "step" /\ pc' \in {"sent", "over"}
  BY DEF Prepare, Conclude
<1>2. Typed'
  BY <1>1 DEF StepInv, Typed, IsScope
<1>3. Unrecorded' /\ Holding'
  BY <1>1 DEF StepInv, Unrecorded, Holding
<1>4. Polling'
  BY <1>1 DEF Polling
<1> QED  BY <1>2, <1>3, <1>4 DEF StepInv

(* The answers of a poll, one more.                                          *)
LEMMA OneMore ==
    ASSUME StepInv, pc = "sent", NEW answer \in Answers, polls' = Append(polls, answer)
    PROVE  /\ polls' \in Seq(Answers) /\ polls' # <<>> /\ Len(polls') \in Nat
           /\ polls'[Len(polls')] = answer
           /\ \A i \in 1..Len(polls') - 1 : ~Taken(step, polls'[i])
           /\ Polls(step) => Len(polls') <= Attempts(step)
<1>0. Typed /\ Polling
  BY DEF StepInv
<1>1. polls \in Seq(Answers) /\ Len(polls) \in Nat
  BY <1>0 DEF Typed
<1>2. /\ polls' \in Seq(Answers) /\ Len(polls') = Len(polls) + 1
      /\ polls'[Len(polls) + 1] = answer
      /\ \A i \in 1..Len(polls) : polls'[i] = polls[i]
  BY <1>1
<1>3. ASSUME NEW i \in 1..Len(polls) PROVE ~Taken(step, polls[i])
  <2>1. polls # <<>>
    BY <1>1, <1>3
  <2>2. CASE i = Len(polls)
    BY <1>0, <2>1, <2>2 DEF Polling
  <2>3. CASE i # Len(polls)
    <3>1. i \in 1..Len(polls) - 1
      BY <1>1, <2>3
    <3> QED  BY <1>0, <3>1 DEF Polling
  <2> QED  BY <2>2, <2>3
<1>4. Polls(step) => Len(polls') <= Attempts(step)
  <2> SUFFICES ASSUME Polls(step) PROVE Len(polls') <= Attempts(step)
    OBVIOUS
  <2>1. Attempts(step) \in Nat \ {0}
    BY <1>0, AttemptsCount
  <2>2. CASE polls = <<>>
    BY <1>2, <2>1, <2>2
  <2>3. CASE polls # <<>>
    <3>1. Len(polls) < Attempts(step)
      BY <1>0, <2>3 DEF Polling
    <3> QED  BY <1>1, <1>2, <2>1, <3>1
  <2> QED  BY <2>2, <2>3
<1>5. \A i \in 1..Len(polls') - 1 : i \in 1..Len(polls)
  BY <1>1, <1>2
<1>6. polls' # <<>>
  BY <1>1, <1>2
<1> QED  BY <1>1, <1>2, <1>3, <1>4, <1>5, <1>6

(* An answer the condition does not accept: the step waits for the next, or   *)
(* has failed (repeat.until, exhausted).                                     *)
LEMMA UntakenInv ==
    ASSUME StepInv, pc = "sent", UNCHANGED test, NEW answer \in Answers,
           polls' = Append(polls, answer),
           PollAgain(answer) \/ PollExhausted(answer)
    PROVE  StepInv'
<1>0. Typed /\ Unrecorded /\ Holding
  BY DEF StepInv
<1>1. /\ UNCHANGED <<test, at, scope, taken>> /\ step' = step
      /\ ~Taken(step, answer) /\ Len(taken) = at - 1
  BY <1>0 DEF PollAgain, PollExhausted, Conclude, step, Typed
<1>2. Polls(step) /\ Attempts(step) \in Nat \ {0}
  BY <1>0, <1>1, Waiting
<1>3. /\ polls' \in Seq(Answers) /\ polls' # <<>> /\ Len(polls') \in Nat
      /\ polls'[Len(polls')] = answer
      /\ \A i \in 1..Len(polls') - 1 : ~Taken(step, polls'[i])
      /\ Len(polls') <= Attempts(step)
  BY <1>2, OneMore
<1>4. \/ pc' = "sent" /\ Len(polls') < Attempts(step)
      \/ pc' = "over" /\ result' = "fail" /\ Len(polls') = Attempts(step)
  BY <1>2, <1>3 DEF PollAgain, PollExhausted, Conclude
<1>5. Typed'
  BY <1>0, <1>1, <1>3, <1>4 DEF Typed, IsScope
<1>6. Unrecorded'
  BY <1>0, <1>1, <1>4 DEF Unrecorded
<1>7. Holding'
  BY <1>0, <1>1 DEF Holding
<1>8. Polling'
  BY <1>1, <1>3, <1>4 DEF Polling, Taken, Attempts, Polls
<1> QED  BY <1>5, <1>6, <1>7, <1>8 DEF StepInv

(* A condition that is none ends the test (UntilError).                      *)
LEMMA GarbledInv ==
    ASSUME StepInv, pc = "sent", UNCHANGED test, NEW answer \in Answers,
           polls' = Append(polls, answer), Garbled, Conclude("error")
    PROVE  StepInv'
<1>0. Typed /\ Unrecorded /\ Holding
  BY DEF StepInv
<1>1. /\ UNCHANGED <<test, at, scope, taken>> /\ step' = step /\ pc' = "over" /\ Garbled'
  BY DEF Conclude, step, Garbled
<1>2. /\ polls' \in Seq(Answers) /\ polls' # <<>>
      /\ \A i \in 1..Len(polls') - 1 : ~Taken(step, polls'[i])
      /\ Polls(step) => Len(polls') <= Attempts(step)
  BY OneMore
<1>3. Typed'
  BY <1>0, <1>1, <1>2 DEF Typed, IsScope
<1>4. Unrecorded' /\ Holding'
  BY <1>0, <1>1 DEF Unrecorded, Holding
<1>5. Polling'
  BY <1>1, <1>2 DEF Polling
<1> QED  BY <1>3, <1>4, <1>5 DEF StepInv

(* Recording an answer under the step at hand leaves what the steps before    *)
(* it captured, and the later steps unrecorded.                              *)
LEMMA RecordedInv ==
    ASSUME StepInv, pc = "sent", NEW answer
    PROVE  /\ IsScope(Recorded(answer).scope)
           /\ \A k \in 1..at - 1 : Holds(Recorded(answer).scope, test.steps[k], taken[k])
           /\ \A k \in at + 1..Len(test.steps) :
                test.steps[k].id \notin DOMAIN Recorded(answer).scope.captures
           /\ ~Recorded(answer).missed => Holds(Recorded(answer).scope, step, answer)
<1>0. /\ Typed /\ Unrecorded /\ Holding /\ IsScope(scope) /\ at \in Nat
      /\ Len(taken) = at - 1
  BY DEF StepInv, Typed
<1>1. Recorded(answer) = Answered(scope, step, answer)
  BY DEF Recorded, Answered
<1> DEFINE new == Answered(scope, step, answer).scope
<1>2. /\ IsScope(new) /\ DOMAIN new.captures = DOMAIN scope.captures \cup {step.id}
      /\ \A r, b : r.id # step.id /\ Holds(scope, r, b) => Holds(new, r, b)
  BY <1>0, AnsweredElsewhere
<1> HIDE DEF new
<1>3. \A k \in 1..Len(test.steps) : k # at => test.steps[k].id # step.id
  BY <1>0, StepsListed DEF step
<1>4. ASSUME NEW k \in 1..at - 1 PROVE Holds(new, test.steps[k], taken[k])
  <2>1. k \in 1..Len(test.steps) /\ k # at
    BY <1>0, StepsListed
  <2>2. Holds(scope, test.steps[k], taken[k])
    BY <1>0 DEF Holding
  <2> QED  BY <1>2, <1>3, <2>1, <2>2
<1>5. ASSUME NEW k \in at + 1..Len(test.steps)
      PROVE  test.steps[k].id \notin DOMAIN new.captures
  <2>1. k \in at..Len(test.steps) /\ k \in 1..Len(test.steps) /\ k # at
    BY <1>0, StepsListed
  <2> QED  BY <1>0, <1>2, <1>3, <2>1 DEF Unrecorded
<1>6. ASSUME ~Answered(scope, step, answer).missed PROVE Holds(new, step, answer)
  <2>1. step.id \notin DOMAIN scope.captures
    BY <1>0, StepsListed DEF Unrecorded, step
  <2>2. DistinctNames(step.capture)
    BY <1>0, StepsListed DEF step
  <2> QED  BY <1>0, <1>6, <2>1, <2>2, AnsweredHolds DEF new
<1> QED  BY <1>1, <1>2, <1>4, <1>5, <1>6 DEF new

(* An answer that ends the test without the step passing is recorded all the *)
(* same (_run_unary_step, _capture).                                         *)
LEMMA StoppedInv ==
    ASSUME StepInv, pc = "sent", UNCHANGED test, NEW answer \in Answers,
           polls' = Append(polls, answer),
           CaptureMisses(answer) \/ StepStops(answer)
    PROVE  StepInv'
<1>0. Typed /\ Len(taken) = at - 1
  BY DEF StepInv, Typed
<1>1. /\ UNCHANGED <<test, at, taken>> /\ pc' = "over" /\ step' = step
      /\ scope' = Recorded(answer).scope /\ Taken(step, answer)
  BY DEF CaptureMisses, StepStops, step
<1>2. /\ polls' \in Seq(Answers) /\ polls' # <<>>
      /\ polls'[Len(polls')] = answer
      /\ \A i \in 1..Len(polls') - 1 : ~Taken(step, polls'[i])
      /\ Polls(step) => Len(polls') <= Attempts(step)
  BY OneMore
<1>3. Typed'
  <2>1. IsScope(scope')
    BY <1>1, RecordedInv
  <2> QED  BY <1>0, <1>1, <1>2, <2>1 DEF Typed
<1>4. Unrecorded'
  BY <1>1 DEF Unrecorded
<1>5. Holding'
  BY <1>0, <1>1, RecordedInv DEF Holding
<1>6. Polling'
  BY <1>1, <1>2 DEF Polling
<1> QED  BY <1>3, <1>4, <1>5, <1>6 DEF StepInv

(* An answer that passes is the one the step's captures are of (run_test).    *)
LEMMA PassedInv ==
    ASSUME StepInv, pc = "sent", UNCHANGED test, NEW answer \in Answers,
           polls' = Append(polls, answer), StepPasses(answer)
    PROVE  StepInv'
<1>0. Typed /\ Len(taken) = at - 1 /\ at \in Nat /\ taken \in Seq(Answers)
  BY DEF StepInv, Typed
<1>1. /\ UNCHANGED test /\ scope' = Recorded(answer).scope
      /\ taken' = Append(taken, answer) /\ Taken(step, answer) /\ ~Recorded(answer).missed
  BY DEF StepPasses
<1>2. /\ taken' \in Seq(Answers) /\ Len(taken') = at
      /\ taken'[at] = answer /\ \A k \in 1..at - 1 : taken'[k] = taken[k]
  BY <1>0, <1>1
<1>3. /\ polls' \in Seq(Answers) /\ polls' # <<>>
      /\ polls'[Len(polls')] = answer
      /\ \A i \in 1..Len(polls') - 1 : ~Taken(step, polls'[i])
      /\ Polls(step) => Len(polls') <= Attempts(step)
  BY OneMore
<1>4. \/ at < Len(test.steps) /\ at' = at + 1 /\ pc' = "step"
      \/ at' = at /\ pc' = "over"
  BY DEF StepPasses
<1>5. Typed'
  <2>1. IsScope(scope')
    BY <1>1, RecordedInv
  <2>2. at' \in 1..Len(test'.steps)
    BY <1>0, <1>1, <1>4, StepsListed
  <2>3. /\ pc' \in {"step", "sent", "over"}
        /\ Len(taken') \in {at' - 1, at'} /\ (pc' # "over" => Len(taken') = at' - 1)
    BY <1>0, <1>2, <1>4
  <2>4. test' \in Tests
    BY <1>0, <1>1 DEF Typed
  <2> QED  BY <1>2, <1>3, <2>1, <2>2, <2>3, <2>4 DEF Typed
<1>6. Unrecorded'
  BY <1>1, <1>4, RecordedInv DEF Unrecorded
<1>7. Holding'
  <2>1. test.steps[at] = step
    BY DEF step
  <2>2. ASSUME NEW k \in 1..at PROVE Holds(scope', test.steps[k], taken'[k])
    <3>1. CASE k = at
      BY <1>1, <1>2, <2>1, <3>1, RecordedInv
    <3>2. CASE k # at
      <4>1. k \in 1..at - 1
        BY <1>0, <3>2
      <4> QED  BY <1>1, <1>2, <4>1, RecordedInv
    <3> QED  BY <3>1, <3>2
  <2> QED  BY <1>1, <1>2, <2>2 DEF Holding
<1>8. Polling'
  <2>1. CASE pc' = "step"
    BY <2>1 DEF Polling
  <2>2. CASE at' = at /\ pc' = "over"
    <3>1. step' = step
      BY <1>1, <2>2 DEF step
    <3> QED  BY <1>1, <1>3, <2>2, <3>1 DEF Polling
  <2> QED  BY <1>4, <2>1, <2>2
<1> QED  BY <1>5, <1>6, <1>7, <1>8 DEF StepInv

-----------------------------------------------------------------------------
(***************************************************************************)
(* The theorems                                                            *)
(***************************************************************************)
(* The invariant holds of every test (run_test, _run_unary_step).            *)
THEOREM StepsRecorded == Spec => []StepInv
<1>1. ASSUME StepInv, [Next]_vars PROVE StepInv'
  <2>1. CASE Prepare
    BY <1>1, <2>1, PrepareInv
  <2>2. CASE Reply
    <3>1. PICK answer \in Answers :
             /\ polls' = Append(polls, answer)
             /\ \/ Garbled /\ Conclude("error")
                \/ PollAgain(answer) \/ PollExhausted(answer)
                \/ CaptureMisses(answer) \/ StepStops(answer) \/ StepPasses(answer)
      BY <2>2 DEF Reply
    <3>2. pc = "sent" /\ UNCHANGED test
      BY <2>2 DEF Reply
    <3> QED  BY <1>1, <3>1, <3>2, GarbledInv, UntakenInv, StoppedInv, PassedInv
  <2>3. CASE UNCHANGED vars
    <3>1. UNCHANGED <<test, at, pc, polls, scope, result, taken>> /\ step' = step
      BY <2>3 DEF vars, step
    <3>2. Typed' /\ Unrecorded' /\ Holding'
      BY <1>1, <3>1 DEF StepInv, Typed, Unrecorded, Holding
    <3>3. Polling'
      BY <1>1, <3>1 DEF StepInv, Polling, Garbled
    <3> QED  BY <3>2, <3>3 DEF StepInv
  <2> QED  BY <1>1, <2>1, <2>2, <2>3 DEF Next
<1> QED  BY <1>1, InitInv, PTL DEF Spec

(* Later steps read of an earlier one what the answer it was judged by holds, *)
(* however often it was polled and whatever came after (Scope.capture).       *)
THEOREM CapturesHeld == Spec => []CapturesAreOfTheAnswerTaken
<1>1. ASSUME StepInv PROVE CapturesAreOfTheAnswerTaken
  <2>1. \A k \in DOMAIN taken : Holds(scope, test.steps[k], taken[k])
    BY <1>1 DEF StepInv, Typed, Holding
  <2> SUFFICES ASSUME NEW k \in DOMAIN taken
               PROVE  LET s == test.steps[k]
                      IN  /\ \A i \in DOMAIN s.capture :
                               Resolve(scope, <<s.id, s.capture[i][1]>>)
                                 = ReadPath(taken[k].payload, s.capture[i][2])
                          /\ (\A i \in DOMAIN s.capture : s.capture[i][1] # "response") =>
                               Resolve(scope, <<s.id, "response">>) = taken[k].payload
    BY DEF CapturesAreOfTheAnswerTaken
  <2> DEFINE s == test.steps[k]
  <2>2. Holds(scope, s, taken[k])
    BY <2>1
  <2> HIDE DEF s
  <2>3. ASSUME NEW i \in DOMAIN s.capture
        PROVE  Resolve(scope, <<s.id, s.capture[i][1]>>)
                 = ReadPath(taken[k].payload, s.capture[i][2])
    BY <2>2, ResolveNamed DEF Holds
  <2>4. ASSUME \A i \in DOMAIN s.capture : s.capture[i][1] # "response"
        PROVE  Resolve(scope, <<s.id, "response">>) = taken[k].payload
    BY <2>2, <2>4, ResolveNamed DEF Holds
  <2> QED  BY <2>3, <2>4 DEF s
<1> QED  BY <1>1, StepsRecorded, PTL

(* A poll goes on exactly as long as its condition does not hold and attempts *)
(* are left, and gives up only when none are (_dispatch).                     *)
THEOREM PollsEnd == Spec => []PollStopsForCause
<1>1. ASSUME StepInv PROVE PollStopsForCause
  <2> SUFFICES ASSUME pc \in {"sent", "over"}, polls # <<>>, Polls(step), step.repeat.parses
               PROVE  PollStopsForCause
    BY DEF PollStopsForCause
  <2> DEFINE reads(answer) == ReadPath(answer.payload, step.repeat.path)
             met(answer) == /\ reads(answer) # MISSING
                            /\ (reads(answer) \in Range(step.repeat.literals)) = (step.repeat.op # "!=")
             open(answer) == step.repeat.op = "!=" /\ reads(answer) = MISSING
  <2>0. Typed /\ Polling /\ ~Garbled
    BY <1>1 DEF StepInv, Garbled
  <2>1. ASSUME NEW answer \in Answers
        PROVE  /\ met(answer) => Taken(step, answer)
               /\ Taken(step, answer) => met(answer) \/ open(answer)
    <3> DEFINE v == ReadPath(answer.payload, step.repeat.path)
    <3>1. \A i \in DOMAIN step.repeat.literals :
            Equal(v, step.repeat.literals[i]) <=> v = step.repeat.literals[i]
      BY <2>0, RepeatListed DEF Polls
    <3> HIDE DEF v
    <3>2. v \in Range(step.repeat.literals) <=>
            \E i \in DOMAIN step.repeat.literals : Equal(v, step.repeat.literals[i])
      BY <3>1 DEF Range
    <3>3. Taken(step, answer) <=>
            (v \in Range(step.repeat.literals)) = (step.repeat.op # "!=")
      BY <3>2 DEF Taken, EvaluateUntil, v
    <3>4. CASE v # MISSING
      BY <3>3, <3>4 DEF v
    <3>5. CASE v = MISSING /\ step.repeat.op = "!="
      BY <3>5 DEF v
    <3>6. CASE v = MISSING /\ step.repeat.op # "!="
      <4>1. v \notin Range(step.repeat.literals)
        BY <2>0, <3>6, RepeatListed DEF Polls, v
      <4> QED  BY <3>3, <3>6, <4>1 DEF v
    <3> QED  BY <3>4, <3>5, <3>6
  <2>2. /\ polls \in Seq(Answers) /\ Len(polls) \in Nat \ {0}
        /\ \A i \in 1..Len(polls) : polls[i] \in Answers
        /\ Last(polls) = polls[Len(polls)] /\ Last(polls) \in Answers
    BY <2>0 DEF Typed, Last
  <2> HIDE DEF met, open
  <2>3. \A i \in 1..Len(polls) - 1 : ~met(polls[i])
    BY <2>0, <2>1, <2>2 DEF Polling
  <2>4. Attempts(step) \in Nat
    BY <2>0, AttemptsCount
  <2>5. pc = "sent" => Len(polls) < Attempts(step) /\ Len(taken) # at
    BY <2>0, <2>1, <2>2 DEF Polling, Typed
  <2>6. pc = "over" =>
          /\ Len(polls) <= Attempts(step)
          /\ ~met(Last(polls)) /\ ~open(Last(polls)) =>
               result = "fail" /\ Len(polls) = Attempts(step) /\ Len(taken) # at
    BY <2>0, <2>1, <2>2 DEF Polling, Typed
  <2>7. Len(polls) <= Attempts(step)
    BY <2>2, <2>4, <2>5, <2>6
  <2> QED  BY <2>3, <2>5, <2>6, <2>7 DEF PollStopsForCause, met, open
<1> QED  BY <1>1, StepsRecorded, PTL
=============================================================================
