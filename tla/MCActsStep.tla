----------------------------- MODULE MCActsStep -----------------------------
(* Small tests and answers for ActsStep, judged as ActsJudgement does. *)
EXTENDS ActsJudgement

S(s)   == <<"string", s>>
N(n)   == <<"number", n>>
B(b)   == <<"boolean", b>>
Null   == <<"null", 0>>
Arr(s) == <<"array", s>>
Obj(f) == <<"object", f>>
Ref(r) == <<"ref", r>>
K(k)   == <<"key", k>>
At(i)  == <<"at", i>>

MCEnv  == [HOST |-> "h"]
MCFold == ("Content-Type" :> "content-type")
MCPattern ==
    [contains    |-> {<<"hi", "hi">>, <<"o", "ho">>, <<"DONE", "DONE">>},
     matches     |-> {<<"^h", "hi">>, <<"^h", "ho">>},
     starts_with |-> {<<"h", "hi">>, <<"h", "ho">>, <<"t", "t1">>, <<"t", "t2">>},
     ends_with   |-> {<<"1", "t1">>}]

-----------------------------------------------------------------------------
(* Answers: tasks in several shapes and states, bodies that have no task, and *)
(* refusals that are named and that are not.                                  *)
Task(id, state, artifacts) ==
    Obj([task |-> Obj([id |-> id, status |-> Obj([state |-> S(state)]), artifacts |-> Arr(artifacts)])])

Part(text) == Obj([text |-> text])
Artifact(parts) == Obj([parts |-> Arr(parts)])

Ok(payload) == [payload |-> payload, error |-> None, status |-> N(200),
                headers |-> ("content-type" :> S("json"))]
Refusal(type, details) ==
    [payload |-> Null, status |-> N(404), headers |-> <<>>,
     error |-> [error_type |-> type, message |-> S("no"), details |-> Arr(details)]]

MCAnswers ==
    {Ok(Task(S("t1"), "WORKING", <<>>)),
     Ok(Task(S("t1"), "DONE", <<Artifact(<<Part(S("hi"))>>), Artifact(<<>>)>>)),
     Ok(Task(S("t2"), "DONE", <<Artifact(<<Part(S("hi")), Part(S("ho"))>>), Obj([name |-> Null])>>)),
     Ok(Task(Null, "DONE", <<Artifact(<<Part(N(1)), Part(B(TRUE))>>)>>)),
     Ok(Task(N(1), "WORKING", <<Artifact(<<Part(S("ho"))>>)>>)),
     Ok(Task(B(TRUE), "DONE", <<Artifact(<<>>)>>)),
     Ok(Obj([task |-> Obj([id |-> S("t1")])])),
     Ok(Obj([type |-> S("about"), title |-> S("hi")])),
     [Ok(Null) EXCEPT !.headers = <<>>],
     Refusal(S("NotFound"), <<Obj([reason |-> S("x")])>>),
     Refusal(MISSING, <<>>)}

-----------------------------------------------------------------------------
Step(id) == [id |-> id, raw |-> FALSE, params |-> Obj(<<>>), repeat |-> None, capture |-> <<>>,
             status |-> None, headers |-> None, body |-> None, error |-> None, assertions |-> <<>>]
Test(steps) == [variables |-> <<>>, steps |-> steps, assertions |-> <<>>]

Until(op, literals, max) ==
    [path |-> <<K("task"), K("status"), K("state")>>, op |-> op, literals |-> literals, max |-> max,
     uses |-> Obj(<<>>), parses |-> TRUE]

Send == [Step("send") EXCEPT !.capture = <<<<"id", <<K("task"), K("id")>>>>>>]
Get  == [Step("get") EXCEPT !.params = Obj([id |-> Ref(<<"send", "id">>)]),
                            !.body = Obj([task |-> Obj([id |-> Ref(<<"send", "id">>)])])]

InTask(f)  == Obj([task |-> Obj(f)])
Asks(body) == Test(<<[Step("ask") EXCEPT !.body = body]>>)

Over(each) == [source |-> <<"send", "response">>, path |-> <<K("task")>>, mode |-> "any",
               each |-> each, match |-> Obj([text |-> Obj([contains |-> S("hi")])])]
Parts == <<K("artifacts"), WILDCARD, K("parts"), WILDCARD>>
Where(mode, match) == [Over(Parts) EXCEPT !.mode = mode, !.match = match]
Claims(steps, as) == [Test(steps) EXCEPT !.assertions = as]

Bodies ==
    {InTask([id |-> Obj([exists |-> B(TRUE)]), owner |-> Obj([absent |-> B(TRUE)])]),
     InTask([artifacts |-> Obj([type |-> S("array"), count_gte |-> N(1),
                                items |-> Obj([parts |-> Obj([type |-> S("array")])])])]),
     InTask([artifacts |-> Arr(<<Obj([parts |-> Arr(<<Part(Obj([matches |-> S("^h")]))>>)])>>)]),
     InTask([artifacts |-> Obj([items |-> Arr(<<Obj([parts |-> Obj([count |-> N(2)])])>>)])]),
     InTask([id |-> Obj([not |-> Obj([type |-> S("null")]), one_of |-> Arr(<<N(1), S("t1")>>)])]),
     InTask([id |-> Obj([any_of |-> Arr(<<Obj([starts_with |-> S("t")]), Obj([gte |-> N(1)])>>)])]),
     InTask([id |-> Obj([all_of |-> Arr(<<Obj([exists |-> B(TRUE)]), Obj([lt |-> N(2)])>>)])]),
     Obj([one_of |-> Arr(<<InTask([status |-> Obj([state |-> S("DONE")])]), Obj([title |-> S("hi")])>>)]),
     Obj([task |-> Obj([not |-> Obj([status |-> Obj([exists |-> B(TRUE)])])])]),
     Obj([type |-> Obj([type |-> S("string")]), title |-> Obj([contains |-> S("hi")])])}

Declared(s) == [Test(<<s>>) EXCEPT !.variables = (<<"url">> :> S("u"))]

MCTests ==
    {Asks(body) : body \in Bodies} \cup
    {\* what an earlier answer gave, asked of a later one
     Test(<<Send, Get>>),
     Claims(<<Send, [Get EXCEPT !.assertions = <<Over(Parts)>>]>>,
            <<Where("match", Obj([status |-> Obj([state |-> S("DONE")])]))>>),
     Claims(<<Send>>, <<Where("all", Part(Obj([type |-> S("string")])))>>),
     Claims(<<Send>>, <<Where("none", Part(S("ho"))), Over(Parts)>>),
     Claims(<<Send>>, <<[Over(Parts) EXCEPT !.source = <<"nobody", "response">>]>>),
     Claims(<<Send>>, <<[Over(Parts) EXCEPT !.match = Part(Ref(<<"nobody", "x">>))]>>),
     \* polls
     Test(<<[Send EXCEPT !.repeat = Until("==", <<S("DONE")>>, 2)], Get>>),
     Test(<<[Send EXCEPT !.repeat = Until("!=", <<S("WORKING")>>, None)], Step("after")>>),
     Test(<<Send, [Get EXCEPT !.repeat = Until("in", <<S("DONE"), S("GONE")>>, 2)]>>),
     Test(<<[Send EXCEPT !.repeat = [Until("==", <<S("DONE")>>, 2) EXCEPT !.uses = Ref(<<"url">>)]]>>),
     Test(<<[Send EXCEPT !.repeat = [Until("==", <<>>, 2) EXCEPT !.parses = FALSE]]>>),
     \* several captures, one of which takes the place of the whole response
     Test(<<[Send EXCEPT !.capture = <<<<"id", <<K("task"), K("id")>>>>,
                                       <<"last", <<K("task"), K("artifacts"), At(-1)>>>>>>], Get>>),
     Test(<<[Send EXCEPT !.capture = <<<<"response", <<K("task")>>>>,
                                       <<"id", <<K("task"), K("id")>>>>>>],
            [Get EXCEPT !.body = Obj([task |-> Ref(<<"send", "response">>)])]>>),
     \* refusals
     Test(<<[Step("ask") EXCEPT !.error = Obj([error_type |-> Obj([one_of |-> Arr(<<S("NotFound")>>)]),
                                               details |-> Obj([count_gte |-> N(1)])])]>>),
     Test(<<[Step("ask") EXCEPT !.error = Obj([message |-> S("no")]), !.body = Obj([task |-> Obj(<<>>)])]>>),
     Test(<<[Step("ask") EXCEPT !.raw = TRUE, !.body = Obj([task |-> Obj([absent |-> B(TRUE)])]),
                                !.status = Obj([gte |-> N(400)])]>>),
     \* headers and status
     Test(<<[Step("ask") EXCEPT !.headers = Obj(("Content-Type" :> S("json"))), !.status = N(200)]>>),
     \* references to variables, the environment and nothing
     Declared([Step("ask") EXCEPT !.params = Obj([u |-> <<"text", <<"url">>>>, h |-> Ref(<<"env", "HOST">>),
                                                  m |-> Ref(<<"$uuid">>)])]),
     Test(<<[Step("ask") EXCEPT !.params = Obj([u |-> Ref(<<"url">>)])]>>),
     Test(<<[Step("ask") EXCEPT !.body = Obj([id |-> Ref(<<"env", "PORT">>)])]>>)}
=============================================================================
