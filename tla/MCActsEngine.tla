---------------------------- MODULE MCActsEngine ----------------------------
(* Small suites for ActsEngine. *)
EXTENDS ActsEngine

Step(id, kind, uses) ==
    [id |-> id, kind |-> kind, uses |-> uses, asserts |-> uses, sources |-> uses, attempts |-> 0,
     streams |-> <<>>, min |-> 0, max |-> None, timed |-> FALSE, monotonic |-> FALSE, refusal |-> FALSE]

Test(steps) ==
    [applies |-> TRUE, requires |-> {}, preconditions |-> "met", behaviors |-> {}, steps |-> steps]

Send == Step("send", "operation", {})
Poll == [Step("poll", "operation", {"send"}) EXCEPT !.attempts = 2]

\* One stream of at most two events, in order.
Watch == [Step("watch", "operation", {"send"}) EXCEPT
            !.streams = <<None>>, !.min = 1, !.max = 2, !.monotonic = TRUE]

\* Two streams at once, one of which hangs up after an event.
Both  == [Step("both", "raw", {"send"}) EXCEPT !.streams = <<1, None>>, !.min = 1]
Timed == [Watch EXCEPT !.timed = TRUE, !.max = None]
Deny  == [Step("deny", "operation", {}) EXCEPT !.streams = <<None>>, !.refusal = TRUE]
Hook  == [Step("hook", "webhook", {"send", "url"}) EXCEPT !.min = 1]

With(tests) == [binding |-> "http", card |-> TRUE, tests |-> tests]
Over(binding, run) == [run EXCEPT !.binding = binding]

Gates == <<[Test(<<Send>>) EXCEPT !.applies = FALSE],
           [Test(<<Send>>) EXCEPT !.requires = {"webhook_endpoint"}],
           [Test(<<Step("again", "assertion", {})>>) EXCEPT !.preconditions = "none"],
           [Test(<<Send>>) EXCEPT !.preconditions = "unmet"],
           [Test(<<Send>>) EXCEPT !.behaviors = {"tck-other"}],
           [Test(<<Send>>) EXCEPT !.preconditions = "none", !.behaviors = {"tck-a"}]>>

\* Every kind of step, and references to what nothing defines.
MCSuites ==
    {With(Gates), [With(Gates) EXCEPT !.card = FALSE],
     With(<<Test(<<Send, Poll, Hook>>), Test(<<Send, Poll>>)>>),
     With(<<Test(<<Send, Watch>>), Test(<<Deny>>)>>),
     With(<<Test(<<Send, Both>>)>>),
     With(<<Test(<<Send, Timed, Hook>>)>>),
     With(<<Test(<<Step("parse", "client", {}), Step("get", "operation", {"send"})>>),
            Test(<<[Watch EXCEPT !.uses = {}, !.attempts = 2]>>)>>),
     With(<<Test(<<[Send EXCEPT !.asserts = {"nobody"}]>>)>>),
     With(<<Test(<<[Send EXCEPT !.sources = {"nobody"}]>>), Test(<<Step("parse", "client", {"nobody"})>>)>>),
     Over("grpc", With(<<Test(<<Send, Poll>>), Test(<<Step("raw", "raw", {})>>), Test(<<Send>>)>>)),
     Over("grpc", With(<<Test(<<[Both EXCEPT !.kind = "operation", !.uses = {}]>>), Test(<<Deny>>)>>))}
=============================================================================
