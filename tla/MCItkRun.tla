------------------------------ MODULE MCItkRun ------------------------------
(* A small matrix, and batches for its requests. *)
EXTENDS ItkRun

MCLines  == <<"p10", "p03", "g10">>
MCSpeaks == [p10 |-> {"jsonrpc", "grpc", "http"}, p03 |-> {"jsonrpc"}, g10 |-> {"jsonrpc", "grpc"}]
MCSdkOf  == [p10 |-> "python", p03 |-> "python", g10 |-> "go"]

\* p03 fails with a go SUT, g10 over grpc with any.
MCRules == {[agents |-> {"p03"}, transports |-> {}, suts |-> {"go"}, unless |-> {}],
            [agents |-> {"g10"}, transports |-> {"grpc"}, suts |-> {}, unless |-> {"python"}]}

Legacy(n, sdks, edges, subtests) ==
    [legacy |-> TRUE, name |-> <<{n}>>, sdks |-> sdks, edges |-> edges, subtests |-> subtests]

V1(n, peers, topology, variants, together) ==
    [legacy |-> FALSE, name |-> <<{n}>>, when |-> None, includeSut |-> TRUE, ownLines |-> FALSE,
     peers |-> peers, together |-> together, topology |-> topology, edges |-> None,
     subtests |-> FALSE, variants |-> variants]

\* A star with one of its edges doubled.
Star3 == <<<<0, 1>>, <<0, 1>>, <<0, 2>>, <<1, 0>>, <<1, 0>>, <<2, 0>>>>

Shared == <<V1("star", None, "star", <<{"jsonrpc"}, {"grpc"}>>, TRUE),
            V1("pairs", <<"p10", "p03", "g10">>, "chain", <<{"grpc"}>>, FALSE)>>

Hand   == <<Legacy("mesh", <<SUT, "p10", "g10">>, None, FALSE),
            Legacy("star", <<SUT, "p10", "p03">>, Star3, TRUE)>>

Mixed  == <<[V1("own", <<"g10">>, "star", <<{"jsonrpc"}>>, TRUE) EXCEPT !.ownLines = TRUE],
            [V1("not python", None, "star", <<{"jsonrpc"}>>, TRUE) EXCEPT !.when = {"go"}],
            [V1("peers", <<"p03", "p10", "g10">>, "euler", <<{"jsonrpc"}>>, TRUE) EXCEPT !.includeSut = FALSE],
            Legacy("apart", <<"p03", "p10", SUT>>, <<<<1, 2>>, <<2, 1>>>>, TRUE)>>

Twice  == <<Legacy("pair", <<SUT, "p10">>, None, FALSE), Legacy("pair", <<SUT, "g10">>, None, FALSE)>>

Ghost == <<Legacy("ghost", <<SUT, "x">>, None, FALSE)>>

Pair  == <<Legacy("pair", <<SUT, "p10">>, None, FALSE)>>

Post(tests, sut) == [tests |-> tests, sut_sdk |-> sut]

MCBatch == [shared |-> Post(Shared, "go"), hand |-> Post(Hand, None), mixed |-> Post(Mixed, "python"),
            twice |-> Post(Twice, None), ghost |-> Post(Ghost, None), pair |-> Post(Pair, None)]

\* One request of every kind, beside a request for a pair.
MCPosts == [first |-> DOMAIN MCBatch, second |-> {"pair"}]

\* An edge list that cannot be walked, to be run as subtests.
VanishBatch == [hand |-> Post(<<Legacy("one way", <<SUT, "p10">>, <<<<0, 1>>>>, TRUE)>>, None)]

HandPosts == [first |-> {"hand"}]

\* One batch has a scenario with agents that no subtest has.
ASSUME SubtestsCovered <=> Batch # VanishBatch
ASSUME KeysApart

=============================================================================
