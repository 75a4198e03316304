---------------------------- MODULE MCTraversal ----------------------------
(* Graphs and cases for TLC. *)
EXTENDS Traversal, SequencesExt

Three == <<"sut", "a", "b">>
Four  == <<"sut", "a", "b", "c">>
Five  == <<"sut", "a", "b", "c", "d">>

\* Every digraph on three agents, loops included, of at most five edges.
SmallEdges == {SetToSeq(E) : E \in {F \in SUBSET ((0..2) \X (0..2)) :
                                       F # {} /\ Cardinality(F) <= 5}}

\* A figure of eight whose walk returns to its middle; a doubled edge; two
\* cycles apart, in the order of the list and with the entry agent outside;
\* a bad index.
Eight    == <<<<1, 0>>, <<0, 2>>, <<2, 3>>, <<3, 0>>, <<0, 1>>>>
Doubled  == <<<<0, 1>>, <<0, 1>>, <<1, 0>>, <<1, 2>>, <<2, 0>>>>
Apart    == <<<<3, 4>>, <<4, 3>>, <<0, 1>>, <<1, 2>>, <<2, 0>>>>
Outside  == <<<<1, 2>>, <<2, 1>>, <<3, 4>>, <<4, 3>>>>
BadIndex == <<<<0, 3>>, <<3, 0>>>>

Named(n) == {TopologyToEdges(t, n) : t \in {"star", "chain", "euler"}}

Graphs == [sdks : {Three}, edges : SmallEdges \cup Named(3) \cup {<<>>, Doubled, BadIndex}]
             \cup [sdks : {Four}, edges : Named(4) \cup {Eight}]
             \cup [sdks : {Five}, edges : {Apart, Outside}]

Pushed == [sdks : {<<"sut", "a">>}, edges : Named(2) \cup {<<<<0, 1>>>>}]
             \cup [sdks : {Three}, edges : {TopologyToEdges("chain", 3), <<<<1, 2>>, <<2, 1>>>>, BadIndex}]

MCInput == Graphs \cup Pushed

MCCase == {[sdks |-> g.sdks, edges |-> g.edges, behavior |-> "send", protocols |-> n] :
               g \in Graphs, n \in {1}}
          \cup {[sdks |-> g.sdks, edges |-> g.edges, behavior |-> b, protocols |-> n] :
               g \in Pushed, b \in {"send", "push"}, n \in 0..2}

=============================================================================
