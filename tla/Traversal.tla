----------------------------- MODULE Traversal -----------------------------
(***************************************************************************)
(* One traversal, testlib._execute_with_deadline: the notification server, *)
(* the instruction built from the circuits of Euler, the walk of the agents *)
(* through it, the notifications they push meanwhile, and the verdict.      *)
(*                                                                         *)
(* The circuits of one transport are one chain of hops each.  Agents are    *)
(* external: a hop succeeds or fails, a push arrives at some time or never. *)
(***************************************************************************)
EXTENDS Euler

CONSTANT Case   \* records of sdks, edges, behavior and protocols (their number)

ASSUME CaseAssumption ==
    /\ Input = {[sdks |-> c.sdks, edges |-> c.edges] : c \in Case}
    /\ \A c \in Case : c.protocols \in Nat

VARIABLES
    behavior, protocols,   \* of the case
    phase,
    server,     \* the notification server's process
    reached,    \* per chain the agents are done with, the hops that were answered
    depth,      \* hops taken in the chain they are in
    reply,      \* of the entry agent
    stored,     \* tasks whose last notification the server has stored
    verdict,
    cut         \* history: the phase in which the deadline expired

runVars == <<behavior, protocols, phase, server, reached, depth, reply, stored, verdict, cut>>
allVars == <<eulerVars, runVars>>

Nothing == "none"

TInit ==
    /\ \E c \in Case : /\ sdks = c.sdks /\ edges = c.edges
                       /\ behavior = c.behavior /\ protocols = c.protocols
    /\ Init
    /\ phase = "begin" /\ server = Nothing
    /\ reached = <<>> /\ depth = 0 /\ reply = Nothing /\ stored = {}
    /\ verdict = Nothing /\ cut = Nothing

-----------------------------------------------------------------------------
(* Chains, and the tasks that push: the entry agent's <<0, 0>>, and for hop i *)
(* of chain k that of the agent called, <<k, i>>.                             *)
Chains == Len(circuits) * protocols

Circuit(k)   == circuits[((k - 1) % Len(circuits)) + 1]
Transport(k) == ((k - 1) \div Len(circuits)) + 1
Hops(k)      == Len(Circuit(k)) - 1

Verdict(passed) == IF passed THEN "pass" ELSE "fail"

Root == <<0, 0>>

Hop     == UNION {{<<k, i>> : i \in 1..Hops(k)} : k \in 1..Chains}
Tasks   == {Root} \cup Hop

(* The instruction of hop i is carried out by the agent hop i - 1 called,     *)
(* that of the first by the entry agent, whatever its trace token says.       *)
Caller(h) == IF h[2] = 1 THEN sdks[1] ELSE Circuit(h[1])[h[2]]
Callee(h) == Circuit(h[1])[h[2] + 1]

chain == Len(reached) + 1

(* The agent called answered; in a chain that ended every one did. *)
Made(h)  == h[1] \in DOMAIN reached /\ h[2] <= reached[h[1]]
Ended(k) == k \in DOMAIN reached /\ reached[k] = Hops(k)

-----------------------------------------------------------------------------
Begin ==
    /\ phase = "begin"
    /\ IF behavior = "push"
       THEN phase' = "starting" /\ server' = "starting"
       ELSE phase' = "build" /\ server' = server
    /\ UNCHANGED <<eulerVars, behavior, protocols, reached, depth, reply, stored, verdict, cut>>

ServerReady ==
    /\ phase = "starting"
    /\ server' = "up" /\ phase' = "build"
    /\ UNCHANGED <<eulerVars, behavior, protocols, reached, depth, reply, stored, verdict, cut>>

(* RuntimeError before the try: the process is terminated, nothing to tear down. *)
ServerFails ==
    /\ phase = "starting"
    /\ server' = "stopped" /\ phase' = "over" /\ verdict' = "fail"
    /\ UNCHANGED <<eulerVars, behavior, protocols, reached, depth, reply, stored, cut>>

(* create_test_suite; with no protocols it only reads the edges.             *)
Build ==
    /\ phase = "build" /\ protocols > 0
    /\ EulerNext
    /\ UNCHANGED runVars

Unbuilt == pc = "refused" \/ (protocols = 0 /\ Given(edges) /\ ~InRange(edges, sdks))

(* Mutant: the instruction is built before the try. *)
BuiltOutsideTry ==
    /\ phase = "build"
    /\ \/ ~Unbuilt /\ (protocols = 0 \/ pc = "done") /\ phase' = "send" /\ verdict' = verdict
       \/ Unbuilt /\ phase' = "over" /\ verdict' = "fail"
    /\ UNCHANGED <<eulerVars, behavior, protocols, server, reached, depth, reply, stored, cut>>

Built ==
    /\ phase = "build"
    /\ \/ ~Unbuilt /\ (protocols = 0 \/ pc = "done") /\ phase' = "send" /\ verdict' = verdict
       \/ Unbuilt /\ phase' = "teardown" /\ verdict' = "fail"
    /\ UNCHANGED <<eulerVars, behavior, protocols, server, reached, depth, reply, stored, cut>>

Send ==
    /\ phase = "send"
    /\ phase' = "wait" /\ reply' = "walking"
    /\ UNCHANGED <<eulerVars, behavior, protocols, server, reached, depth, stored, verdict, cut>>

-----------------------------------------------------------------------------
(* The agents. *)
Walking == reply = "walking" /\ phase = "wait"

TakeHop ==
    /\ Walking /\ chain <= Chains /\ depth < Hops(chain)
    /\ depth' = depth + 1
    /\ UNCHANGED <<eulerVars, behavior, protocols, phase, server, reached, reply, stored, verdict, cut>>

(* The last agent has answered, or the next one does not and its caller goes  *)
(* on without it.                                                             *)
EndChain ==
    /\ Walking /\ chain <= Chains
    /\ reached' = Append(reached, depth) /\ depth' = 0
    /\ UNCHANGED <<eulerVars, behavior, protocols, phase, server, reply, stored, verdict, cut>>

HopFails ==
    /\ Walking /\ chain <= Chains /\ depth < Hops(chain)
    /\ reply' = "error"
    /\ UNCHANGED <<eulerVars, behavior, protocols, phase, server, reached, depth, stored, verdict, cut>>

(* The entry agent replies, or its stream ends, maybe before the last chain.  *)
Reply ==
    /\ Walking /\ depth = 0
    /\ reply' = "text"
    /\ UNCHANGED <<eulerVars, behavior, protocols, phase, server, reached, depth, stored, verdict, cut>>

(* A task's last notification, with its whole text.                           *)
Complete(t) == IF t = Root THEN reply = "text" ELSE Made(t)

Push(t) ==
    /\ server = "up" /\ Complete(t) /\ t \notin stored
    /\ stored' = stored \cup {t}
    /\ UNCHANGED <<eulerVars, behavior, protocols, phase, server, reached, depth, reply, verdict, cut>>

-----------------------------------------------------------------------------
(* The tokens expected are the trace of every hop, which its caller writes,   *)
(* and for every chain the terminal token of its transport.                   *)
Trace(h) == <<Circuit(h[1])[h[2]], Circuit(h[1])[h[2] + 1], Transport(h[1])>>

Written(h) == h[1] \in DOMAIN reached /\ h[2] <= reached[h[1]] + 1

(* Chain k, or another of the same transport, was walked to its end. *)
Terminated(k) == \E m \in 1..Chains : Transport(m) = Transport(k) /\ Ended(m)

(* Mutant: the terminal tokens are not looked for. *)
TracesFound == \A h \in Hop : \E g \in Hop : Trace(g) = Trace(h) /\ Written(g)

(* _verify_send_message: the reply holds each expected token. *)
TokensFound ==
    /\ \A h \in Hop : \E g \in Hop : Trace(g) = Trace(h) /\ Written(g)
    /\ \A k \in 1..Chains : Terminated(k)

(* The text after hop i of chain k, the terminal token when i is the last, is *)
(* an expected state.  It ends the texts of the tasks that led there, and that *)
(* of the entry agent holds those of all chains; chains of one transport share *)
(* no more than their terminal token.                                         *)
States == UNION {{<<k, i>> : i \in 0..Hops(k)} : k \in 1..Chains}

EndsOf(t, k) == Ended(k) /\ (t = Root \/ t[1] = k)

TextHas(t, s) ==
    \/ EndsOf(t, s[1]) /\ t[2] <= s[2]
    \/ /\ s[2] = Hops(s[1])
       /\ \E m \in 1..Chains : Transport(m) = Transport(s[1]) /\ EndsOf(t, m)

(* _verify_push_notification: every state in some text; the tokens are then   *)
(* in all of them together.                                                   *)
PushVerdict(texts) == \A s \in States : \E t \in texts : TextHas(t, s)

(* JSON-RPC errors raise; a reply is verified or, with push, the store is read. *)
Answered ==
    /\ phase = "wait" /\ reply \in {"text", "error"}
    /\ IF reply = "text" /\ behavior = "push"
       THEN phase' = "read" /\ verdict' = verdict
       ELSE phase' = "teardown" /\ verdict' = Verdict(reply = "text" /\ TokensFound)
    /\ UNCHANGED <<eulerVars, behavior, protocols, server, reached, depth, reply, stored, cut>>

(* GET /notifications; read_push_notifications swallows a failure.            *)
Read ==
    /\ phase = "read"
    /\ \E texts \in {stored, {}} : verdict' = Verdict(PushVerdict(texts))
    /\ phase' = "teardown"
    /\ UNCHANGED <<eulerVars, behavior, protocols, server, reached, depth, reply, stored, cut>>

(* ITK_SCENARIO_TIMEOUT: at an await, and with it the finally unless the       *)
(* server was not up yet.                                                     *)
Deadline ==
    /\ phase \in {"starting", "wait", "read"}
    /\ phase' = IF phase = "starting" THEN "over" ELSE "teardown"
    /\ verdict' = "fail"
    /\ cut' = phase
    /\ UNCHANGED <<eulerVars, behavior, protocols, server, reached, depth, reply, stored>>

Teardown ==
    /\ phase = "teardown"
    /\ server' = IF server = "up" THEN "stopped" ELSE server
    /\ phase' = "over"
    /\ UNCHANGED <<eulerVars, behavior, protocols, reached, depth, reply, stored, verdict, cut>>

Own == Begin \/ ServerReady \/ ServerFails \/ Build \/ Built \/ Send
           \/ Answered \/ Read \/ Deadline \/ Teardown

TNext ==
    \/ Own
    \/ TakeHop \/ EndChain \/ HopFails \/ Reply
    \/ \E t \in Tasks : Push(t)

TSpec == TInit /\ [][TNext]_allVars /\ WF_allVars(Own)

-----------------------------------------------------------------------------
(* Every agent with an edge is connected to the entry agent.                  *)
Attached ==
    \A S \in SUBSET Agents(sdks) :
        /\ sdks[1] \in S
        /\ \A k \in DOMAIN Target : Target[k][1] \in S <=> Target[k][2] \in S
        => \A k \in DOMAIN Target : Target[k][1] \in S

(* A traversal that passes has walked the scenario: for every transport, each *)
(* edge of the graph was called by its own agent, and answered, as often as it *)
(* is given, and nothing else was; whatever agent swallowed an error on the    *)
(* way.  The first hop of a circuit apart from the entry agent is made by the  *)
(* entry agent all the same, hence Attached.                                   *)
PassWalksGraph ==
    verdict = "pass" /\ Attached =>
        \A u, v \in Agents(sdks) : \A p \in 1..protocols :
            Cardinality({h \in Hop : /\ Made(h) /\ Transport(h[1]) = p
                                     /\ Caller(h) = u /\ Callee(h) = v})
            = Cardinality(EdgesBetween(u, v))

(* A test ends whatever the agents do (ITK_SCENARIO_TIMEOUT), and no           *)
(* notification server outlives it, unless the deadline cut its start, which    *)
(* is outside the try (testlib.py:413-424).                                     *)
Ends ==
    <>[](/\ phase = "over" /\ verdict # Nothing
         /\ cut # "starting" => server \in {Nothing, "stopped"})
=============================================================================
