----------------------------- MODULE Variables -----------------------------
(***************************************************************************)
(* test_suite/acts/variables.py: paths into a response, and the scope the   *)
(* {{...}} references of one test are resolved in.                          *)
(*                                                                         *)
(* A JSON value is a pair of its type and its content: a sequence for an    *)
(* array, a function from names for an object.  Two kinds of text belong to *)
(* what an author writes and not to a response: <<"ref", r>> is nothing but *)
(* one reference, <<"text", r>> has one among other words.                  *)
(***************************************************************************)
EXTENDS Integers, SequencesExt

CONSTANT Env     \* environment variables and their values

MISSING == <<"missing">>
Fresh   == <<"fresh", "">>
Text(v)   == v[1] \in {"string", "spelled", "fresh"}
Array(v)  == v[1] = "array"
Object(v) == v[1] \in {"object", "headers"}

-----------------------------------------------------------------------------
(* Paths.  A segment is <<"key", name>>, <<"at", index>> or WILDCARD.        *)

WILDCARD == <<"all">>

(* Python's indices: from zero, the negative ones from the end. *)
Position(index, size) == IF index >= 0 THEN index + 1 ELSE size + index + 1

(* _step *)
Follow(value, segment) ==
    CASE segment[1] = "key" /\ value[1] = "object" /\ segment[2] \in DOMAIN value[2] ->
            value[2][segment[2]]
      [] segment[1] = "at" /\ Array(value) /\ Position(segment[2], Len(value[2])) \in DOMAIN value[2] ->
            value[2][Position(segment[2], Len(value[2]))]
      [] OTHER -> MISSING

ReadPath(value, path) == FoldLeft(Follow, value, path)

(* _walk: what the frontier of places becomes over one more segment; a branch *)
(* that is missing is left out.                                               *)
Advance(places, segment) ==
    LET Next1(place) ==
            IF segment = WILDCARD
            THEN IF ~Array(place.value) THEN <<>>
                 ELSE [i \in 1..Len(place.value[2]) |->
                         [path |-> Append(place.path, <<"at", i - 1>>), value |-> place.value[2][i]]]
            ELSE LET v == Follow(place.value, segment)
                 IN  IF v = MISSING THEN <<>>
                     ELSE <<[path |-> Append(place.path, segment), value |-> v]>>
    IN  FlattenSeq([i \in 1..Len(places) |-> Next1(places[i])])

(* read_path_all: the values a wildcard path reaches, with their own paths. *)
ReadPathAll(value, path) == FoldLeft(Advance, <<[path |-> <<>>, value |-> value]>>, path)

-----------------------------------------------------------------------------
(* Scope.  A scope has captures, per step that has recorded anything a        *)
(* function from names, and the variables of the document, keyed by the       *)
(* reference that names them: <<name>>, or <<head, tail>> for a dotted one.   *)

Named(scope, step, name) ==
    step \in DOMAIN scope.captures /\ name \in DOMAIN scope.captures[step]

Kept(scope, step) == IF step \in DOMAIN scope.captures THEN scope.captures[step] ELSE <<>>

Bind(f, key, value) == [k \in DOMAIN f \cup {key} |-> IF k = key THEN value ELSE f[k]]

(* All of f, and of g what f has not. *)
Merge(f, g) == [k \in DOMAIN f \cup DOMAIN g |-> IF k \in DOMAIN f THEN f[k] ELSE g[k]]

(* Mutant: a record replaces what the step has recorded before. *)
RecordOnly(scope, step, values) ==
    [scope EXCEPT !.captures = Bind(@, step, values)]

(* record, of several names at once. *)
Record(scope, step, values) ==
    [scope EXCEPT !.captures = Bind(@, step, Merge(values, Kept(scope, step)))]

(* An explicit capture of the name `response' is not replaced. *)
RecordResponse(scope, step, response) ==
    IF Named(scope, step, "response") THEN scope
    ELSE Record(scope, step, Bind(<<>>, "response", response))

(* capture: in the order of the block, up to the first path that reads       *)
(* nothing; what was recorded before it stays.  The names of a block differ. *)
Capture(scope, step, block, response) ==
    LET value(i) == ReadPath(response, block[i][2])
        misses   == {i \in DOMAIN block : value(i) = MISSING}
        read     == {i \in DOMAIN block : \A j \in misses : i < j}
        values   == [name \in {block[i][1] : i \in read} |->
                        value(CHOOSE i \in read : block[i][1] = name)]
    IN  [scope |-> Record(scope, step, values), missed |-> misses # {}]

(* resolve; MISSING stands for UnresolvedVariable.  A generated identifier,   *)
(* Fresh, is a text that equals no other, not even the next one generated.    *)
Resolve(scope, ref) ==
    CASE ref = <<"$uuid">> -> Fresh
      [] Len(ref) = 2 /\ Named(scope, ref[1], ref[Len(ref)]) -> scope.captures[ref[1]][ref[2]]
      [] OTHER ->
            IF ref \in DOMAIN scope.variables THEN scope.variables[ref]
            ELSE IF Len(ref) = 2 /\ ref[1] = "env" /\ ref[2] \in DOMAIN Env
                 THEN <<"string", Env[ref[2]]>>
            ELSE MISSING
=============================================================================
