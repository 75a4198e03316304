---------------------------- MODULE MCBuildCache ----------------------------
(* Small instances of BuildCache for TLC. *)
EXTENDS BuildCache, TLC

CONSTANTS s1, s2, s3, p1, p2, e1

(* Processes p1 and p2 run sessions, e1 runs `cache evict'. *)
MCProc     == {p1, p2, e1}

(* Two sessions of one process and one of another / one session each. *)
TwoInOne   == (s1 :> p1) @@ (s2 :> p1) @@ (s3 :> p2)
PairInOne  == (s1 :> p1) @@ (s2 :> p1)
OneEach    == (s1 :> p1) @@ (s2 :> p2)
=============================================================================
