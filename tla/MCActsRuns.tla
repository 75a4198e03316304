----------------------------- MODULE MCActsRuns -----------------------------
(* Small instances of ActsRuns for TLC. *)
EXTENDS ActsRuns, TLC

CONSTANTS r1, r2, x1, q1, q2

NoUrls  == (r1 :> {}) @@ (r2 :> {})
(* r1 spawns its SUTs; x1 is external, with an instance per deviation. *)
OneGiven == (r1 :> {}) @@ (r2 :> {"auth"}) @@ (x1 :> {"reduced", "auth"})

(* A test per kind of precondition, and one no single pass can run. *)
MCTest     == {"plain", "capable", "uncapable", "open", "secured", "neither"}
MCNeeds    == [t \in MCTest |-> CASE t = "uncapable" -> {"reduced"}
                                  [] t = "secured"   -> {"auth"}
                                  [] t = "neither"   -> {"reduced", "auth"}
                                  [] OTHER           -> {}]
MCExcludes == [t \in MCTest |-> CASE t = "capable" -> {"reduced"}
                                  [] t = "open"    -> {"auth"}
                                  [] OTHER         -> {}]
=============================================================================
