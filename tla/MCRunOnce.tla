----------------------------- MODULE MCRunOnce -----------------------------
(* Model-checking instances of RunOnce. *)
EXTENDS RunOnce, TLC
=============================================================================
