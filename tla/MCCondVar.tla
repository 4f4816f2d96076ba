----------------------------- MODULE MCCondVar -----------------------------
(* Model-checking instances of CondVar. *)
EXTENDS CondVar, TLC
=============================================================================
