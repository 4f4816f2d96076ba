----------------------------- MODULE MCSRWLock -----------------------------
(* Model-checking instances of SRWLock. *)
EXTENDS SRWLock, TLC
=============================================================================
