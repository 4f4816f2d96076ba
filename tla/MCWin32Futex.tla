--------------------------- MODULE MCWin32Futex ---------------------------
(* Model-checking instances of Win32Futex. *)
EXTENDS Win32Futex, TLC

Symmetry == Permutations(Threads) \cup Permutations(Addrs)
=============================================================================
