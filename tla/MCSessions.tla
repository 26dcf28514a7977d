------------------------------ MODULE MCSessions ------------------------------
(* Small instances of Sessions. *)
EXTENDS Sessions, TLC

CONSTANTS p1, p2, pw1, pw2, empty, full

Symmetry == Permutations(Procs) \cup Permutations(Passwords)
=============================================================================
