---------------------------- MODULE MCCrashJournal ----------------------------
(* Small instances of CrashJournal. *)
EXTENDS CrashJournal, TLC

CONSTANTS a, b, i1, i2, v1, v2, m1, m2

Symmetry == Permutations(Names) \cup Permutations(Inos) \cup Permutations(Values)
=============================================================================
