----------------------- MODULE MCSharedRecursiveMutex -----------------------
(* Small instances of SharedRecursiveMutex. *)
EXTENDS SharedRecursiveMutex

CONSTANTS t1, t2, t3

MCThreads == {t1, t2, t3}
=============================================================================
