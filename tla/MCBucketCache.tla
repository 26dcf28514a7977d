---------------------------- MODULE MCBucketCache ----------------------------
(* Small instances of BucketCache. *)
EXTENDS BucketCache, TLC

CONSTANTS t1, t2, w, s1, s2, e1, e2, e3, e4

EntrySymmetry == Permutations(Entries) \cup Permutations(Slots)
=============================================================================
