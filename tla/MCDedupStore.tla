---------------------------- MODULE MCDedupStore ----------------------------
(* Small instances of DedupStore. *)
EXTENDS DedupStore, TLC

CONSTANTS t1, t2, f1, f2, d1, a, b, h1, h2, h3, h4, s1, s2, s3, s4

OneThread == {t1}
TwoThreads == {t1, t2}
HashSymmetry == Permutations(Hashes) \cup Permutations(Slots)

(* One thread changes every file, with every content. *)
AllFiles == [t \in Threads |-> Files]
AllContents == [t \in Threads |-> Contents]

(* Two threads with files and contents of their own. *)
OwnFiles == (t1 :> {f1}) @@ (t2 :> {f2})
OwnContents == (t1 :> {a}) @@ (t2 :> {b})

(* The same content in files of different threads. *)
SharedContents == [t \in Threads |-> Contents]
=============================================================================
