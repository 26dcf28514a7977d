------------------------------- MODULE RWLock -------------------------------
(***************************************************************************)
(* What util::shared_recursive_mutex promises the code that takes it: one  *)
(* thread at a time inside a unique section, which it may enter again      *)
(* while inside, or any number of threads inside shared sections.          *)
(*                                                                         *)
(* depth[t] is the number of unique sections thread t is inside; readers   *)
(* is the set of threads inside a shared section.                          *)
(***************************************************************************)
EXTENDS Naturals

CONSTANT Threads

VARIABLES depth, readers

lockVars == <<depth, readers>>

Unlocked == \A t \in Threads : depth[t] = 0

Init ==
  /\ depth = [t \in Threads |-> 0]
  /\ readers = {}

(* The first unique section of t: nobody else is inside any section. *)
Enter(t) ==
  /\ Unlocked
  /\ readers = {}
  /\ depth' = [depth EXCEPT ![t] = 1]
  /\ UNCHANGED readers

(* The owner enters again. *)
Reenter(t) ==
  /\ depth[t] > 0
  /\ depth' = [depth EXCEPT ![t] = @ + 1]
  /\ UNCHANGED readers

Leave(t) ==
  /\ depth[t] > 0
  /\ depth' = [depth EXCEPT ![t] = @ - 1]
  /\ UNCHANGED readers

EnterShared(t) ==
  /\ Unlocked
  /\ t \notin readers
  /\ readers' = readers \cup {t}
  /\ UNCHANGED depth

LeaveShared(t) ==
  /\ t \in readers
  /\ readers' = readers \ {t}
  /\ UNCHANGED depth

Next == \E t \in Threads :
  Enter(t) \/ Reenter(t) \/ Leave(t) \/ EnterShared(t) \/ LeaveShared(t)

Spec == Init /\ [][Next]_lockVars

-----------------------------------------------------------------------------
(* A unique section excludes the unique and shared sections of every other *)
(* thread: what file.cpp relies on for unaligned writes, truncates and     *)
(* directory updates (file.cpp:521, 707-714, 828, 870).                    *)
Exclusion ==
  \A t, u \in Threads :
     depth[t] > 0 => /\ u # t => depth[u] = 0
                     /\ readers = {}
=============================================================================
