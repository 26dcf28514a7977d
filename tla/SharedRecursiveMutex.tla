------------------------ MODULE SharedRecursiveMutex ------------------------
(***************************************************************************)
(* util/shared_recursive_mutex.cpp, one action per atomic operation on the *)
(* lock's fields:                                                          *)
(*                                                                         *)
(*   lck           the spin flag (std::atomic_flag)                        *)
(*   owner         the thread inside a unique section (NoThread: none).    *)
(*                 The field is not atomic, but a thread only compares it  *)
(*                 with its own id, which nobody else ever stores          *)
(*   count         recursion depth of the owner                            *)
(*   shared_locks  number of shared sections                               *)
(*                                                                         *)
(* at[t] is where thread t is inside the lock's code ("out": in its own).  *)
(* depth and readers record what the calling code believes it holds: the   *)
(* sections entered by calls that returned and not left by a later call.   *)
(*                                                                         *)
(* The callers are those of the code: file.cpp nests unique sections, asks *)
(* hasUniqueLock before it takes a shared one (file.cpp:615, 712) and asks *)
(* for no section of the same lock while inside a shared one.              *)
(*                                                                         *)
(* Bound: MaxDepth, the nesting of unique sections in the callers.         *)
(***************************************************************************)
EXTENDS Integers, FiniteSets

CONSTANTS Threads, NoThread, MaxDepth

ASSUME ThreadsAssumption ==
  /\ IsFiniteSet(Threads)
  /\ NoThread \notin Threads
  /\ MaxDepth \in Nat \ {0}

VARIABLES lck, owner, count, shared_locks, at, depth, readers

flagVars == <<lck, owner, count, shared_locks>>
callerVars == <<depth, readers>>
mutexVars == <<lck, owner, count, shared_locks, at, depth, readers>>

Labels == {"out", "lock_tas", "lock_wait", "lock_owner", "lock_count",
           "try_tas", "try_wait", "try_back",
           "unlock_owner", "unlock_count", "unlock_clear",
           "shared_tas", "shared_inc", "shared_clear", "tryshared_tas"}

MutexInit ==
  /\ lck = "clear"
  /\ owner = NoThread
  /\ count = 0
  /\ shared_locks = 0
  /\ at = [t \in Threads |-> "out"]
  /\ depth = [t \in Threads |-> 0]
  /\ readers = {}

Goto(t, label) == at' = [at EXCEPT ![t] = label]

hasUniqueLock(t) == owner = t

(* The test of test_and_set succeeds: the flag was clear and is now set. *)
AcquireFlag ==
  /\ lck = "clear"
  /\ lck' = "set"

-----------------------------------------------------------------------------
(* Faulty versions of the operations, each with one mistake a change to    *)
(* the code could make. No action uses them: a run in which one takes the  *)
(* place of the operation it is named after must break a property.         *)

TryWaitNotLooking(t) ==
  /\ at[t] = "try_wait"
  /\ Goto(t, "lock_owner")
  /\ UNCHANGED <<flagVars, callerVars>>

TryBackKeepingFlag(t) ==
  /\ at[t] = "try_back"
  /\ Goto(t, "out")
  /\ UNCHANGED <<flagVars, callerVars>>

SharedTasWithoutFlag(t) ==
  /\ at[t] = "shared_tas"
  /\ lck' = "set"
  /\ Goto(t, "shared_inc")
  /\ UNCHANGED <<owner, count, shared_locks, callerVars>>

SharedIncStoring(t) ==
  /\ at[t] = "shared_inc"
  /\ shared_locks' = 1
  /\ Goto(t, "shared_clear")
  /\ UNCHANGED <<lck, owner, count, callerVars>>

UnlockSharedNotCounted(t) ==
  /\ at[t] = "out"
  /\ t \in readers
  /\ readers' = readers \ {t}
  /\ UNCHANGED <<flagVars, at, depth>>

-----------------------------------------------------------------------------
(* lock(), :15-30, and try_lock(), :31-49 *)

(* A caller inside a unique section enters again (either call). *)
Relock(t) ==
  /\ at[t] = "out"
  /\ owner = t
  /\ depth[t] < MaxDepth
  /\ count' = count + 1
  /\ depth' = [depth EXCEPT ![t] = @ + 1]
  /\ UNCHANGED <<lck, owner, shared_locks, at, readers>>

Lock(t) ==
  /\ at[t] = "out"
  /\ t \notin readers
  /\ owner # t
  /\ Goto(t, "lock_tas")
  /\ UNCHANGED <<flagVars, callerVars>>

LockTas(t) ==
  /\ at[t] = "lock_tas"
  /\ AcquireFlag
  /\ Goto(t, "lock_wait")
  /\ UNCHANGED <<owner, count, shared_locks, callerVars>>

LockWait(t) ==
  /\ at[t] = "lock_wait"
  /\ ~(shared_locks > 0)
  /\ Goto(t, "lock_owner")
  /\ UNCHANGED <<flagVars, callerVars>>

LockOwner(t) ==
  /\ at[t] = "lock_owner"
  /\ owner' = t
  /\ Goto(t, "lock_count")
  /\ UNCHANGED <<lck, count, shared_locks, callerVars>>

LockCount(t) ==
  /\ at[t] = "lock_count"
  /\ count' = 1
  /\ depth' = [depth EXCEPT ![t] = 1]
  /\ Goto(t, "out")
  /\ UNCHANGED <<lck, owner, shared_locks, readers>>

try_lock(t) ==
  /\ at[t] = "out"
  /\ t \notin readers
  /\ owner # t
  /\ Goto(t, "try_tas")
  /\ UNCHANGED <<flagVars, callerVars>>

TryTas(t) ==
  /\ at[t] = "try_tas"
  /\ \/ AcquireFlag /\ Goto(t, "try_wait")
     \/ lck = "set" /\ Goto(t, "out") /\ UNCHANGED lck
  /\ UNCHANGED <<owner, count, shared_locks, callerVars>>

(* No spinning here: with readers inside, the flag is given back. *)
TryWait(t) ==
  /\ at[t] = "try_wait"
  /\ Goto(t, IF shared_locks > 0 THEN "try_back" ELSE "lock_owner")
  /\ UNCHANGED <<flagVars, callerVars>>

TryBack(t) ==
  /\ at[t] = "try_back"
  /\ lck' = "clear"
  /\ Goto(t, "out")
  /\ UNCHANGED <<owner, count, shared_locks, callerVars>>

-----------------------------------------------------------------------------
(* unlock(), :50-60. The caller's section ends when it makes the call.     *)

Unlock(t) ==
  /\ at[t] = "out"
  /\ depth[t] > 0
  /\ depth' = [depth EXCEPT ![t] = @ - 1]
  /\ IF count > 1
       THEN count' = count - 1 /\ UNCHANGED at
       ELSE Goto(t, "unlock_owner") /\ UNCHANGED count
  /\ UNCHANGED <<lck, owner, shared_locks, readers>>

UnlockOwner(t) ==
  /\ at[t] = "unlock_owner"
  /\ owner' = NoThread
  /\ Goto(t, "unlock_count")
  /\ UNCHANGED <<lck, count, shared_locks, callerVars>>

UnlockCount(t) ==
  /\ at[t] = "unlock_count"
  /\ count' = 0
  /\ Goto(t, "unlock_clear")
  /\ UNCHANGED <<lck, owner, shared_locks, callerVars>>

UnlockClear(t) ==
  /\ at[t] = "unlock_clear"
  /\ lck' = "clear"
  /\ Goto(t, "out")
  /\ UNCHANGED <<owner, count, shared_locks, callerVars>>

-----------------------------------------------------------------------------
(* lock_shared(), :62-74, try_lock_shared(), :76-84, unlock_shared(), :86. *)
(* The caller has asked hasUniqueLock first; lock_shared asserts the same. *)

LockShared(t) ==
  /\ at[t] = "out"
  /\ t \notin readers
  /\ ~hasUniqueLock(t)
  /\ Goto(t, "shared_tas")
  /\ UNCHANGED <<flagVars, callerVars>>

SharedTas(t) ==
  /\ at[t] = "shared_tas"
  /\ AcquireFlag
  /\ Goto(t, "shared_inc")
  /\ UNCHANGED <<owner, count, shared_locks, callerVars>>

SharedInc(t) ==
  /\ at[t] = "shared_inc"
  /\ shared_locks' = shared_locks + 1
  /\ Goto(t, "shared_clear")
  /\ UNCHANGED <<lck, owner, count, callerVars>>

SharedClear(t) ==
  /\ at[t] = "shared_clear"
  /\ lck' = "clear"
  /\ readers' = readers \cup {t}
  /\ Goto(t, "out")
  /\ UNCHANGED <<owner, count, shared_locks, depth>>

TryLockShared(t) ==
  /\ at[t] = "out"
  /\ t \notin readers
  /\ ~hasUniqueLock(t)
  /\ Goto(t, "tryshared_tas")
  /\ UNCHANGED <<flagVars, callerVars>>

TrySharedTas(t) ==
  /\ at[t] = "tryshared_tas"
  /\ \/ AcquireFlag /\ Goto(t, "shared_inc")
     \/ lck = "set" /\ Goto(t, "out") /\ UNCHANGED lck
  /\ UNCHANGED <<owner, count, shared_locks, callerVars>>

UnlockShared(t) ==
  /\ at[t] = "out"
  /\ t \in readers
  /\ readers' = readers \ {t}
  /\ shared_locks' = shared_locks - 1
  /\ UNCHANGED <<lck, owner, count, at, depth>>

-----------------------------------------------------------------------------
UniqueStep(t) ==
  \/ LockTas(t) \/ LockWait(t) \/ LockOwner(t) \/ LockCount(t)
  \/ TryTas(t) \/ TryWait(t) \/ TryBack(t)
  \/ UnlockOwner(t) \/ UnlockCount(t) \/ UnlockClear(t)

SharedStep(t) ==
  SharedTas(t) \/ SharedInc(t) \/ SharedClear(t) \/ TrySharedTas(t)

Call(t) ==
  Relock(t) \/ Lock(t) \/ try_lock(t) \/ LockShared(t) \/ TryLockShared(t)

Return(t) == Unlock(t) \/ UnlockShared(t)

MutexNext ==
  \E t \in Threads : UniqueStep(t) \/ SharedStep(t) \/ Call(t) \/ Return(t)

MutexSpec == MutexInit /\ [][MutexNext]_mutexVars

(* Every thread inside the lock's code keeps running, and every section    *)
(* ends: the sections of file.cpp are loops over the chunks of one call.   *)
(* Nothing obliges a thread to call.                                       *)
Fairness == \A t \in Threads :
  /\ WF_mutexVars(UniqueStep(t))
  /\ WF_mutexVars(SharedStep(t))
  /\ WF_mutexVars(Return(t))

FairSpec == MutexSpec /\ Fairness

-----------------------------------------------------------------------------
TypeOK ==
  /\ lck \in {"clear", "set"}
  /\ owner \in Threads \cup {NoThread}
  /\ count \in Nat
  /\ shared_locks \in Int
  /\ at \in [Threads -> Labels]
  /\ depth \in [Threads -> Nat]
  /\ readers \subseteq Threads

(* Thread t is the one that set lck. *)
HoldsFlag(t) ==
  \/ depth[t] > 0
  \/ at[t] \in {"lock_wait", "lock_owner", "lock_count", "try_wait", "try_back",
                "unlock_owner", "unlock_count", "unlock_clear",
                "shared_inc", "shared_clear"}

(* Thread t has seen shared_locks at 0 with lck set and not yet released. *)
PastWait(t) ==
  \/ depth[t] > 0
  \/ at[t] \in {"lock_owner", "lock_count",
                "unlock_owner", "unlock_count", "unlock_clear"}

(* The threads counted in shared_locks. *)
Counted == readers \cup {t \in Threads : at[t] = "shared_clear"}

(* lck is set exactly while one thread holds it. A second holder, or a     *)
(* clear by a thread that is not the holder, breaks the spin lock.         *)
FlagOwned ==
  /\ \A t, u \in Threads : HoldsFlag(t) /\ HoldsFlag(u) => t = u
  /\ lck = "set" <=> \E t \in Threads : HoldsFlag(t)

(* Only the thread inside the unique section finds its id in owner, so     *)
(* hasUniqueLock (:92-98) and the recursive branch of lock (:17) are right *)
(* for every caller, whatever the others are doing.                        *)
OwnerExact ==
  \A t \in Threads :
     owner = t <=> depth[t] > 0 \/ at[t] \in {"lock_count", "unlock_owner"}

(* The recursion count is the caller's nesting: the outermost unlock, and  *)
(* no other, releases the lock (:51-59).                                   *)
CountExact == \A t \in Threads : depth[t] > 0 => count = depth[t]

(* shared_locks counts the threads inside shared sections. It never goes   *)
(* below zero, which the assertion at :89 looks for one decrement late: it *)
(* tests the value the field had before the decrement.                     *)
SharedExact == shared_locks = Cardinality(Counted)

(* A writer inside excludes every reader. *)
WriterAlone == \A t \in Threads : PastWait(t) => Counted = {}

(* The code inside the lock is not entered from inside a section. *)
Outside == \A t \in Threads :
  /\ depth[t] > 0 => at[t] = "out"
  /\ t \in readers => at[t] = "out" /\ depth[t] = 0

LockInv ==
  TypeOK /\ FlagOwned /\ OwnerExact /\ CountExact /\ SharedExact
         /\ WriterAlone /\ Outside

RW == INSTANCE RWLock

(* A unique section excludes every other section (file.cpp:521, 870). *)
Exclusion == RW!Exclusion

(* What the callers see is the abstract readers-writer lock. *)
RWSpec == RW!Spec

-----------------------------------------------------------------------------
(* A writer that has set lck gets in: readers can no longer enter, and the *)
(* ones inside leave, so no stream of reads holds it up (:21-28, :66).     *)
WriterDrains == \A t \in Threads : at[t] = "lock_wait" ~> depth[t] > 0

(* Some waiting caller always gets in: the spin lock may starve a thread,  *)
(* but not everybody.                                                      *)
SomebodyEnters ==
  (\E t \in Threads : at[t] \in {"lock_tas", "shared_tas"})
     ~> (\E t \in Threads : depth[t] > 0 \/ t \in readers)
=============================================================================
