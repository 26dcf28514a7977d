---------------------------- MODULE MetadataWriter ----------------------------
(***************************************************************************)
(* The threads that store the file system: unloadBuckets starts one that   *)
(* waits and stores (fs.cpp:830-854), the destructor of fs stores at the   *)
(* end (:84-109). Both run storeMetadata (:368-396), which stores the      *)
(* metadata buckets that count a change and then the data buckets. Only a  *)
(* writer thread first writes the list of the data buckets into the        *)
(* metadata of the root (:371-388): the destructor has reset root before.  *)
(*                                                                         *)
(*   pc         of the writer threads and of the destructor                *)
(*   call       of the threads of FUSE: "tracked" calls hold a             *)
(*              trackedChange (mkdir, unlink, ...), the others do not      *)
(*              (write, close)                                             *)
(*   inUse      the data buckets handed out by createBuckets and not       *)
(*              released since (bucketsInUse)                              *)
(*   dirtyData, dirtyMeta  the buckets that count a change                 *)
(*   memText, diskText  what the records of the root's metadata hold: the  *)
(*              list they were written for                                 *)
(*   placed     the metadata bucket each of these records is in            *)
(*   asked      buckets changed by calls that went through unloadBuckets   *)
(*              and not stored since (no variable of the code)             *)
(*   quiet      buckets changed since the last list was written, by no     *)
(*              call that went through unloadBuckets (no variable either)  *)
(*                                                                         *)
(* FUSE destroys a file system when no call is left; calls that began may  *)
(* end while the destructor waits if they are tracked. A writer thread     *)
(* that waits for a lock is counted nowhere: it may be left when fs is     *)
(* gone, and what it does with the locks of an object that is no more is   *)
(* not modelled.                                                           *)
(*                                                                         *)
(* Bounds: MaxCalls calls, and as many threads as calls can start;         *)
(* PerRecord buckets are listed in one record.                             *)
(***************************************************************************)
EXTENDS Integers, FiniteSets

CONSTANTS Callers, Writers, DataIds, destructor, Nobody, NoText, PerRecord, MaxCalls

ASSUME WriterAssumption ==
  /\ PerRecord \in Nat \ {0} /\ MaxCalls \in Nat
  /\ Cardinality(Writers) >= MaxCalls
  /\ IsFiniteSet(Writers) /\ IsFiniteSet(Callers)
  /\ \A ids \in SUBSET DataIds : ids # NoText
  /\ destructor \notin Writers \cup Callers /\ Writers \cap Callers = {}
  /\ Nobody \notin Writers \cup Callers \cup {destructor}

VARIABLES pc, call, outstandingChanges, outstandingWrites, actualWriting,
          inUse, dirtyData, dirtyMeta, memText, diskText, placed, asked, quiet, calls

locks == <<outstandingWrites, actualWriting>>
list == <<memText, diskText, placed>>
ghosts == <<asked, quiet>>
data == <<inUse, dirtyData, dirtyMeta, list>>
vars == <<pc, call, outstandingChanges, locks, data, ghosts, calls>>

Agents == Writers \cup {destructor}
MetaIds == {1, 2}
rootBucket == 1
Records == {1, 2}

(* The number of records a list of buckets needs. *)
NumRecords(ids) == IF Cardinality(ids) <= PerRecord THEN 1 ELSE 2

Init ==
  /\ pc = [x \in Agents |-> IF x = destructor THEN "up" ELSE "none"]
  /\ call = [c \in Callers |-> [kind |-> "none", at |-> "out", in |-> {}]]
  /\ outstandingChanges = 0
  /\ outstandingWrites = Nobody /\ actualWriting = Nobody
  /\ inUse = {} /\ dirtyData = {} /\ dirtyMeta = {}
  /\ memText = [r \in Records |-> IF r = 1 THEN {} ELSE NoText]
  /\ diskText = memText
  /\ placed = [r \in Records |-> rootBucket]
  /\ asked = {} /\ quiet = {} /\ calls = 0

-----------------------------------------------------------------------------
(* The calls.                                                              *)

(* trackedChange counts the call while it runs. *)
Begin(c, kind) ==
  /\ pc[destructor] = "up" /\ call[c].at = "out" /\ calls < MaxCalls
  /\ call' = [call EXCEPT ![c] = [kind |-> kind, at |-> "in", in |-> {}]]
  /\ outstandingChanges' = outstandingChanges + (IF kind = "tracked" THEN 1 ELSE 0)
  /\ calls' = calls + 1
  /\ UNCHANGED <<pc, locks, data, ghosts>>

(* The call puts something into a bucket, or takes the last thing out. *)
Change(c, b) ==
  /\ call[c].at = "in" /\ call[c].in = {}
  /\ inUse' \in {inUse \cup {b}, inUse \ {b}}
  /\ dirtyData' = dirtyData \cup {b}
  /\ quiet' = quiet \cup {b}
  /\ call' = [call EXCEPT ![c].in = {b}]
  /\ UNCHANGED <<pc, outstandingChanges, locks, dirtyMeta, list, asked, calls>>

(* rest: the inode of the file is stored in its bucket, which counts it. *)
Rest(c, m) ==
  /\ call[c].at = "in" /\ call[c].in # {}
  /\ dirtyMeta' = dirtyMeta \cup {m}
  /\ call' = [call EXCEPT ![c].at = "unload", ![c].in = @ \cup {m}]
  /\ UNCHANGED <<pc, outstandingChanges, locks, inUse, dirtyData, list, ghosts, calls>>

(* Faulty: the thread is started only when none stores. *)
TryLockBoth(c) ==
  /\ call[c].at = "unload"
  /\ IF outstandingWrites = Nobody /\ actualWriting = Nobody
     THEN /\ outstandingWrites' = c /\ call' = [call EXCEPT ![c].at = "start"]
     ELSE /\ UNCHANGED outstandingWrites /\ call' = [call EXCEPT ![c].at = "end"]
  /\ asked' = asked \cup call[c].in
  /\ quiet' = quiet \ call[c].in
  /\ UNCHANGED <<pc, outstandingChanges, actualWriting, data, calls>>

(* unloadBuckets: a thread that waits already will store this change too.  *)
TryLock(c) ==
  /\ call[c].at = "unload"
  /\ IF outstandingWrites = Nobody
     THEN /\ outstandingWrites' = c /\ call' = [call EXCEPT ![c].at = "start"]
     ELSE /\ UNCHANGED outstandingWrites /\ call' = [call EXCEPT ![c].at = "end"]
  /\ asked' = asked \cup call[c].in
  /\ quiet' = quiet \ call[c].in
  /\ UNCHANGED <<pc, outstandingChanges, actualWriting, data, calls>>

(* There are as many threads as calls. *)
StartThread(c) ==
  LET free == {w \in Writers : pc[w] = "none"} IN
  /\ call[c].at = "start" /\ free # {}
  /\ pc' = [pc EXCEPT ![CHOOSE w \in free : TRUE] = "started"]
  /\ outstandingWrites' = Nobody
  /\ call' = [call EXCEPT ![c].at = "end"]
  /\ UNCHANGED <<outstandingChanges, actualWriting, data, ghosts, calls>>

(* Faulty: a call that ends without unloadBuckets stays counted. *)
EndUncounted(c) ==
  /\ call[c].at \in {"in", "end"}
  /\ outstandingChanges' =
       outstandingChanges - (IF call[c].kind = "tracked" /\ call[c].at = "end" THEN 1 ELSE 0)
  /\ call' = [call EXCEPT ![c] = [kind |-> "none", at |-> "out", in |-> {}]]
  /\ UNCHANGED <<pc, locks, data, ghosts, calls>>

(* A call may end without unloadBuckets (mkdir). *)
End(c) ==
  /\ call[c].at \in {"in", "end"}
  /\ outstandingChanges' = outstandingChanges - (IF call[c].kind = "tracked" THEN 1 ELSE 0)
  /\ call' = [call EXCEPT ![c] = [kind |-> "none", at |-> "out", in |-> {}]]
  /\ UNCHANGED <<pc, locks, data, ghosts, calls>>

-----------------------------------------------------------------------------
(* The writer thread.                                                      *)

FallAsleep(w) ==
  /\ pc[w] = "started" /\ outstandingWrites = Nobody
  /\ outstandingWrites' = w
  /\ pc' = [pc EXCEPT ![w] = "asleep"]
  /\ UNCHANGED <<call, outstandingChanges, actualWriting, data, ghosts, calls>>

WakeUp(w) ==
  /\ pc[w] = "asleep"
  /\ outstandingWrites' = Nobody
  /\ pc' = [pc EXCEPT ![w] = "awake"]
  /\ UNCHANGED <<call, outstandingChanges, actualWriting, data, ghosts, calls>>

LockWriting(w) ==
  /\ pc[w] = "awake" /\ actualWriting = Nobody
  /\ actualWriting' = w
  /\ pc' = [pc EXCEPT ![w] = "list"]
  /\ UNCHANGED <<call, outstandingChanges, outstandingWrites, data, ghosts, calls>>

-----------------------------------------------------------------------------
(* storeMetadata, by a writer or by the destructor.                        *)

(* Faulty: only a record that has to be made is written. *)
SetListNew(w) ==
  LET used == 1 .. NumRecords(inUse)
      new == {r \in used : memText[r] = NoText} IN
  /\ pc[w] = "list"
  /\ \E m \in MetaIds : placed' = [r \in Records |-> IF r \in new THEN m ELSE placed[r]]
  /\ memText' = [r \in Records |-> IF r \in new THEN inUse ELSE memText[r]]
  /\ dirtyMeta' = dirtyMeta \cup {placed'[r] : r \in new}
  /\ quiet' = {}
  /\ pc' = [pc EXCEPT ![w] = "meta"]
  /\ UNCHANGED <<call, outstandingChanges, locks, inUse, dirtyData, diskText, asked, calls>>

(* storeMetaDataInINode writes into the records where they are, and counts *)
(* no change; a record it has to make gets an index of any bucket, and is  *)
(* stored in it, which counts that.                                        *)
SetList(w) ==
  LET used == 1 .. NumRecords(inUse)
      new == {r \in used : memText[r] = NoText} IN
  /\ pc[w] = "list"
  /\ \E m \in MetaIds : placed' = [r \in Records |-> IF r \in new THEN m ELSE placed[r]]
  /\ memText' = [r \in Records |-> IF r \in used THEN inUse ELSE memText[r]]
  /\ dirtyMeta' = dirtyMeta \cup {placed'[r] : r \in new}
  /\ quiet' = {}
  /\ pc' = [pc EXCEPT ![w] = "meta"]
  /\ UNCHANGED <<call, outstandingChanges, locks, inUse, dirtyData, diskText, asked, calls>>

(* A bucket that counts no change is not written (bucket.cpp:219). *)
StoreMeta(x) ==
  /\ pc[x] = "meta"
  /\ diskText' = [r \in Records |-> IF placed[r] \in dirtyMeta THEN memText[r] ELSE diskText[r]]
  /\ dirtyMeta' = {}
  /\ asked' = asked \ MetaIds
  /\ pc' = [pc EXCEPT ![x] = "data"]
  /\ UNCHANGED <<call, outstandingChanges, locks, inUse, dirtyData, memText, placed, quiet, calls>>

(* The last step; a writer ends and the destructor is done. *)
StoreData(x) ==
  /\ pc[x] = "data"
  /\ dirtyData' = {}
  /\ asked' = asked \ DataIds
  /\ pc' = [pc EXCEPT ![x] = IF x = destructor THEN "gone" ELSE "none"]
  /\ actualWriting' = Nobody
  /\ outstandingWrites' = IF x = destructor THEN Nobody ELSE outstandingWrites
  /\ UNCHANGED <<call, outstandingChanges, inUse, dirtyMeta, list, quiet, calls>>

-----------------------------------------------------------------------------
(* The destructor.                                                         *)

Stop ==
  /\ pc[destructor] = "up"
  /\ \A c \in Callers : call[c].at # "out" => call[c].kind = "tracked"
  /\ pc' = [pc EXCEPT ![destructor] = "waiting"]
  /\ UNCHANGED <<call, outstandingChanges, locks, data, ghosts, calls>>

LockOutstanding ==
  /\ pc[destructor] = "waiting"
  /\ outstandingChanges = 0 /\ outstandingWrites = Nobody
  /\ outstandingWrites' = destructor
  /\ pc' = [pc EXCEPT ![destructor] = "first"]
  /\ UNCHANGED <<call, outstandingChanges, actualWriting, data, ghosts, calls>>

(* Faulty: a writer that stores is not waited for. *)
LockActualAtOnce ==
  /\ pc[destructor] = "first"
  /\ actualWriting' = destructor
  /\ pc' = [pc EXCEPT ![destructor] = "rest"]
  /\ UNCHANGED <<call, outstandingChanges, outstandingWrites, data, ghosts, calls>>

LockActual ==
  /\ pc[destructor] = "first" /\ actualWriting = Nobody
  /\ actualWriting' = destructor
  /\ pc' = [pc EXCEPT ![destructor] = "rest"]
  /\ UNCHANGED <<call, outstandingChanges, outstandingWrites, data, ghosts, calls>>

(* Faulty: the root is not rested before the store. *)
CloseFilesOnly ==
  /\ pc[destructor] = "rest"
  /\ \E m \in SUBSET MetaIds : dirtyMeta' = dirtyMeta \cup m
  /\ pc' = [pc EXCEPT ![destructor] = "meta"]
  /\ UNCHANGED <<call, outstandingChanges, locks, inUse, dirtyData, list, ghosts, calls>>

(* The root is rested, and with it the files that are open: their inodes   *)
(* are stored, and the buckets count that. Then root is reset, so that     *)
(* storeMetadata writes no list.                                           *)
CloseFiles ==
  /\ pc[destructor] = "rest"
  /\ \E m \in SUBSET MetaIds : dirtyMeta' = dirtyMeta \cup m \cup {rootBucket}
  /\ pc' = [pc EXCEPT ![destructor] = "meta"]
  /\ UNCHANGED <<call, outstandingChanges, locks, inUse, dirtyData, list, ghosts, calls>>

-----------------------------------------------------------------------------
Caller(c) ==
  \/ \E b \in DataIds : Change(c, b)
  \/ \E m \in MetaIds : Rest(c, m)
  \/ TryLock(c)
  \/ StartThread(c)
  \/ End(c)

storeAllData(x) == StoreMeta(x) \/ StoreData(x)
Writer(w) ==
  /\ pc[destructor] # "gone"
  /\ FallAsleep(w) \/ WakeUp(w) \/ LockWriting(w) \/ SetList(w) \/ storeAllData(w)
Destructor == LockOutstanding \/ LockActual \/ CloseFiles \/ storeAllData(destructor)

Next ==
  \/ \E c \in Callers, kind \in {"tracked", "untracked"} : Begin(c, kind)
  \/ \E c \in Callers : Caller(c)
  \/ \E w \in Writers : Writer(w)
  \/ Stop \/ Destructor

(* Threads run and calls end; whether the file system is ever unmounted is *)
(* up to the user. The lock a thread waits for is given to it in the end.  *)
Spec ==
  /\ Init /\ [][Next]_vars
  /\ \A c \in Callers : WF_vars(Caller(c))
  /\ \A w \in Writers : SF_vars(Writer(w))
  /\ SF_vars(Destructor)

-----------------------------------------------------------------------------
(* Writers that wait for a lock, which nothing counts. *)
Waiting == {w \in Writers : pc[w] \in {"started", "awake"}}

(* When fs is gone, every bucket that was changed is on disk, and with it  *)
(* what writer threads wrote into the records of the root's metadata, in   *)
(* place and uncounted, as far as these are in the bucket of the root: the *)
(* destructor rests the root (fs.cpp:92, :105-107, :145-159, :389).        *)
ShutdownComplete ==
  pc[destructor] = "gone" =>
    /\ dirtyData = {} /\ dirtyMeta = {}
    /\ \A r \in Records : placed[r] = rootBucket => diskText[r] = memText[r]

(* The list the next mount loads its buckets from is written by writer     *)
(* threads only, and it is current all the same for every bucket whose     *)
(* last change was followed by unloadBuckets, if no writer is left waiting *)
(* and its records are in the bucket of the root (fs.cpp:371-388,          *)
(* :833-849; the list is read at :239-240).                                *)
ListCovers ==
  pc[destructor] = "gone" /\ Waiting = {} =>
    \A b \in DataIds \ quiet, r \in 1 .. NumRecords(diskText[1]) :
      placed[r] = rootBucket => (b \in inUse <=> b \in diskText[r])

(* When fs is gone, no call runs and no thread sleeps or stores: they were *)
(* waited for. A writer that is left is one that waits for a lock          *)
(* (fs.cpp:86-91, :835-849).                                               *)
NobodyLeft ==
  pc[destructor] = "gone" =>
    /\ \A w \in Writers \ Waiting : pc[w] = "none"
    /\ \A c \in Callers : call[c].at = "out"

(* What the comment of storeMetadata says of every store (fs.cpp:376): the *)
(* list of buckets is stored with it. The code keeps no such promise when  *)
(* the last changes of the buckets asked for no writer thread.             *)
ListStored ==
  pc[destructor] = "gone" /\ Waiting = {} =>
    \A r \in 1 .. NumRecords(inUse) : placed[r] = rootBucket => diskText[r] = inUse

(* What a call changed before it asked for a store is stored in the end,   *)
(* though unloadBuckets starts no thread while one waits: that thread must *)
(* not have read the bucket yet (fs.cpp:833, :838-846).                    *)
ChangesReachDisk == \A b \in DataIds \cup MetaIds : (b \in asked) ~> (b \notin asked)

(* An unmount ends, whatever the threads are doing (fs.cpp:86-91). *)
ShutdownEnds == (pc[destructor] = "waiting") ~> (pc[destructor] = "gone")
=============================================================================
