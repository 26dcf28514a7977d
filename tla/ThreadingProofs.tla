--------------------------- MODULE ThreadingProofs ---------------------------
(***************************************************************************)
(* Proofs about the threads of the program: the metadata writer, the       *)
(* callers and the destructor (MetadataWriter), and the lock of each file  *)
(* (SharedRecursiveMutex).                                                 *)
(*                                                                         *)
(* What an unmount leaves, for any callers, writer threads and buckets.    *)
(* ShutdownInv says who holds which lock at each place, that               *)
(* outstandingChanges counts the tracked calls, what the destructor has    *)
(* established at each of its steps, and that the list of buckets in       *)
(* memory is current or somebody is there who will write it.               *)
(*                                                                         *)
(* What the lock does, for any finite set of threads and any nesting: its  *)
(* fields agree with what its callers hold, and the callers see a          *)
(* readers-writer lock.                                                    *)
(***************************************************************************)
EXTENDS MetadataWriter, SharedRecursiveMutex, FiniteSetTheorems, TLAPS

AgentLabels == {"none", "started", "asleep", "awake", "up", "waiting", "first", "rest",
           "list", "meta", "data", "gone"}
Places == {"out", "in", "unload", "start", "end"}
Kinds == {"none", "tracked", "untracked"}

Types ==
  /\ pc \in [Agents -> AgentLabels]
  /\ \A w \in Writers : pc[w] \notin {"up", "waiting", "first", "rest", "gone"}
  /\ pc[destructor] \notin {"none", "started", "asleep", "awake", "list"}
  /\ call \in [Callers -> [kind : Kinds, at : Places, in : SUBSET (DataIds \cup MetaIds)]]
  /\ outstandingChanges \in Nat
  /\ inUse \in SUBSET DataIds
  /\ placed \in [Records -> MetaIds]
  /\ DOMAIN memText = Records /\ DOMAIN diskText = Records

Tracked == {c \in Callers : call[c].kind = "tracked"}
Counts ==
  /\ \A c \in Callers : call[c].kind = "none" <=> call[c].at = "out"
  /\ outstandingChanges = Cardinality(Tracked)

Stopping == {"waiting", "first", "rest", "meta", "data", "gone"}
Alone == {"first", "rest", "meta", "data", "gone"}
Storing == {"list", "meta", "data"}

HoldsOutstanding(x) ==
  \/ x \in Writers /\ pc[x] = "asleep"
  \/ x \in Callers /\ call[x].at = "start"
  \/ x = destructor /\ pc[x] \in Alone \ {"gone"}
HoldsActual(x) ==
  \/ x \in Agents /\ pc[x] \in Storing
  \/ x = destructor /\ pc[x] = "rest"
Locks ==
  /\ \A x \in Agents \cup Callers : HoldsOutstanding(x) => outstandingWrites = x
  /\ outstandingWrites # Nobody => HoldsOutstanding(outstandingWrites)
  /\ \A x \in Agents : HoldsActual(x) => actualWriting = x

(* What the destructor may rely on. *)
Ending ==
  /\ pc[destructor] \in Stopping => \A c \in Callers : call[c].kind # "untracked"
  /\ pc[destructor] \in Alone => \A c \in Callers : call[c].at = "out"
  /\ pc[destructor] = "gone" => \A w \in Writers : pc[w] \in {"none", "started", "awake"}

RootOnDisk == \A r \in Records : placed[r] = rootBucket => diskText[r] = memText[r]
Stored ==
  /\ pc[destructor] = "meta" => rootBucket \in dirtyMeta
  /\ pc[destructor] \in {"data", "gone"} => dirtyMeta = {} /\ RootOnDisk
  /\ pc[destructor] = "gone" => dirtyData = {}

(* The list in memory is current, or somebody is there who will write it.  *)
ToWrite ==
  \/ \E w \in Writers : pc[w] \in {"started", "asleep", "awake", "list"}
  \/ \E c \in Callers : call[c].at = "start"
Current == \A b \in DataIds \ quiet : b \in inUse <=> b \in memText[1]
Listed ==
  /\ memText[1] \in SUBSET DataIds /\ placed[1] = rootBucket
  /\ \A r \in 1 .. NumRecords(memText[1]) : memText[r] = memText[1]
  /\ ToWrite \/ Current

ShutdownInv == Types /\ Counts /\ Locks /\ Ending /\ Stored /\ Listed

-----------------------------------------------------------------------------
LEMMA RecordNumbers ==
  /\ \A ids : NumRecords(ids) \in {1, 2}
  /\ \A ids : 1 .. NumRecords(ids) \subseteq Records
  /\ 1 \in Records
  BY DEF NumRecords, Records

LEMMA InitShutdown == Init => ShutdownInv
<1> SUFFICES ASSUME Init PROVE ShutdownInv
  OBVIOUS
<1>1. Types
  BY WriterAssumption
     DEF Init, Types, AgentLabels, Kinds, Places, Agents, Records, MetaIds, rootBucket
<1>2. Counts
  <2>1. Tracked = {}
    BY DEF Init, Tracked
  <2> QED BY <2>1, FS_EmptySet DEF Init, Counts
<1>3. Locks
  BY WriterAssumption DEF Init, Locks, HoldsOutstanding, HoldsActual, Agents, Storing, Alone
<1>4. Ending /\ Stored
  BY DEF Init, Ending, Stored, Stopping, Alone, Agents
<1>5. Listed
  <2>1. NumRecords({}) = 1
    BY FS_EmptySet, WriterAssumption DEF NumRecords
  <2>2. memText[1] = {} /\ placed[1] = rootBucket /\ inUse = {}
    BY RecordNumbers DEF Init
  <2> QED BY <2>1, <2>2 DEF Listed, Current
<1> QED BY <1>1, <1>2, <1>3, <1>4, <1>5 DEF ShutdownInv

(* A call that begins or ends counts itself, if it is tracked. *)
LEMMA BeginCounts ==
  ASSUME ShutdownInv, NEW c \in Callers, NEW kind \in {"tracked", "untracked"}, Begin(c, kind)
  PROVE  Counts' /\ outstandingChanges' \in Nat
<1>1. c \notin Tracked /\ IsFiniteSet(Tracked)
  BY WriterAssumption, FS_Subset DEF Begin, ShutdownInv, Counts, Tracked
<1>2. Tracked' = IF kind = "tracked" THEN Tracked \cup {c} ELSE Tracked
  BY DEF Begin, ShutdownInv, Types, Counts, Tracked
<1>3. outstandingChanges' = Cardinality(Tracked')
  <2>1. Cardinality(Tracked \cup {c}) = Cardinality(Tracked) + 1
    BY <1>1, FS_AddElement
  <2> QED BY <1>2, <2>1 DEF Begin, ShutdownInv, Counts, Types
<1>4. outstandingChanges' \in Nat
  BY DEF Begin, ShutdownInv, Types
<1> QED BY <1>3, <1>4 DEF Begin, ShutdownInv, Types, Counts

LEMMA EndCounts ==
  ASSUME ShutdownInv, NEW c \in Callers, End(c)
  PROVE  Counts' /\ outstandingChanges' \in Nat
<1>1. IsFiniteSet(Tracked)
  BY WriterAssumption, FS_Subset DEF Tracked
<1>2. Tracked' = Tracked \ {c}
  BY DEF End, ShutdownInv, Types, Tracked
<1>3. outstandingChanges' = Cardinality(Tracked')
  <2>1. CASE c \in Tracked
    <3>1. Cardinality(Tracked \ {c}) = Cardinality(Tracked) - 1
      BY <1>1, <2>1, FS_RemoveElement
    <3> QED BY <1>2, <2>1, <3>1 DEF End, ShutdownInv, Counts, Tracked
  <2>2. CASE c \notin Tracked
    <3>1. call[c].kind # "tracked" /\ Tracked' = Tracked
      BY <1>2, <2>2 DEF Tracked
    <3> QED BY <3>1 DEF End, ShutdownInv, Types, Counts
  <2> QED BY <2>1, <2>2
<1>4. outstandingChanges' \in Nat
  BY <1>1, <1>2, <1>3, FS_RemoveElement, FS_CardinalityType, FS_Subset
<1> QED BY <1>3, <1>4 DEF End, ShutdownInv, Types, Counts

-----------------------------------------------------------------------------
(* Every step keeps the invariant. While the destructor stores, no call is *)
(* left and no writer holds a lock, so only the destructor's own steps     *)
(* touch what Stored is about.                                             *)

(* A step that leaves the list alone and takes nobody away who will write  *)
(* it leaves it current.                                                   *)
LEMMA SameList ==
  ASSUME Listed, UNCHANGED <<memText, placed, inUse, quiet>>, ToWrite => ToWrite'
  PROVE  Listed'
  BY DEF Listed, Current

LEMMA NewCall ==
  ASSUME ShutdownInv, NEW c \in Callers, NEW kind \in {"tracked", "untracked"}, Begin(c, kind)
  PROVE  ShutdownInv'
<1>1. Types'
  BY BeginCounts DEF Begin, ShutdownInv, Types, data, list, Kinds, Places
<1>2. Counts'
  BY BeginCounts
<1>3. Locks'
  BY DEF Begin, ShutdownInv, Types, Locks, HoldsOutstanding, HoldsActual, locks
<1>4. Ending' /\ Stored'
  BY DEF Begin, ShutdownInv, Ending, Stored, RootOnDisk, Stopping, Alone, data, list
<1>5. Listed'
  BY SameList DEF Begin, ShutdownInv, Types, ToWrite, data, list, ghosts
<1> QED BY <1>1, <1>2, <1>3, <1>4, <1>5 DEF ShutdownInv

(* Tracked, with the place of one call changed and its kind kept. *)
LEMMA SameTracked ==
  ASSUME ShutdownInv, NEW c \in Callers, call[c].at # "out",
         call' \in [Callers -> [kind : Kinds, at : Places, in : SUBSET (DataIds \cup MetaIds)]],
         \A d \in Callers : call'[d].kind = call[d].kind,
         \A d \in Callers : d # c => call'[d] = call[d], call'[c].at # "out",
         outstandingChanges' = outstandingChanges
  PROVE  Counts'
<1>1. Tracked' = Tracked
  BY DEF Tracked
<1> QED BY <1>1 DEF ShutdownInv, Counts

LEMMA CallerStep ==
  ASSUME ShutdownInv, NEW c \in Callers, Caller(c)
  PROVE  ShutdownInv'
<1> USE DEF ShutdownInv
<1>1. ASSUME NEW b \in DataIds, Change(c, b) PROVE ShutdownInv'
  <2>1. Types'
    BY <1>1 DEF Change, Types, Kinds, Places, list
  <2>2. Counts'
    BY <1>1, <2>1, SameTracked DEF Change, Types
  <2>3. Locks'
    BY <1>1 DEF Change, Types, Locks, HoldsOutstanding, HoldsActual, locks
  <2>4. Ending' /\ Stored'
    BY <1>1 DEF Change, Types, Ending, Stored, Stopping, Alone
  <2>5. ToWrite => ToWrite'
    BY <1>1 DEF Change, Types, ToWrite
  <2>6. Current => Current'
    BY <1>1 DEF Change, Current, list
  <2>7. Listed'
    BY <1>1, <2>5, <2>6 DEF Change, Listed, list
  <2> QED BY <2>1, <2>2, <2>3, <2>4, <2>7
<1>2. ASSUME NEW m \in MetaIds, Rest(c, m) PROVE ShutdownInv'
  <2>1. Types'
    BY <1>2 DEF Rest, Types, Kinds, Places, list
  <2>2. Counts'
    BY <1>2, <2>1, SameTracked DEF Rest, Types
  <2>3. Locks'
    BY <1>2 DEF Rest, Types, Locks, HoldsOutstanding, HoldsActual, locks
  <2>4. Ending' /\ Stored'
    BY <1>2 DEF Rest, Types, Ending, Stored, Stopping, Alone
  <2>5. Listed'
    BY <1>2, SameList DEF Rest, Types, ToWrite, list, ghosts
  <2> QED BY <2>1, <2>2, <2>3, <2>4, <2>5
<1>3. CASE TryLock(c)
  <2>0. c \notin Agents /\ c # Nobody
    BY WriterAssumption DEF Agents
  <2>1. Types'
    BY <1>3 DEF TryLock, Types, Kinds, Places, data, list
  <2>2. Counts'
    BY <1>3, <2>1, SameTracked DEF TryLock, Types
  <2>3. Locks'
    <3>1. CASE outstandingWrites = Nobody
      BY <1>3, <2>0, <3>1, WriterAssumption
         DEF TryLock, Types, Locks, HoldsOutstanding, HoldsActual, Agents
    <3>2. CASE outstandingWrites # Nobody
      BY <1>3, <2>0, <3>2, WriterAssumption
         DEF TryLock, Types, Locks, HoldsOutstanding, HoldsActual, Agents
    <3> QED BY <3>1, <3>2
  <2>4. Ending' /\ Stored'
    BY <1>3 DEF TryLock, Types, Ending, Stored, Stopping, Alone, data
  (* The lock is got, or held by one who will write the list. *)
  <2>5. ToWrite'
    <3>1. CASE outstandingWrites = Nobody
      BY <1>3, <3>1 DEF TryLock, Types, ToWrite
    <3>2. CASE outstandingWrites # Nobody
      BY <1>3, <2>0, <3>2 DEF TryLock, Types, Locks, HoldsOutstanding, Ending, ToWrite
    <3> QED BY <3>1, <3>2
  <2>6. Listed'
    BY <1>3, <2>5 DEF TryLock, Listed, data, list
  <2> QED BY <2>1, <2>2, <2>3, <2>4, <2>6
<1>4. CASE StartThread(c)
  <2> DEFINE w == CHOOSE w \in {v \in Writers : pc[v] = "none"} : TRUE
  <2>1. w \in Writers /\ pc[w] = "none" /\ pc' = [pc EXCEPT ![w] = "started"]
    BY <1>4 DEF StartThread
  <2> HIDE DEF w
  <2>2. Types'
    BY <1>4, <2>1, WriterAssumption
       DEF StartThread, Types, Kinds, Places, data, list, AgentLabels, Agents
  <2>3. Counts'
    BY <1>4, <2>2, SameTracked DEF StartThread, Types
  <2>4. Locks'
    BY <1>4, <2>1, WriterAssumption
       DEF StartThread, Types, Locks, HoldsOutstanding, HoldsActual, Agents, Storing
  <2>5. Ending' /\ Stored'
    BY <1>4, <2>1, WriterAssumption
       DEF StartThread, Types, Ending, Stored, Stopping, Alone, data, Agents
  <2>6. ToWrite'
    BY <2>1 DEF Types, ToWrite, Agents
  <2>7. Listed'
    BY <1>4, <2>6 DEF StartThread, Listed, data, list
  <2> QED BY <2>2, <2>3, <2>4, <2>5, <2>7
<1>5. CASE End(c)
  <2>1. Types'
    BY <1>5, EndCounts DEF End, Types, Kinds, Places, data, list
  <2>2. Counts'
    BY <1>5, EndCounts
  <2>3. Locks'
    BY <1>5, WriterAssumption DEF End, Types, Locks, HoldsOutstanding, HoldsActual, locks, Agents
  <2>4. Ending' /\ Stored'
    BY <1>5 DEF End, Types, Ending, Stored, RootOnDisk, Stopping, Alone, data, list
  <2>5. Listed'
    BY <1>5, SameList DEF End, Types, ToWrite, data, list, ghosts
  <2> QED BY <2>1, <2>2, <2>3, <2>4, <2>5
<1> QED BY <1>1, <1>2, <1>3, <1>4, <1>5 DEF Caller

(* A step that leaves the calls alone leaves the counter right. *)
LEMMA SameCalls ==
  ASSUME Counts, UNCHANGED <<call, outstandingChanges>>
  PROVE  Counts'
<1>1. Tracked' = Tracked
  BY DEF Tracked
<1> QED BY <1>1 DEF Counts

LEMMA WriterStep ==
  ASSUME ShutdownInv, NEW w \in Writers, Writer(w)
  PROVE  ShutdownInv'
<1> USE DEF ShutdownInv
<1>0. w \in Agents /\ w # destructor /\ w \notin Callers /\ w # Nobody
  BY WriterAssumption DEF Agents
<1>1. CASE FallAsleep(w)
  <2>1. Types'
    BY <1>0, <1>1 DEF FallAsleep, Types, data, list, AgentLabels
  <2>2. Counts'
    BY <1>1, SameCalls DEF FallAsleep
  <2>3. Locks'
    BY <1>0, <1>1, WriterAssumption
       DEF FallAsleep, Types, Locks, HoldsOutstanding, HoldsActual, Agents, Storing
  <2>4. Ending' /\ Stored'
    BY <1>0, <1>1 DEF Writer, FallAsleep, Types, Ending, Stored, RootOnDisk, Stopping, Alone,
                      data, list
  <2>5. Listed'
    BY <1>0, <1>1, SameList DEF FallAsleep, Types, ToWrite, data, list, ghosts
  <2> QED BY <2>1, <2>2, <2>3, <2>4, <2>5
<1>2. CASE WakeUp(w)
  <2>1. Types'
    BY <1>0, <1>2 DEF WakeUp, Types, data, list, AgentLabels
  <2>2. Counts'
    BY <1>2, SameCalls DEF WakeUp
  <2>3. Locks'
    BY <1>0, <1>2, WriterAssumption
       DEF WakeUp, Types, Locks, HoldsOutstanding, HoldsActual, Agents, Storing
  <2>4. pc[destructor] \notin Alone
    BY <1>0, <1>2, WriterAssumption
       DEF WakeUp, Types, Locks, HoldsOutstanding, Ending, Agents, Alone
  <2>5. Ending' /\ Stored'
    BY <1>0, <1>2, <2>4 DEF WakeUp, Types, Ending, Stored, Stopping, Alone
  <2>6. Listed'
    BY <1>0, <1>2, SameList DEF WakeUp, Types, ToWrite, data, list, ghosts
  <2> QED BY <2>1, <2>2, <2>3, <2>5, <2>6
<1>3. CASE LockWriting(w)
  <2>1. Types'
    BY <1>0, <1>3 DEF LockWriting, Types, data, list, AgentLabels
  <2>2. Counts'
    BY <1>3, SameCalls DEF LockWriting
  <2>3. Locks'
    BY <1>0, <1>3, WriterAssumption
       DEF LockWriting, Types, Locks, HoldsOutstanding, HoldsActual, Agents, Storing
  <2>4. Ending' /\ Stored'
    BY <1>0, <1>3 DEF Writer, LockWriting, Types, Ending, Stored, RootOnDisk, Stopping, Alone,
                      data, list
  <2>5. Listed'
    BY <1>0, <1>3, SameList DEF LockWriting, Types, ToWrite, data, list, ghosts
  <2> QED BY <2>1, <2>2, <2>3, <2>4, <2>5
(* While a writer stores, the destructor has not got the second lock. *)
<1>4. ASSUME SetList(w) \/ storeAllData(w) PROVE pc[destructor] \notin {"rest", "meta", "data", "gone"}
  BY <1>0, <1>4, WriterAssumption
     DEF storeAllData, SetList, StoreMeta, StoreData, Types, Locks, HoldsActual, Ending,
         Agents, Storing
<1>5. CASE SetList(w)
  <2> DEFINE new == {r \in 1 .. NumRecords(inUse) : memText[r] = NoText}
  <2>0. PICK m \in MetaIds : placed' = [r \in Records |-> IF r \in new THEN m ELSE placed[r]]
    BY <1>5 DEF SetList
  <2>1. 1 \notin new
    BY WriterAssumption DEF Listed
  <2> HIDE DEF new
  <2>2. Types'
    BY <1>0, <1>5, <2>0 DEF SetList, Types, locks, AgentLabels
  <2>3. Counts'
    BY <1>5, SameCalls DEF SetList
  <2>4. Locks'
    BY <1>0, <1>5, WriterAssumption
       DEF SetList, Types, Locks, HoldsOutstanding, HoldsActual, Agents, Storing, locks
  <2>5. Ending' /\ Stored'
    BY <1>0, <1>4, <1>5 DEF SetList, Types, Ending, Stored, Stopping, Alone
  <2>6. placed'[1] = rootBucket
    BY <2>0, <2>1, RecordNumbers DEF Listed
  <2>7. \A r \in 1 .. NumRecords(inUse) : memText'[r] = inUse
    BY <1>5, RecordNumbers DEF SetList
  <2>8. memText'[1] = inUse /\ inUse' = inUse
    BY <1>5, <2>7, RecordNumbers DEF SetList
  <2>9. Listed'
    BY <2>6, <2>7, <2>8 DEF Listed, Current, Types
  <2> QED BY <2>2, <2>3, <2>4, <2>5, <2>9
<1>6. CASE StoreMeta(w)
  <2>1. Types'
    BY <1>0, <1>6 DEF StoreMeta, Types, locks, AgentLabels
  <2>2. Counts'
    BY <1>6, SameCalls DEF StoreMeta
  <2>3. Locks'
    BY <1>0, <1>6, WriterAssumption
       DEF StoreMeta, Types, Locks, HoldsOutstanding, HoldsActual, Agents, Storing, locks
  <2>4. Ending' /\ Stored'
    BY <1>0, <1>4, <1>6 DEF storeAllData, StoreMeta, Types, Ending, Stored, Stopping, Alone
  <2>5. Listed'
    BY <1>0, <1>6, SameList DEF StoreMeta, Types, ToWrite
  <2> QED BY <2>1, <2>2, <2>3, <2>4, <2>5
<1>7. CASE StoreData(w)
  <2>1. Types'
    BY <1>0, <1>7 DEF StoreData, Types, list, AgentLabels
  <2>2. Counts'
    BY <1>7, SameCalls DEF StoreData
  <2>3. Locks'
    BY <1>0, <1>7, WriterAssumption
       DEF StoreData, Types, Locks, HoldsOutstanding, HoldsActual, Agents, Storing
  <2>4. Ending' /\ Stored'
    BY <1>0, <1>4, <1>7 DEF storeAllData, StoreData, Types, Ending, Stored, Stopping, Alone
  <2>5. Listed'
    BY <1>0, <1>7, SameList DEF StoreData, Types, ToWrite, list
  <2> QED BY <2>1, <2>2, <2>3, <2>4, <2>5
<1> QED BY <1>1, <1>2, <1>3, <1>5, <1>6, <1>7 DEF Writer, storeAllData

LEMMA DestructorStep ==
  ASSUME ShutdownInv, Destructor \/ Stop
  PROVE  ShutdownInv'
<1> USE DEF ShutdownInv
<1>0. destructor \in Agents /\ destructor \notin Writers \cup Callers /\ destructor # Nobody
  BY WriterAssumption DEF Agents
<1>1. CASE Stop
  <2>1. Types'
    BY <1>0, <1>1 DEF Stop, Types, locks, data, list, AgentLabels
  <2>2. Counts'
    BY <1>1, SameCalls DEF Stop
  <2>3. Locks'
    BY <1>0, <1>1 DEF Stop, Types, Locks, HoldsOutstanding, HoldsActual, Agents, Storing, Alone, locks
  <2>4. Ending' /\ Stored'
    BY <1>0, <1>1, <2>1 DEF Stop, Types, Counts, Ending, Stored, Stopping, Alone, Kinds
  <2>5. Listed'
    BY <1>0, <1>1, SameList DEF Stop, Types, ToWrite, data, list, ghosts
  <2> QED BY <2>1, <2>2, <2>3, <2>4, <2>5
<1>2. CASE LockOutstanding
  <2>1. Types'
    BY <1>0, <1>2 DEF LockOutstanding, Types, data, list, AgentLabels
  <2>2. Counts'
    BY <1>2, SameCalls DEF LockOutstanding
  <2>3. Locks'
    BY <1>0, <1>2, WriterAssumption
       DEF LockOutstanding, Types, Locks, HoldsOutstanding, HoldsActual, Agents, Storing, Alone
  <2>4. Tracked = {}
    <3>1. IsFiniteSet(Tracked)
      BY WriterAssumption, FS_Subset DEF Tracked
    <3> QED BY <1>2, <3>1, FS_EmptySet DEF LockOutstanding, Counts
  <2>5. \A c \in Callers : call[c].at = "out"
    BY <1>2, <2>4 DEF LockOutstanding, Tracked, Counts, Ending, Stopping, Types, Kinds
  <2>6. Ending' /\ Stored'
    BY <1>0, <1>2, <2>5 DEF LockOutstanding, Types, Ending, Stored, Stopping, Alone
  <2>7. Listed'
    BY <1>0, <1>2, SameList DEF LockOutstanding, Types, ToWrite, data, list, ghosts
  <2> QED BY <2>1, <2>2, <2>3, <2>6, <2>7
<1>3. CASE LockActual
  <2>1. Types'
    BY <1>0, <1>3 DEF LockActual, Types, data, list, AgentLabels
  <2>2. Counts'
    BY <1>3, SameCalls DEF LockActual
  <2>3. Locks'
    BY <1>0, <1>3, WriterAssumption
       DEF LockActual, Types, Locks, HoldsOutstanding, HoldsActual, Agents, Storing, Alone
  <2>4. Ending' /\ Stored'
    BY <1>0, <1>3 DEF LockActual, Types, Ending, Stored, Stopping, Alone
  <2>5. Listed'
    BY <1>0, <1>3, SameList DEF LockActual, Types, ToWrite, data, list, ghosts
  <2> QED BY <2>1, <2>2, <2>3, <2>4, <2>5
<1>4. CASE CloseFiles
  <2>1. Types'
    BY <1>0, <1>4 DEF CloseFiles, Types, locks, list, AgentLabels
  <2>2. Counts'
    BY <1>4, SameCalls DEF CloseFiles
  <2>3. Locks'
    BY <1>0, <1>4, WriterAssumption
       DEF CloseFiles, Types, Locks, HoldsOutstanding, HoldsActual, Agents, Storing, Alone, locks
  <2>4. Ending' /\ Stored'
    BY <1>0, <1>4 DEF CloseFiles, Types, Ending, Stored, Stopping, Alone
  <2>5. Listed'
    BY <1>0, <1>4, SameList DEF CloseFiles, Types, ToWrite, list, ghosts
  <2> QED BY <2>1, <2>2, <2>3, <2>4, <2>5
<1>5. CASE StoreMeta(destructor)
  <2>1. Types'
    BY <1>0, <1>5 DEF StoreMeta, Types, locks, AgentLabels
  <2>2. Counts'
    BY <1>5, SameCalls DEF StoreMeta
  <2>3. Locks'
    BY <1>0, <1>5, WriterAssumption
       DEF StoreMeta, Types, Locks, HoldsOutstanding, HoldsActual, Agents, Storing, Alone, locks
  <2>4. Ending'
    BY <1>0, <1>5 DEF StoreMeta, Types, Ending, Stopping, Alone
  <2>5. RootOnDisk'
    BY <1>5 DEF StoreMeta, Stored, RootOnDisk
  <2>6. Stored'
    BY <1>0, <1>5, <2>5 DEF StoreMeta, Types, Stored
  <2>7. Listed'
    BY <1>0, <1>5, SameList DEF StoreMeta, Types, ToWrite
  <2> QED BY <2>1, <2>2, <2>3, <2>4, <2>6, <2>7
<1>6. CASE StoreData(destructor)
  <2>1. Types'
    BY <1>0, <1>6 DEF StoreData, Types, list, AgentLabels
  <2>2. Counts'
    BY <1>6, SameCalls DEF StoreData
  (* No writer is asleep or stores: the destructor has both locks. *)
  <2>3. \A w \in Writers : pc[w] \in {"none", "started", "awake"}
    BY <1>0, <1>6, WriterAssumption
       DEF StoreData, Types, Locks, HoldsOutstanding, HoldsActual, Alone, Storing, Agents,
           AgentLabels
  <2>4. \A c \in Callers : call[c].at = "out"
    BY <1>6 DEF StoreData, Ending, Alone
  <2>5. Locks'
    BY <1>0, <1>6, <2>3, <2>4, WriterAssumption
       DEF StoreData, Types, Locks, HoldsOutstanding, HoldsActual, Agents, Storing, Alone
  <2>6. Ending'
    BY <1>0, <1>6, <2>3 DEF StoreData, Types, Ending, Stopping, Alone
  <2>7. Stored'
    BY <1>0, <1>6 DEF StoreData, Types, Stored, RootOnDisk, list
  <2>8. Listed'
    BY <1>0, <1>6, SameList DEF StoreData, Types, ToWrite, list
  <2> QED BY <2>1, <2>2, <2>5, <2>6, <2>7, <2>8
<1> QED BY <1>1, <1>2, <1>3, <1>4, <1>5, <1>6 DEF Destructor, storeAllData

LEMMA StepShutdown ==
  ASSUME ShutdownInv, [Next]_vars
  PROVE  ShutdownInv'
<1>1. CASE UNCHANGED vars
  <2>1. Counts'
    BY <1>1, SameCalls DEF vars, ShutdownInv
  <2>2. Listed'
    BY <1>1, SameList DEF vars, data, list, ghosts, ShutdownInv, ToWrite
  <2> QED
    BY <1>1, <2>1, <2>2 DEF vars, locks, data, list, ShutdownInv, Types, Locks,
                 HoldsOutstanding, HoldsActual, Ending, Stored, RootOnDisk
<1>2. CASE Next
  BY <1>2, NewCall, CallerStep, WriterStep, DestructorStep DEF Next
<1> QED BY <1>1, <1>2

-----------------------------------------------------------------------------
(* The waits of ~fs are enough, for every number of callers, writer        *)
(* threads and buckets: when fs is gone no call runs and no thread sleeps  *)
(* or stores (fs.cpp:84-109, :830-854).                                    *)
THEOREM UnmountIsLast == Spec => []NobodyLeft
<1>1. Init => ShutdownInv
  BY InitShutdown
<1>2. ShutdownInv /\ [Next]_vars => ShutdownInv'
  BY StepShutdown
<1>3. ShutdownInv => NobodyLeft
  BY DEF ShutdownInv, Ending, NobodyLeft, Waiting, Alone
<1> QED BY <1>1, <1>2, <1>3, PTL DEF Spec

(* Every bucket that was changed is on disk when the file system is gone,  *)
(* and what writers wrote into the root's metadata with it, because the    *)
(* root is rested before the store (fs.cpp:92-107, storage.cpp:266-280).   *)
THEOREM UnmountStores == Spec => []ShutdownComplete
<1>1. Init => ShutdownInv
  BY InitShutdown
<1>2. ShutdownInv /\ [Next]_vars => ShutdownInv'
  BY StepShutdown
<1>3. ShutdownInv => ShutdownComplete
  BY DEF ShutdownInv, Stored, RootOnDisk, ShutdownComplete
<1> QED BY <1>1, <1>2, <1>3, PTL DEF Spec

(* The list on disk is current for every bucket whose last change asked    *)
(* for a writer, though an unmount writes no list of its own: a thread     *)
(* that is not started is one that another stands for (fs.cpp:371,         *)
(* :833-849).                                                              *)
THEOREM ListIsCurrent == Spec => []ListCovers
<1>1. Init => ShutdownInv
  BY InitShutdown
<1>2. ShutdownInv /\ [Next]_vars => ShutdownInv'
  BY StepShutdown
<1>3. ShutdownInv => ListCovers
  <2> SUFFICES ASSUME ShutdownInv, pc[destructor] = "gone", Waiting = {},
                      NEW b \in DataIds \ quiet, NEW r \in 1 .. NumRecords(diskText[1]),
                      placed[r] = rootBucket
               PROVE  b \in inUse <=> b \in diskText[r]
    BY DEF ListCovers
  <2>1. ~ToWrite
    BY DEF ShutdownInv, Ending, ToWrite, Waiting, Alone
  <2>2. diskText[1] = memText[1]
    BY RecordNumbers DEF ShutdownInv, Stored, RootOnDisk, Listed
  <2>3. diskText[r] = memText[r] /\ r \in Records
    BY RecordNumbers DEF ShutdownInv, Stored, RootOnDisk
  <2>4. memText[r] = memText[1]
    BY <2>2 DEF ShutdownInv, Listed
  <2> QED BY <2>1, <2>3, <2>4 DEF ShutdownInv, Listed, Current
<1> QED BY <1>1, <1>2, <1>3, PTL DEF Spec

-----------------------------------------------------------------------------
(* The lock of a file.                                                     *)

(* The fields and the callers' view keep their types.                      *)
THEOREM MutexTypes == MutexSpec => []TypeOK
<1>1. MutexInit => TypeOK
  BY ThreadsAssumption DEF MutexInit, TypeOK, Labels
<1>2. TypeOK /\ [MutexNext]_mutexVars => TypeOK'
  <2> SUFFICES ASSUME TypeOK, [MutexNext]_mutexVars PROVE TypeOK'
    OBVIOUS
  <2> USE DEF TypeOK, Labels, Goto, callerVars, flagVars, AcquireFlag
  <2>1. CASE UNCHANGED mutexVars
    BY <2>1 DEF mutexVars
  <2>2. ASSUME NEW t \in Threads, UniqueStep(t) PROVE TypeOK'
    BY <2>2, ThreadsAssumption
    DEF UniqueStep, LockTas, LockWait, LockOwner, LockCount, TryTas, TryWait,
        TryBack, UnlockOwner, UnlockCount, UnlockClear
  <2>3. ASSUME NEW t \in Threads, SharedStep(t) PROVE TypeOK'
    BY <2>3 DEF SharedStep, SharedTas, SharedInc, SharedClear, TrySharedTas
  <2>4. ASSUME NEW t \in Threads, Call(t) PROVE TypeOK'
    BY <2>4 DEF Call, Relock, Lock, try_lock, LockShared, TryLockShared
  <2>5. ASSUME NEW t \in Threads, Return(t) PROVE TypeOK'
    BY <2>5 DEF Return, Unlock, UnlockShared
  <2>6. QED
    BY <2>1, <2>2, <2>3, <2>4, <2>5 DEF MutexNext
<1>3. QED
  BY <1>1, <1>2, PTL DEF MutexSpec

-----------------------------------------------------------------------------
(* The flag, the owner, the recursion count and the callers' sections      *)
(* agree. This part does not speak of shared_locks.                        *)
FlagInv == FlagOwned /\ OwnerExact /\ CountExact /\ Outside

LEMMA FlagInvInit == MutexInit => FlagInv
  BY ThreadsAssumption
  DEF MutexInit, FlagInv, FlagOwned, OwnerExact, CountExact, Outside, HoldsFlag

LEMMA FlagInvUnique ==
  ASSUME TypeOK, FlagInv, NEW t \in Threads, UniqueStep(t)
  PROVE  FlagInv'
<1> USE ThreadsAssumption
    DEF TypeOK, Labels, FlagInv, FlagOwned, OwnerExact, CountExact, Outside,
        HoldsFlag, Goto, callerVars, flagVars, AcquireFlag
<1>1. CASE LockTas(t) BY <1>1 DEF LockTas
<1>2. CASE LockWait(t) BY <1>2 DEF LockWait
<1>3. CASE LockOwner(t) BY <1>3 DEF LockOwner
<1>4. CASE LockCount(t) BY <1>4 DEF LockCount
<1>5. CASE TryTas(t) BY <1>5 DEF TryTas
<1>6. CASE TryWait(t) BY <1>6 DEF TryWait
<1>7. CASE TryBack(t) BY <1>7 DEF TryBack
<1>8. CASE UnlockOwner(t) BY <1>8 DEF UnlockOwner
<1>9. CASE UnlockCount(t) BY <1>9 DEF UnlockCount
<1>10. CASE UnlockClear(t) BY <1>10 DEF UnlockClear
<1>11. QED
  BY <1>1, <1>2, <1>3, <1>4, <1>5, <1>6, <1>7, <1>8, <1>9, <1>10, UniqueStep(t)
  DEF UniqueStep

LEMMA FlagInvOthers ==
  ASSUME TypeOK, FlagInv, NEW t \in Threads,
         SharedStep(t) \/ Call(t) \/ Return(t)
  PROVE  FlagInv'
<1> USE ThreadsAssumption
    DEF TypeOK, Labels, FlagInv, FlagOwned, OwnerExact, CountExact, Outside,
        HoldsFlag, Goto, callerVars, flagVars, AcquireFlag
<1>1. CASE SharedTas(t) BY <1>1 DEF SharedTas
<1>2. CASE SharedInc(t) BY <1>2 DEF SharedInc
<1>3. CASE SharedClear(t) BY <1>3 DEF SharedClear
<1>4. CASE TrySharedTas(t) BY <1>4 DEF TrySharedTas
<1>5. CASE Relock(t) BY <1>5 DEF Relock
<1>6. CASE Lock(t) BY <1>6 DEF Lock
<1>7. CASE try_lock(t) BY <1>7 DEF try_lock
<1>8. CASE LockShared(t) BY <1>8 DEF LockShared, hasUniqueLock
<1>9. CASE TryLockShared(t) BY <1>9 DEF TryLockShared, hasUniqueLock
<1>10. CASE Unlock(t) BY <1>10 DEF Unlock
<1>11. CASE UnlockShared(t) BY <1>11 DEF UnlockShared
<1>12. QED
  BY <1>1, <1>2, <1>3, <1>4, <1>5, <1>6, <1>7, <1>8, <1>9, <1>10, <1>11
  DEF SharedStep, Call, Return

LEMMA FlagInvStep == TypeOK /\ FlagInv /\ [MutexNext]_mutexVars => FlagInv'
<1> SUFFICES ASSUME TypeOK, FlagInv, [MutexNext]_mutexVars PROVE FlagInv'
  OBVIOUS
<1>1. CASE UNCHANGED mutexVars
  BY <1>1
  DEF mutexVars, FlagInv, FlagOwned, OwnerExact, CountExact, Outside, HoldsFlag
<1>2. CASE MutexNext
  BY <1>2, FlagInvUnique, FlagInvOthers DEF MutexNext
<1>3. QED
  BY <1>1, <1>2

-----------------------------------------------------------------------------
(* Counting the threads inside shared sections.                            *)

LEMMA CountedFinite ==
  ASSUME TypeOK
  PROVE  IsFiniteSet(Counted) /\ Cardinality(Counted) \in Nat
<1>1. Counted \subseteq Threads
  BY DEF TypeOK, Counted
<1>2. QED
  BY <1>1, ThreadsAssumption, FS_Subset, FS_CardinalityType

CountInv == SharedExact /\ WriterAlone

LEMMA CountInvInit == MutexInit => CountInv
<1> SUFFICES ASSUME MutexInit PROVE CountInv
  OBVIOUS
<1>1. Counted = {}
  BY DEF MutexInit, Counted
<1>2. QED
  BY <1>1, FS_EmptySet DEF MutexInit, CountInv, SharedExact, WriterAlone

(* Steps that leave the counted threads and the count alone. *)
LEMMA CountInvUnique ==
  ASSUME TypeOK, FlagInv, CountInv, NEW t \in Threads, UniqueStep(t)
  PROVE  CountInv'
<1>1. Counted' = Counted /\ shared_locks' = shared_locks
  BY UniqueStep(t)
  DEF TypeOK, Labels, Counted, Goto, callerVars, flagVars, AcquireFlag,
      UniqueStep, LockTas, LockWait, LockOwner, LockCount, TryTas, TryWait,
      TryBack, UnlockOwner, UnlockCount, UnlockClear
<1>2. ASSUME NEW u \in Threads, PastWait(u)', ~PastWait(u)
      PROVE  ~(shared_locks > 0)
  BY <1>2, UniqueStep(t)
  DEF TypeOK, Labels, PastWait, Goto, callerVars, flagVars, AcquireFlag,
      UniqueStep, LockTas, LockWait, LockOwner, LockCount, TryTas, TryWait,
      TryBack, UnlockOwner, UnlockCount, UnlockClear
<1>3. ASSUME ~(shared_locks > 0)
      PROVE  Counted = {}
  BY <1>3, CountedFinite, FS_EmptySet DEF CountInv, SharedExact
<1>4. QED
  BY <1>1, <1>2, <1>3 DEF CountInv, SharedExact, WriterAlone

LEMMA CountInvOthers ==
  ASSUME TypeOK, FlagInv, CountInv, NEW t \in Threads,
         SharedStep(t) \/ Call(t) \/ Return(t)
  PROVE  CountInv'
<1> USE DEF TypeOK, Labels, Goto, callerVars, flagVars
<1>1. ASSUME NEW u \in Threads, PastWait(u)'
      PROVE  PastWait(u)
  <2>1. CASE SharedStep(t)
    BY <1>1, <2>1
    DEF PastWait, SharedStep, SharedTas, SharedInc, SharedClear, TrySharedTas,
        AcquireFlag
  <2>2. CASE Call(t)
    BY <1>1, <2>2
    DEF PastWait, Call, Relock, Lock, try_lock, LockShared, TryLockShared,
        FlagInv, OwnerExact
  <2>3. CASE Return(t)
    BY <1>1, <2>3 DEF PastWait, Return, Unlock, UnlockShared
  <2>4. QED
    BY <2>1, <2>2, <2>3
<1>2. CASE SharedInc(t)
  <2>1. t \notin Counted /\ Counted' = Counted \cup {t}
    BY <1>2 DEF SharedInc, Counted, FlagInv, Outside
  <2>2. Cardinality(Counted') = Cardinality(Counted) + 1
    BY <2>1, CountedFinite, FS_AddElement
  <2>3. ASSUME NEW u \in Threads PROVE ~PastWait(u)
    BY <1>2
    DEF SharedInc, PastWait, FlagInv, FlagOwned, HoldsFlag, Outside
  <2>4. QED
    BY <1>1, <1>2, <2>2, <2>3
    DEF SharedInc, CountInv, SharedExact, WriterAlone
<1>3. CASE UnlockShared(t)
  <2>1. t \in Counted /\ Counted' = Counted \ {t}
    BY <1>3 DEF UnlockShared, Counted
  <2>2. Cardinality(Counted') = Cardinality(Counted) - 1
    BY <2>1, CountedFinite, FS_RemoveElement
  <2>3. QED
    BY <1>1, <1>3, <2>1, <2>2
    DEF UnlockShared, CountInv, SharedExact, WriterAlone
<1>4. CASE ~SharedInc(t) /\ ~UnlockShared(t)
  <2>1. Counted' = Counted /\ shared_locks' = shared_locks
    BY <1>4
    DEF Counted, AcquireFlag, SharedStep, SharedTas, SharedClear, TrySharedTas,
        Call, Relock, Lock, try_lock, LockShared, TryLockShared, Return, Unlock
  <2>2. QED
    BY <1>1, <2>1 DEF CountInv, SharedExact, WriterAlone
<1>5. QED
  BY <1>2, <1>3, <1>4

LEMMA CountInvStep == TypeOK /\ FlagInv /\ CountInv /\ [MutexNext]_mutexVars => CountInv'
<1> SUFFICES ASSUME TypeOK, FlagInv, CountInv, [MutexNext]_mutexVars PROVE CountInv'
  OBVIOUS
<1>1. CASE UNCHANGED mutexVars
  BY <1>1 DEF mutexVars, CountInv, SharedExact, WriterAlone, Counted, PastWait
<1>2. CASE MutexNext
  BY <1>2, CountInvUnique, CountInvOthers DEF MutexNext
<1>3. QED
  BY <1>1, <1>2

(* For every number of threads and every nesting, the flag has one holder, *)
(* owner and count say what their caller holds, shared_locks counts the    *)
(* readers, and a writer past its wait is alone (:15-98).                  *)
THEOREM LockInvariant == MutexSpec => []LockInv
<1>1. MutexInit => FlagInv /\ CountInv
  BY FlagInvInit, CountInvInit
<1>2. TypeOK /\ FlagInv /\ CountInv /\ [MutexNext]_mutexVars => FlagInv' /\ CountInv'
  BY FlagInvStep, CountInvStep
<1>3. TypeOK /\ FlagInv /\ CountInv => LockInv
  BY DEF LockInv, FlagInv, CountInv
<1>4. QED
  BY <1>1, <1>2, <1>3, MutexTypes, PTL DEF MutexSpec

(* A unique section excludes every other section, for every number of      *)
(* threads: the exclusion file.cpp:521, 711 and 870 rely on.               *)
THEOREM MutualExclusion == MutexSpec => []Exclusion
<1>1. LockInv => Exclusion
  BY DEF LockInv, TypeOK, FlagOwned, WriterAlone, HoldsFlag, PastWait, Counted,
         Exclusion, RW!Exclusion
<1>2. QED
  BY <1>1, LockInvariant, PTL

-----------------------------------------------------------------------------
(* Each step of the code is a step of the abstract lock or leaves what the *)
(* callers hold alone.                                                     *)
LEMMA StepSimulation ==
  ASSUME LockInv, NEW t \in Threads,
         UniqueStep(t) \/ SharedStep(t) \/ Call(t) \/ Return(t)
  PROVE  [RW!Next]_(RW!lockVars)
<1> USE DEF RW!lockVars, RW!Next, RW!Unlocked, callerVars, flagVars, LockInv,
            TypeOK, Labels
<1>1. CASE LockCount(t)
  <2>1. RW!Enter(t)
    BY <1>1
    DEF LockCount, RW!Enter, FlagOwned, HoldsFlag, Outside, WriterAlone,
        PastWait, Counted
  <2>2. QED BY <2>1
<1>2. CASE SharedClear(t)
  <2>1. RW!EnterShared(t)
    BY <1>2 DEF SharedClear, RW!EnterShared, FlagOwned, HoldsFlag, Outside
  <2>2. QED BY <2>1
<1>3. CASE Relock(t)
  <2>1. RW!Reenter(t)
    BY <1>3 DEF Relock, RW!Reenter, OwnerExact
  <2>2. QED BY <2>1
<1>4. CASE Unlock(t)
  BY <1>4 DEF Unlock, RW!Leave
<1>5. CASE UnlockShared(t)
  BY <1>5 DEF UnlockShared, RW!LeaveShared
<1>6. CASE ~LockCount(t) /\ UniqueStep(t)
  BY <1>6
  DEF UniqueStep, LockTas, LockWait, LockOwner, TryTas, TryWait, TryBack,
      UnlockOwner, UnlockCount, UnlockClear
<1>7. CASE ~SharedClear(t) /\ SharedStep(t)
  BY <1>7 DEF SharedStep, SharedTas, SharedInc, TrySharedTas
<1>8. CASE ~Relock(t) /\ Call(t)
  BY <1>8 DEF Call, Lock, try_lock, LockShared, TryLockShared
<1>9. QED
  BY <1>1, <1>2, <1>3, <1>4, <1>5, <1>6, <1>7, <1>8 DEF Return

(* The code implements the readers-writer lock of RWLock, for every number *)
(* of threads and every nesting.                                           *)
THEOREM ImplementsRWLock == MutexSpec => RWSpec
<1>1. MutexInit => RW!Init
  BY DEF MutexInit, RW!Init
<1>2. LockInv /\ [MutexNext]_mutexVars => [RW!Next]_(RW!lockVars)
  <2>1. CASE UNCHANGED mutexVars
    BY <2>1 DEF mutexVars, RW!lockVars
  <2>2. ASSUME LockInv, MutexNext PROVE [RW!Next]_(RW!lockVars)
    BY <2>2, StepSimulation DEF MutexNext
  <2>3. QED
    BY <2>1, <2>2
<1>3. QED
  BY <1>1, <1>2, LockInvariant, PTL DEF MutexSpec, RWSpec, RW!Spec
=============================================================================
