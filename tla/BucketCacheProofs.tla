-------------------------- MODULE BucketCacheProofs --------------------------
(***************************************************************************)
(* A bucket loses no change, for any slots, entries and size of the log,   *)
(* when no store runs while a put writes (Exclusive). BucketInv says who   *)
(* holds the lock and what a call has in its hands (Control), what memory  *)
(* shows of the slots nobody is changing (Shown), what a store has caught  *)
(* on its way to disk (Caught), and where a change that is not on disk is  *)
(* still remembered (Kept).                                                *)
(***************************************************************************)
EXTENDS BucketCache, FiniteSetTheorems, TLAPS

Writes == {"load", "count", "hash", "chunk"}
Holding ==
  {"detach_log", "detach_chunks", "reset", "read_chunks", "read_hashes",
   "write_chunks", "write_hashes", "unlock"}
Stores == {"check", "lock"} \cup Holding
Calls ==
  {"idle", "array", "changed", "install", "load_log", "log", "return"} \cup Writes

Text == [chunks : ChunkFile \cup {None}, hashes : HashFile \cup {None}]

Types ==
  /\ hashes \in HashFile /\ refcnt \in [Slots -> {0, 1}]
  /\ chunks \in Arrays \cup {None} /\ array \in [Arrays -> ChunkFile]
  /\ dirty \in [hash : BOOLEAN, chunk : BOOLEAN]
  /\ changes \in Logs \cup {None}
  /\ log \in [Logs -> [index : 0 .. LogSize, entries : SUBSET Entries]]
  /\ mutex \in All \cup {None}
  /\ hsh \in HashFile \cup {None} /\ chnk \in ChunkFile \cup {None}
  /\ pc \in [All -> Calls \cup Stores]
  /\ entry \in [All -> Entries \cup {None}]
  /\ about \in [Entries -> Slots \cup {None}]
  /\ C \in [All -> Arrays \cup {None}]
  /\ mine \in [All -> Logs \cup {None}] /\ taken \in [All -> Logs \cup {None}]
  /\ text \in [All -> Text \cup {None}]
  /\ promised \in HashFile
  /\ skipped \in BOOLEAN /\ mounted \in BOOLEAN

(* A log has at most as many entries as it has counted. *)
Counted ==
  \A l \in Logs :
    IsFiniteSet(log[l].entries) /\ Cardinality(log[l].entries) <= log[l].index

(* The slot a call is at. *)
On(t, s) == t \in Threads /\ entry[t] # None /\ about[entry[t]] = s
Busy(s, labels) == \E t \in Threads : On(t, s) /\ pc[t] \in labels

Control ==
  /\ \A t \in Threads :
       /\ entry[t] = None <=> pc[t] = "idle"
       /\ entry[t] # None => about[entry[t]] \in Slots
       /\ pc[t] = "log" /\ aborted = "no" => mine[t] # None
       /\ pc[t] \in {"count", "hash", "chunk"} => C[t] = chunks /\ chunks # None
       /\ pc[t] \in Writes => mutex = None
       /\ \A u \in Threads, s \in Slots : On(t, s) /\ On(u, s) => t = u
  /\ pc[Writer] \in {"idle"} \cup Stores
  /\ entry[Writer] = None /\ mine[Writer] = None
  /\ \A t \in All :
       /\ pc[t] \in Holding <=> mutex = t
       /\ taken[t] # None => mutex = t
       /\ ~mounted => pc[t] = "idle"
  /\ \A l \in Logs : \A e \in log[l].entries : about[e] \in Slots
  /\ hsh # None => chnk # None

-----------------------------------------------------------------------------
(* The places of a call before its slot shows what it was asked to hold:   *)
(* before its hash is there, its chunk, and the count of the hash.         *)
Unhashed == {"array", "load", "count", "hash"}
Early == Unhashed \cup {"chunk"}
Unsettled == Early \cup {"changed"}
Working == Unsettled \cup {"install", "load_log"} \cup Stores

(* The writer has taken the chunks and their file is not written yet. *)
Dropping == pc[Writer] \in {"reset", "read_chunks", "read_hashes", "write_chunks"}

InFile(s) == chnk # None /\ chnk[s] = promised[s]
ShownAt(s) ==
  /\ ~Busy(s, Unhashed) => hashes[s] = promised[s]
  /\ ~Busy(s, Unsettled) => refcnt[s] = IF promised[s] = None THEN 0 ELSE 1
  /\ mounted /\ ~Busy(s, Early) /\ promised[s] # None =>
       /\ chunks # None => array[chunks][s] = promised[s]
       /\ chunks = None /\ ~Dropping => InFile(s)
Shown == \A s \in Slots : ShownAt(s)

(* The change of s is still to be remembered: by a call that has not added *)
(* its entry to a log, or by the log of the bucket.                        *)
Logged(s) == changes # None /\ \E e \in log[changes].entries : about[e] = s
Adding(s, l) == \E t \in Threads : On(t, s) /\ pc[t] = "log" /\ mine[t] = l
Pending(s) ==
  \/ Busy(s, Working)
  \/ Adding(s, changes)
  \/ Logged(s)

(* The next store will write the bucket. *)
WillStore(s) == dirty.hash \/ Busy(s, Unsettled)

(* What the store of u has in its hands. *)
Caught(u) ==
  /\ pc[u] \in {"read_hashes", "write_chunks", "write_hashes"} => text[u] # None
  /\ pc[u] \in {"read_hashes", "write_chunks"} => text[u].chunks # None \/ chnk # None
  /\ pc[u] \in {"write_chunks", "write_hashes"} => text[u].hashes # None
  /\ pc[u] = "write_hashes" => chnk # None
ChunkCaught(u, s) ==
  ~Busy(s, Early) /\ promised[s] # None =>
    /\ pc[u] \in {"reset", "read_chunks"} =>
         IF C[u] # None THEN array[C[u]][s] = promised[s] ELSE InFile(s)
    /\ pc[u] \in {"read_hashes", "write_chunks"} =>
         IF text[u].chunks # None THEN text[u].chunks[s] = promised[s] ELSE InFile(s)
    /\ pc[u] = "write_hashes" => InFile(s)
HashCaught(u, s) ==
  pc[u] \in {"write_chunks", "write_hashes"} =>
    /\ Pending(s) \/ text[u].hashes[s] = promised[s]
    /\ WillStore(s) \/ text[u].hashes[s] = promised[s]

(* The log of a store remembers the change until the store is done. *)
Leaving(s) ==
  \E u \in All :
    /\ pc[u] \in Holding \ {"detach_log", "unlock"} /\ taken[u] # None
    /\ \/ \E e \in log[taken[u]].entries : about[e] = s
       \/ Adding(s, taken[u])

Durable(s) == WholeOnDisk(s) \/ (skipped /\ promised[s] = None)
Catching ==
  \E u \in All : pc[u] \in {"read_chunks", "read_hashes", "write_chunks", "write_hashes"}

KeptAt(s) ==
  /\ Pending(s) \/ Durable(s) \/ Leaving(s)
  /\ WillStore(s) \/ Durable(s) \/ Catching

BucketInv ==
  /\ Types /\ Counted /\ Control
  /\ Shown /\ \A u \in All : Caught(u)
  /\ \A s \in Slots :
       KeptAt(s) /\ \A u \in All : ChunkCaught(u, s) /\ HashCaught(u, s)

-----------------------------------------------------------------------------
(* The objects that new makes are nobody's.                                *)
LEMMA NewArrayIsNew ==
  ASSUME Types, chunks = None
  PROVE  NewArray \in Arrays /\ NewArray # None /\ \A t \in All : C[t] # NewArray
<1>1. \E a \in Arrays : a # chunks /\ \A t \in All : C[t] # a
  <2>1. C \in [Threads \cup {Writer} -> Arrays \cup {None}]
    BY DEF Types, All
  <2>2. PICK a \in Arrays : \A t \in Threads \cup {Writer} : C[t] # a
    BY <2>1, ObjectsAssumption
  <2> QED BY <2>2, ObjectsAssumption DEF All
<1>2. NewArray \in Arrays /\ \A t \in All : C[t] # NewArray
  BY <1>1 DEF NewArray
<1> QED BY <1>2, ObjectsAssumption

LEMMA NewLogIsNew ==
  ASSUME Types, Control
  PROVE  NewLog \in Logs /\ NewLog # None /\ \A t \in All : NewLog # mine[t] /\ NewLog # taken[t]
<1> DEFINE held == [t \in Threads |-> mine[t]]
           stored == IF mutex = None THEN None ELSE taken[mutex]
<1>1. held \in [Threads -> Logs \cup {None}] /\ stored \in Logs \cup {None}
  BY DEF Types, All
<1>2. PICK l \in Logs : l # stored /\ \A t \in Threads : held[t] # l
  <2> HIDE DEF held, stored
  <2> QED BY <1>1, ObjectsAssumption
<1>3. l # None
  BY ObjectsAssumption
<1>4. \A t \in All : l \notin {mine[t], taken[t]}
  <2> SUFFICES ASSUME NEW t \in All PROVE l # mine[t] /\ l # taken[t]
    OBVIOUS
  <2>1. l # mine[t]
    BY <1>2, <1>3 DEF All, Control
  <2>2. l # taken[t]
    BY <1>2, <1>3, ObjectsAssumption DEF All, Control
  <2> QED BY <2>1, <2>2
<1>5. NewLog \in Logs /\ \A t \in All : NewLog \notin {mine[t], taken[t]}
  BY <1>4 DEF NewLog
<1> QED BY <1>5, ObjectsAssumption

(* What a store writes has the form of its files.                          *)
LEMMA TextsHaveForm ==
  ASSUME Types
  PROVE  /\ HashText \in HashFile
         /\ \A a \in Arrays \cup {None} : ChunkText(a) \in ChunkFile \cup {None}
         /\ \A a \in Arrays \cup {None} : ChunkText(a) = None => chnk # None
         /\ Empties \in ChunkFile /\ None \notin HashFile \cup ChunkFile \cup Text
<1>1. Empties \in ChunkFile
  BY DEF Empties, ChunkFile
<1>2. HashText \in HashFile
  BY DEF Types, HashText, HashFile
<1>3. None \notin HashFile \cup ChunkFile \cup Text
  BY ObjectsAssumption DEF Text, HashFile, ChunkFile
<1> QED BY <1>1, <1>2, <1>3 DEF Types, ChunkText

-----------------------------------------------------------------------------
LEMMA BucketInit == Init => BucketInv
<1> SUFFICES ASSUME Init PROVE BucketInv
  OBVIOUS
<1>1. Types
  <2>1. 0 \in 0 .. LogSize
    BY BucketAssumption
  <2>2. log \in [Logs -> [index : 0 .. LogSize, entries : SUBSET Entries]]
    BY <2>1 DEF Init
  <2>3. array \in [Arrays -> ChunkFile]
    BY DEF Init, ChunkFile, Empties
  <2> QED
    BY <2>2, <2>3 DEF Init, Types, HashFile, Calls
<1>2. Counted
  <2>1. \A l \in Logs : log[l].entries = {} /\ log[l].index = 0
    BY DEF Init
  <2> QED BY <2>1, FS_EmptySet DEF Counted
<1>3. Control
  BY BucketAssumption, ObjectsAssumption DEF Init, Control, All, Stores, Holding, Writes, On
<1>4. Shown
  BY DEF Init, Shown, ShownAt, Busy, On
<1>5. /\ \A u \in All : Caught(u)
      /\ \A u \in All, s \in Slots : ChunkCaught(u, s) /\ HashCaught(u, s)
  BY DEF Init, Caught, ChunkCaught, HashCaught, All
<1>6. \A s \in Slots : KeptAt(s)
  BY DEF Init, KeptAt, Durable, WholeOnDisk, OnDisk
<1> QED BY <1>1, <1>2, <1>3, <1>4, <1>5, <1>6 DEF BucketInv

-----------------------------------------------------------------------------
LEMMA CallTypes ==
  ASSUME Types, Control, NEW t \in Threads, Begin(t) \/ Change(t) \/ Record(t)
  PROVE  Types'
<1> USE DEF Types, At, Goto
<1>0. t \in All /\ (entry[t] # None => SlotOf(t) \in Slots)
  BY DEF All, Control, SlotOf
<1>1. CASE Begin(t)
  BY <1>0, <1>1 DEF Begin, HashFile, locals, memory, logVars, disk, Calls
<1>2. CASE TakeArray(t)
  BY <1>0, <1>2 DEF TakeArray, memory, logVars, disk, opVars, Calls, Writes
<1>3. CASE LoadChunks(t)
  <2>1. array' \in [Arrays -> ChunkFile] /\ chunks' \in Arrays \cup {None}
    BY <1>3, NewArrayIsNew, TextsHaveForm DEF LoadChunks, Load
  <2> HIDE DEF Types
  <2>2. dirty' \in [hash : BOOLEAN, chunk : BOOLEAN]
    BY <1>3 DEF LoadChunks, Load, Types
  <2> QED BY <1>0, <1>3, <2>1, <2>2 DEF LoadChunks, logVars, disk, opVars, Calls, Writes, Types
<1>4. CASE Count(t)
  BY <1>0, <1>4 DEF Count, memory, logVars, disk, opVars, locals, Calls, Writes
<1>5. CASE PutHash(t)
  <2>1. entry[t] # None
    BY <1>5 DEF PutHash, Control
  <2>2. Value(t) \in Entries \cup {None}
    BY <1>0, <2>1 DEF Value, HashFile
  <2> QED BY <1>0, <1>5, <2>2 DEF PutHash, HashFile, logVars, disk, opVars, locals, Calls, Writes
<1>6. CASE PutChunk(t)
  <2>1. entry[t] # None /\ C[t] \in Arrays
    BY <1>6, ObjectsAssumption DEF PutChunk, Control
  <2>2. (IF Value(t) = None THEN Empty ELSE Value(t)) \in Entries \cup {Empty}
    BY <1>0, <2>1 DEF Value, HashFile
  <2>3. array' \in [Arrays -> ChunkFile]
    BY <1>0, <1>6, <2>1, <2>2 DEF PutChunk, ChunkFile
  <2> QED BY <1>0, <1>6, <2>3 DEF PutChunk, logVars, disk, opVars, Calls, Writes
<1>7. CASE HashChanged(t)
  <2>1. refcnt' \in [Slots -> {0, 1}]
    BY <1>7 DEF HashChanged
  <2> QED BY <1>0, <1>7, <2>1 DEF HashChanged, logVars, disk, opVars, locals, Calls, Writes
<1>8. CASE Install(t)
  <2>1. changes' \in Logs \cup {None}
    BY <1>8, NewLogIsNew DEF Install, logVars
  <2>2. 0 \in 0 .. LogSize
    BY BucketAssumption
  <2>3. log' \in [Logs -> [index : 0 .. LogSize, entries : SUBSET Entries]]
    <3>1. [index |-> 0, entries |-> {}] \in [index : 0 .. LogSize, entries : SUBSET Entries]
      BY <2>2
    <3>2. log' = log \/ log' = [log EXCEPT ![NewLog] = [index |-> 0, entries |-> {}]]
      BY <1>8 DEF Install, logVars
    <3> QED BY <3>1, <3>2
  <2> QED BY <1>0, <1>8, <2>1, <2>3 DEF Install, memory, disk, opVars, locals, Calls
<1>9. CASE LoadLog(t)
  BY <1>0, <1>9 DEF LoadLog, memory, logVars, disk, opVars, Calls
<1>10. CASE AddChange(t)
  <2>1. mine[t] \in Logs /\ entry[t] \in Entries
    BY <1>0, <1>10 DEF AddChange, Control
  <2>2. log' \in [Logs -> [index : 0 .. LogSize, entries : SUBSET Entries]]
    <3> DEFINE old == log[mine[t]]
               new == [index |-> old.index + 1, entries |-> old.entries \cup {entry[t]}]
    <3>1. CASE log' = log
      BY <3>1
    <3>2. CASE log' # log
      <4>1. log' = [log EXCEPT ![mine[t]] = new] /\ old.index < LogSize
        BY <1>10, <3>2 DEF AddChange
      <4>2. old.index \in 0 .. LogSize /\ old.entries \in SUBSET Entries
        BY <2>1
      <4>3. old.index + 1 \in 0 .. LogSize
        BY <4>1, <4>2, BucketAssumption
      <4>4. new \in [index : 0 .. LogSize, entries : SUBSET Entries]
        BY <2>1, <4>2, <4>3
      <4> QED BY <2>1, <4>1, <4>4
    <3> QED BY <3>1, <3>2
  <2>3. mine' \in [All -> Logs \cup {None}] /\ pc' \in [All -> Calls \cup Stores]
    BY <1>0, <1>10 DEF AddChange, Calls, Stores
  <2>4. dirty' = dirty \/ dirty' = [hash |-> TRUE, chunk |-> TRUE]
    BY <1>10 DEF AddChange
  <2>5. dirty' \in [hash : BOOLEAN, chunk : BOOLEAN]
    <3> HIDE DEF Types
    <3>1. dirty \in [hash : BOOLEAN, chunk : BOOLEAN]
      BY DEF Types
    <3>2. [hash |-> TRUE, chunk |-> TRUE] \in [hash : BOOLEAN, chunk : BOOLEAN]
      OBVIOUS
    <3> QED BY <2>4, <3>1, <3>2
  <2>6. UNCHANGED <<memory, changes, mutex, disk, opVars, C, taken, text, mounted>>
    BY <1>10 DEF AddChange
  <2> QED BY <2>2, <2>3, <2>5, <2>6 DEF memory, disk, opVars
<1>11. CASE Return(t)
  BY <1>0, <1>11 DEF Return, memory, logVars, disk, locals, Calls
<1> QED BY <1>1, <1>2, <1>3, <1>4, <1>5, <1>6, <1>7, <1>8, <1>9, <1>10, <1>11 DEF Change, Record

LEMMA StoreTypes ==
  ASSUME Types, Control, NEW t \in All, Caught(t), Store(t)
  PROVE  Types'
<1> USE DEF Types, At, Goto, After
<1>1. CASE Check(t)
  BY <1>1 DEF Check, memory, logVars, disk, opVars, Calls, Stores
<1>2. CASE LockStore(t)
  BY <1>2 DEF LockStore, memory, logVars, disk, opVars, Calls, Stores, Holding
<1>3. CASE DetachLog(t)
  BY <1>3 DEF DetachLog, memory, disk, opVars, Stores, Holding
<1>4. CASE DetachChunks(t)
  BY <1>4 DEF DetachChunks, logVars, disk, opVars, Stores, Holding
<1>5. CASE Reset(t)
  BY <1>5 DEF Reset, memory, logVars, disk, opVars, locals, Stores, Holding
<1>6. CASE ReadChunks(t)
  <2>1. [chunks |-> ChunkText(C[t]), hashes |-> None] \in Text
    BY TextsHaveForm DEF Text
  <2> QED BY <1>6, <2>1 DEF ReadChunks, memory, logVars, disk, opVars, Stores, Holding
<1>7. CASE ReadHashes(t)
  <2>1. text[t] \in Text
    BY <1>7 DEF ReadHashes, Caught
  <2>2. [text[t] EXCEPT !.hashes = HashText] \in Text
    BY <2>1, TextsHaveForm DEF Text
  <2>3. text' \in [All -> Text \cup {None}]
    BY <1>7, <2>2 DEF ReadHashes
  <2>4. skipped' \in BOOLEAN
    BY <1>7 DEF ReadHashes
  <2> QED BY <1>7, <2>3, <2>4 DEF ReadHashes, memory, logVars, opVars, Stores, Holding
<1>8. CASE WriteChunks(t)
  <2>1. chnk' \in ChunkFile \cup {None}
    BY <1>8 DEF WriteChunks, Caught, Text
  <2> QED BY <1>8, <2>1 DEF WriteChunks, memory, logVars, opVars, locals, Stores, Holding
<1>9. CASE WriteHashes(t)
  <2>1. hsh' \in HashFile \cup {None}
    BY <1>9 DEF WriteHashes, Caught, Text
  <2> QED BY <1>9, <2>1 DEF WriteHashes, memory, logVars, opVars, locals, Stores, Holding
<1>10. CASE Unlock(t)
  BY <1>10 DEF Unlock, memory, logVars, disk, opVars, Calls, Stores
<1> QED BY <1>1, <1>2, <1>3, <1>4, <1>5, <1>6, <1>7, <1>8, <1>9, <1>10 DEF Store

(* What the other steps leave alone.                                       *)
LEMMA RestTypes ==
  ASSUME Types, GetChunk \/ StoreAllData \/ Unmount
  PROVE  Types'
<1> USE DEF Types, At, Goto
<1>1. CASE GetChunk
  <2>1. array' \in [Arrays -> ChunkFile] /\ chunks' \in Arrays \cup {None}
    BY <1>1, NewArrayIsNew, TextsHaveForm DEF GetChunk, Load
  <2>2. dirty' \in [hash : BOOLEAN, chunk : BOOLEAN]
    BY <1>1 DEF GetChunk, Load
  <2> QED BY <1>1, <2>1, <2>2 DEF GetChunk, logVars, disk, opVars, locals
<1>2. CASE StoreAllData
  BY <1>2 DEF StoreAllData, memory, logVars, disk, opVars, locals, Stores, All
<1>3. CASE Unmount
  <2>1. hsh' \in HashFile \cup {None} /\ chnk' \in ChunkFile \cup {None}
    BY <1>3, TextsHaveForm DEF Unmount
  <2>2. skipped' \in BOOLEAN /\ dirty' \in [hash : BOOLEAN, chunk : BOOLEAN]
    BY <1>3 DEF Unmount
  <2> QED BY <1>3, <2>1, <2>2 DEF Unmount, opVars, locals
<1> QED BY <1>1, <1>2, <1>3

(* A log counts what it takes.                                             *)
LEMMA CountedStep ==
  ASSUME Types, Counted, Control, [Next]_vars
  PROVE  Counted'
<1>1. CASE log' = log
  BY <1>1 DEF Counted
<1>2. CASE log' # log
  <2>1. \E t \in Threads : Install(t) \/ AddChange(t)
    BY <1>2 DEF Next, vars, Begin, Change, TakeArray, LoadChunks, Count, PutHash, PutChunk,
                HashChanged, Record, LoadLog, Return, Store, Check, LockStore, DetachLog,
                DetachChunks, Reset, ReadChunks, ReadHashes, WriteChunks, WriteHashes,
                Unlock, GetChunk, StoreAllData, Unmount, logVars
  <2>2. PICK t \in Threads : Install(t) \/ AddChange(t)
    BY <2>1
  <2>3. CASE Install(t)
    <3>1. log' = [log EXCEPT ![NewLog] = [index |-> 0, entries |-> {}]]
      BY <1>2, <2>3 DEF Install, logVars
    <3>2. SUFFICES ASSUME NEW l \in Logs
                   PROVE  IsFiniteSet(log'[l].entries)
                          /\ Cardinality(log'[l].entries) <= log'[l].index
      BY DEF Counted
    <3>3. CASE l = NewLog
      <4>1. log'[l].entries = {} /\ log'[l].index = 0
        BY <3>1, <3>3 DEF Types
      <4> QED BY <4>1, FS_EmptySet
    <3>4. CASE l # NewLog
      BY <3>1, <3>4 DEF Types, Counted
    <3> QED BY <3>3, <3>4
  <2>4. CASE AddChange(t)
    <3> DEFINE old == log[mine[t]]
               new == [index |-> old.index + 1, entries |-> old.entries \cup {entry[t]}]
    <3>1. log' = [log EXCEPT ![mine[t]] = new]
      BY <1>2, <2>4 DEF AddChange
    <3>2. mine[t] \in Logs
      BY <2>4 DEF AddChange, At, Control, Types, All
    <3>3. IsFiniteSet(old.entries) /\ Cardinality(old.entries) <= old.index /\ old.index \in Nat
      BY <3>2, BucketAssumption DEF Counted, Types
    <3>4. IsFiniteSet(new.entries) /\ Cardinality(new.entries) <= new.index
      <4> HIDE DEF old
      <4>1. /\ IsFiniteSet(old.entries \cup {entry[t]})
            /\ Cardinality(old.entries \cup {entry[t]}) \in Nat
            /\ Cardinality(old.entries) \in Nat
            /\ \/ Cardinality(old.entries \cup {entry[t]}) = Cardinality(old.entries)
               \/ Cardinality(old.entries \cup {entry[t]}) = Cardinality(old.entries) + 1
        BY <3>3, FS_AddElement, FS_CardinalityType
      <4> QED BY <3>3, <4>1
    <3> HIDE DEF new
    <3> QED BY <3>1, <3>2, <3>4 DEF Counted, Types
  <2> QED BY <2>2, <2>3, <2>4
<1> QED BY <1>1, <1>2

-----------------------------------------------------------------------------
(* Who holds the lock, and what is in the hands of a call.                 *)
LEMMA CallControl ==
  ASSUME Types, Control, Exclusive, NEW t \in Threads, Begin(t) \/ Change(t) \/ Record(t)
  PROVE  Control'
<1> USE DEF Control, Types, At, Goto, On, Writes, Holding, Stores
<1>0. t \in All /\ t # Writer /\ Writer \in All /\ \A u \in Threads : u \in All
  BY BucketAssumption DEF All
<1>1. CASE Begin(t)
  BY <1>0, <1>1, ObjectsAssumption, BucketAssumption
  DEF Begin, SlotOf, locals, memory, logVars, disk
<1>2. CASE TakeArray(t)
  BY <1>0, <1>2 DEF TakeArray, Storing, memory, logVars, disk, opVars
<1>3. CASE LoadChunks(t)
  BY <1>0, <1>3, NewArrayIsNew DEF LoadChunks, Load, logVars, disk, opVars
<1>4. CASE Count(t)
  BY <1>0, <1>4 DEF Count, memory, logVars, disk, opVars, locals
<1>5. CASE PutHash(t)
  BY <1>0, <1>5 DEF PutHash, logVars, disk, opVars, locals
<1>6. CASE PutChunk(t)
  BY <1>0, <1>6 DEF PutChunk, logVars, disk, opVars
<1>7. CASE HashChanged(t)
  BY <1>0, <1>7 DEF HashChanged, logVars, disk, opVars, locals
<1>8. CASE Install(t)
  BY <1>0, <1>8, NewLogIsNew DEF Install, memory, logVars, disk, opVars, locals
<1>9. CASE LoadLog(t)
  BY <1>0, <1>9 DEF LoadLog, memory, logVars, disk, opVars
<1>10. CASE AddChange(t)
  BY <1>0, <1>10 DEF AddChange, memory, disk, opVars
<1>11. CASE Return(t)
  BY <1>0, <1>11 DEF Return, memory, logVars, disk, locals
<1> QED BY <1>1, <1>2, <1>3, <1>4, <1>5, <1>6, <1>7, <1>8, <1>9, <1>10, <1>11 DEF Change, Record

LEMMA StoreControl ==
  ASSUME Types, Control, Exclusive, NEW t \in All, Caught(t), Store(t)
  PROVE  Control'
<1> USE DEF Control, Types, At, Goto, On, Writes, Holding, Stores, After
<1>0. Writer \in All /\ Writer \notin Threads /\ \A u \in Threads : u \in All
  BY BucketAssumption DEF All
<1>1. CASE Check(t)
  BY <1>0, <1>1 DEF Check, memory, logVars, disk, opVars
<1>2. CASE LockStore(t)
  BY <1>0, <1>2, ObjectsAssumption DEF LockStore, Putting, memory, logVars, disk, opVars, All
<1>3. CASE DetachLog(t)
  BY <1>0, <1>3 DEF DetachLog, memory, disk, opVars
<1>4. CASE DetachChunks(t)
  BY <1>0, <1>4, ObjectsAssumption DEF DetachChunks, logVars, disk, opVars, All
<1>5. CASE Reset(t)
  BY <1>0, <1>5 DEF Reset, memory, logVars, disk, opVars, locals
<1>6. CASE ReadChunks(t)
  BY <1>0, <1>6 DEF ReadChunks, memory, logVars, disk, opVars
<1>7. CASE ReadHashes(t)
  BY <1>0, <1>7 DEF ReadHashes, memory, logVars, opVars
<1>8. CASE WriteChunks(t)
  BY <1>0, <1>8 DEF WriteChunks, Caught, memory, logVars, opVars, locals
<1>9. CASE WriteHashes(t)
  BY <1>0, <1>9 DEF WriteHashes, Caught, memory, logVars, opVars, locals
<1>10. CASE Unlock(t)
  BY <1>0, <1>10, ObjectsAssumption DEF Unlock, memory, logVars, disk, opVars, All
<1> QED BY <1>1, <1>2, <1>3, <1>4, <1>5, <1>6, <1>7, <1>8, <1>9, <1>10 DEF Store

LEMMA RestControl ==
  ASSUME Types, Control, GetChunk \/ StoreAllData \/ Unmount
  PROVE  Control'
<1> USE DEF Control, Types, At, Goto, On, Writes, Holding, Stores
<1>0. Writer \in All /\ Writer \notin Threads /\ \A u \in Threads : u \in All
  BY BucketAssumption DEF All
<1>1. CASE GetChunk
  BY <1>0, <1>1 DEF GetChunk, Load, logVars, disk, opVars, locals
<1>2. CASE StoreAllData
  BY <1>0, <1>2 DEF StoreAllData, memory, logVars, disk, opVars, locals
<1>3. CASE Unmount
  BY <1>0, <1>3, TextsHaveForm DEF Unmount, opVars, locals
<1> QED BY <1>1, <1>2, <1>3

-----------------------------------------------------------------------------
LEMMA NumIsCount ==
  Num \in Nat /\ (Num = 0 <=> \A s \in Slots : hashes[s] = None)
<1> DEFINE used == {s \in Slots : hashes[s] # None}
<1>1. IsFiniteSet(used)
  BY BucketAssumption, FS_Subset
<1>2. Cardinality(used) \in Nat /\ (Cardinality(used) = 0 <=> used = {})
  BY <1>1, FS_CardinalityType, FS_EmptySet
<1> QED BY <1>2 DEF Num

(* Only the call at a slot changes which places that slot is at.           *)
LEMMA StepBusy ==
  ASSUME Types, Control, NEW t \in All, NEW x, pc' = [pc EXCEPT ![t] = x],
         entry' = entry, about' = about, NEW s \in Slots, NEW labels
  PROVE  /\ \A u \in All : On(u, s)' <=> On(u, s)
         /\ On(t, s) => /\ Busy(s, labels) <=> pc[t] \in labels
                        /\ Busy(s, labels)' <=> x \in labels
         /\ ~On(t, s) => (Busy(s, labels)' <=> Busy(s, labels))
<1>1. \A u \in Threads : u \in All
  BY DEF All
<1>2. On(t, s) => t \in Threads /\ \A u \in Threads : On(u, s) => u = t
  BY DEF On, Control
<1>3. \A u : On(u, s)' <=> On(u, s)
  BY DEF On
<1>4. pc'[t] = x /\ \A u \in All : u # t => pc'[u] = pc[u]
  BY DEF Types
<1> QED BY <1>1, <1>2, <1>3, <1>4 DEF Busy

LEMMA StepPlaces ==
  ASSUME Types, Control, NEW t \in All, NEW x, pc' = [pc EXCEPT ![t] = x],
         entry' = entry, about' = about, NEW s \in Slots
  PROVE  /\ \A u \in All : On(u, s)' <=> On(u, s)
         /\ pc'[t] = x /\ \A u \in All : u # t => pc'[u] = pc[u]
         /\ On(t, s) =>
              /\ Busy(s, Early) <=> pc[t] \in Early
              /\ Busy(s, Early)' <=> x \in Early
              /\ Busy(s, Unsettled) <=> pc[t] \in Unsettled
              /\ Busy(s, Unsettled)' <=> x \in Unsettled
              /\ Busy(s, Working) <=> pc[t] \in Working
              /\ Busy(s, Working)' <=> x \in Working
         /\ ~On(t, s) =>
              /\ Busy(s, Early)' <=> Busy(s, Early)
              /\ Busy(s, Unsettled)' <=> Busy(s, Unsettled)
              /\ Busy(s, Working)' <=> Busy(s, Working)
<1>1. pc'[t] = x /\ \A u \in All : u # t => pc'[u] = pc[u]
  BY DEF Types
<1>2. ASSUME NEW labels
      PROVE  /\ \A u \in All : On(u, s)' <=> On(u, s)
             /\ On(t, s) => /\ Busy(s, labels) <=> pc[t] \in labels
                            /\ Busy(s, labels)' <=> x \in labels
             /\ ~On(t, s) => (Busy(s, labels)' <=> Busy(s, labels))
  BY StepBusy
<1> QED BY <1>1, <1>2

(* Memory shows what was put, in every slot nobody is changing.            *)
LEMMA BeginBusy ==
  ASSUME Types, Control, NEW t \in Threads, Begin(t), NEW s \in Slots
  PROVE  \/ On(t, s)' /\ pc'[t] = "array"
         \/ /\ promised'[s] = promised[s] /\ refcnt'[s] = refcnt[s] /\ ~On(t, s)
            /\ \A u \in Threads : On(u, s)' <=> On(u, s)
            /\ \A u \in Threads : On(u, s) => pc'[u] = pc[u]
<1>1. PICK e \in Entries, r \in Slots :
        /\ entry' = [entry EXCEPT ![t] = e] /\ about' = [about EXCEPT ![e] = r]
        /\ about[e] = None
        /\ promised' = [promised EXCEPT ![r] = IF @ = None THEN e ELSE None]
        /\ refcnt' = [refcnt EXCEPT ![r] = 0]
  BY DEF Begin
<1>2. t \in All /\ pc' = [pc EXCEPT ![t] = "array"] /\ pc[t] = "idle" /\ entry[t] = None
  BY DEF Begin, At, Goto, All, Control
<1>3. \A u \in Threads : u \in All
  BY DEF All
<1>4. e # None
  BY BucketAssumption
<1>5. CASE r = s
  <2>1. On(t, s)' /\ pc'[t] = "array"
    BY <1>1, <1>2, <1>4, <1>5 DEF On, Types
  <2> QED BY <2>1
<1>6. CASE r # s
  <2>1. promised'[s] = promised[s] /\ refcnt'[s] = refcnt[s]
    BY <1>1, <1>6 DEF Types, HashFile
  <2>2. \A u \in Threads : On(u, s)' <=> On(u, s)
    <3> SUFFICES ASSUME NEW u \in Threads PROVE On(u, s)' <=> On(u, s)
      OBVIOUS
    <3>1. CASE u = t
      BY <1>1, <1>2, <1>4, <1>6, <3>1 DEF On, Types
    <3>2. CASE u # t
      <4>1. entry'[u] = entry[u] /\ (entry[u] # None => about[entry[u]] # None)
        BY <1>1, <1>3, <3>2, ObjectsAssumption DEF Types, Control
      <4> QED BY <1>1, <4>1, <1>3 DEF On, Types
    <3> QED BY <3>1, <3>2
  <2>3. \A u \in Threads : u # t => pc'[u] = pc[u]
    BY <1>2, <1>3 DEF Types
  <2>4. ~On(t, s)
    BY <1>2 DEF On
  <2> QED BY <2>1, <2>2, <2>3, <2>4
<1> QED BY <1>5, <1>6

LEMMA ReturnKeeps ==
  ASSUME Types, Control, NEW t \in Threads, Return(t), NEW s \in Slots
  PROVE  /\ \A u \in All : u # t => pc'[u] = pc[u] /\ (On(u, s)' <=> On(u, s))
         /\ pc[t] = "return" /\ pc'[t] = "idle"
<1>1. t \in All /\ \A u \in Threads : u \in All
  BY DEF All
<1>2. pc[t] = "return" /\ pc'[t] = "idle"
  BY <1>1 DEF Return, At, Goto, Types
<1>3. \A u \in All : u # t => pc'[u] = pc[u] /\ (On(u, s)' <=> On(u, s))
  BY <1>1 DEF Return, Goto, Types, On
<1> QED BY <1>2, <1>3

LEMMA ReturnBusy ==
  ASSUME Types, Control, NEW t \in Threads, Return(t), NEW s \in Slots, NEW labels,
         {"idle", "return"} \cap labels = {}
  PROVE  Busy(s, labels)' <=> Busy(s, labels)
<1>1. t \in All /\ \A u \in Threads : u \in All
  BY DEF All
<1> QED BY <1>1, ReturnKeeps DEF Busy

LEMMA CallShown ==
  ASSUME Types, Control, Shown, NEW t \in Threads, Begin(t) \/ Change(t) \/ Record(t)
  PROVE  Shown'
<1> SUFFICES ASSUME NEW s \in Slots PROVE ShownAt(s)'
  BY DEF Shown
<1>0. /\ t \in All /\ t # Writer /\ Writer \in All
      /\ "array" \in Unhashed /\ "idle" \notin Unhashed
      /\ "array" \in Early /\ "idle" \notin Early
      /\ "array" \in Unsettled /\ "idle" \notin Unsettled
  BY BucketAssumption DEF All, Unhashed, Early, Unsettled
<1>00. ShownAt(s)
  BY DEF Shown
<1>1. CASE Begin(t)
  <2>1. /\ Dropping' <=> Dropping
        /\ UNCHANGED <<hashes, chunks, array, chnk, mounted>>
    BY <1>0, <1>1 DEF Begin, memory, disk, Dropping, Goto, Types
  <2>2. \/ Busy(s, Unhashed)' /\ Busy(s, Early)' /\ Busy(s, Unsettled)'
        \/ /\ Busy(s, Unhashed)' <=> Busy(s, Unhashed)
           /\ Busy(s, Early)' <=> Busy(s, Early)
           /\ Busy(s, Unsettled)' <=> Busy(s, Unsettled)
           /\ promised'[s] = promised[s] /\ refcnt'[s] = refcnt[s]
    <3>1. CASE On(t, s)' /\ pc'[t] = "array"
      BY <1>0, <3>1 DEF Busy
    <3>2. CASE ~(On(t, s)' /\ pc'[t] = "array")
      BY <1>1, <3>2, BeginBusy DEF Busy
    <3> QED BY <3>1, <3>2
  <2> QED BY <1>00, <2>1, <2>2 DEF ShownAt, InFile
<1>2. CASE entry' = entry /\ about' = about /\ (Change(t) \/ Record(t))
  <2>1. Dropping' <=> Dropping
    BY <1>0, <1>2 DEF Change, Record, TakeArray, LoadChunks, Count, PutHash, PutChunk, HashChanged,
                Install, LoadLog, AddChange, Return, Goto, Dropping, Types
  <2>2. promised' = promised
    BY <1>2 DEF Change, Record, TakeArray, LoadChunks, Count, PutHash, PutChunk, HashChanged,
                Install, LoadLog, AddChange, Return, opVars
  <2> DEFINE Moved(x) ==
        /\ pc' = [pc EXCEPT ![t] = x] /\ pc'[t] = x
        /\ \A labels \in {Unhashed, Early, Unsettled} :
             /\ On(t, s) => /\ Busy(s, labels) <=> pc[t] \in labels
                            /\ Busy(s, labels)' <=> x \in labels
             /\ ~On(t, s) => (Busy(s, labels)' <=> Busy(s, labels))
  <2>3. ASSUME NEW x, Goto(t, x) PROVE Moved(x)
    BY <1>0, <1>2, <2>3, StepBusy DEF Goto, Types
  <2> HIDE DEF Moved
  <2> USE DEF Unhashed, Early, Unsettled, At
  <2>4. CASE TakeArray(t)
    <3>1. Moved("load") \/ Moved("count")
      BY <2>3, <2>4 DEF TakeArray
    <3>2. pc[t] = "array" /\ UNCHANGED <<hashes, refcnt, chunks, array, chnk, mounted>>
      BY <2>4 DEF TakeArray, memory, disk
    <3> QED BY <1>00, <2>1, <2>2, <3>1, <3>2 DEF Moved, ShownAt, InFile
  <2>5. CASE LoadChunks(t)
    <3>1. Moved("count") /\ pc[t] = "load" /\ UNCHANGED <<hashes, refcnt, chnk, mounted>>
      BY <2>3, <2>5 DEF LoadChunks, disk
    <3>2. CASE chunks # None
      <4>1. UNCHANGED <<chunks, array>>
        BY <2>5, <3>2 DEF LoadChunks, Load
      <4> QED BY <1>00, <2>1, <2>2, <3>1, <4>1 DEF Moved, ShownAt, InFile
    <3>3. CASE chunks = None
      <4>1. /\ chunks' \in Arrays /\ chunks' # None
            /\ array'[chunks'] = IF chnk = None THEN Empties ELSE chnk
        <5>1. NewArray \in Arrays /\ NewArray # None
          BY <3>3, NewArrayIsNew
        <5> HIDE DEF NewArray
        <5>2. /\ array' = [array EXCEPT ![NewArray] = IF chnk = None THEN Empties ELSE chnk]
              /\ chunks' = NewArray
          BY <2>5, <3>3 DEF LoadChunks, Load
        <5> QED BY <5>1, <5>2 DEF Types
      <4>2. ~Dropping
        BY <1>0, <2>5, ObjectsAssumption DEF LoadChunks, Load, Dropping, Control, Holding
      <4> QED BY <1>00, <2>2, <3>1, <3>3, <4>1, <4>2 DEF Moved, ShownAt, InFile
    <3> QED BY <3>2, <3>3
  <2>6. CASE Count(t)
    <3>1. Moved("hash") /\ pc[t] = "count" /\ UNCHANGED <<hashes, refcnt, chunks, array, chnk, mounted>>
      BY <2>3, <2>6 DEF Count, memory, disk
    <3> QED BY <1>00, <2>1, <2>2, <3>1 DEF Moved, ShownAt, InFile
  <2>7. CASE PutHash(t)
    <3>1. Moved("chunk") /\ pc[t] = "hash" /\ UNCHANGED <<refcnt, chunks, array, chnk, mounted>>
      BY <2>3, <2>7 DEF PutHash, disk
    <3>2. IF On(t, s) THEN hashes'[s] = promised[s] ELSE hashes'[s] = hashes[s]
      BY <2>7, <3>1 DEF PutHash, On, Value, SlotOf, Control, Types, HashFile
    <3> QED BY <1>00, <2>1, <2>2, <3>1, <3>2 DEF Moved, ShownAt, InFile
  <2>8. CASE PutChunk(t)
    <3>1. Moved("changed") /\ pc[t] = "chunk" /\ UNCHANGED <<hashes, refcnt, chunks, chnk, mounted>>
      BY <2>3, <2>8 DEF PutChunk, disk
    <3>2. C[t] = chunks /\ chunks # None /\ chunks \in Arrays /\ entry[t] # None
      BY <3>1 DEF Control, Types
    <3>3. IF On(t, s) THEN promised[s] # None => array'[chunks][s] = promised[s]
                      ELSE array'[chunks][s] = array[chunks][s]
      BY <2>8, <3>2 DEF PutChunk, On, Value, SlotOf, Types, ChunkFile
    <3> QED BY <1>00, <2>1, <2>2, <3>1, <3>2, <3>3 DEF Moved, ShownAt, InFile
  <2>9. CASE HashChanged(t)
    <3>1. Moved("install") /\ pc[t] = "changed" /\ UNCHANGED <<hashes, chunks, array, chnk, mounted>>
      BY <2>3, <2>9 DEF HashChanged, disk
    <3>2. IF On(t, s) THEN refcnt'[s] = (IF promised[s] = None THEN 0 ELSE 1)
                      ELSE refcnt'[s] = refcnt[s]
      BY <2>9, <3>1 DEF HashChanged, On, Value, SlotOf, Control, Types
    <3> QED BY <1>00, <2>1, <2>2, <3>1, <3>2 DEF Moved, ShownAt, InFile
  <2>10. CASE Record(t)
    <3>1. /\ pc[t] \in {"install", "load_log", "log", "return"}
          /\ \E x \in {"load_log", "log", "return", "check", "idle"} : Moved(x)
          /\ UNCHANGED <<hashes, refcnt, chunks, array, chnk, mounted>>
      BY <2>3, <2>10 DEF Record, Install, LoadLog, AddChange, Return, memory, disk
    <3> QED BY <1>00, <2>1, <2>2, <3>1 DEF Moved, ShownAt, InFile
  <2> QED BY <1>2, <2>4, <2>5, <2>6, <2>7, <2>8, <2>9, <2>10 DEF Change
<1>3. CASE Return(t)
  <2>1. UNCHANGED <<hashes, refcnt, chunks, array, chnk, mounted, promised>> /\ (Dropping' <=> Dropping)
    BY <1>0, <1>3 DEF Return, memory, disk, Goto, Dropping, Types
  <2>2. \A labels \in {Unhashed, Early, Unsettled} : Busy(s, labels)' <=> Busy(s, labels)
    BY <1>3, ReturnBusy DEF Unhashed, Early, Unsettled
  <2> QED BY <1>00, <2>1, <2>2 DEF ShownAt, InFile
<1> QED BY <1>1, <1>2, <1>3 DEF Change, Record, TakeArray, LoadChunks, Count, PutHash, PutChunk,
           HashChanged, Install, LoadLog, AddChange, opVars

(* A store leaves what memory shows, and its file shows it when it has     *)
(* taken the chunks away.                                                  *)
LEMMA StoreShown ==
  ASSUME Types, Control, Shown, NEW t \in All, Store(t),
         \A s \in Slots : ChunkCaught(t, s)
  PROVE  Shown'
<1> SUFFICES ASSUME NEW s \in Slots PROVE ShownAt(s)'
  BY DEF Shown
<1>0. ShownAt(s) /\ ChunkCaught(t, s) /\ Writer \in All
  BY DEF Shown, All
<1>1. UNCHANGED <<hashes, refcnt, array, opVars, mounted>>
  BY DEF Store, Check, LockStore, DetachLog, DetachChunks, Reset, ReadChunks, ReadHashes,
         WriteChunks, WriteHashes, Unlock, memory
<1>2. ASSUME NEW labels, labels \in {Unhashed, Early, Unsettled}
      PROVE  Busy(s, labels)' <=> Busy(s, labels)
  <2> DEFINE Moved(x) == Goto(t, x) /\ pc[t] \in Stores /\ x \in {"idle", "install"} \cup Stores
  <2>1. \E x : Moved(x)
    BY DEF Store, Check, LockStore, DetachLog, DetachChunks, Reset, ReadChunks, ReadHashes,
           WriteChunks, WriteHashes, Unlock, At, After, Stores, Holding
  <2>2. PICK x : Moved(x)
    BY <2>1
  <2>3. pc[t] \notin labels /\ x \notin labels
    BY <1>2, <2>2 DEF Unhashed, Early, Unsettled, Stores, Holding
  <2> QED BY <1>1, <2>2, <2>3, StepBusy DEF Goto, opVars
<1>3. /\ Busy(s, Unhashed)' <=> Busy(s, Unhashed)
      /\ Busy(s, Early)' <=> Busy(s, Early)
      /\ Busy(s, Unsettled)' <=> Busy(s, Unsettled)
  BY <1>2
<1>4. SUFFICES ASSUME mounted, ~Busy(s, Early), promised[s] # None
               PROVE  /\ chunks' # None => array'[chunks'][s] = promised[s]
                      /\ chunks' = None /\ ~Dropping' => InFile(s)'
  BY <1>0, <1>1, <1>3 DEF ShownAt, opVars
<1>5. hashes[s] = promised[s]
  BY <1>0, <1>4 DEF ShownAt, Busy, Early
<1>6. CASE DetachChunks(t)
  <2>1. chunks' = (IF t = Writer THEN None ELSE chunks) /\ chnk' = chnk
    BY <1>6 DEF DetachChunks, disk
  <2>2. t = Writer => Dropping'
    BY <1>6 DEF DetachChunks, Goto, Types, Dropping
  <2>3. t # Writer => (Dropping' <=> Dropping)
    BY <1>0, <1>6 DEF DetachChunks, Goto, Types, Dropping
  <2> QED BY <1>0, <1>1, <1>4, <2>1, <2>2, <2>3 DEF ShownAt, InFile, opVars
<1>7. CASE WriteChunks(t)
  <2>1. chunks' = chunks /\ InFile(s)'
    BY <1>0, <1>1, <1>4, <1>7 DEF WriteChunks, At, ChunkCaught, InFile, memory, opVars
  <2> QED BY <1>0, <1>1, <1>4, <2>1 DEF ShownAt
<1>8. CASE ReadHashes(t)
  <2>1. chunks' = chunks /\ chnk' = chnk /\ promised' = promised
    BY <1>8 DEF ReadHashes, memory, opVars
  <2>2. Num > 0
    BY <1>4, <1>5, NumIsCount
  <2>3. Dropping' <=> Dropping
    BY <1>0, <1>8, <2>2 DEF ReadHashes, At, Goto, Types, Dropping
  <2> QED BY <1>0, <1>1, <1>4, <2>1, <2>3 DEF ShownAt, InFile
<1>9. CASE ~DetachChunks(t) /\ ~WriteChunks(t) /\ ~ReadHashes(t)
  <2>1. chunks' = chunks /\ chnk' = chnk /\ promised' = promised
    BY <1>1, <1>9 DEF Store, Check, LockStore, DetachLog, Reset, ReadChunks,
         WriteHashes, Unlock, memory, opVars, disk
  <2>2. Dropping => Dropping'
    BY <1>0, <1>9 DEF Store, Check, LockStore, DetachLog, Reset, ReadChunks,
         WriteHashes, Unlock, At, Goto, Types, Dropping
  <2> QED BY <1>0, <1>1, <1>4, <2>1, <2>2 DEF ShownAt, InFile
<1> QED BY <1>6, <1>7, <1>8, <1>9

LEMMA LoadGivesFile ==
  ASSUME Types, Control, Load, chunks = None
  PROVE  /\ chunks' \in Arrays /\ chunks' # None /\ mutex = None /\ ~Dropping
         /\ array'[chunks'] = IF chnk = None THEN Empties ELSE chnk
<1>1. NewArray \in Arrays /\ NewArray # None
  BY NewArrayIsNew
<1>2. ~Dropping /\ mutex = None
  BY ObjectsAssumption DEF Load, Dropping, Control, Holding, All
<1> HIDE DEF NewArray
<1>3. /\ array' = [array EXCEPT ![NewArray] = IF chnk = None THEN Empties ELSE chnk]
      /\ chunks' = NewArray
  BY DEF Load
<1> QED BY <1>1, <1>2, <1>3 DEF Types

LEMMA RestShown ==
  ASSUME Types, Control, Shown, GetChunk \/ StoreAllData \/ Unmount
  PROVE  Shown'
<1> SUFFICES ASSUME NEW s \in Slots PROVE ShownAt(s)'
  BY DEF Shown
<1>0. ShownAt(s)
  BY DEF Shown
<1>1. CASE GetChunk
  <2>1. /\ \A labels : Busy(s, labels)' <=> Busy(s, labels)
        /\ UNCHANGED <<hashes, refcnt, promised, mounted, chnk>>
    BY <1>1 DEF GetChunk, Busy, On, opVars, disk
  <2>2. /\ chunks = None /\ chunks' # None /\ ~Dropping
        /\ array'[chunks'] = IF chnk = None THEN Empties ELSE chnk
    BY <1>1, LoadGivesFile DEF GetChunk
  <2> QED BY <1>0, <2>1, <2>2 DEF ShownAt, InFile
<1>2. CASE StoreAllData
  <2>1. \A labels : Busy(s, labels)' <=> Busy(s, labels)
    BY <1>2, BucketAssumption DEF StoreAllData, Goto, Types, Busy, On, opVars, All
  <2>2. Dropping' <=> Dropping
    BY <1>2 DEF StoreAllData, At, Goto, Types, Dropping, All
  <2> QED BY <1>0, <1>2, <2>1, <2>2 DEF StoreAllData, ShownAt, InFile, memory, opVars, disk
<1>3. CASE Unmount
  <2>1. /\ \A labels : Busy(s, labels)' <=> Busy(s, labels)
        /\ UNCHANGED <<hashes, refcnt, promised>> /\ ~mounted'
    BY <1>3 DEF Unmount, Busy, On, opVars
  <2> QED BY <1>0, <2>1 DEF ShownAt
<1> QED BY <1>1, <1>2, <1>3

-----------------------------------------------------------------------------
(* What a change is remembered by stays until a store takes the log.       *)
LEMMA CallPending ==
  ASSUME Types, Control, NEW t \in Threads, Begin(t) \/ Change(t) \/ Record(t),
         NEW s \in Slots
  PROVE  /\ Pending(s) => Pending(s)'
         /\ WillStore(s) => WillStore(s)'
         /\ promised'[s] = promised[s] \/ (Pending(s)' /\ WillStore(s)')
<1>0. t \in All /\ \A u \in Threads : u \in All
  BY DEF All
<1>1. CASE Begin(t)
  <2>1. UNCHANGED <<dirty, changes, log, mine>> /\ \A e \in Entries : about[e] # None => about'[e] = about[e]
    BY <1>1 DEF Begin, logVars, locals, Types
  <2>2. Logged(s) => Logged(s)'
    BY <2>1, ObjectsAssumption DEF Logged, Types
  <2>3. CASE On(t, s)' /\ pc'[t] = "array"
    BY <2>3 DEF Pending, WillStore, Busy, Working, Unsettled, Early, Unhashed, Writes
  <2>4. CASE ~(On(t, s)' /\ pc'[t] = "array")
    <3>1. /\ promised'[s] = promised[s] /\ ~On(t, s)
          /\ \A u \in Threads : On(u, s)' <=> On(u, s)
          /\ \A u \in Threads : On(u, s) => pc'[u] = pc[u]
      BY <1>1, <2>4, BeginBusy
    <3> QED BY <2>1, <2>2, <3>1 DEF Pending, WillStore, Busy, Adding
  <2> QED BY <2>3, <2>4
<1>2. CASE Change(t)
  <2>1. UNCHANGED <<changes, log, mine, entry, about, promised>>
    BY <1>2 DEF Change, TakeArray, LoadChunks, Count, PutHash, PutChunk, HashChanged, logVars, opVars,
                locals
  <2>2. /\ pc[t] \in Unsettled
        /\ \E x \in Unsettled \cup {"install"} : pc' = [pc EXCEPT ![t] = x]
    BY <1>2 DEF Change, TakeArray, LoadChunks, Count, PutHash, PutChunk, HashChanged, At, Goto,
                Unsettled, Early, Unhashed
  <2>3. PICK x \in Unsettled \cup {"install"} : pc' = [pc EXCEPT ![t] = x]
    BY <2>2
  <2>4. /\ x # "install" \/ dirty'.hash
        /\ dirty.hash => dirty'.hash
    BY <1>2, <2>3, <1>0 DEF Change, TakeArray, LoadChunks, Load, Count, PutHash, PutChunk, HashChanged, At, Goto,
                Types, Unsettled, Early, Unhashed
  <2>5. /\ \A u \in Threads : On(u, s)' <=> On(u, s)
        /\ On(t, s) => (Busy(s, Unsettled)' <=> x \in Unsettled) /\ (Busy(s, Working)' <=> x \in Working)
        /\ ~On(t, s) => /\ Busy(s, Working)' <=> Busy(s, Working)
                        /\ Busy(s, Unsettled)' <=> Busy(s, Unsettled)
    BY <1>0, <2>1, <2>3, StepPlaces
  <2>6. Adding(s, changes) => Adding(s, changes)'
    BY <1>0, <2>1, <2>2, <2>3, <2>5 DEF Adding, Unsettled, Early, Unhashed, Types
  <2>7. Logged(s)' <=> Logged(s)
    BY <2>1 DEF Logged
  <2>8. x \in Working /\ (x = "install" \/ x \in Unsettled)
    BY <2>3 DEF Working
  <2> QED BY <2>1, <2>4, <2>5, <2>6, <2>7, <2>8 DEF Pending, WillStore
<1>3. CASE Install(t) \/ LoadLog(t)
  <2>0. \A u \in Threads : u # t => mine'[u] = mine[u]
    BY <1>0, <1>3 DEF Install, LoadLog, locals, Types
  <2>1. /\ UNCHANGED <<entry, about, promised, dirty>> /\ pc[t] \in {"install", "load_log"}
        /\ aborted = "no"
        /\ changes # None => changes' = changes /\ log' = log
        /\ \A u \in Threads : u # t => mine'[u] = mine[u]
    BY <1>3, <2>0 DEF Install, LoadLog, logVars, opVars, At
  <2>2. CASE Install(t)
    <3>1. pc' = [pc EXCEPT ![t] = "load_log"] /\ mine' = mine
      BY <2>2 DEF Install, Goto, locals
    <3>2. /\ \A u \in Threads : On(u, s)' <=> On(u, s)
          /\ On(t, s) => Busy(s, Working)'
          /\ ~On(t, s) => (Busy(s, Working)' <=> Busy(s, Working))
          /\ Busy(s, Unsettled)' <=> Busy(s, Unsettled)
      <4>1. /\ pc[t] \notin Unsettled /\ "load_log" \notin Unsettled /\ "log" \notin Unsettled
            /\ "load_log" \in Working
        BY <2>1 DEF Working, Unsettled, Early, Unhashed
      <4> QED BY <1>0, <2>1, <3>1, <4>1, StepPlaces
    <3>3. Adding(s, changes) => changes # None /\ Adding(s, changes)'
      BY <1>0, <2>1, <3>1, <3>2 DEF Adding, Control, Types
    <3>4. Logged(s) => Logged(s)'
      BY <2>1 DEF Logged
    <3> QED BY <2>1, <3>2, <3>3, <3>4 DEF Pending, WillStore
  <2>3. CASE LoadLog(t)
    <3>1. pc' = [pc EXCEPT ![t] = "log"] /\ mine'[t] = changes /\ changes' = changes /\ log' = log
      BY <1>0, <2>3 DEF LoadLog, Goto, logVars, Types
    <3>2. /\ \A u \in Threads : On(u, s)' <=> On(u, s)
          /\ ~On(t, s) => (Busy(s, Working)' <=> Busy(s, Working))
          /\ Busy(s, Unsettled)' <=> Busy(s, Unsettled)
      <4>1. /\ pc[t] \notin Unsettled /\ "load_log" \notin Unsettled /\ "log" \notin Unsettled
            /\ "load_log" \in Working
        BY <2>1 DEF Working, Unsettled, Early, Unhashed
      <4> QED BY <1>0, <2>1, <3>1, <4>1, StepPlaces
    <3>3. On(t, s) => Adding(s, changes)'
      BY <1>0, <3>1, <3>2 DEF Adding, Types
    <3>4. Adding(s, changes) => Adding(s, changes)'
      BY <1>0, <2>1, <3>1, <3>2 DEF Adding, Types
    <3>5. Logged(s) => Logged(s)'
      BY <2>1, <3>1 DEF Logged
    <3> QED BY <2>1, <3>2, <3>3, <3>4, <3>5 DEF Pending, WillStore
  <2> QED BY <1>3, <2>2, <2>3
<1>4. CASE AddChange(t)
  <2>1. /\ UNCHANGED <<entry, about, promised, changes>> /\ pc[t] = "log"
        /\ mine[t] \in Logs /\ entry[t] \in Entries
        /\ \A u \in Threads : u # t => mine'[u] = mine[u]
        /\ dirty.hash => dirty'.hash
    BY <1>0, <1>4 DEF AddChange, At, opVars, Control, Types
  <2>2. PICK x \in {"return", "check"} :
          /\ pc' = [pc EXCEPT ![t] = x]
          /\ x = "return" =>
               log' = [log EXCEPT ![mine[t]] =
                        [index |-> @.index + 1, entries |-> @.entries \cup {entry[t]}]]
          /\ x = "check" => log' = log
    BY <1>4 DEF AddChange, Goto
  <2>3. \A l \in Logs : log[l].entries \subseteq log'[l].entries
    BY <2>2 DEF Types
  <2>4. /\ \A u \in Threads : On(u, s)' <=> On(u, s)
        /\ On(t, s) => (Busy(s, Working)' <=> x \in Working)
        /\ ~On(t, s) => (Busy(s, Working)' <=> Busy(s, Working))
        /\ Busy(s, Unsettled)' <=> Busy(s, Unsettled)
    <3>1. pc[t] \notin Unsettled /\ x \notin Unsettled
      BY <2>1, <2>2 DEF Unsettled, Early, Unhashed
    <3> QED BY <1>0, <2>1, <2>2, <3>1, StepPlaces
  <2>5. Logged(s) => Logged(s)'
    BY <2>1, <2>3 DEF Logged, Types
  <2>6. On(t, s) => ~Busy(s, Working)
    <3>1. pc[t] \notin Working
      BY <2>1 DEF Working, Unsettled, Early, Unhashed, Stores, Holding
    <3> QED BY <1>0, <2>1, <2>2, <3>1, StepPlaces
  <2>7. CASE x = "check"
    <3>1. Adding(s, changes) => On(t, s) \/ Adding(s, changes)'
      BY <1>0, <2>1, <2>2, <2>4 DEF Adding, Types
    <3>2. x \in Working
      BY <2>7 DEF Working, Stores
    <3> QED BY <2>1, <2>4, <2>5, <3>1, <3>2 DEF Pending, WillStore
  <2>8. CASE x = "return"
    <3>1. entry[t] \in log'[mine[t]].entries
      BY <2>1, <2>2, <2>8 DEF Types
    <3>2. Adding(s, changes) => Logged(s)' \/ Adding(s, changes)'
      <4> SUFFICES ASSUME NEW u \in Threads, On(u, s), pc[u] = "log", mine[u] = changes
                   PROVE  Logged(s)' \/ Adding(s, changes)'
        BY DEF Adding
      <4>1. CASE u = t
        BY <2>1, <3>1, <4>1, ObjectsAssumption DEF Logged, On
      <4>2. CASE u # t
        BY <1>0, <2>1, <2>2, <2>4, <4>2 DEF Adding, Types
      <4> QED BY <4>1, <4>2
    <3> QED BY <2>1, <2>4, <2>5, <2>6, <3>2 DEF Pending, WillStore
  <2> QED BY <2>7, <2>8
<1>5. CASE Return(t)
  <2>1. UNCHANGED <<about, promised, changes, log, dirty, mine>>
    BY <1>5 DEF Return, logVars, locals
  <2>2. /\ Busy(s, Working)' <=> Busy(s, Working)
        /\ Busy(s, Unsettled)' <=> Busy(s, Unsettled)
    <3>1. {"idle", "return"} \cap Working = {} /\ {"idle", "return"} \cap Unsettled = {}
      BY DEF Working, Unsettled, Early, Unhashed, Stores, Holding
    <3>2. ASSUME NEW labels, {"idle", "return"} \cap labels = {}
          PROVE  Busy(s, labels)' <=> Busy(s, labels)
      BY <1>5, <3>2, ReturnBusy
    <3> QED BY <3>1, <3>2
  <2>3. Adding(s, changes) => Adding(s, changes)'
    BY <1>0, <1>5, <2>1, ReturnKeeps DEF Adding
  <2> QED BY <2>1, <2>2, <2>3 DEF Pending, WillStore, Logged
<1> QED BY <1>1, <1>2, <1>3, <1>4, <1>5 DEF Record

LEMMA StorePending ==
  ASSUME Types, Control, NEW t \in All, Store(t), NEW s \in Slots
  PROVE  /\ promised' = promised
         /\ ~DetachLog(t) /\ Pending(s) => Pending(s)'
         /\ ~Reset(t) /\ WillStore(s) => WillStore(s)'
         /\ Busy(s, Early)' <=> Busy(s, Early)
         /\ Busy(s, Unsettled)' <=> Busy(s, Unsettled)
         /\ \A u \in All : On(u, s)' <=> On(u, s)
<1>0. \A u \in Threads : u \in All
  BY DEF All
<1>1. /\ UNCHANGED <<entry, about, promised, log>>
      /\ ~Reset(t) => dirty' = dirty
      /\ ~DetachLog(t) => changes' = changes
      /\ pc[t] \in Stores
      /\ \A u \in Threads : u # t => mine'[u] = mine[u]
  BY <1>0 DEF Store, Check, LockStore, DetachLog, DetachChunks, Reset, ReadChunks, ReadHashes,
         WriteChunks, WriteHashes, Unlock, At, Stores, Holding, opVars, logVars, locals, Types
<1>2. \E x \in {"idle", "install"} \cup Stores :
        pc' = [pc EXCEPT ![t] = x] /\ (t # Writer => x # "idle")
  BY DEF Store, Check, LockStore, DetachLog, DetachChunks, Reset, ReadChunks, ReadHashes,
         WriteChunks, WriteHashes, Unlock, Goto, After, Stores, Holding
<1>3. PICK x \in {"idle", "install"} \cup Stores :
        pc' = [pc EXCEPT ![t] = x] /\ (t # Writer => x # "idle")
  BY <1>2
<1>4. /\ pc[t] \notin Early /\ x \notin Early
      /\ pc[t] \notin Unsettled /\ x \notin Unsettled
      /\ x = "idle" \/ x \in Working
      /\ pc[t] # "log"
  BY <1>1, <1>3 DEF Working, Unsettled, Early, Unhashed, Stores, Holding
<1>5. On(t, s) => t # Writer
  BY BucketAssumption DEF On
<1>6. /\ \A u \in All : On(u, s)' <=> On(u, s)
      /\ \A u \in All : u # t => pc'[u] = pc[u]
      /\ Busy(s, Early)' <=> Busy(s, Early)
      /\ Busy(s, Unsettled)' <=> Busy(s, Unsettled)
      /\ Busy(s, Working) => Busy(s, Working)'
  BY <1>1, <1>3, <1>4, <1>5, StepPlaces
<1>7. ~DetachLog(t) /\ Adding(s, changes) => Adding(s, changes)'
  BY <1>0, <1>1, <1>4, <1>6 DEF Adding
<1>8. ~DetachLog(t) /\ Logged(s) => Logged(s)'
  BY <1>1 DEF Logged
<1> QED BY <1>1, <1>6, <1>7, <1>8 DEF Pending, WillStore

-----------------------------------------------------------------------------
(* What a store has in its hands is complete and right.                    *)
LEMMA CaughtStep ==
  ASSUME Types, Control, \A u \in All : Caught(u), Next
  PROVE  \A u \in All : Caught(u)'
<1> USE DEF Caught
<1>1. \A u \in Threads : u \in All
  BY DEF All
<1>2. ASSUME NEW t \in Threads, Begin(t) \/ Change(t) \/ Record(t)
      PROVE  \A u \in All : Caught(u)'
  <2>1. /\ \E x \in Calls \cup {"check"} : Goto(t, x)
        /\ UNCHANGED <<text, chnk>>
    BY <1>2 DEF Begin, Change, Record, TakeArray, LoadChunks, Count, PutHash, PutChunk,
         HashChanged, Install, LoadLog, AddChange, Return, locals, disk, Calls, Writes
  <2> QED BY <1>1, <2>1 DEF Goto, Types, Calls, Writes
<1>3. ASSUME NEW t \in All, Store(t)
      PROVE  \A u \in All : Caught(u)'
  <2> SUFFICES ASSUME NEW u \in All PROVE Caught(u)'
    OBVIOUS
  <2>1. CASE u # t
    <3>1. pc'[u] = pc[u] /\ text'[u] = text[u] /\ (chnk # None => chnk' # None)
      BY <1>3, <2>1 DEF Store, Check, LockStore, DetachLog, DetachChunks, Reset, ReadChunks,
         ReadHashes, WriteChunks, WriteHashes, Unlock, Goto, locals, disk, Types
    <3> QED BY <3>1
  <2>2. CASE u = t
    <3> USE DEF At, Goto
    <3>1. CASE ReadChunks(t)
      <4>1. [chunks |-> ChunkText(C[t]), hashes |-> None] \in Text /\ C[t] \in Arrays \cup {None}
        BY TextsHaveForm DEF Text, Types
      <4>2. text'[t] = [chunks |-> ChunkText(C[t]), hashes |-> None] /\ pc'[t] = "read_hashes"
        BY <3>1 DEF ReadChunks, Types
      <4>3. text'[t] # None /\ (text'[t].chunks = None => chnk' # None)
        <5>1. chnk' = chnk
          BY <3>1 DEF ReadChunks, disk
        <5> QED BY <4>1, <4>2, <5>1, TextsHaveForm
      <4> QED BY <2>2, <4>2, <4>3
    <3>2. CASE ReadHashes(t)
      <4>1. text[t] \in Text /\ (text[t].chunks # None \/ chnk # None)
        BY <3>2 DEF ReadHashes, Types
      <4>2. /\ [text[t] EXCEPT !.hashes = HashText] \in Text
            /\ [text[t] EXCEPT !.hashes = HashText].chunks = text[t].chunks
            /\ [text[t] EXCEPT !.hashes = HashText].hashes # None
        BY <4>1, TextsHaveForm DEF Text
      <4>3. /\ text'[t] = [text[t] EXCEPT !.hashes = HashText] /\ chnk' = chnk
            /\ pc'[t] \in {"write_chunks", "unlock"}
        BY <3>2 DEF ReadHashes, Types
      <4> QED BY <2>2, <4>1, <4>2, <4>3, TextsHaveForm
    <3>3. CASE WriteChunks(t)
      BY <2>2, <3>3 DEF WriteChunks, Types, locals
    <3>4. CASE WriteHashes(t)
      BY <2>2, <3>4 DEF WriteHashes, Types
    <3>5. CASE Check(t) \/ LockStore(t) \/ DetachLog(t) \/ DetachChunks(t) \/ Reset(t) \/ Unlock(t)
      BY <2>2, <3>5 DEF Check, LockStore, DetachLog, DetachChunks, Reset, Unlock, After, Types
    <3> QED BY <1>3, <3>1, <3>2, <3>3, <3>4, <3>5 DEF Store
  <2> QED BY <2>1, <2>2
<1>4. CASE GetChunk
  BY <1>4 DEF GetChunk, disk, locals
<1>5. CASE StoreAllData
  BY <1>5 DEF StoreAllData, Goto, Types, disk, locals, All
<1>6. CASE Unmount
  BY <1>6 DEF Unmount, At
<1> QED BY <1>2, <1>3, <1>4, <1>5, <1>6 DEF Next

LEMMA CallLeavesStore ==
  ASSUME Types, Control, NEW t \in Threads, Begin(t) \/ Change(t) \/ Record(t),
         NEW u \in All
  PROVE  /\ pc[t] \notin Holding /\ pc'[t] \notin Holding
         /\ u # t => pc'[u] = pc[u] /\ text'[u] = text[u] /\ C'[u] = C[u]
         /\ UNCHANGED <<hsh, chnk, skipped, taken>>
         /\ pc[u] \in Holding => array' = array /\ pc[t] \notin Writes
<1>1. t \in All /\ (pc[u] \in Holding => pc[t] \notin Writes)
  BY ObjectsAssumption DEF Control, All
<1>2. /\ pc[t] \notin Holding
      /\ \E x \in Calls \cup {"check"} : Goto(t, x)
  BY DEF Begin, Change, Record, TakeArray, LoadChunks, Count, PutHash, PutChunk, HashChanged,
         Install, LoadLog, AddChange, Return, At, Calls, Writes, Holding
<1>3. /\ UNCHANGED <<hsh, chnk, skipped, taken>>
      /\ u # t => text'[u] = text[u] /\ C'[u] = C[u]
  BY DEF Begin, Change, Record, TakeArray, LoadChunks, Count, PutHash, PutChunk, HashChanged,
         Install, LoadLog, AddChange, Return, disk, locals, Types
<1>4. pc[t] \notin Writes => array' = array
  BY DEF Begin, Change, Record, TakeArray, LoadChunks, Count, PutHash, PutChunk, HashChanged,
         Install, LoadLog, AddChange, Return, At, Writes, memory
<1>5. pc'[t] \notin Holding /\ (u # t => pc'[u] = pc[u])
  BY <1>1, <1>2 DEF Goto, Types, Calls, Writes, Holding
<1> QED BY <1>1, <1>2, <1>3, <1>4, <1>5

LEMMA CallEarly ==
  ASSUME Types, Control, NEW t \in Threads, Begin(t) \/ Change(t) \/ Record(t),
         pc[t] \notin Writes, NEW s \in Slots, ~Busy(s, Early)'
  PROVE  ~Busy(s, Early) /\ promised'[s] = promised[s]
<1>0. t \in All /\ "array" \in Early
  BY DEF All, Early, Unhashed
<1>1. CASE Begin(t)
  <2>1. ~(On(t, s)' /\ pc'[t] = "array")
    BY <1>0 DEF Busy
  <2>2. /\ promised'[s] = promised[s] /\ ~On(t, s)
        /\ \A u \in Threads : On(u, s)' <=> On(u, s)
        /\ \A u \in Threads : On(u, s) => pc'[u] = pc[u]
    BY <1>1, <2>1, BeginBusy
  <2> QED BY <2>2 DEF Busy
<1>2. CASE Return(t)
  <2>1. {"idle", "return"} \cap Early = {}
    BY DEF Early, Unhashed
  <2> QED BY <1>2, <2>1, ReturnBusy DEF Return
<1>3. CASE (Change(t) \/ Record(t)) /\ ~Return(t)
  <2>1. /\ UNCHANGED <<entry, about, promised>>
        /\ \E x : pc' = [pc EXCEPT ![t] = x] /\ (pc[t] \in Early => x \in Early)
    BY <1>3 DEF Change, Record, TakeArray, LoadChunks, Count, PutHash, PutChunk, HashChanged,
         Install, LoadLog, AddChange, At, Goto, opVars, Early, Unhashed, Writes
  <2>2. PICK x : pc' = [pc EXCEPT ![t] = x] /\ (pc[t] \in Early => x \in Early)
    BY <2>1
  <2> QED BY <1>0, <2>1, <2>2, StepPlaces
<1> QED BY <1>1, <1>2, <1>3

LEMMA CallCaught ==
  ASSUME Types, Control, NEW t \in Threads, Begin(t) \/ Change(t) \/ Record(t),
         NEW s \in Slots, NEW u \in All, ChunkCaught(u, s), HashCaught(u, s)
  PROVE  ChunkCaught(u, s)' /\ HashCaught(u, s)'
<1>1. CASE pc'[u] \notin Holding
  BY <1>1 DEF ChunkCaught, HashCaught, Holding
<1>2. CASE pc'[u] \in Holding
  <2>1. /\ u # t /\ pc'[u] = pc[u] /\ text'[u] = text[u] /\ C'[u] = C[u] /\ chnk' = chnk
        /\ array' = array /\ pc[t] \notin Writes
    BY <1>2, CallLeavesStore
  <2>2. ~Busy(s, Early)' => ~Busy(s, Early) /\ promised'[s] = promised[s]
    BY <2>1, CallEarly
  <2>3. /\ Pending(s) => Pending(s)'
        /\ WillStore(s) => WillStore(s)'
        /\ promised'[s] = promised[s] \/ (Pending(s)' /\ WillStore(s)')
    BY CallPending
  <2>4. ChunkCaught(u, s)'
    BY <2>1, <2>2 DEF ChunkCaught, InFile
  <2>5. HashCaught(u, s)'
    BY <2>1, <2>3 DEF HashCaught
  <2> QED BY <2>4, <2>5
<1> QED BY <1>1, <1>2

LEMMA StoreCaught ==
  ASSUME Types, Control, Shown, NEW t \in All, Store(t), Caught(t),
         NEW s \in Slots, NEW u \in All, ChunkCaught(u, s), HashCaught(u, s)
  PROVE  ChunkCaught(u, s)' /\ HashCaught(u, s)'
<1>0. ShownAt(s)
  BY DEF Shown
<1>1. /\ promised' = promised /\ array' = array
      /\ Busy(s, Early)' <=> Busy(s, Early)
      /\ ~DetachLog(t) /\ Pending(s) => Pending(s)'
      /\ ~Reset(t) /\ WillStore(s) => WillStore(s)'
  <2>1. array' = array
    BY DEF Store, Check, LockStore, DetachLog, DetachChunks, Reset, ReadChunks, ReadHashes,
         WriteChunks, WriteHashes, Unlock, memory
  <2> QED BY <2>1, StorePending
<1>2. CASE u # t /\ pc'[u] \in Holding
  <2>1. pc'[u] = pc[u]
    BY <1>2 DEF Store, Check, LockStore, DetachLog, DetachChunks, Reset, ReadChunks, ReadHashes,
         WriteChunks, WriteHashes, Unlock, Goto, Types
  <2>2. pc[t] \notin Holding
    BY <1>2, <2>1 DEF Control
  <2>3. Check(t) \/ LockStore(t)
    BY <2>2 DEF Store, DetachLog, DetachChunks, Reset, ReadChunks, ReadHashes,
         WriteChunks, WriteHashes, Unlock, At, Holding
  <2>4. /\ text' = text /\ C' = C /\ chnk' = chnk /\ ~DetachLog(t) /\ ~Reset(t)
    BY <2>2, <2>3 DEF Check, LockStore, disk, DetachLog, Reset, At, Holding
  <2> QED BY <1>1, <2>1, <2>4 DEF ChunkCaught, HashCaught, InFile
<1>3. CASE u = t
  <2> USE DEF At, Goto
  <2>1. CASE Check(t) \/ LockStore(t) \/ DetachLog(t) \/ WriteHashes(t) \/ Unlock(t)
    <3>1. pc'[t] \in {"idle", "install", "check", "lock", "detach_log", "detach_chunks", "unlock"}
      BY <2>1 DEF Check, LockStore, DetachLog, WriteHashes, Unlock, After, Types
    <3> QED BY <1>3, <3>1 DEF ChunkCaught, HashCaught
  <2>2. CASE DetachChunks(t)
    <3>1. pc[t] = "detach_chunks" /\ pc'[t] = "reset" /\ C'[t] = chunks /\ chnk' = chnk
      BY <2>2 DEF DetachChunks, Types, disk
    <3>2. mounted /\ ~Dropping
      BY <3>1, BucketAssumption DEF Control, Dropping, Holding, All
    <3> QED BY <1>0, <1>1, <1>3, <3>1, <3>2 DEF ShownAt, ChunkCaught, HashCaught, InFile
  <2>3. CASE Reset(t)
    <3>1. pc[t] = "reset" /\ pc'[t] = "read_chunks" /\ C' = C /\ chnk' = chnk
      BY <2>3 DEF Reset, Types, disk, locals
    <3> QED BY <1>1, <1>3, <3>1 DEF ChunkCaught, HashCaught, InFile
  <2>4. CASE ReadChunks(t)
    <3>1. pc[t] = "read_chunks" /\ pc'[t] = "read_hashes" /\ C' = C /\ chnk' = chnk
      BY <2>4 DEF ReadChunks, Types, disk
    <3>2. text'[t].chunks = ChunkText(C[t])
      BY <2>4 DEF ReadChunks, Types
    <3>3. C[t] # None => array[C[t]] # None
      BY TextsHaveForm DEF Types
    <3>4. C[t] = None /\ InFile(s) => ChunkText(C[t]) = None
      BY DEF InFile, ChunkText
    <3>5. C[t] # None => ChunkText(C[t]) = array[C[t]]
      BY DEF ChunkText
    <3> QED BY <1>1, <1>3, <3>1, <3>2, <3>3, <3>4, <3>5 DEF ChunkCaught, HashCaught, InFile
  <2>5. CASE ReadHashes(t)
    <3>1. /\ pc[t] = "read_hashes" /\ pc'[t] \in {"write_chunks", "unlock"} /\ chnk' = chnk
          /\ ~DetachLog(t) /\ ~Reset(t)
      BY <2>5 DEF ReadHashes, Types, DetachLog, Reset
    <3>2. text[t] \in Text
      BY <3>1 DEF Caught, Types
    <3>3. text'[t].chunks = text[t].chunks /\ text'[t].hashes = HashText
      BY <2>5, <3>2 DEF ReadHashes, Types, Text
    <3>4. ChunkCaught(t, s)'
      BY <1>1, <1>3, <3>1, <3>3 DEF ChunkCaught, InFile
    <3>5. ~Busy(s, Unsettled) => HashText[s] = promised[s]
      <4>1. Busy(s, Unhashed) => Busy(s, Unsettled)
        BY DEF Busy, Early, Unsettled
      <4> QED BY <1>0, <4>1 DEF ShownAt, HashText
    <3>6. (Busy(s, Unsettled) => Pending(s)) /\ (Busy(s, Unsettled) => WillStore(s))
      BY DEF Pending, WillStore, Busy, Working
    <3> QED BY <1>1, <1>3, <3>1, <3>3, <3>4, <3>5, <3>6 DEF HashCaught
  <2>6. CASE WriteChunks(t)
    <3>1. /\ pc[t] = "write_chunks" /\ pc'[t] = "write_hashes" /\ text' = text
          /\ chnk' = (IF text[t].chunks = None THEN chnk ELSE text[t].chunks)
          /\ ~DetachLog(t) /\ ~Reset(t)
      BY <2>6 DEF WriteChunks, Types, locals, DetachLog, Reset
    <3> QED BY <1>1, <1>3, <3>1 DEF ChunkCaught, HashCaught, InFile
  <2> QED BY <2>1, <2>2, <2>3, <2>4, <2>5, <2>6 DEF Store
<1>4. CASE pc'[u] \notin Holding
  BY <1>4 DEF ChunkCaught, HashCaught, Holding
<1> QED BY <1>2, <1>3, <1>4

LEMMA RestCaught ==
  ASSUME Types, Control, GetChunk \/ StoreAllData \/ Unmount,
         NEW s \in Slots, NEW u \in All, ChunkCaught(u, s), HashCaught(u, s)
  PROVE  ChunkCaught(u, s)' /\ HashCaught(u, s)'
<1>1. CASE pc'[u] \notin Holding
  BY <1>1 DEF ChunkCaught, HashCaught, Holding
<1>2. CASE pc'[u] \in Holding
  <2>1. StoreAllData /\ u # Writer
    BY <1>2, ObjectsAssumption
    DEF GetChunk, Load, StoreAllData, Unmount, At, Goto, Types, Control, Holding, All
  <2>2. /\ pc'[u] = pc[u] /\ UNCHANGED <<text, C, chnk, array, promised, entry, about, dirty, changes, log, mine>>
        /\ \A v \in Threads : pc'[v] = pc[v]
    BY <2>1, BucketAssumption DEF StoreAllData, Goto, Types, memory, logVars, disk, opVars, locals, All
  <2>3. /\ \A labels : Busy(s, labels)' <=> Busy(s, labels)
        /\ Adding(s, changes)' <=> Adding(s, changes)
    BY <2>2 DEF Busy, On, Adding
  <2> QED BY <2>2, <2>3 DEF ChunkCaught, HashCaught, InFile, Pending, WillStore, Logged
<1> QED BY <1>1, <1>2

-----------------------------------------------------------------------------
(* A change is remembered until it is on disk.                             *)
LEMMA CallKept ==
  ASSUME Types, Control, NEW t \in Threads, Begin(t) \/ Change(t) \/ Record(t),
         NEW s \in Slots, KeptAt(s)
  PROVE  KeptAt(s)'
<1>0. t \in All /\ \A u \in Threads : u \in All
  BY DEF All
<1>1. /\ Pending(s) => Pending(s)'
      /\ WillStore(s) => WillStore(s)'
      /\ promised'[s] = promised[s] \/ (Pending(s)' /\ WillStore(s)')
  BY CallPending
<1>2. Durable(s) => Durable(s)' \/ (Pending(s)' /\ WillStore(s)')
  BY <1>0, <1>1, CallLeavesStore DEF Durable, WholeOnDisk, OnDisk
<1>3. Catching => Catching'
  <2> SUFFICES ASSUME NEW u \in All,
                      pc[u] \in {"read_chunks", "read_hashes", "write_chunks", "write_hashes"}
               PROVE  pc'[u] = pc[u]
    BY DEF Catching
  <2> QED BY CallLeavesStore DEF Holding
<1>4. Leaving(s) => Leaving(s)' \/ Pending(s)'
  <2> SUFFICES ASSUME NEW u \in All, pc[u] \in Holding \ {"detach_log", "unlock"}, taken[u] # None,
                      (\E e \in log[taken[u]].entries : about[e] = s) \/ Adding(s, taken[u])
               PROVE  Leaving(s)' \/ Pending(s)'
    BY DEF Leaving
  <2>1. u # t /\ pc'[u] = pc[u] /\ taken'[u] = taken[u] /\ taken[u] \in Logs
    BY <1>0, CallLeavesStore DEF Types
  <2>2. SUFFICES ASSUME ~Pending(s)'
                 PROVE  (\E e \in log'[taken[u]].entries : about'[e] = s) \/ Adding(s, taken[u])'
    BY <2>1 DEF Leaving, Adding
  <2>3. CASE \E e \in log[taken[u]].entries : about[e] = s
    <3>1. PICK e \in log[taken[u]].entries : about[e] = s
      BY <2>3
    <3>2. e \in Entries /\ about'[e] = s
      <4>1. e \in Entries
        BY <2>1 DEF Types
      <4>2. CASE Begin(t)
        BY <3>1, <4>1, <4>2, ObjectsAssumption DEF Begin, Types
      <4>3. CASE ~Begin(t)
        <5>1. about' = about
          BY <4>3 DEF Change, Record, TakeArray, LoadChunks, Count, PutHash, PutChunk,
             HashChanged, Install, LoadLog, AddChange, Return, opVars
        <5> QED BY <3>1, <4>1, <5>1
      <4> QED BY <4>1, <4>2, <4>3
    <3>3. log[taken[u]].entries \subseteq log'[taken[u]].entries
      <4>1. CASE Install(t)
        <5>1. NewLog # taken[u] /\ NewLog \in Logs
          BY <2>1, NewLogIsNew
        <5> HIDE DEF NewLog
        <5>2. log' = log \/ log' = [log EXCEPT ![NewLog] = [index |-> 0, entries |-> {}]]
          BY <4>1 DEF Install, logVars
        <5> QED BY <2>1, <5>1, <5>2 DEF Types
      <4>2. CASE AddChange(t)
        BY <2>1, <4>2 DEF AddChange, Types
      <4>3. CASE ~Install(t) /\ ~AddChange(t)
        BY <4>3 DEF Begin, Change, Record, TakeArray, LoadChunks, Count, PutHash, PutChunk,
           HashChanged, LoadLog, Return, logVars
      <4> QED BY <4>1, <4>2, <4>3
    <3> QED BY <3>1, <3>2, <3>3
  <2>4. CASE Adding(s, taken[u])
    <3>1. PICK v \in Threads : On(v, s) /\ pc[v] = "log" /\ mine[v] = taken[u]
      BY <2>4 DEF Adding
    <3>2. CASE v # t
      <4>1. mine'[v] = mine[v] /\ pc'[v] = pc[v]
        BY <1>0, <3>2 DEF Begin, Change, Record, TakeArray, LoadChunks, Count, PutHash, PutChunk,
           HashChanged, Install, LoadLog, AddChange, Return, Goto, locals, Types
      <4>2. On(v, s)'
        <5>1. CASE Begin(t)
          <6>1. entry'[v] = entry[v] /\ \A e \in Entries : about[e] # None => about'[e] = about[e]
            BY <1>0, <3>2, <5>1 DEF Begin, Types
          <6> QED BY <1>0, <3>1, <6>1, ObjectsAssumption DEF On, Types
        <5>2. CASE ~Begin(t)
          BY <1>0, <3>1, <3>2, <5>2 DEF Change, Record, TakeArray, LoadChunks, Count, PutHash, PutChunk,
           HashChanged, Install, LoadLog, AddChange, Return, opVars, On, Types
        <5> QED BY <5>1, <5>2
      <4> QED BY <2>1, <3>1, <4>1, <4>2 DEF Adding
    <3>3. CASE v = t
      <4>1. AddChange(t)
        BY <3>1, <3>3 DEF Begin, Change, Record, TakeArray, LoadChunks, Count, PutHash, PutChunk,
           HashChanged, Install, LoadLog, Return, At
      <4>2. entry' = entry /\ about' = about /\ entry[t] \in Entries
        BY <1>0, <3>1, <3>3, <4>1 DEF AddChange, opVars, On, Types
      <4>3. pc' # [pc EXCEPT ![t] = "check"]
        <5> SUFFICES ASSUME pc' = [pc EXCEPT ![t] = "check"] PROVE FALSE
          OBVIOUS
        <5>1. "check" \in Working
          BY DEF Working, Stores
        <5>2. Busy(s, Working)'
          BY <1>0, <3>1, <3>3, <4>2, <5>1, StepPlaces
        <5> QED BY <2>2, <5>2 DEF Pending
      <4>4. log' = [log EXCEPT ![mine[t]] =
                      [index |-> @.index + 1, entries |-> @.entries \cup {entry[t]}]]
        BY <4>1, <4>3 DEF AddChange, Goto
      <4>5. entry[t] \in log'[taken[u]].entries
        BY <2>1, <3>1, <3>3, <4>4 DEF Types
      <4> QED BY <3>1, <3>3, <4>2, <4>5 DEF On
    <3> QED BY <3>2, <3>3
  <2> QED BY <2>3, <2>4
<1> QED BY <1>1, <1>2, <1>3, <1>4 DEF KeptAt

LEMMA StoreKept ==
  ASSUME Types, Control, Shown, NEW t \in All, Store(t), Caught(t),
         NEW s \in Slots, KeptAt(s), ChunkCaught(t, s), HashCaught(t, s)
  PROVE  KeptAt(s)'
<1> USE DEF At, Goto
<1>0. \A u \in Threads : u \in All
  BY DEF All
<1>1. /\ promised' = promised
      /\ ~DetachLog(t) /\ Pending(s) => Pending(s)'
      /\ ~Reset(t) /\ WillStore(s) => WillStore(s)'
      /\ \A u \in All : On(u, s)' <=> On(u, s)
  BY StorePending
<1>2. ~Pending(s) => ~Busy(s, Early)
  BY DEF Pending, Busy, Working, Unsettled
<1>3. ~WillStore(s) => ~Busy(s, Early)
  BY DEF WillStore, Busy, Unsettled
<1>4. /\ about' = about /\ log' = log
      /\ \A u \in All : u # t => pc'[u] = pc[u] /\ mine'[u] = mine[u] /\ taken'[u] = taken[u]
  BY DEF Store, Check, LockStore, DetachLog, DetachChunks, Reset, ReadChunks, ReadHashes,
         WriteChunks, WriteHashes, Unlock, opVars, logVars, locals, Types
<1>5. pc[t] # "log" /\ pc[t] \in Stores
  BY DEF Store, Check, LockStore, DetachLog, DetachChunks, Reset, ReadChunks, ReadHashes,
         WriteChunks, WriteHashes, Unlock, Stores, Holding
(* The changes in the log of the store stay there, and only one store is at work. *)
<1>6. ASSUME Leaving(s), taken' = taken,
             pc[t] \in Holding => pc'[t] \in Holding \ {"detach_log", "unlock"}
      PROVE  Leaving(s)'
  <2>1. PICK u \in All :
          /\ pc[u] \in Holding \ {"detach_log", "unlock"} /\ taken[u] # None
          /\ (\E e \in log[taken[u]].entries : about[e] = s) \/ Adding(s, taken[u])
    BY <1>6 DEF Leaving
  <2>2. pc'[u] \in Holding \ {"detach_log", "unlock"}
    BY <1>4, <1>6, <2>1
  <2>3. Adding(s, taken[u]) => Adding(s, taken[u])'
    BY <1>0, <1>1, <1>4, <1>5, <1>6 DEF Adding
  <2> QED BY <1>4, <1>6, <2>1, <2>2, <2>3 DEF Leaving, Adding
<1>7. ASSUME NEW u \in All, u # t, pc[u] \in Holding
      PROVE  pc[t] \notin Holding
  BY <1>7 DEF Control
<1>8. CASE Check(t) \/ LockStore(t)
  <2>1. pc[t] \in {"check", "lock"} /\ taken' = taken /\ UNCHANGED <<hsh, chnk, skipped>>
    BY <1>8 DEF Check, LockStore, disk
  <2>2. ~DetachLog(t) /\ ~Reset(t) /\ pc[t] \notin Holding
    BY <2>1 DEF DetachLog, Reset, Holding
  <2>3. Leaving(s) => Leaving(s)'
    BY <1>6, <2>1, <2>2
  <2>4. Durable(s)' <=> Durable(s)
    BY <1>1, <2>1 DEF Durable, WholeOnDisk, OnDisk
  <2>5. Catching => Catching'
    BY <1>4, <2>1 DEF Catching
  <2> QED BY <1>1, <2>2, <2>3, <2>4, <2>5 DEF KeptAt
<1>9. CASE DetachLog(t)
  <2>1. /\ pc[t] = "detach_log" /\ pc' = [pc EXCEPT ![t] = "detach_chunks"]
        /\ taken'[t] = changes /\ mine' = mine /\ entry' = entry
        /\ UNCHANGED <<hsh, chnk, skipped>> /\ aborted = "no"
    BY <1>9 DEF DetachLog, disk, opVars, Types
  <2>2. ~Leaving(s) /\ ~Catching
    BY <1>7, <2>1 DEF Leaving, Catching, Holding
  <2>3. Durable(s)' <=> Durable(s)
    BY <1>1, <2>1 DEF Durable, WholeOnDisk, OnDisk
  <2>4. WillStore(s) => WillStore(s)'
    BY <1>1, <2>1 DEF Reset
  <2>5. pc'[t] = "detach_chunks" /\ "detach_chunks" \in Holding \ {"detach_log", "unlock"}
    BY <2>1 DEF Types, Holding
  <2>6. Pending(s) => Pending(s)' \/ Leaving(s)'
    <3>1. Busy(s, Working) => Busy(s, Working)'
      <4>1. "detach_chunks" \in Working
        BY DEF Working, Stores, Holding
      <4> QED BY <1>4, <2>1, <4>1, StepPlaces
    <3>2. Adding(s, changes) => Leaving(s)'
      <4> SUFFICES ASSUME Adding(s, changes) PROVE Leaving(s)'
        OBVIOUS
      <4>1. PICK v \in Threads : On(v, s) /\ pc[v] = "log" /\ mine[v] = changes
        BY DEF Adding
      <4>2. changes # None
        BY <2>1, <4>1 DEF Control
      <4>3. On(v, s)' /\ pc'[v] = "log" /\ mine'[v] = taken'[t]
        BY <1>0, <1>1, <1>4, <1>5, <2>1, <4>1
      <4>4. taken'[t] # None
        BY <2>1, <4>2
      <4> QED BY <2>5, <4>3, <4>4 DEF Leaving, Adding
    <3>3. Logged(s) => Leaving(s)'
      BY <1>4, <2>1, <2>5 DEF Logged, Leaving
    <3> QED BY <3>1, <3>2, <3>3 DEF Pending
  <2> QED BY <2>2, <2>3, <2>4, <2>6 DEF KeptAt
<1>10. CASE DetachChunks(t)
  <2>1. /\ pc[t] = "detach_chunks" /\ pc'[t] = "reset" /\ taken' = taken
        /\ UNCHANGED <<hsh, chnk, skipped>> /\ ~DetachLog(t) /\ ~Reset(t)
    BY <1>10 DEF DetachChunks, disk, Types, DetachLog, Reset
  <2>2. Leaving(s) => Leaving(s)'
    BY <1>6, <2>1 DEF Holding
  <2>3. Durable(s)' <=> Durable(s)
    BY <1>1, <2>1 DEF Durable, WholeOnDisk, OnDisk
  <2>4. ~Catching
    BY <1>7, <2>1 DEF Catching, Holding
  <2> QED BY <1>1, <2>1, <2>2, <2>3, <2>4 DEF KeptAt
<1>11. CASE Reset(t) \/ ReadChunks(t) \/ (ReadHashes(t) /\ Num > 0)
  <2>1. /\ pc[t] \in {"reset", "read_chunks", "read_hashes"}
        /\ pc'[t] \in {"read_chunks", "read_hashes", "write_chunks"} /\ taken' = taken
        /\ UNCHANGED <<hsh, chnk>> /\ ~DetachLog(t)
    BY <1>11 DEF Reset, ReadChunks, ReadHashes, disk, locals, Types, DetachLog
  <2>2. skipped' = skipped
    BY <1>11 DEF Reset, ReadChunks, ReadHashes, disk, Types
  <2>3. Leaving(s) => Leaving(s)'
    BY <1>6, <2>1 DEF Holding
  <2>4. Durable(s)' <=> Durable(s)
    BY <1>1, <2>1, <2>2 DEF Durable, WholeOnDisk, OnDisk
  <2>5. Catching'
    BY <2>1 DEF Catching
  <2> QED BY <1>1, <2>1, <2>3, <2>4, <2>5 DEF KeptAt
<1>12. CASE ReadHashes(t) /\ ~(Num > 0)
  <2>1. ~DetachLog(t) /\ ~Reset(t)
    BY <1>12 DEF ReadHashes, DetachLog, Reset
  <2>2. Num = 0 /\ skipped'
    <3>1. Num = 0
      BY <1>12, NumIsCount
    <3>2. skipped' = (skipped \/ Num = 0)
      BY <1>12 DEF ReadHashes
    <3> QED BY <3>1, <3>2, Zenon
  <2>3. ~Busy(s, Early) => Durable(s)'
    <3>1. ~Busy(s, Early) => ~Busy(s, Unhashed)
      BY DEF Busy, Early
    <3> QED BY <1>1, <2>2, <3>1, NumIsCount DEF Shown, ShownAt, Durable
  <2> QED BY <1>1, <1>2, <1>3, <2>1, <2>3 DEF KeptAt
<1>13. CASE WriteChunks(t)
  <2>1. /\ pc[t] = "write_chunks" /\ pc'[t] = "write_hashes" /\ taken' = taken
        /\ UNCHANGED <<hsh, skipped>> /\ ~DetachLog(t) /\ ~Reset(t)
        /\ chnk' = (IF text[t].chunks = None THEN chnk ELSE text[t].chunks)
    BY <1>13 DEF WriteChunks, locals, Types, DetachLog, Reset
  <2>2. Leaving(s) => Leaving(s)'
    BY <1>6, <2>1 DEF Holding
  <2>3. Catching'
    BY <2>1 DEF Catching
  <2>4. ~Busy(s, Early) /\ promised[s] # None => chnk'[s] = promised[s]
    BY <2>1 DEF ChunkCaught, InFile
  <2>5. ~Busy(s, Early) /\ Durable(s) => Durable(s)'
    BY <1>1, <2>1, <2>4 DEF Durable, WholeOnDisk, OnDisk
  <2> QED BY <1>1, <1>2, <2>1, <2>2, <2>3, <2>5 DEF KeptAt
<1>14. CASE WriteHashes(t)
  <2>1. /\ pc[t] = "write_hashes" /\ ~DetachLog(t) /\ ~Reset(t)
        /\ chnk' = chnk /\ hsh' = text[t].hashes
    BY <1>14 DEF WriteHashes, DetachLog, Reset
  <2>2. hsh' # None
    BY <2>1 DEF Caught
  <2>3. ~Busy(s, Early) /\ promised[s] # None => chnk'[s] = promised[s]
    BY <2>1 DEF ChunkCaught, InFile
  <2>4. ~Busy(s, Early) /\ text[t].hashes[s] = promised[s] => Durable(s)'
    BY <1>1, <2>1, <2>2, <2>3 DEF Durable, WholeOnDisk, OnDisk
  <2>5. /\ Pending(s) \/ text[t].hashes[s] = promised[s]
        /\ WillStore(s) \/ text[t].hashes[s] = promised[s]
    BY <2>1 DEF HashCaught
  <2> QED BY <1>1, <1>2, <1>3, <2>1, <2>4, <2>5 DEF KeptAt
<1>15. CASE Unlock(t)
  <2>1. /\ pc[t] = "unlock" /\ UNCHANGED <<hsh, chnk, skipped>> /\ ~DetachLog(t) /\ ~Reset(t)
    BY <1>15 DEF Unlock, disk, DetachLog, Reset
  <2>2. ~Leaving(s) /\ ~Catching
    BY <1>7, <2>1 DEF Leaving, Catching, Holding
  <2>3. Durable(s)' <=> Durable(s)
    BY <1>1, <2>1 DEF Durable, WholeOnDisk, OnDisk
  <2> QED BY <1>1, <2>1, <2>2, <2>3 DEF KeptAt
<1> QED BY <1>8, <1>9, <1>10, <1>11, <1>12, <1>13, <1>14, <1>15 DEF Store

LEMMA RestKept ==
  ASSUME Types, Control, Shown, GetChunk \/ StoreAllData \/ Unmount,
         NEW s \in Slots, KeptAt(s)
  PROVE  KeptAt(s)'
<1>0. Writer \in All /\ Writer \notin Threads /\ \A u \in Threads : u \in All
  BY BucketAssumption DEF All
<1>1. CASE GetChunk \/ StoreAllData
  <2>1. /\ UNCHANGED <<entry, about, promised, changes, log, mine, taken, hsh, chnk, skipped>>
        /\ dirty'.hash = dirty.hash
        /\ \A u \in All : pc'[u] = pc[u] \/ (u = Writer /\ pc[u] = "idle")
    BY <1>0, <1>1 DEF GetChunk, Load, StoreAllData, At, Goto, Types, memory, logVars, disk, opVars, locals
  <2>2. /\ \A u \in Threads : pc'[u] = pc[u]
        /\ \A labels : Busy(s, labels)' <=> Busy(s, labels)
        /\ \A l : Adding(s, l)' <=> Adding(s, l)
    BY <1>0, <2>1 DEF Busy, On, Adding
  <2>3. Adding(s, changes)' <=> Adding(s, changes)
    BY <2>1, <2>2 DEF Adding, On
  <2>4. Leaving(s) => Leaving(s)'
    <3> SUFFICES ASSUME NEW u \in All, pc[u] \in Holding \ {"detach_log", "unlock"}, taken[u] # None,
                        (\E e \in log[taken[u]].entries : about[e] = s) \/ Adding(s, taken[u])
                 PROVE  Leaving(s)'
      BY DEF Leaving
    <3>1. pc'[u] = pc[u]
      BY <2>1 DEF Holding
    <3>2. Adding(s, taken[u]) => Adding(s, taken[u])'
      BY <2>1, <2>2 DEF Adding, On
    <3> QED BY <2>1, <3>1, <3>2 DEF Leaving
  <2>5. Catching => Catching'
    BY <2>1 DEF Catching
  <2> QED BY <2>1, <2>2, <2>3, <2>4, <2>5
      DEF KeptAt, Pending, WillStore, Logged, Durable, WholeOnDisk, OnDisk
<1>2. CASE Unmount
  <2>1. mounted /\ (\A u \in All : pc[u] = "idle") /\ promised' = promised
    BY <1>2 DEF Unmount, At, opVars
  <2>2. /\ ~Leaving(s) /\ ~Catching
        /\ ~Busy(s, Unhashed) /\ ~Busy(s, Early) /\ ~Busy(s, Unsettled)
    BY <1>0, <2>1 DEF Leaving, Catching, Busy, Unhashed, Early, Unsettled, Holding
  <2>3. Durable(s)'
    <3>1. CASE ~(dirty.hash \/ dirty.chunk)
      <4>1. Durable(s)
        BY <2>2, <3>1 DEF KeptAt, WillStore
      <4> QED BY <1>2, <2>1, <3>1, <4>1 DEF Unmount, Durable, WholeOnDisk, OnDisk
    <3>2. CASE (dirty.hash \/ dirty.chunk) /\ Num > 0
      <4>1. hsh' = HashText /\ chnk' = IF ChunkText(chunks) = None THEN chnk ELSE ChunkText(chunks)
        BY <1>2, <3>2 DEF Unmount
      <4>2. HashText[s] = promised[s] /\ HashText # None
        BY <2>2, TextsHaveForm DEF Shown, ShownAt, HashText
      <4>3. promised[s] # None => chnk'[s] = promised[s]
        <5>1. ~Dropping
          BY <1>0, <2>1 DEF Dropping
        <5>2. chunks # None => array[chunks] # None
          BY TextsHaveForm DEF Types
        <5> QED BY <2>1, <2>2, <4>1, <5>1, <5>2 DEF Shown, ShownAt, InFile, ChunkText
      <4> QED BY <2>1, <4>1, <4>2, <4>3 DEF Durable, WholeOnDisk, OnDisk
    <3>3. CASE (dirty.hash \/ dirty.chunk) /\ ~(Num > 0)
      <4>1. Num = 0 /\ skipped'
        <5>1. Num = 0
          BY <3>3, NumIsCount
        <5>2. skipped' = (Num = 0)
          BY <1>2, <3>3 DEF Unmount
        <5> QED BY <5>1, <5>2, Zenon
      <4> QED BY <2>1, <2>2, <4>1, NumIsCount DEF Shown, ShownAt, Durable
    <3> QED BY <3>1, <3>2, <3>3
  <2> QED BY <2>3 DEF KeptAt
<1> QED BY <1>1, <1>2

-----------------------------------------------------------------------------
LEMMA BucketStep ==
  ASSUME Exclusive, BucketInv, [Next]_vars
  PROVE  BucketInv'
<1> USE DEF BucketInv
<1>1. Counted'
  BY CountedStep
<1>2. CASE \E t \in Threads : Begin(t) \/ Change(t) \/ Record(t)
  <2>1. PICK t \in Threads : Begin(t) \/ Change(t) \/ Record(t)
    BY <1>2
  <2>2. Types' /\ Control' /\ Shown'
    BY <2>1, CallTypes, CallControl, CallShown
  <2>3. \A u \in All : Caught(u)'
    BY <2>1, CaughtStep DEF Next
  <2>4. \A s \in Slots : KeptAt(s)' /\ \A u \in All : ChunkCaught(u, s)' /\ HashCaught(u, s)'
    BY <2>1, CallKept, CallCaught
  <2> QED BY <1>1, <2>2, <2>3, <2>4
<1>3. CASE \E t \in All : Store(t)
  <2>1. PICK t \in All : Store(t)
    BY <1>3
  <2>2. Types' /\ Control' /\ Shown'
    BY <2>1, StoreTypes, StoreControl, StoreShown
  <2>3. \A u \in All : Caught(u)'
    BY <2>1, CaughtStep DEF Next
  <2>4. \A s \in Slots : KeptAt(s)' /\ \A u \in All : ChunkCaught(u, s)' /\ HashCaught(u, s)'
    BY <2>1, StoreKept, StoreCaught
  <2> QED BY <1>1, <2>2, <2>3, <2>4
<1>4. CASE GetChunk \/ StoreAllData \/ Unmount
  <2>1. Types' /\ Control' /\ Shown'
    BY <1>4, RestTypes, RestControl, RestShown
  <2>2. \A u \in All : Caught(u)'
    BY <1>4, CaughtStep DEF Next
  <2>3. \A s \in Slots : KeptAt(s)' /\ \A u \in All : ChunkCaught(u, s)' /\ HashCaught(u, s)'
    BY <1>4, RestKept, RestCaught
  <2> QED BY <1>1, <2>1, <2>2, <2>3
<1>5. CASE UNCHANGED vars
  BY <1>5
  DEF vars, memory, logVars, disk, opVars, locals, Types, Counted, Control, On, Shown, ShownAt,
      Busy, Dropping, InFile, Caught, ChunkCaught, HashCaught, KeptAt, Pending, Adding, Logged,
      WillStore, Leaving, Durable, WholeOnDisk, OnDisk, Catching
<1> QED BY <1>2, <1>3, <1>4, <1>5 DEF Next

(* The invariant of a bucket under calls, stores of the writer and of full *)
(* logs, readers and an unmount.                                           *)
THEOREM BucketInvariant ==
  ASSUME Exclusive
  PROVE  Spec => []BucketInv
<1>1. BucketInv /\ [Next]_vars => BucketInv'
  BY BucketStep
<1> QED BY <1>1, BucketInit, PTL DEF Spec

(* TypeOK: what memory and the files hold has its form, and a log never    *)
(* takes more entries than it has places (bucketChangeLog, bucket.cpp:38). *)
THEOREM Typing ==
  ASSUME Exclusive
  PROVE  Spec => []TypeOK
<1>1. BucketInv => TypeOK
  <2> SUFFICES ASSUME BucketInv PROVE TypeOK
    OBVIOUS
  <2>1. \A l \in Logs : Cardinality(log[l].entries) <= LogSize
    <3> SUFFICES ASSUME NEW l \in Logs PROVE Cardinality(log[l].entries) <= LogSize
      OBVIOUS
    <3>1. /\ IsFiniteSet(log[l].entries) /\ Cardinality(log[l].entries) <= log[l].index
          /\ log[l].index \in 0 .. LogSize
      BY DEF BucketInv, Types, Counted
    <3>2. Cardinality(log[l].entries) \in Nat
      BY <3>1, FS_CardinalityType
    <3> QED BY <3>1, <3>2, BucketAssumption
  <2> QED BY <2>1 DEF BucketInv, Types, TypeOK
<1> QED BY <1>1, BucketInvariant, PTL

(* Recoverable: at every moment every change is on disk, hash and chunk,   *)
(* or a journal entry about its slot is open, however stores, full logs    *)
(* and an unmount fall between putHashAndChunk, incRefCnt and addChange    *)
(* (bucket.cpp:219-335).                                                   *)
THEOREM ChangesSurvive ==
  ASSUME Exclusive
  PROVE  Spec => []Recoverable
<1>1. BucketInv => Recoverable
  <2> SUFFICES ASSUME BucketInv, NEW s \in Slots, ~Durable(s)
               PROVE  \E e \in Open : about[e] = s
    BY DEF Recoverable, Durable
  <2>1. Pending(s) \/ Leaving(s)
    BY DEF BucketInv, KeptAt
  <2>2. ASSUME NEW t \in Threads, On(t, s) PROVE \E e \in Open : about[e] = s
    BY <2>2 DEF On, Open, All
  <2>3. ASSUME NEW l \in LogsAlive, \E e \in log[l].entries : about[e] = s
        PROVE  \E e \in Open : about[e] = s
    BY <2>3 DEF Open
  <2>4. CASE Pending(s)
    BY <2>2, <2>3, <2>4 DEF Pending, Busy, Adding, Logged, LogsAlive
  <2>5. CASE Leaving(s)
    <3>1. PICK u \in All : /\ taken[u] # None
                           /\ (\E e \in log[taken[u]].entries : about[e] = s) \/ Adding(s, taken[u])
      BY <2>5 DEF Leaving
    <3>2. taken[u] \in LogsAlive
      BY <3>1 DEF LogsAlive
    <3> QED BY <2>2, <2>3, <3>1, <3>2 DEF Adding
  <2> QED BY <2>1, <2>4, <2>5
<1> QED BY <1>1, BucketInvariant, PTL

=============================================================================
