----------------------------- MODULE BucketCache -----------------------------
(***************************************************************************)
(* One data bucket (filesystem/bucket.cpp): the hashes and chunks it keeps *)
(* in memory, its two files, and the log of journal entries whose changes  *)
(* are not stored yet. FUSE threads put and clear slots while the metadata *)
(* writer (storage::storeAllData) stores the bucket and drops its chunks.  *)
(*                                                                         *)
(*   hashes[s]      content of the hash at slot s (None: no hash)          *)
(*   refcnt[s]      its count                                              *)
(*   chunks         the array of chunks in memory (None: not loaded)       *)
(*   array[a]       what the arrays hold; a put or a store may work on one *)
(*                  that is no longer in chunks                            *)
(*   dirty          whether hash/chunkChangesSinceLoad are above 0         *)
(*   changes, log   the bucketChangeLog objects                            *)
(*   mutex          _mut, which loadChunks and store take                  *)
(*   hsh, chnk      the files on disk (None: no file)                      *)
(*   entry[t]       the journal entry of the operation of thread t         *)
(*   about[e]       the slot the operation of entry e changes              *)
(*   C, mine, taken, text   local variables of a call                      *)
(*   promised[s]    ghost: what the operations asked slot s to hold        *)
(*   skipped        ghost: a store found no hash and wrote nothing, and none *)
(*                  has written since                                      *)
(*                                                                         *)
(* One action is one access to shared state; the loops of load and store   *)
(* over the slots are one access, which changes nothing when Exclusive: no *)
(* slot is put while a store runs. An operation is what newHash and        *)
(* incRefCnt, or decRefCnt, make of one slot, followed by addChange        *)
(* (file.cpp:754-756); an entry is the content it puts. DedupStore sees to *)
(* it that slots are put when free and cleared when in use. A file is      *)
(* replaced atomically (putSystemString renames). The hashes of a bucket   *)
(* are loaded at the mount (storage.cpp:88-89) and stay.                   *)
(*                                                                         *)
(* Exclusive: no store runs between the moment a put takes the array and   *)
(* the moment it has written to it. The code does not ensure this.         *)
(*                                                                         *)
(* Bounds: Slots and LogSize (100 and 1024 in the code), Entries (the      *)
(* operations), Arrays and Logs (objects alive at once).                   *)
(***************************************************************************)
EXTENDS Integers, FiniteSets

CONSTANTS Threads, Writer, Slots, Entries, LogSize, Arrays, Logs, Exclusive,
          Empty, None

ASSUME BucketAssumption ==
  /\ Writer \notin Threads
  /\ IsFiniteSet(Slots)
  /\ LogSize \in Nat \ {0}
  /\ Exclusive \in BOOLEAN
  /\ {Empty, None} \cap Entries = {} /\ Empty # None

(* A new array or log is none of those somebody holds: an array while none *)
(* is loaded, a log beside those of the calls and of one store.            *)
ASSUME ObjectsAssumption ==
  /\ \A held \in [Threads \cup {Writer} -> Arrays \cup {None}] :
       \E a \in Arrays : \A t \in Threads \cup {Writer} : held[t] # a
  /\ \A held \in [Threads -> Logs \cup {None}], stored \in Logs \cup {None} :
       \E l \in Logs : l # stored /\ \A t \in Threads : held[t] # l
  /\ None \notin Arrays \cup Logs \cup Slots \cup Threads \cup {Writer}
  /\ None \notin [Slots -> Entries \cup {None}] \cup [Slots -> Entries \cup {Empty}]
  /\ None \notin [chunks : [Slots -> Entries \cup {Empty}] \cup {None},
                  hashes : [Slots -> Entries \cup {None}] \cup {None}]

VARIABLES hashes, refcnt, chunks, array, dirty, changes, log, mutex, hsh, chnk,
          pc, entry, about, C, mine, taken, text, promised, skipped, mounted,
          aborted

memory == <<hashes, refcnt, chunks, array>>
logVars == <<changes, log>>
disk == <<hsh, chnk, skipped>>
opVars == <<entry, about, promised>>
locals == <<C, mine, taken, text>>
vars == <<memory, dirty, logVars, mutex, disk, pc, opVars, locals, mounted,
          aborted>>

All == Threads \cup {Writer}
Empties == [s \in Slots |-> Empty]

Init ==
  /\ hashes = [s \in Slots |-> None]
  /\ refcnt = [s \in Slots |-> 0]
  /\ chunks = None
  /\ array = [a \in Arrays |-> Empties]
  /\ dirty = [hash |-> FALSE, chunk |-> FALSE]
  /\ changes = None
  /\ log = [l \in Logs |-> [index |-> 0, entries |-> {}]]
  /\ mutex = None
  /\ hsh = None /\ chnk = None
  /\ pc = [t \in All |-> "idle"]
  /\ entry = [t \in All |-> None]
  /\ about = [e \in Entries |-> None]
  /\ C = [t \in All |-> None]
  /\ mine = [t \in All |-> None]
  /\ taken = [t \in All |-> None]
  /\ text = [t \in All |-> None]
  /\ promised = [s \in Slots |-> None]
  /\ skipped = FALSE
  /\ mounted = TRUE
  /\ aborted = "no"

(* An assertion that fails stops the program. *)
At(t, label) == pc[t] = label /\ aborted = "no"
Goto(t, label) == pc' = [pc EXCEPT ![t] = label]

(* A call that has taken the array and not written to it yet. *)
Putting == \E t \in Threads : pc[t] \in {"load", "count", "hash", "chunk"}

(* A store at work, between lock and unlock. *)
Storing == mutex # None

(* The slot a thread works on, and what it puts there. *)
SlotOf(t) == about[entry[t]]
Value(t) == promised[SlotOf(t)]

NewArray == CHOOSE a \in Arrays : a # chunks /\ \A t \in All : C[t] # a
NewLog == CHOOSE l \in Logs : \A t \in All : l \notin {mine[t], taken[t]}

(* Faulty: a chunk file that exists is not written again. *)
ChunkTextOnce(a) ==
  IF chnk # None THEN None ELSE IF a # None THEN array[a] ELSE Empties

(* The cleartext of the files, :254-299; a hash with a count of 0 is not   *)
(* loaded again (:74).                                                     *)
ChunkText(a) ==
  IF a # None THEN array[a] ELSE IF chnk = None THEN Empties ELSE None
HashText == [s \in Slots |-> IF refcnt[s] > 0 THEN hashes[s] ELSE None]
Num == Cardinality({s \in Slots : hashes[s] # None})

-----------------------------------------------------------------------------
(* More faulty versions of operations below, each with one mistake a change *)
(* to the code could make. No action uses them: a run in which one takes   *)
(* the place of its original must break a property.                        *)

HashChangedUncounted(t) ==
  /\ At(t, "changed")
  /\ refcnt' = [refcnt EXCEPT ![SlotOf(t)] = IF Value(t) = None THEN 0 ELSE 1]
  /\ Goto(t, "install")
  /\ UNCHANGED <<hashes, chunks, array, dirty, logVars, mutex, disk, opVars,
                 locals, mounted, aborted>>

-----------------------------------------------------------------------------
(* An operation on a slot no other operation works on: its journal entry   *)
(* is written first, then a put fills a free slot, or the last reference   *)
(* to the hash of a slot is dropped (hash.cpp:60).                         *)
Begin(t) ==
  /\ mounted /\ At(t, "idle")
  /\ \E e \in Entries, s \in Slots :
       /\ about[e] = None
       /\ \A u \in Threads : entry[u] # None => SlotOf(u) # s
       /\ entry' = [entry EXCEPT ![t] = e]
       /\ about' = [about EXCEPT ![e] = s]
       /\ promised' = [promised EXCEPT ![s] = IF @ = None THEN e ELSE None]
       /\ refcnt' = [refcnt EXCEPT ![s] = 0]
  /\ Goto(t, "array")
  /\ UNCHANGED <<hashes, chunks, array, dirty, logVars, mutex, disk, locals,
                 mounted, aborted>>

(* putHashAndChunk, :194-198 *)
TakeArray(t) ==
  /\ At(t, "array")
  /\ Exclusive => ~Storing
  /\ C' = [C EXCEPT ![t] = chunks]
  /\ Goto(t, IF chunks = None THEN "load" ELSE "count")
  /\ UNCHANGED <<memory, dirty, logVars, mutex, disk, opVars, mine, taken, text,
                 mounted, aborted>>

(* loadChunks, :87-136 *)
Load ==
  /\ mutex = None
  /\ IF chunks # None
       THEN UNCHANGED <<chunks, array, dirty>>
       ELSE /\ array' = [array EXCEPT ![NewArray] =
                           IF chnk = None THEN Empties ELSE chnk]
            /\ chunks' = NewArray
            /\ dirty' = [dirty EXCEPT !.chunk = FALSE]

LoadChunks(t) ==
  /\ At(t, "load")
  /\ Load
  /\ C' = [C EXCEPT ![t] = chunks']
  /\ Goto(t, "count")
  /\ UNCHANGED <<hashes, refcnt, logVars, mutex, disk, opVars, mine, taken, text,
                 mounted, aborted>>

(* getChunk, by whoever reads: it loads the chunks when they are gone.     *)
GetChunk ==
  /\ mounted /\ aborted = "no" /\ chunks = None
  /\ Load
  /\ UNCHANGED <<hashes, refcnt, logVars, mutex, disk, pc, opVars, locals, mounted,
                 aborted>>

(* The change is counted before it is made, :199-202. *)
Count(t) ==
  /\ At(t, "count")
  /\ dirty' = [hash |-> TRUE, chunk |-> TRUE]
  /\ Goto(t, "hash")
  /\ UNCHANGED <<memory, logVars, mutex, disk, opVars, locals, mounted, aborted>>

PutHash(t) ==
  /\ At(t, "hash")
  /\ hashes' = [hashes EXCEPT ![SlotOf(t)] = Value(t)]
  /\ Goto(t, "chunk")
  /\ UNCHANGED <<refcnt, chunks, array, dirty, logVars, mutex, disk, opVars,
                 locals, mounted, aborted>>

PutChunk(t) ==
  /\ At(t, "chunk")
  /\ array' = [array EXCEPT ![C[t]][SlotOf(t)] =
                 IF Value(t) = None THEN Empty ELSE Value(t)]
  /\ C' = [C EXCEPT ![t] = None]
  /\ Goto(t, "changed")
  /\ UNCHANGED <<hashes, refcnt, chunks, dirty, logVars, mutex, disk, opVars,
                 mine, taken, text, mounted, aborted>>

(* incRefCnt of the new hash, hash.cpp:51-54; the end of decRefCnt, :75.   *)
HashChanged(t) ==
  /\ At(t, "changed")
  /\ refcnt' = [refcnt EXCEPT ![SlotOf(t)] = IF Value(t) = None THEN 0 ELSE 1]
  /\ dirty' = [dirty EXCEPT !.hash = TRUE]
  /\ Goto(t, "install")
  /\ UNCHANGED <<hashes, chunks, array, logVars, mutex, disk, opVars, locals,
                 mounted, aborted>>

-----------------------------------------------------------------------------
(* addChange, :323-338 *)
Install(t) ==
  /\ At(t, "install")
  /\ IF changes # None THEN UNCHANGED logVars
     ELSE /\ changes' = NewLog
          /\ log' = [log EXCEPT ![NewLog] = [index |-> 0, entries |-> {}]]
  /\ Goto(t, "load_log")
  /\ UNCHANGED <<memory, dirty, mutex, disk, opVars, locals, mounted, aborted>>

(* The assertion is on a second load of the pointer, :327-328. *)
LoadLog(t) ==
  /\ At(t, "load_log")
  /\ mine' = [mine EXCEPT ![t] = changes]
  /\ aborted' = IF changes = None THEN "bucket.cpp:328" ELSE aborted
  /\ Goto(t, "log")
  /\ UNCHANGED <<memory, dirty, logVars, mutex, disk, opVars, C, taken, text,
                 mounted>>

(* bucketChangeLog::addChange, :38-45. When the log is full the bucket is  *)
(* stored, while the full log is still in the hands of the call (:332-335).*)
AddChange(t) ==
  /\ At(t, "log")
  /\ IF log[mine[t]].index < LogSize
       THEN /\ log' = [log EXCEPT ![mine[t]] =
                         [index |-> @.index + 1, entries |-> @.entries \cup {entry[t]}]]
            /\ mine' = [mine EXCEPT ![t] = None]
            /\ Goto(t, "return")
            /\ UNCHANGED dirty
       ELSE /\ dirty' = [hash |-> TRUE, chunk |-> TRUE]
            /\ Goto(t, "check")
            /\ UNCHANGED <<log, mine>>
  /\ UNCHANGED <<memory, changes, mutex, disk, opVars, C, taken, text, mounted,
                 aborted>>

(* The operation returns and lets go of its entry. *)
Return(t) ==
  /\ At(t, "return")
  /\ entry' = [entry EXCEPT ![t] = None]
  /\ Goto(t, "idle")
  /\ UNCHANGED <<memory, dirty, logVars, mutex, disk, about, promised, locals,
                 mounted, aborted>>

-----------------------------------------------------------------------------
(* storeAllData stores the bucket and clears its cache (storage.cpp:278);  *)
(* actualWriting lets one thread at a time do so (fs.cpp:843).             *)
StoreAllData ==
  /\ mounted /\ At(Writer, "idle")
  /\ Goto(Writer, "check")
  /\ UNCHANGED <<memory, dirty, logVars, mutex, disk, opVars, locals, mounted,
                 aborted>>

(* Where store returns to: the loop of addChange, or the writer. *)
After(t) == IF t = Writer THEN "idle" ELSE "install"

(* store, :219 *)
Check(t) ==
  /\ At(t, "check")
  /\ IF dirty.hash \/ dirty.chunk
       THEN Goto(t, "lock") /\ UNCHANGED mine
       ELSE Goto(t, After(t)) /\ mine' = [mine EXCEPT ![t] = None]
  /\ UNCHANGED <<memory, dirty, logVars, mutex, disk, opVars, C, taken, text,
                 mounted, aborted>>

(* :220-223 *)
LockStore(t) ==
  /\ At(t, "lock")
  /\ mutex = None
  /\ Exclusive => ~Putting
  /\ IF dirty.hash \/ dirty.chunk
       THEN mutex' = t /\ Goto(t, "detach_log") /\ UNCHANGED mine
       ELSE /\ Goto(t, After(t)) /\ mine' = [mine EXCEPT ![t] = None]
            /\ UNCHANGED mutex
  /\ UNCHANGED <<memory, dirty, logVars, disk, opVars, C, taken, text, mounted,
                 aborted>>

(* :229 *)
DetachLog(t) ==
  /\ At(t, "detach_log")
  /\ taken' = [taken EXCEPT ![t] = changes]
  /\ changes' = None
  /\ Goto(t, "detach_chunks")
  /\ UNCHANGED <<memory, dirty, log, mutex, disk, opVars, C, mine, text, mounted,
                 aborted>>

(* The writer clears the cache, addChange does not, :232-236. *)
DetachChunks(t) ==
  /\ At(t, "detach_chunks")
  /\ C' = [C EXCEPT ![t] = chunks]
  /\ chunks' = IF t = Writer THEN None ELSE chunks
  /\ Goto(t, "reset")
  /\ UNCHANGED <<hashes, refcnt, array, dirty, logVars, mutex, disk, opVars,
                 mine, taken, text, mounted, aborted>>

(* :238-239 *)
Reset(t) ==
  /\ At(t, "reset")
  /\ dirty' = [hash |-> FALSE, chunk |-> FALSE]
  /\ Goto(t, "read_chunks")
  /\ UNCHANGED <<memory, logVars, mutex, disk, opVars, locals, mounted, aborted>>

(* :254-281 *)
ReadChunks(t) ==
  /\ At(t, "read_chunks")
  /\ text' = [text EXCEPT ![t] = [chunks |-> ChunkText(C[t]), hashes |-> None]]
  /\ Goto(t, "read_hashes")
  /\ UNCHANGED <<memory, dirty, logVars, mutex, disk, opVars, C, mine, taken,
                 mounted, aborted>>

(* :284-300; without a hash nothing is written. *)
ReadHashes(t) ==
  /\ At(t, "read_hashes")
  /\ text' = [text EXCEPT ![t].hashes = HashText]
  /\ skipped' = (skipped \/ Num = 0)
  /\ Goto(t, IF Num > 0 THEN "write_chunks" ELSE "unlock")
  /\ UNCHANGED <<memory, dirty, logVars, mutex, hsh, chnk, opVars, C, mine, taken,
                 mounted, aborted>>

(* The chunks before the hashes that speak of them, :310-315. *)
WriteChunks(t) ==
  /\ At(t, "write_chunks")
  /\ chnk' = IF text[t].chunks = None THEN chnk ELSE text[t].chunks
  /\ Goto(t, "write_hashes")
  /\ UNCHANGED <<memory, dirty, logVars, mutex, hsh, skipped, opVars, locals,
                 mounted, aborted>>

WriteHashes(t) ==
  /\ At(t, "write_hashes")
  /\ hsh' = text[t].hashes
  /\ skipped' = FALSE
  /\ Goto(t, "unlock")
  /\ UNCHANGED <<memory, dirty, logVars, mutex, chnk, opVars, locals, mounted,
                 aborted>>

(* The log goes out of scope, which closes the entries nobody else holds   *)
(* (journal.cpp:34-36).                                                    *)
Unlock(t) ==
  /\ At(t, "unlock")
  /\ mutex' = None
  /\ C' = [C EXCEPT ![t] = None]
  /\ taken' = [taken EXCEPT ![t] = None]
  /\ text' = [text EXCEPT ![t] = None]
  /\ mine' = [mine EXCEPT ![t] = None]
  /\ Goto(t, After(t))
  /\ UNCHANGED <<memory, dirty, logVars, disk, opVars, mounted, aborted>>

(* ~fs waits for the operations (fs.cpp:86-91), stores everything (:107),  *)
(* and the bucket is destroyed with its log (bucket.cpp:142-146).          *)
Unmount ==
  /\ mounted /\ \A t \in All : At(t, "idle")
  /\ IF (dirty.hash \/ dirty.chunk) /\ Num > 0
       THEN /\ hsh' = HashText
            /\ chnk' = IF ChunkText(chunks) = None THEN chnk ELSE ChunkText(chunks)
       ELSE UNCHANGED <<hsh, chnk>>
  /\ skipped' = IF dirty.hash \/ dirty.chunk THEN Num = 0 ELSE skipped
  /\ changes' = None
  /\ chunks' = None
  /\ dirty' = [hash |-> FALSE, chunk |-> FALSE]
  /\ mounted' = FALSE
  /\ UNCHANGED <<hashes, refcnt, array, log, mutex, pc, opVars, locals, aborted>>

Change(t) ==
  \/ TakeArray(t) \/ LoadChunks(t) \/ Count(t) \/ PutHash(t) \/ PutChunk(t)
  \/ HashChanged(t)
Record(t) == Install(t) \/ LoadLog(t) \/ AddChange(t) \/ Return(t)
Store(t) ==
  \/ Check(t) \/ LockStore(t) \/ DetachLog(t) \/ DetachChunks(t) \/ Reset(t)
  \/ ReadChunks(t) \/ ReadHashes(t) \/ WriteChunks(t) \/ WriteHashes(t) \/ Unlock(t)

Next ==
  \/ \E t \in Threads : Begin(t) \/ Change(t) \/ Record(t)
  \/ \E t \in All : Store(t)
  \/ GetChunk
  \/ StoreAllData
  \/ Unmount

Spec == Init /\ [][Next]_vars

-----------------------------------------------------------------------------
HashFile == [Slots -> Entries \cup {None}]
ChunkFile == [Slots -> Entries \cup {Empty}]

(* Types; a log never takes more entries than it has places (:40). *)
TypeOK ==
  /\ hashes \in HashFile /\ refcnt \in [Slots -> {0, 1}]
  /\ chunks \in Arrays \cup {None} /\ array \in [Arrays -> ChunkFile]
  /\ changes \in Logs \cup {None}
  /\ \A l \in Logs : Cardinality(log[l].entries) <= LogSize
  /\ mutex \in All \cup {None}
  /\ hsh \in HashFile \cup {None} /\ chnk \in ChunkFile \cup {None}
  /\ entry \in [All -> Entries \cup {None}]
  /\ about \in [Entries -> Slots \cup {None}]
  /\ promised \in HashFile

(* The entries without a close record: an operation, or a log somebody can *)
(* still reach, holds them.                                                *)
LogsAlive ==
  ({changes} \cup {mine[t] : t \in All} \cup {taken[t] : t \in All}) \ {None}
Open ==
  ({entry[t] : t \in All} \ {None}) \cup UNION {log[l].entries : l \in LogsAlive}

(* What a mount after a crash would find at a slot. *)
OnDisk(s) == IF hsh = None THEN None ELSE hsh[s]
WholeOnDisk(s) == OnDisk(s) = promised[s] /\ (OnDisk(s) # None => chnk[s] = OnDisk(s))

(* At every moment a change is on disk, hash and chunk, or an open journal *)
(* entry speaks of its slot: an entry is closed only when its changes are  *)
(* stored, whatever the order of addChange and store, with a full log and  *)
(* at an unmount (:229 against :315, :329-335). The exception is a bucket  *)
(* that was stored without a hash: nothing is written (:317), and what was *)
(* cleared is still on disk.                                               *)
Recoverable ==
  \A s \in Slots :
    \/ WholeOnDisk(s)
    \/ \E e \in Open : about[e] = s
    \/ skipped /\ promised[s] = None

(* What was put is what is read: the cache, or the file when the cache was *)
(* cleared ("store(true) operation will clear cache and stores a copy to   *)
(* dsk", storage.cpp:278), shows the last change of a slot nobody works on.*)
ReadsBack ==
  \A s \in Slots :
    mounted /\ (\A t \in Threads : entry[t] # None => SlotOf(t) # s) =>
      /\ hashes[s] = promised[s]
      /\ promised[s] # None /\ chunks # None => array[chunks][s] = promised[s]
      /\ promised[s] # None /\ chunks = None /\ ~Storing =>
           chnk # None /\ chnk[s] = promised[s]
=============================================================================
