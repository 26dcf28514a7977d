------------------------------ MODULE ChunkFile ------------------------------
(***************************************************************************)
(* The bytes of one file (file.cpp: writeInner, truncateInner, read): how  *)
(* a size in bytes and a list of chunks of a fixed size make a file, while *)
(* a reader runs beside the call that changes it.                          *)
(*                                                                         *)
(*   size        INode()->size                                             *)
(*   list        hashList, each hash by the chunk it stands for            *)
(*   chain       the inode records (InodeChain). An entry an earlier rest  *)
(*               left is Old: whatever it is, it must never be loaded      *)
(*   call, pc    the write or truncation in progress, and where it is      *)
(*   hashes      the chunks it is going to store                           *)
(*   stored      how many of them it has stored                            *)
(*   reader      the read in progress; rpc, where it is                    *)
(*   fetched     hashes the read has fetched, of numHashesInRead           *)
(*   got         the bytes it has put into the caller's buffer             *)
(*   seen[i]     what place i held, or was being given, since it began     *)
(*   alone       no other call was in progress since it began              *)
(*   aborted     the assertion that failed                                 *)
(*                                                                         *)
(* The kernel runs one modifying call per inode at a time; reads run       *)
(* beside it. _mut is its specification (RWLock): the caller is inside a   *)
(* unique or a shared section from one pc to another. DedupStore models    *)
(* what storing a hash means; here a hash is its chunk.                    *)
(*                                                                         *)
(* Bounds: chunkSize (4096 in the code), MaxSize, and the entries of an    *)
(* inode record.                                                           *)
(***************************************************************************)
EXTENDS InodeChain

CONSTANTS chunkSize, MaxSize, Bytes, NUL, None, Old

ASSUME FileAssumption ==
  /\ chunkSize \in Nat \ {0} /\ MaxSize \in Nat
  /\ NUL \notin Bytes

VARIABLES size, list, chain, call, pc, hashes, stored, reader, rpc, numHashesInRead,
          fetched, got, seen, alone, aborted

writer == <<call, pc, hashes, stored>>
readVars == <<reader, rpc, numHashesInRead, fetched, got, seen, alone>>
vars == <<size, list, chain, writer, readVars, aborted>>

Least(a, b) == IF a < b THEN a ELSE b
Greatest(a, b) == IF a > b THEN a ELSE b

(* n/chunkSize, and one more when there is a rest. *)
NumChunks(n) == n \div chunkSize + (IF n % chunkSize > 0 THEN 1 ELSE 0)

InChunk == 0 .. chunkSize - 1
ZeroChunk == [b \in InChunk |-> NUL]
Zeros(n) == [k \in 1 .. n |-> ZeroChunk]

Writes == [op : {"write"}, offset : 0 .. MaxSize - 1, size : 1 .. MaxSize,
           value : Bytes]
Truncations == [op : {"truncate"}, offset : {0}, size : 0 .. MaxSize,
                value : {NUL}]
Calls == {c \in Writes : c.offset + c.size <= MaxSize} \cup Truncations
Reads == {r \in [offset : 0 .. MaxSize - 1, size : 1 .. MaxSize] :
            r.offset + r.size <= MaxSize}

ASSUME ValuesAssumption ==
  /\ None \notin Calls
  /\ NoEntry \notin [InChunk -> Bytes \cup {NUL}]

Unaligned(r) == r.offset % chunkSize > 0

(* Faulty: the first chunk is rounded up. *)
FirstHashRoundedUp(r) == NumChunks(r.offset)

FirstHash(r) == r.offset \div chunkSize

Init ==
  /\ size = 0
  /\ list = <<>>
  /\ chain = NewChain
  /\ call = None
  /\ pc = "idle"
  /\ hashes = <<>>
  /\ stored = 0
  /\ reader = None
  /\ rpc = "idle"
  /\ numHashesInRead = 0
  /\ fetched = 0
  /\ got = <<>>
  /\ seen = [i \in 0 .. MaxSize - 1 |-> {}]
  /\ alone = TRUE
  /\ aborted = "no"

(* Who is inside a section of _mut. *)
InUnique ==
  \/ pc \in {"range", "store"} /\ Unaligned(call)
  \/ pc \in {"cut", "size"}
InShared == rpc = "fetch"

(* What the file holds at place i: beyond the list nothing was stored. *)
ByteAt(i) ==
  LET p == i \div chunkSize + 1
  IN IF p <= Len(list) THEN list[p][i % chunkSize] ELSE NUL

bytes == [i \in 0 .. MaxSize - 1 |-> ByteAt(i)]

(* The records after a rest, and what is left of them for the next one. *)
Rested == RestInto(chain, list)
Kept(records) ==
  [r \in DOMAIN records |->
     [p \in DOMAIN records[r] |-> IF records[r][p] = NoEntry THEN NoEntry ELSE Old]]

(* What a call may make of place i. *)
Outcomes(c, i) ==
  IF c = None THEN {}
  ELSE IF c.op = "truncate" THEN (IF c.size <= i THEN {NUL} ELSE {})
  ELSE IF c.offset <= i /\ i < c.offset + c.size THEN {c.value} ELSE {}

(* Faulty: every chunk is filled from its beginning. *)
NewOffsetZero(r, k) == 0

-----------------------------------------------------------------------------
(* The loops over the chunks of a request. offset does not move; what is   *)
(* left of size after k - 1 chunks decides what chunk k gets (:722-729,    *)
(* :627-633).                                                              *)
NewOffset(r, k) == Greatest(r.offset - (FirstHash(r) + k - 1) * chunkSize, 0)

Given(r, k) == IF k = 1 THEN 0 ELSE chunkSize * (k - 1) - NewOffset(r, 1)
NewSize(r, k) ==
  Least(Greatest(r.size - Given(r, k), 0), chunkSize - NewOffset(r, k))

(* Faulty: an unaligned write counts its chunks like an aligned one. *)
NumHashesAligned(c) == NumChunks(c.size)

(* :681-687 *)
NumHashesInWrite(c) ==
  NumChunks(c.size) + (IF Unaligned(c) THEN 1 ELSE 0)

(* hash::write of chunk k, hash.cpp:121-133, chunk.cpp:41-49 *)
Written(c, k, old) ==
  [b \in InChunk |-> IF NewOffset(c, k) <= b /\ b < NewOffset(c, k) + NewSize(c, k)
                     THEN c.value ELSE old[b]]

-----------------------------------------------------------------------------
(* write(), :657-668, and truncate(), :504-518 *)
Call ==
  /\ pc = "idle"
  /\ \E c \in Calls :
       /\ call' = c
       /\ pc' = IF c.op = "write" THEN "grow_size" ELSE "lock_truncate"
       /\ seen' = [i \in DOMAIN seen |->
                     IF rpc = "idle" THEN {} ELSE seen[i] \cup Outcomes(c, i)]
  /\ alone' = (rpc = "idle")
  /\ UNCHANGED <<size, list, chain, hashes, stored, reader, rpc, numHashesInRead,
                 fetched, got, aborted>>

(* :689-692, before any lock *)
GrowSize ==
  /\ pc = "grow_size"
  /\ size' = Greatest(size, call.offset + call.size)
  /\ pc' = "grow_list"
  /\ UNCHANGED <<list, chain, call, hashes, stored, readVars, aborted>>

(* :693-704: an unaligned write asks for one chunk more than the file has. *)
GrowList ==
  /\ pc = "grow_list"
  /\ LET num == NumChunks(size) + (IF Unaligned(call) THEN 1 ELSE 0)
     IN /\ aborted' = IF num < Len(list) THEN "file.cpp:701" ELSE aborted
        /\ list' = IF num > Len(list) THEN list \o Zeros(num - Len(list)) ELSE list
  /\ pc' = "lock_write"
  /\ UNCHANGED <<size, chain, call, hashes, stored, readVars>>

(* A unique section for an unaligned write, a shared one for the others,   *)
(* :707-714.                                                               *)
LockWrite ==
  /\ pc = "lock_write"
  /\ Unaligned(call) => ~InShared
  /\ pc' = "range"
  /\ UNCHANGED <<size, list, chain, call, hashes, stored, readVars, aborted>>

(* getRange (empty beyond the list) and the loop that makes the new chunks,*)
(* :716-746                                                                *)
MakeChunks ==
  /\ pc = "range"
  /\ LET first == FirstHash(call)
         num == NumHashesInWrite(call)
     IN IF first + num > Len(list)
          THEN aborted' = "file.cpp:717" /\ UNCHANGED hashes
          ELSE /\ hashes' = [k \in 1 .. num |-> Written(call, k, list[first + k])]
               /\ aborted' = IF Given(call, num) + NewSize(call, num) < call.size
                             THEN "file.cpp:746" ELSE aborted
  /\ stored' = 0
  /\ pc' = "store"
  /\ UNCHANGED <<size, list, chain, call, readVars>>

(* updateRange stores them one by one, :750, atomic_shared_ptr_list.h:63-74 *)
Store ==
  /\ pc = "store"
  /\ stored < Len(hashes)
  /\ list' = [list EXCEPT ![FirstHash(call) + stored + 1] = hashes[stored + 1]]
  /\ stored' = stored + 1
  /\ UNCHANGED <<size, chain, call, pc, hashes, readVars, aborted>>

Return ==
  /\ \/ pc = "store" /\ stored = Len(hashes)
     \/ pc = "return"
  /\ call' = None
  /\ pc' = "idle"
  /\ hashes' = <<>>
  /\ stored' = 0
  /\ UNCHANGED <<size, list, chain, readVars, aborted>>

(* truncateInner runs in a unique section, :521 *)
LockTruncate ==
  /\ pc = "lock_truncate"
  /\ ~InShared
  /\ pc' = "cut"
  /\ UNCHANGED <<size, list, chain, call, hashes, stored, readVars, aborted>>

(* :533-561, atomic_shared_ptr_list.h:76-89 *)
Cut ==
  /\ pc = "cut"
  /\ LET num == NumChunks(call.size)
     IN list' = IF num < Len(list) THEN SubSeq(list, 1, num)
                ELSE list \o Zeros(num - Len(list))
  /\ pc' = "size"
  /\ UNCHANGED <<size, chain, call, hashes, stored, readVars, aborted>>

(* :571, and rest *)
SetSize ==
  /\ pc = "size"
  /\ size' = call.size
  /\ chain' = Kept(Rested)
  /\ pc' = "return"
  /\ UNCHANGED <<list, call, hashes, stored, readVars, aborted>>

(* A file that is closed is rested. *)
Close ==
  /\ pc = "idle"
  /\ chain' = Kept(Rested)
  /\ UNCHANGED <<size, list, writer, readVars, aborted>>

(* The file is dropped from memory, which rests it, and made again from its *)
(* records: as many chunks as the size asks for (loadHashes, :432-482).    *)
Reload ==
  /\ pc = "idle" /\ rpc = "idle"
  /\ chain' = Kept(Rested)
  /\ list' = LoadFrom(Rested, NumChunks(size), ZeroChunk)
  /\ UNCHANGED <<size, writer, readVars, aborted>>

-----------------------------------------------------------------------------
(* read(), :577-611: the size is read once, before the lock. A read at or  *)
(* beyond the end returns nothing.                                         *)
Read ==
  /\ rpc = "idle"
  /\ \E r \in Reads :
       /\ r.offset < size
       /\ reader' = [r EXCEPT !.size = Least(size - r.offset, r.size)]
       /\ seen' = [i \in DOMAIN seen |->
                     IF r.offset <= i /\ i < r.offset + r.size
                       THEN {ByteAt(i)} \cup Outcomes(call, i) ELSE {}]
  /\ rpc' = "lock"
  /\ alone' = (call = None)
  /\ UNCHANGED <<size, list, chain, writer, numHashesInRead, fetched, got, aborted>>

(* :614-624. With fewer hashes than firstHash the subtraction wraps, the   *)
(* vector cannot be made that long, and the exception ends the read with 0.*)
LockRead ==
  /\ rpc = "lock"
  /\ ~InUnique
  /\ numHashesInRead' = Least(NumChunks(reader.size),
                              Greatest(Len(list) - FirstHash(reader), 0))
  /\ rpc' = "fetch"
  /\ UNCHANGED <<size, list, chain, writer, reader, fetched, got, seen, alone, aborted>>

(* getRange loads the elements one by one (atomic_shared_ptr_list.h:36-48),*)
(* and each gives its part of the buffer (:625-637).                       *)
Fetch ==
  /\ rpc = "fetch"
  /\ fetched < numHashesInRead
  /\ LET k == fetched + 1
         c == list[FirstHash(reader) + k]
     IN got' = got \o [b \in 1 .. NewSize(reader, k) |->
                         c[NewOffset(reader, k) + b - 1]]
  /\ fetched' = fetched + 1
  /\ UNCHANGED <<size, list, chain, writer, reader, rpc, numHashesInRead, seen, alone,
                 aborted>>

ReadDone == rpc = "fetch" /\ fetched = numHashesInRead

EndRead ==
  /\ ReadDone
  /\ rpc' = "idle"
  /\ reader' = None
  /\ numHashesInRead' = 0
  /\ fetched' = 0
  /\ got' = <<>>
  /\ seen' = [i \in DOMAIN seen |-> {}]
  /\ alone' = TRUE
  /\ UNCHANGED <<size, list, chain, writer, aborted>>

-----------------------------------------------------------------------------
Write == GrowSize \/ GrowList \/ LockWrite \/ MakeChunks \/ Store \/ Return
Truncate == LockTruncate \/ Cut \/ SetSize
Reading == Read \/ LockRead \/ Fetch \/ EndRead

Next ==
  /\ aborted = "no"
  /\ Call \/ Write \/ Truncate \/ Close \/ Reload \/ Reading

Spec == Init /\ [][Next]_vars

-----------------------------------------------------------------------------
Chunk == [InChunk -> Bytes \cup {NUL}]

(* Types; the size and the list stay within the bounds of the calls. *)
TypeOK ==
  /\ size \in 0 .. MaxSize
  /\ list \in Seq(Chunk) /\ Len(list) <= NumChunks(MaxSize) + 1
  /\ hashes \in Seq(Chunk) /\ stored \in 0 .. Len(hashes)
  /\ call \in Calls \cup {None}
  /\ got \in Seq(Bytes \cup {NUL})
  /\ fetched \in 0 .. numHashesInRead

BF == INSTANCE ByteFile WITH Places <- 0 .. MaxSize - 1, length <- size

(* Whatever its offset and its size, a write puts its bytes where they     *)
(* belong and changes no other, and a truncation keeps every byte below    *)
(* the new size: the arithmetic of :678-742 and :533-561 is right.         *)
KeepsBytes == BF!Spec

(* A read of its own, from the beginning of a chunk, fills the buffer up   *)
(* to the end of the file: the list is as long as the size says (:619,     *)
(* :644).                                                                  *)
AlignedReadFull ==
  ReadDone /\ alone /\ ~Unaligned(reader) => Len(got) = reader.size

(* A read that runs beside a write or a truncation returns at each place   *)
(* what the file held there, or was being given, while the read ran; never *)
(* the byte of another place (:614-637 against :702, :750 and :540), and   *)
(* when it runs alone as much as the size promises.                        *)
ReadsWhatWasThere ==
  /\ AlignedReadFull
  /\ \A b \in 1 .. Len(got) : got[b] \in seen[reader.offset + b - 1]

(* Whatever the records held before, of a longer list or of none, the list *)
(* that is rested is the list that is loaded, up to the size (:864-930     *)
(* against :432-482).                                                      *)
ChainKeepsList ==
  pc = "idle" =>
    LoadFrom(Rested, NumChunks(size), ZeroChunk) =
      [k \in 1 .. NumChunks(size) |-> IF k <= Len(list) THEN list[k] ELSE ZeroChunk]

(* The chunks a write asks for are there, and they take all of its bytes   *)
(* (the assertions at file.cpp:717 and 746).                               *)
WritesFit == aborted \notin {"file.cpp:717", "file.cpp:746"}

(* A write never finds more chunks than it counts: "_ASSERT(               *)
(* hashList.getSize()<numHashes)" (file.cpp:701).                          *)
GrowsOnly == aborted # "file.cpp:701"
=============================================================================
