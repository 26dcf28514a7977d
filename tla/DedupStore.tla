----------------------------- MODULE DedupStore -----------------------------
(***************************************************************************)
(* The deduplicating chunk store of cloudCryptFS while it is mounted: the  *)
(* chunk lists of the files (file.cpp), the reference counted hash objects *)
(* they share (hash.cpp), the index from content to hash object            *)
(* (bucketInfo::hashesIndex), the slots of the buckets and the pool of     *)
(* free slots. FUSE calls file operations from several threads; one action *)
(* here is one access to shared state, so that the operations of different *)
(* threads interleave as they do in the code, which takes no lock across   *)
(* newHash, incRefCnt and decRefCnt.                                       *)
(*                                                                         *)
(*   list[f][p]     hash of chunk p of file f (hashList)                   *)
(*   fresh[f][p]    new hash of an operation on f, counted, not yet listed *)
(*   stale[f][p]    hash taken off the list, still counted                 *)
(*   content, slot  the constant fields _hsh and bucketIndex of a hash     *)
(*   refcnt         refcnt of each hash, zeroHash included                 *)
(*   deleted        hashes with FLAG_DELETED                               *)
(*   index          hashesIndex (zeroSum, always present, is left out)     *)
(*   slotHash, slotChunk   what a bucket keeps at each slot                *)
(*   free           the slots bucketaccounting holds                       *)
(*                                                                         *)
(* Abstractions. A chunk's content stands for its SHA-256 sum as well: no  *)
(* collisions. Writes are by whole chunks (ChunkFile models the byte       *)
(* arithmetic). A hash reads its chunk from its slot, never from the copy  *)
(* it may cache, which rest() drops. The pool is a set here;               *)
(* BucketAccounting models it.                                             *)
(*                                                                         *)
(* The kernel runs one modifying call per inode at a time, so one request  *)
(* per file is in progress. FilesOf and ContentsOf give each thread the    *)
(* files it changes and the contents it writes.                            *)
(*                                                                         *)
(* Bounds: Positions (chunks per file), Slots, Hashes (objects alive at    *)
(* once), MaxRemounts.                                                     *)
(***************************************************************************)
EXTENDS Integers, FiniteSets

CONSTANTS Threads, Files, Directories, NumPositions, Contents, Slots, Hashes,
          FilesOf, ContentsOf, MaxRemounts, Zero, None

Positions == 1..NumPositions

ASSUME ConstantsAssumption ==
  /\ IsFiniteSet(Files)
  /\ NumPositions \in Nat
  /\ Directories \subseteq Files
  /\ FilesOf \in [Threads -> SUBSET Files]
  /\ ContentsOf \in [Threads -> SUBSET Contents]
  /\ {Zero, None} \cap (Hashes \cup Contents \cup Slots) = {}
  /\ Zero # None

VARIABLES list, fresh, stale, content, slot, refcnt, deleted, index,
          slotHash, slotChunk, free,
          pc, file, todo, held, request, remounts, aborted

fileVars == <<list, fresh, stale>>
hashVars == <<content, slot, refcnt, deleted>>
poolVars == <<index, slotHash, slotChunk, free>>
vars == <<fileVars, hashVars, poolVars,
          pc, file, todo, held, request, remounts, aborted>>

Refs == Hashes \cup {Zero}
Chunks == Contents \cup {Zero}

Labels == {"idle", "grow", "cut", "count", "scan", "fetch", "put", "insert",
           "inc", "alive", "update", "swap", "dec", "flags", "zero", "mark",
           "own", "erase", "clear", "post", "rest", "done"}

NoChunks == [p \in Positions |-> None]

ContentOf(h) == IF h \in Hashes THEN content[h] ELSE h

Mentioned(r) == {p \in Positions : r.data[p] # None}

(* The requests a thread makes: a write of a range of chunks, the new      *)
(* content of a directory (never a chunk of zeros), a new length.          *)
IsPrefixSet(S) == \A p \in S, q \in Positions : q < p => q \in S
IsRange(S) ==
  /\ S # {}
  /\ \A p, q \in S : \A m \in Positions : p < m /\ m < q => m \in S

WriteRequests(t) ==
  {r \in [op : {"write"}, data : [Positions -> ContentsOf[t] \cup {Zero, None}]] :
     IsRange(Mentioned(r))}
SwapRequests(t) ==
  {r \in [op : {"swap"}, data : [Positions -> ContentsOf[t] \cup {None}]] :
     IsPrefixSet(Mentioned(r))}
TruncateRequests ==
  {r \in [op : {"truncate"}, data : [Positions -> {Zero, None}]] :
     IsPrefixSet(Mentioned(r))}

RequestsOn(t, f) ==
  IF f \in Directories
    THEN SwapRequests(t) \cup {r \in TruncateRequests : Mentioned(r) = {}}
    ELSE WriteRequests(t) \cup TruncateRequests

Requests == [op : {"write", "swap", "truncate"},
             data : [Positions -> Chunks \cup {None}]]

ASSUME RequestsAssumption == None \notin Requests

(* Somebody still has a pointer to h. *)
InUse(h) ==
  \/ \E f \in Files, p \in Positions : h \in {list[f][p], fresh[f][p], stale[f][p]}
  \/ \E t \in Threads : held[t] = h
  \/ \E c \in Contents : index[c] = h
  \/ \E s \in Slots : slotHash[s] = h

Init ==
  /\ list = [f \in Files |-> NoChunks]
  /\ fresh = [f \in Files |-> NoChunks]
  /\ stale = [f \in Files |-> NoChunks]
  /\ content = [h \in Hashes |-> Zero]
  /\ slot = [h \in Hashes |-> None]
  /\ refcnt = [h \in Refs |-> IF h = Zero THEN 1 ELSE 0]
  /\ deleted = {}
  /\ index = [c \in Contents |-> None]
  /\ slotHash = [s \in Slots |-> None]
  /\ slotChunk = [s \in Slots |-> Zero]
  /\ free = Slots
  /\ pc = [t \in Threads |-> "idle"]
  /\ file = [t \in Threads |-> None]
  /\ todo = [t \in Threads |-> {}]
  /\ held = [t \in Threads |-> None]
  /\ request = [f \in Files |-> None]
  /\ remounts = 0
  /\ aborted = "no"

-----------------------------------------------------------------------------
Goto(t, label) == pc' = [pc EXCEPT ![t] = label]

(* The loops of the code go through the positions in ascending order. *)
Lowest(p, S) == p \in S /\ \A q \in S : p <= q

Op(t) == request[file[t]].op
Data(t) == request[file[t]].data

-----------------------------------------------------------------------------
(* Faulty versions of the operations below, each with one mistake a change *)
(* to the code could make. No action uses them: a run in which one takes   *)
(* the place of its original must break a property.                        *)

CountForgotten(t) ==
  /\ pc[t] = "count"
  /\ todo' = [todo EXCEPT ![t] = IF Op(t) = "write" THEN Mentioned(request[file[t]])
                                 ELSE {}]
  /\ Goto(t, IF Op(t) = "write" THEN "scan" ELSE "rest")
  /\ UNCHANGED <<fileVars, hashVars, poolVars, file, held, request, remounts,
                 aborted>>

PutWithoutChunk(t) ==
  /\ pc[t] = "put"
  /\ slotHash' = [slotHash EXCEPT ![slot[held[t]]] = held[t]]
  /\ Goto(t, "insert")
  /\ UNCHANGED <<fileVars, hashVars, index, slotChunk, free, file, todo, held,
                 request, remounts, aborted>>

IncUncounted(t) ==
  /\ pc[t] = "inc"
  /\ \E p \in Positions :
       /\ Lowest(p, todo[t])
       /\ fresh' = [fresh EXCEPT ![file[t]][p] = held[t]]
       /\ todo' = [todo EXCEPT ![t] = @ \ {p}]
  /\ Goto(t, "alive")
  /\ UNCHANGED <<list, stale, hashVars, poolVars, file, held, request,
                 remounts, aborted>>

CheckZeroEarly(t) ==
  /\ pc[t] = "zero"
  /\ Goto(t, IF refcnt[held[t]] <= 1 THEN "mark" ELSE "dec")
  /\ UNCHANGED <<fileVars, hashVars, poolVars, file, todo, held, request,
                 remounts, aborted>>

EraseNothing(t) ==
  /\ pc[t] = "erase"
  /\ Goto(t, IF index[content[held[t]]] = None THEN "dec" ELSE "clear")
  /\ UNCHANGED <<fileVars, hashVars, poolVars, file, todo, held, request,
                 remounts, aborted>>

PostSkipped(t) ==
  /\ pc[t] = "post"
  /\ Goto(t, "dec")
  /\ UNCHANGED <<fileVars, hashVars, poolVars, file, todo, held, request,
                 remounts, aborted>>

(* A call on file f by thread t: file::write (:657), file::truncate (:504, *)
(* also unlink's truncateInner(0), :88) or, for a directory, swapContent.  *)
Begin(t) ==
  /\ pc[t] = "idle"
  /\ \E f \in FilesOf[t] :
       /\ request[f] = None
       /\ \E r \in RequestsOn(t, f) :
            /\ request' = [request EXCEPT ![f] = r]
            /\ todo' = [todo EXCEPT ![t] = Mentioned(r)]
            /\ Goto(t, CASE r.op = "write" -> "grow"
                         [] r.op = "swap" -> "scan"
                         [] r.op = "truncate" -> "cut")
       /\ file' = [file EXCEPT ![t] = f]
  /\ UNCHANGED <<fileVars, hashVars, poolVars, held, remounts, aborted>>

(* A write past the end first appends references to zeroHash (:700-702). *)
Grow(t) ==
  /\ pc[t] = "grow"
  /\ LET f == file[t]
         added == {p \in Positions :
                     list[f][p] = None /\ \E q \in Mentioned(request[f]) : p <= q}
     IN IF added = {}
          THEN Goto(t, "scan") /\ UNCHANGED <<list, todo>>
          ELSE /\ list' = [list EXCEPT ![f] =
                    [p \in Positions |-> IF p \in added THEN Zero ELSE @[p]]]
               /\ todo' = [todo EXCEPT ![t] = added]
               /\ Goto(t, "count")
  /\ UNCHANGED <<fresh, stale, hashVars, poolVars, file, held, request,
                 remounts, aborted>>

(* truncateInner, :538-561: the end of the list is taken off, or zeroHash  *)
(* appended.                                                               *)
Cut(t) ==
  /\ pc[t] = "cut"
  /\ LET f == file[t]
         keep == Mentioned(request[f])
         removed == {p \in Positions \ keep : list[f][p] # None}
         added == {p \in keep : list[f][p] = None}
     IN /\ list' = [list EXCEPT ![f] =
             [p \in Positions |-> IF p \notin keep THEN None
                                  ELSE IF p \in added THEN Zero ELSE @[p]]]
        /\ stale' = [stale EXCEPT ![f] =
             [p \in Positions |-> IF p \in removed THEN list[f][p] ELSE @[p]]]
        /\ todo' = [todo EXCEPT ![t] = IF removed # {} THEN removed ELSE added]
        /\ Goto(t, IF removed # {} THEN "dec"
                   ELSE IF added # {} THEN "count" ELSE "rest")
  /\ UNCHANGED <<fresh, hashVars, poolVars, file, held, request, remounts,
                 aborted>>

(* The appended references are counted afterwards (:556, :703). *)
Count(t) ==
  /\ pc[t] = "count"
  /\ refcnt' = [refcnt EXCEPT ![Zero] = @ + Cardinality(todo[t])]
  /\ IF Op(t) = "write"
       THEN /\ todo' = [todo EXCEPT ![t] = Mentioned(request[file[t]])]
            /\ Goto(t, "scan")
       ELSE /\ todo' = [todo EXCEPT ![t] = {}]
            /\ Goto(t, "rest")
  /\ UNCHANGED <<fileVars, content, slot, deleted, poolVars, file, held,
                 request, remounts, aborted>>

-----------------------------------------------------------------------------
(* The loop over the chunks: hash::write (hash.cpp:121-133), newHash       *)
(* (storage.cpp:292-316), incRefCnt (hash.cpp:50-57).                      *)

(* The chunk already has this content: hash::write returns nullptr. *)
SameChunk(t, p) ==
  Op(t) = "write" /\ ContentOf(list[file[t]][p]) = Data(t)[p]

SkipSame(t) ==
  /\ pc[t] = "scan"
  /\ \E p \in Positions :
       /\ Lowest(p, todo[t])
       /\ SameChunk(t, p)
       /\ todo' = [todo EXCEPT ![t] = @ \ {p}]
  /\ UNCHANGED <<fileVars, hashVars, poolVars, pc, file, held, request,
                 remounts, aborted>>

Lookup(t) ==
  /\ pc[t] = "scan"
  /\ \E p \in Positions :
       /\ Lowest(p, todo[t])
       /\ ~SameChunk(t, p)
       /\ LET c == Data(t)[p]
              h == IF c = Zero THEN Zero ELSE index[c]
          IN /\ held' = [held EXCEPT ![t] = h]
             /\ Goto(t, IF h = None THEN "fetch" ELSE "inc")
  /\ UNCHANGED <<fileVars, hashVars, poolVars, file, todo, request, remounts,
                 aborted>>

(* accounting->fetch() and make_shared<hash>(sum, slot, 0, chunk). *)
Fetch(t) ==
  /\ pc[t] = "fetch"
  /\ \E p \in Positions, s \in free, h \in Hashes :
       /\ Lowest(p, todo[t])
       /\ ~InUse(h)
       /\ free' = free \ {s}
       /\ content' = [content EXCEPT ![h] = Data(t)[p]]
       /\ slot' = [slot EXCEPT ![h] = s]
       /\ refcnt' = [refcnt EXCEPT ![h] = 0]
       /\ deleted' = deleted \ {h}
       /\ held' = [held EXCEPT ![t] = h]
  /\ Goto(t, "put")
  /\ UNCHANGED <<fileVars, index, slotHash, slotChunk, file, todo, request,
                 remounts, aborted>>

(* bucket::putHashAndChunk (bucket.cpp:193-203) *)
Put(t) ==
  /\ pc[t] = "put"
  /\ slotHash' = [slotHash EXCEPT ![slot[held[t]]] = held[t]]
  /\ slotChunk' = [slotChunk EXCEPT ![slot[held[t]]] = content[held[t]]]
  /\ Goto(t, "insert")
  /\ UNCHANGED <<fileVars, hashVars, index, free, file, todo, held, request,
                 remounts, aborted>>

(* hashesIndex.insert overwrites (protected_unordered_map.h:41). *)
Insert(t) ==
  /\ pc[t] = "insert"
  /\ index' = [index EXCEPT ![content[held[t]]] = held[t]]
  /\ Goto(t, "inc")
  /\ UNCHANGED <<fileVars, hashVars, slotHash, slotChunk, free, file, todo,
                 held, request, remounts, aborted>>

Inc(t) ==
  /\ pc[t] = "inc"
  /\ refcnt' = [refcnt EXCEPT ![held[t]] = @ + 1]
  /\ \E p \in Positions :
       /\ Lowest(p, todo[t])
       /\ fresh' = [fresh EXCEPT ![file[t]][p] = held[t]]
       /\ todo' = [todo EXCEPT ![t] = @ \ {p}]
  /\ Goto(t, "alive")
  /\ UNCHANGED <<list, stale, content, slot, deleted, poolVars, file, held,
                 request, remounts, aborted>>

(* _ASSERT(isFlags(FLAG_DELETED)==false);//Never revide a dead hash! *)
Alive(t) ==
  /\ pc[t] = "alive"
  /\ aborted' = IF held[t] \in deleted THEN "hash.cpp:53" ELSE aborted
  /\ held' = [held EXCEPT ![t] = None]
  /\ Goto(t, "scan")
  /\ UNCHANGED <<fileVars, hashVars, poolVars, file, todo, request, remounts>>

ScanDone(t) ==
  /\ pc[t] = "scan"
  /\ todo[t] = {}
  /\ IF Op(t) = "write"
       THEN /\ todo' = [todo EXCEPT ![t] =
                          {p \in Positions : fresh[file[t]][p] # None}]
            /\ Goto(t, "update")
       ELSE Goto(t, "swap") /\ UNCHANGED todo
  /\ UNCHANGED <<fileVars, hashVars, poolVars, file, held, request, remounts,
                 aborted>>

-----------------------------------------------------------------------------
(* hashList.updateRange stores the new hashes one by one (:750,            *)
(* atomic_shared_ptr_list.h:63-74).                                        *)
Update(t) ==
  /\ pc[t] = "update"
  /\ \E p \in Positions :
       /\ Lowest(p, todo[t])
       /\ stale' = [stale EXCEPT ![file[t]][p] = list[file[t]][p]]
       /\ list' = [list EXCEPT ![file[t]][p] = fresh[file[t]][p]]
       /\ fresh' = [fresh EXCEPT ![file[t]][p] = None]
       /\ todo' = [todo EXCEPT ![t] = @ \ {p}]
  /\ UNCHANGED <<hashVars, poolVars, pc, file, held, request, remounts, aborted>>

UpdateDone(t) ==
  /\ pc[t] = "update"
  /\ todo[t] = {}
  /\ todo' = [todo EXCEPT ![t] = {p \in Positions : stale[file[t]][p] # None}]
  /\ Goto(t, "dec")
  /\ UNCHANGED <<fileVars, hashVars, poolVars, file, held, request, remounts,
                 aborted>>

(* swapContent exchanges the whole list under the list's lock (:844). *)
Swap(t) ==
  /\ pc[t] = "swap"
  /\ LET f == file[t]
     IN /\ stale' = [stale EXCEPT ![f] = list[f]]
        /\ list' = [list EXCEPT ![f] = fresh[f]]
        /\ fresh' = [fresh EXCEPT ![f] = NoChunks]
        /\ todo' = [todo EXCEPT ![t] = {p \in Positions : list[f][p] # None}]
  /\ Goto(t, "dec")
  /\ UNCHANGED <<hashVars, poolVars, file, held, request, remounts, aborted>>

-----------------------------------------------------------------------------
(* decRefCnt of every hash taken off the list (hash.cpp:59-78). *)

Dec(t) ==
  /\ pc[t] = "dec"
  /\ \E p \in Positions :
       /\ Lowest(p, todo[t])
       /\ LET h == stale[file[t]][p]
          IN /\ refcnt' = [refcnt EXCEPT ![h] = @ - 1]
             /\ held' = [held EXCEPT ![t] = h]
       /\ stale' = [stale EXCEPT ![file[t]][p] = None]
       /\ todo' = [todo EXCEPT ![t] = @ \ {p}]
  /\ Goto(t, "flags")
  /\ UNCHANGED <<list, fresh, content, slot, deleted, poolVars, file, request,
                 remounts, aborted>>

(* isFlags(FLAG_NOAUTOLOAD|FLAG_NOAUTOSTORE|FLAG_DELETED), :61 *)
Flags(t) ==
  /\ pc[t] = "flags"
  /\ Goto(t, IF held[t] \in deleted \cup {Zero} THEN "dec" ELSE "zero")
  /\ UNCHANGED <<fileVars, hashVars, poolVars, file, todo, held, request,
                 remounts, aborted>>

(* refcnt is read again, after the subtraction, :62 *)
CheckZero(t) ==
  /\ pc[t] = "zero"
  /\ Goto(t, IF refcnt[held[t]] = 0 THEN "mark" ELSE "dec")
  /\ UNCHANGED <<fileVars, hashVars, poolVars, file, todo, held, request,
                 remounts, aborted>>

Mark(t) ==
  /\ pc[t] = "mark"
  /\ deleted' = deleted \cup {held[t]}
  /\ Goto(t, "own")
  /\ UNCHANGED <<fileVars, content, slot, refcnt, poolVars, file, todo, held,
                 request, remounts, aborted>>

(* _ASSERT(hsh.get()==this), :65 *)
CheckOwn(t) ==
  /\ pc[t] = "own"
  /\ aborted' = IF index[content[held[t]]] = held[t] THEN aborted
                ELSE "hash.cpp:65"
  /\ Goto(t, "erase")
  /\ UNCHANGED <<fileVars, hashVars, poolVars, file, todo, held, request,
                 remounts>>

(* erase removes whatever the index has for this content; when there is    *)
(* nothing left to remove, the slot is not given back (:66-72).            *)
Erase(t) ==
  /\ pc[t] = "erase"
  /\ LET c == content[held[t]]
     IN /\ index' = [index EXCEPT ![c] = None]
        /\ Goto(t, IF index[c] = None THEN "dec" ELSE "clear")
  /\ UNCHANGED <<fileVars, hashVars, slotHash, slotChunk, free, file, todo,
                 held, request, remounts, aborted>>

Clear(t) ==
  /\ pc[t] = "clear"
  /\ slotHash' = [slotHash EXCEPT ![slot[held[t]]] = None]
  /\ slotChunk' = [slotChunk EXCEPT ![slot[held[t]]] = Zero]
  /\ Goto(t, "post")
  /\ UNCHANGED <<fileVars, hashVars, index, free, file, todo, held, request,
                 remounts, aborted>>

Post(t) ==
  /\ pc[t] = "post"
  /\ free' = free \cup {slot[held[t]]}
  /\ Goto(t, "dec")
  /\ UNCHANGED <<fileVars, hashVars, index, slotHash, slotChunk, file, todo,
                 held, request, remounts, aborted>>

(* numHashWrites decides whether a write rests: either may happen here. *)
DecDone(t) ==
  /\ pc[t] = "dec"
  /\ todo[t] = {}
  /\ held' = [held EXCEPT ![t] = None]
  /\ \/ Op(t) # "swap" /\ Goto(t, "rest")
     \/ Op(t) # "truncate" /\ Goto(t, "done")
  /\ UNCHANGED <<fileVars, hashVars, poolVars, file, todo, request, remounts,
                 aborted>>

(* _ASSERT(H->getRefCnt()>0) in file::rest, :884 *)
RestFails(f) ==
  \E p \in Positions : list[f][p] # None /\ refcnt[list[f][p]] <= 0

(* truncateInner ends with rest() (:572), and a write does every so often   *)
(* (:768-774); the other calls just return.                                *)
Return(t) ==
  /\ pc[t] \in {"rest", "done"}
  /\ aborted' = IF pc[t] = "rest" /\ RestFails(file[t]) THEN "file.cpp:884"
                ELSE aborted
  /\ request' = [request EXCEPT ![file[t]] = None]
  /\ file' = [file EXCEPT ![t] = None]
  /\ Goto(t, "idle")
  /\ UNCHANGED <<fileVars, hashVars, poolVars, todo, held, remounts>>

-----------------------------------------------------------------------------
(* A clean unmount and mount. Every file is rested (fs.cpp:84-109,         *)
(* file.cpp:74-75) and the buckets stored; the lists and counts come back  *)
(* as they were (file.cpp:432-482, bucket.cpp:47-84, storage.cpp:80-131),  *)
(* except that zeroHash is made anew with a count of 1 (fs.cpp:67, 234).   *)
Remount ==
  /\ remounts < MaxRemounts
  /\ \A t \in Threads : pc[t] = "idle"
  /\ aborted' = IF \E f \in Files : RestFails(f) THEN "file.cpp:884" ELSE aborted
  /\ refcnt' = [refcnt EXCEPT ![Zero] = 1]
  /\ remounts' = remounts + 1
  /\ UNCHANGED <<fileVars, content, slot, deleted, poolVars, pc, file, todo,
                 held, request>>

Write(t) == Grow(t) \/ SkipSame(t) \/ ScanDone(t) \/ Update(t) \/ UpdateDone(t)
Whole(t) == Cut(t) \/ Count(t) \/ Swap(t)
New(t) == Lookup(t) \/ Fetch(t) \/ Put(t) \/ Insert(t) \/ Inc(t) \/ Alive(t)
Drop(t) == Dec(t) \/ Flags(t) \/ CheckZero(t) \/ DecDone(t)
Delete(t) ==
  Mark(t) \/ CheckOwn(t) \/ Erase(t) \/ Clear(t) \/ Post(t)

Step(t) ==
  Begin(t) \/ Write(t) \/ Whole(t) \/ New(t) \/ Drop(t) \/ Delete(t) \/ Return(t)

Next ==
  /\ aborted = "no"
  /\ (\E t \in Threads : Step(t)) \/ Remount

Spec == Init /\ [][Next]_vars

-----------------------------------------------------------------------------
FilesTyped ==
  /\ list \in [Files -> [Positions -> Refs \cup {None}]]
  /\ fresh \in [Files -> [Positions -> Refs \cup {None}]]
  /\ stale \in [Files -> [Positions -> Refs \cup {None}]]

HashesTyped ==
  /\ content \in [Hashes -> Chunks]
  /\ slot \in [Hashes -> Slots \cup {None}]
  /\ refcnt \in [Refs -> Int]
  /\ deleted \subseteq Hashes

PoolTyped ==
  /\ index \in [Contents -> Hashes \cup {None}]
  /\ slotHash \in [Slots -> Hashes \cup {None}]
  /\ slotChunk \in [Slots -> Chunks]
  /\ free \subseteq Slots

ThreadsTyped ==
  /\ pc \in [Threads -> Labels]
  /\ file \in [Threads -> Files \cup {None}]
  /\ todo \in [Threads -> SUBSET Positions]
  /\ held \in [Threads -> Refs \cup {None}]
  /\ request \in [Files -> Requests \cup {None}]
  /\ remounts \in Nat
  /\ aborted \in {"no", "hash.cpp:53", "hash.cpp:65", "file.cpp:884"}

(* Types, and the pool hands out slots that exist. *)
TypeOK == FilesTyped /\ HashesTyped /\ PoolTyped /\ ThreadsTyped

(* The places that count as a reference. *)
Places == {"list", "fresh", "stale"} \X Files \X Positions
At(r) == CASE r[1] = "list" -> list[r[2]][r[3]]
           [] r[1] = "fresh" -> fresh[r[2]][r[3]]
           [] r[1] = "stale" -> stale[r[2]][r[3]]
RefsTo(h) == {r \in Places : At(r) = h}

(* The count of a hash is the number of references to it, however the      *)
(* threads interleave (hash.cpp:50-78 and every caller in file.cpp).       *)
RefExact == \A h \in Hashes : refcnt[h] = Cardinality(RefsTo(h))

(* A reference can be followed: the hash is not marked deleted, the index  *)
(* finds it, and its slot holds it and its chunk.                          *)
Live(h) ==
  /\ h \notin deleted
  /\ index[content[h]] = h
  /\ slotHash[slot[h]] = h
  /\ slotChunk[slot[h]] = content[h]

(* No file, and no operation in progress, refers to a hash whose storage   *)
(* was given back (hash.cpp:62-73 against storage.cpp:295-300).            *)
NoDangling ==
  \A r \in Places : At(r) \in Hashes => Live(At(r))

(* A slot handed out by the pool is written once before it is given back,  *)
(* and given back only when it is empty (storage.cpp:306-310,              *)
(* hash.cpp:68-69).                                                        *)
FreeSlotsEmpty ==
  \A s \in free : slotHash[s] = None /\ slotChunk[s] = Zero

(* When nobody is working, the index holds exactly the hashes some file    *)
(* refers to, and every other slot is back in the pool: nothing leaks.     *)
NothingLeaks ==
  (\A t \in Threads : pc[t] = "idle") =>
     /\ \A c \in Contents :
          index[c] # None => \E f \in Files, p \in Positions :
                               list[f][p] = index[c]
     /\ free = Slots \ {slot[h] : h \in {index[c] : c \in Contents} \ {None}}

(* The pool and the slots agree at every moment, and with the files when   *)
(* nobody is working.                                                      *)
SlotsAccounted == FreeSlotsEmpty /\ NothingLeaks

(* Until the next mount the count of zeroHash, which is never deleted,     *)
(* stays positive: what file::rest asserts of every hash it stores         *)
(* (file.cpp:884). A mount makes it anew with a count of 1 (fs.cpp:67),    *)
(* whatever lists it; DedupRemount shows what follows.                     *)
ZeroAlive == refcnt[Zero] > 0

(* "Never revide a dead hash!": a reference is never added to a hash that  *)
(* is marked deleted (hash.cpp:53).                                        *)
NeverRevived == aborted # "hash.cpp:53"

(* The index finds, for the content of a hash that dies, that very hash    *)
(* (hash.cpp:65).                                                          *)
OwnIndexed == aborted # "hash.cpp:65"

(* A file that is put to rest refers to counted hashes only                *)
(* (file.cpp:884).                                                         *)
RestedAlive == aborted # "file.cpp:884"

(* None of the three assertions about hashes fails (hash.cpp:53 and 65,    *)
(* file.cpp:884).                                                          *)
AssertsHold == aborted = "no"

(* The assertions about deleting and reviving hashes hold. *)
DeletesOnce == NeverRevived /\ OwnIndexed

(* References to zeroHash are listed before they are counted               *)
(* (file.cpp:556, :703): Awaited are those in between. Surplus is what its *)
(* count has beyond the references that are counted: 1 as it is made, and  *)
(* less by all that is listed when a mount makes it anew (fs.cpp:67).      *)
Waiting(f, p) == \E t \in Threads : pc[t] = "count" /\ file[t] = f /\ p \in todo[t]
Awaited ==
  {r \in Places : \E f \in Files, p \in Positions : r = <<"list", f, p>> /\ Waiting(f, p)}
Surplus == refcnt[Zero] + Cardinality(Awaited) - Cardinality(RefsTo(Zero))

(* The count of zeroHash moves with its references in every interleaving   *)
(* (file.cpp:540-572, :697-790, hash.cpp:50-78), after any number of       *)
(* mounts: only a mount itself puts the two out of step.                   *)
ZeroCounted == [][remounts' = remounts => Surplus' = Surplus]_vars

(* The assertion of file::rest (file.cpp:884) fails for zeroHash only: all *)
(* other hashes that are listed are counted, also after a mount.           *)
OthersRestCounted == [][aborted' = "file.cpp:884" => refcnt[Zero] <= 0]_vars

-----------------------------------------------------------------------------
(* What the code leaves open: a thread is in the section of a content from *)
(* the moment newHash does not find it, or finds its hash, until incRefCnt *)
(* has counted the hash (storage.cpp:295-315, file.cpp:732), and from the  *)
(* moment decRefCnt has tested its flags until it is erased from the index *)
(* (hash.cpp:61-66). Nothing keeps two threads out of the same section     *)
(* (DedupRevive); ApartSpec says what holds of the behaviours in which     *)
(* they never meet there, because their contents differ or by chance.      *)
Wanted(t) ==
  {c \in Contents : \E p \in Positions : Lowest(p, todo[t]) /\ Data(t)[p] = c}

Section(t) ==
  IF pc[t] = "fetch" THEN Wanted(t)
  ELSE IF /\ pc[t] \in {"put", "insert", "inc", "zero", "mark", "own", "erase"}
          /\ held[t] \in Hashes
    THEN {content[held[t]]}
    ELSE {}

Apart == \A t, u \in Threads : t # u => Section(t) \cap Section(u) = {}

ApartSpec == Init /\ [][Next /\ Apart']_vars

(* Threads that change different files and write different contents.       *)
Isolation ==
  \A t, u \in Threads :
     t # u => FilesOf[t] \cap FilesOf[u] = {} /\ ContentsOf[t] \cap ContentsOf[u] = {}

-----------------------------------------------------------------------------
(* What a client would read at each position once caches are dropped. *)
Stored(h) == IF h \in Hashes THEN slotChunk[slot[h]] ELSE h
contents == [f \in Files |-> [p \in Positions |-> Stored(list[f][p])]]

FC == INSTANCE FileContents

(* The store keeps the promise of FileContents. *)
KeepsContents == FC!Spec

(* An operation on one file never changes the contents of another          *)
(* (the worry of the comment at file.cpp:521).                             *)
OtherFilesKept ==
  [][\A f \in Files :
       request[f] = None /\ request'[f] = None => contents'[f] = contents[f]]_vars
=============================================================================
