--------------------------- MODULE DedupStoreProofs ---------------------------
(* Theorems about DedupStore, for any threads, files, contents and hashes. *)
EXTENDS DedupStore, FiniteSetTheorems, FunctionTheorems, WellFoundedInduction, TLAPS

Nothing(chunks, f) == \A p \in Positions : chunks[f][p] = None

Scanning == {"scan", "fetch", "put", "insert", "inc", "alive"}
Dropping == {"dec", "flags", "zero", "mark", "own", "erase", "clear", "post"}

(* What each label of a thread says about its file and its registers. *)
ThreadInv(t) ==
  LET f == file[t]
  IN /\ pc[t] # "idle" => f \in Files /\ request[f] \in Requests
     /\ pc[t] \in {"grow", "cut", "count", "rest", "done"} =>
          Nothing(fresh, f) /\ Nothing(stale, f)
     /\ pc[t] = "grow" => todo[t] = Mentioned(request[f])
     /\ pc[t] \in Scanning =>
          /\ Nothing(stale, f)
          /\ todo[t] \subseteq Mentioned(request[f])
          /\ \A p \in todo[t] : fresh[f][p] = None
     /\ pc[t] = "update" =>
          /\ todo[t] = {p \in Positions : fresh[f][p] # None}
          /\ \A p \in todo[t] : stale[f][p] = None
     /\ pc[t] = "swap" => Nothing(stale, f)
     /\ pc[t] \in Dropping =>
          /\ Nothing(fresh, f)
          /\ todo[t] = {p \in Positions : stale[f][p] # None}
     /\ pc[t] \in {"put", "insert"} => held[t] \in Hashes
     /\ pc[t] \in {"inc", "alive", "flags"} => held[t] \in Refs
     /\ pc[t] \in {"zero", "mark", "own", "erase", "clear", "post"} =>
          held[t] \in Hashes

(* One operation at a time on a file, and nothing left over between two. *)
FileInv ==
  /\ \A t, u \in Threads :
       pc[t] # "idle" /\ pc[u] # "idle" /\ file[t] = file[u] => t = u
  /\ \A f \in Files : request[f] = None => Nothing(fresh, f) /\ Nothing(stale, f)

(* Every hash somebody can name was given a slot. *)
SlotInv ==
  /\ \A f \in Files, p \in Positions :
       \A h \in {list[f][p], fresh[f][p], stale[f][p]} \cap Hashes : slot[h] \in Slots
  /\ \A t \in Threads : held[t] \in Hashes => slot[held[t]] \in Slots
  /\ \A c \in Contents : index[c] \in Hashes => slot[index[c]] \in Slots

ControlInv ==
  /\ TypeOK
  /\ \A t \in Threads : ThreadInv(t)
  /\ FileInv
  /\ SlotInv

-----------------------------------------------------------------------------
LEMMA RequestsTyped ==
  ASSUME NEW t \in Threads, NEW f \in Files, NEW r \in RequestsOn(t, f)
  PROVE  r \in Requests /\ r # None
<1>1. ContentsOf[t] \subseteq Contents
  BY ConstantsAssumption
<1>2. r \in Requests
  BY <1>1 DEF RequestsOn, WriteRequests, SwapRequests, TruncateRequests, Requests, Chunks
<1> QED
  BY <1>2, RequestsAssumption

(* The requests on f of another thread, and its own registers, are left    *)
(* alone by a step of t.                                                   *)
LEMMA TypesBegin ==
  ASSUME ControlInv, NEW t \in Threads, Begin(t)
  PROVE  TypeOK'
<1>1. PICK f \in FilesOf[t] :
        /\ file' = [file EXCEPT ![t] = f]
        /\ \E r \in RequestsOn(t, f) :
             /\ request' = [request EXCEPT ![f] = r]
             /\ todo' = [todo EXCEPT ![t] = Mentioned(r)]
             /\ Goto(t, CASE r.op = "write" -> "grow"
                          [] r.op = "swap" -> "scan"
                          [] r.op = "truncate" -> "cut")
  BY DEF Begin
<1>r. PICK r \in RequestsOn(t, f) :
        /\ request' = [request EXCEPT ![f] = r]
        /\ todo' = [todo EXCEPT ![t] = Mentioned(r)]
        /\ Goto(t, CASE r.op = "write" -> "grow"
                     [] r.op = "swap" -> "scan"
                     [] r.op = "truncate" -> "cut")
  BY <1>1
<1>2. f \in Files
  BY ConstantsAssumption
<1>3. r \in Requests
  BY <1>2, RequestsTyped
<1>4. pc' \in [Threads -> Labels]
  BY <1>r, <1>3 DEF ControlInv, TypeOK, ThreadsTyped, Goto, Labels, Requests
<1>5. request' \in [Files -> Requests \cup {None}]
  BY <1>r, <1>3 DEF ControlInv, TypeOK, ThreadsTyped
<1>6. todo' \in [Threads -> SUBSET Positions] /\ file' \in [Threads -> Files \cup {None}]
  BY <1>1, <1>r, <1>2 DEF ControlInv, TypeOK, ThreadsTyped, Mentioned
<1>7. FilesTyped' /\ HashesTyped' /\ PoolTyped'
  BY DEF ControlInv, TypeOK, Begin, FilesTyped, HashesTyped, PoolTyped,
         fileVars, hashVars, poolVars
<1>8. ThreadsTyped'
  BY <1>4, <1>5, <1>6 DEF ControlInv, TypeOK, Begin, ThreadsTyped
<1> QED
  BY <1>7, <1>8 DEF TypeOK

(* A row of references is replaced, or one reference of it. *)
LEMMA RowTyped ==
  ASSUME NEW table \in [Files -> [Positions -> Refs \cup {None}]],
         NEW f \in Files, NEW row \in [Positions -> Refs \cup {None}],
         NEW p, NEW h \in Refs \cup {None}
  PROVE  /\ [table EXCEPT ![f] = row] \in [Files -> [Positions -> Refs \cup {None}]]
         /\ [table EXCEPT ![f][p] = h] \in [Files -> [Positions -> Refs \cup {None}]]
  OBVIOUS

LEMMA CountTyped ==
  ASSUME NEW counts \in [Refs -> Int], NEW h, NEW n \in Int
  PROVE  [counts EXCEPT ![h] = n] \in [Refs -> Int]
  OBVIOUS

LEMMA TypesWrite ==
  ASSUME ControlInv, NEW t \in Threads, Write(t)
  PROVE  TypeOK'
<1> USE DEF ControlInv, TypeOK
<1>1. CASE Grow(t)
  <2> DEFINE f == file[t]
             added == {p \in Positions :
                         list[f][p] = None /\ \E q \in Mentioned(request[f]) : p <= q}
             row == [p \in Positions |-> IF p \in added THEN Zero ELSE list[f][p]]
  <2>a. f \in Files
    BY <1>1 DEF Grow, ThreadInv
  <2>b. row \in [Positions -> Refs \cup {None}]
    BY SMTT(30), <2>a DEF FilesTyped, Refs
  <2>c. list' = list \/ list' = [list EXCEPT ![f] = row]
    BY <1>1 DEF Grow
  <2>d. list' \in [Files -> [Positions -> Refs \cup {None}]]
    <3> HIDE DEF f, row
    <3> QED BY <2>a, <2>b, <2>c, RowTyped DEF FilesTyped
  <2>1. FilesTyped'
    BY <1>1, <2>d DEF Grow, FilesTyped
  <2>2. ThreadsTyped'
    BY <1>1 DEF Grow, ThreadsTyped, Goto, Labels
  <2> QED
    BY <1>1, <2>1, <2>2 DEF Grow, HashesTyped, PoolTyped, hashVars, poolVars
<1>2. CASE SkipSame(t)
  <2>1. ThreadsTyped'
    BY <1>2 DEF SkipSame, ThreadsTyped
  <2> QED
    BY <1>2, <2>1 DEF SkipSame, FilesTyped, HashesTyped, PoolTyped,
                      fileVars, hashVars, poolVars
<1>3. CASE ScanDone(t)
  <2>1. ThreadsTyped'
    BY <1>3 DEF ScanDone, ThreadsTyped, Goto, Labels
  <2> QED
    BY <1>3, <2>1 DEF ScanDone, FilesTyped, HashesTyped, PoolTyped,
                      fileVars, hashVars, poolVars
<1>4. CASE Update(t)
  <2>a. file[t] \in Files
    BY <1>4 DEF Update, ThreadInv
  <2>b. PICK p \in Positions :
          /\ stale' = [stale EXCEPT ![file[t]][p] = list[file[t]][p]]
          /\ list' = [list EXCEPT ![file[t]][p] = fresh[file[t]][p]]
          /\ fresh' = [fresh EXCEPT ![file[t]][p] = None]
    BY <1>4 DEF Update
  <2>c. {list[file[t]][p], fresh[file[t]][p], None} \subseteq Refs \cup {None}
    BY <2>a DEF FilesTyped
  <2>1. FilesTyped'
    BY <2>a, <2>b, <2>c, RowTyped DEF FilesTyped
  <2>2. ThreadsTyped'
    BY <1>4 DEF Update, ThreadsTyped
  <2> QED
    BY <1>4, <2>1, <2>2 DEF Update, HashesTyped, PoolTyped, hashVars, poolVars
<1>5. CASE UpdateDone(t)
  <2>1. ThreadsTyped'
    BY <1>5 DEF UpdateDone, ThreadsTyped, Goto, Labels
  <2> QED
    BY <1>5, <2>1 DEF UpdateDone, FilesTyped, HashesTyped, PoolTyped,
                      fileVars, hashVars, poolVars
<1> QED
  BY <1>1, <1>2, <1>3, <1>4, <1>5 DEF Write
LEMMA PositionsFinite ==
  /\ IsFiniteSet(Positions)
  /\ \A S \in SUBSET Positions : Cardinality(S) \in Nat
<1>1. IsFiniteSet(Positions)
  BY ConstantsAssumption, FS_Interval DEF Positions
<1> QED
  BY <1>1, FS_Subset, FS_CardinalityType

LEMMA TypesWhole ==
  ASSUME ControlInv, NEW t \in Threads, Whole(t)
  PROVE  TypeOK'
<1> USE DEF ControlInv, TypeOK
<1>1. CASE Cut(t)
  <2> DEFINE f == file[t]
             keep == Mentioned(request[f])
             removed == {p \in Positions \ keep : list[f][p] # None}
             added == {p \in keep : list[f][p] = None}
             kept == [p \in Positions |-> IF p \notin keep THEN None
                                          ELSE IF p \in added THEN Zero
                                          ELSE list[f][p]]
             off == [p \in Positions |-> IF p \in removed THEN list[f][p]
                                         ELSE stale[f][p]]
  <2>a. f \in Files
    BY <1>1 DEF Cut, ThreadInv
  <2>b. kept \in [Positions -> Refs \cup {None}] /\ off \in [Positions -> Refs \cup {None}]
    BY <2>a DEF FilesTyped, Refs
  <2>c. list' = [list EXCEPT ![f] = kept] /\ stale' = [stale EXCEPT ![f] = off]
    BY <1>1 DEF Cut
  <2>1. FilesTyped'
    <3>1. fresh' = fresh
      BY <1>1 DEF Cut
    <3> HIDE DEF f, kept, off
    <3> QED
      BY <2>a, <2>b, <2>c, <3>1, RowTyped DEF FilesTyped
  <2>2. removed \subseteq Positions /\ added \subseteq Positions
    BY DEF Mentioned
  <2>3. ThreadsTyped'
    BY <1>1, <2>2 DEF Cut, ThreadsTyped, Goto, Labels
  <2> QED
    BY <1>1, <2>1, <2>3 DEF Cut, HashesTyped, PoolTyped, hashVars, poolVars
<1>2. CASE Count(t)
  <2>1. Cardinality(todo[t]) \in Nat
    BY PositionsFinite DEF ThreadsTyped
  <2>2. HashesTyped'
    <3> DEFINE n == refcnt[Zero] + Cardinality(todo[t])
    <3>1. n \in Int
      BY <2>1 DEF HashesTyped, Refs
    <3>2. refcnt' \in [Refs -> Int]
      <4>1. refcnt' = [refcnt EXCEPT ![Zero] = n]
        BY <1>2 DEF Count
      <4> HIDE DEF n
      <4> QED
        BY <3>1, <4>1, CountTyped DEF HashesTyped
    <3> QED
      BY <1>2, <3>2 DEF Count, HashesTyped
  <2>3. ThreadsTyped'
    BY <1>2 DEF Count, ThreadsTyped, Goto, Labels, Mentioned
  <2> QED
    BY <1>2, <2>2, <2>3 DEF Count, FilesTyped, PoolTyped, fileVars, poolVars
<1>3. CASE Swap(t)
  <2>a. file[t] \in Files
    BY <1>3 DEF Swap, ThreadInv
  <2>b. NoChunks \in [Positions -> Refs \cup {None}]
    BY DEF NoChunks
  <2>1. FilesTyped'
    BY <1>3, <2>a, <2>b, RowTyped DEF Swap, FilesTyped
  <2>2. ThreadsTyped'
    BY <1>3 DEF Swap, ThreadsTyped, Goto, Labels
  <2> QED
    BY <1>3, <2>1, <2>2 DEF Swap, HashesTyped, PoolTyped, hashVars, poolVars
<1> QED
  BY <1>1, <1>2, <1>3 DEF Whole

(* At fetch a content is looked for that the index does not have. *)
LEMMA TypesNew ==
  ASSUME ControlInv, NEW t \in Threads, New(t)
  PROVE  TypeOK'
<1> USE DEF ControlInv, TypeOK
<1>0. file[t] \in Files /\ request[file[t]] \in Requests
  BY DEF New, Lookup, Fetch, Put, Insert, Inc, Alive, ThreadInv
<1>d. ASSUME NEW p \in Mentioned(request[file[t]])
      PROVE  Data(t)[p] \in Chunks
  BY <1>0 DEF Data, Mentioned, Requests
<1>1. CASE Lookup(t)
  <2>1. PICK p \in Positions :
          /\ p \in todo[t]
          /\ held' = [held EXCEPT ![t] = IF Data(t)[p] = Zero THEN Zero
                                         ELSE index[Data(t)[p]]]
          /\ \E label \in Labels : Goto(t, label)
    BY <1>1 DEF Lookup, Lowest, Labels
  <2>2. Data(t)[p] \in Chunks
    BY <1>1, <1>d, <2>1 DEF Lookup, ThreadInv, Scanning
  <2>3. ThreadsTyped'
    BY <1>1, <2>1, <2>2 DEF Lookup, ThreadsTyped, PoolTyped, Goto, Chunks, Refs
  <2> QED
    BY <1>1, <2>3 DEF Lookup, FilesTyped, HashesTyped, PoolTyped,
                      fileVars, hashVars, poolVars
<1>2. CASE Fetch(t)
  <2>1. PICK p \in Positions, s \in free, h \in Hashes :
          /\ p \in todo[t]
          /\ free' = free \ {s}
          /\ content' = [content EXCEPT ![h] = Data(t)[p]]
          /\ slot' = [slot EXCEPT ![h] = s]
          /\ refcnt' = [refcnt EXCEPT ![h] = 0]
          /\ deleted' = deleted \ {h}
          /\ held' = [held EXCEPT ![t] = h]
    BY <1>2 DEF Fetch, Lowest
  <2>2. Data(t)[p] \in Chunks
    BY <1>2, <1>d, <2>1 DEF Fetch, ThreadInv, Scanning
  <2>3. HashesTyped'
    <3>1. content' \in [Hashes -> Chunks]
      BY <2>1, <2>2 DEF HashesTyped
    <3>2. slot' \in [Hashes -> Slots \cup {None}]
      BY <2>1 DEF HashesTyped, PoolTyped
    <3>3. refcnt' \in [Refs -> Int]
      BY <2>1, CountTyped DEF HashesTyped
    <3>4. deleted' \subseteq Hashes
      BY <2>1 DEF HashesTyped
    <3> QED
      BY <3>1, <3>2, <3>3, <3>4 DEF HashesTyped
  <2>4. PoolTyped'
    BY <1>2, <2>1 DEF Fetch, PoolTyped
  <2>5. ThreadsTyped'
    BY <1>2, <2>1 DEF Fetch, ThreadsTyped, Goto, Labels, Refs
  <2> QED
    BY <1>2, <2>3, <2>4, <2>5 DEF Fetch, FilesTyped, fileVars
<1>3. CASE Put(t)
  <2>1. PoolTyped'
    BY <1>3 DEF Put, PoolTyped, ThreadInv, HashesTyped
  <2>2. ThreadsTyped'
    BY <1>3 DEF Put, ThreadsTyped, Goto, Labels
  <2> QED
    BY <1>3, <2>1, <2>2 DEF Put, FilesTyped, HashesTyped, fileVars, hashVars
<1>4. CASE Insert(t)
  <2>1. PoolTyped'
    BY <1>4 DEF Insert, PoolTyped, ThreadInv, HashesTyped
  <2>2. ThreadsTyped'
    BY <1>4 DEF Insert, ThreadsTyped, Goto, Labels
  <2> QED
    BY <1>4, <2>1, <2>2 DEF Insert, FilesTyped, HashesTyped, fileVars, hashVars
<1>5. CASE Inc(t)
  <2>1. PICK p \in Positions :
          /\ fresh' = [fresh EXCEPT ![file[t]][p] = held[t]]
          /\ todo' = [todo EXCEPT ![t] = @ \ {p}]
    BY <1>5 DEF Inc
  <2>2. FilesTyped'
    BY <1>0, <1>5, <2>1, RowTyped DEF Inc, FilesTyped, ThreadsTyped
  <2>3. HashesTyped'
    BY <1>5 DEF Inc, HashesTyped, ThreadInv
  <2>4. ThreadsTyped'
    BY <1>5, <2>1 DEF Inc, ThreadsTyped, Goto, Labels
  <2> QED
    BY <1>5, <2>2, <2>3, <2>4 DEF Inc, PoolTyped, poolVars
<1>6. CASE Alive(t)
  <2>1. ThreadsTyped'
    BY <1>6 DEF Alive, ThreadsTyped, Goto, Labels
  <2> QED
    BY <1>6, <2>1 DEF Alive, FilesTyped, HashesTyped, PoolTyped,
                      fileVars, hashVars, poolVars
<1> QED
  BY <1>1, <1>2, <1>3, <1>4, <1>5, <1>6 DEF New
LEMMA TypesDrop ==
  ASSUME ControlInv, NEW t \in Threads, Drop(t)
  PROVE  TypeOK'
<1> USE DEF ControlInv, TypeOK
<1>1. CASE Dec(t)
  <2>0. file[t] \in Files
    BY <1>1 DEF Dec, ThreadInv
  <2>1. PICK p \in Positions :
          LET h == stale[file[t]][p]
          IN /\ p \in todo[t]
             /\ refcnt' = [refcnt EXCEPT ![h] = @ - 1]
             /\ held' = [held EXCEPT ![t] = h]
             /\ stale' = [stale EXCEPT ![file[t]][p] = None]
             /\ todo' = [todo EXCEPT ![t] = @ \ {p}]
    BY <1>1 DEF Dec, Lowest
  <2>2. stale[file[t]][p] \in Refs
    BY <1>1, <2>0, <2>1 DEF Dec, ThreadInv, Dropping, FilesTyped
  <2>3. FilesTyped'
    BY <1>1, <2>0, <2>1, RowTyped DEF Dec, FilesTyped
  <2>4. refcnt[stale[file[t]][p]] - 1 \in Int
    BY <2>2 DEF HashesTyped
  <2>5. HashesTyped'
    BY <1>1, <2>1, <2>4, CountTyped DEF Dec, HashesTyped
  <2>6. ThreadsTyped'
    BY <1>1, <2>1, <2>2 DEF Dec, ThreadsTyped, Goto, Labels
  <2> QED
    BY <1>1, <2>3, <2>5, <2>6 DEF Dec, PoolTyped, poolVars
<1>2. CASE Flags(t)
  <2>1. ThreadsTyped'
    BY <1>2 DEF Flags, ThreadsTyped, Goto, Labels
  <2> QED
    BY <1>2, <2>1 DEF Flags, FilesTyped, HashesTyped, PoolTyped,
                      fileVars, hashVars, poolVars
<1>3. CASE CheckZero(t)
  <2>1. ThreadsTyped'
    BY <1>3 DEF CheckZero, ThreadsTyped, Goto, Labels
  <2> QED
    BY <1>3, <2>1 DEF CheckZero, FilesTyped, HashesTyped, PoolTyped,
                      fileVars, hashVars, poolVars
<1>4. CASE DecDone(t)
  <2>1. ThreadsTyped'
    BY <1>4 DEF DecDone, ThreadsTyped, Goto, Labels
  <2> QED
    BY <1>4, <2>1 DEF DecDone, FilesTyped, HashesTyped, PoolTyped,
                      fileVars, hashVars, poolVars
<1> QED
  BY <1>1, <1>2, <1>3, <1>4 DEF Drop

LEMMA TypesDelete ==
  ASSUME ControlInv, NEW t \in Threads, Delete(t)
  PROVE  TypeOK'
<1> USE DEF ControlInv, TypeOK
<1>0. held[t] \in Hashes /\ slot[held[t]] \in Slots
  BY DEF Delete, Mark, CheckOwn, Erase, Clear, Post, ThreadInv, SlotInv
<1>1. CASE Mark(t)
  <2>1. HashesTyped'
    BY <1>0, <1>1 DEF Mark, HashesTyped
  <2>2. ThreadsTyped'
    BY <1>1 DEF Mark, ThreadsTyped, Goto, Labels
  <2> QED
    BY <1>1, <2>1, <2>2 DEF Mark, FilesTyped, PoolTyped, fileVars, poolVars
<1>2. CASE CheckOwn(t)
  <2>1. ThreadsTyped'
    BY <1>2 DEF CheckOwn, ThreadsTyped, Goto, Labels
  <2> QED
    BY <1>2, <2>1 DEF CheckOwn, FilesTyped, HashesTyped, PoolTyped,
                      fileVars, hashVars, poolVars
<1>3. CASE Erase(t)
  <2>1. PoolTyped'
    BY <1>3 DEF Erase, PoolTyped
  <2>2. ThreadsTyped'
    BY <1>3 DEF Erase, ThreadsTyped, Goto, Labels
  <2> QED
    BY <1>3, <2>1, <2>2 DEF Erase, FilesTyped, HashesTyped, fileVars, hashVars
<1>4. CASE Clear(t)
  <2>1. PoolTyped'
    BY <1>4 DEF Clear, PoolTyped, Chunks
  <2>2. ThreadsTyped'
    BY <1>4 DEF Clear, ThreadsTyped, Goto, Labels
  <2> QED
    BY <1>4, <2>1, <2>2 DEF Clear, FilesTyped, HashesTyped, fileVars, hashVars
<1>5. CASE Post(t)
  <2>1. PoolTyped'
    BY <1>0, <1>5 DEF Post, PoolTyped
  <2>2. ThreadsTyped'
    BY <1>5 DEF Post, ThreadsTyped, Goto, Labels
  <2> QED
    BY <1>5, <2>1, <2>2 DEF Post, FilesTyped, HashesTyped, fileVars, hashVars
<1> QED
  BY <1>1, <1>2, <1>3, <1>4, <1>5 DEF Delete

LEMMA TypesReturn ==
  ASSUME ControlInv, NEW t \in Threads, Return(t)
  PROVE  TypeOK'
<1> USE DEF ControlInv, TypeOK
<1>1. ThreadsTyped'
  BY DEF Return, ThreadsTyped, Goto, Labels
<1> QED
  BY <1>1 DEF Return, FilesTyped, HashesTyped, PoolTyped,
              fileVars, hashVars, poolVars

LEMMA TypesRemount ==
  ASSUME ControlInv, Remount
  PROVE  TypeOK'
<1> USE DEF ControlInv, TypeOK
<1>1. HashesTyped'
  BY CountTyped DEF Remount, HashesTyped
<1>2. ThreadsTyped'
  BY DEF Remount, ThreadsTyped
<1> QED
  BY <1>1, <1>2 DEF Remount, FilesTyped, PoolTyped, fileVars, poolVars

LEMMA TypesInit ==
  ASSUME Init
  PROVE  TypeOK
<1>1. FilesTyped
  BY DEF Init, FilesTyped, NoChunks
<1>2. HashesTyped
  BY DEF Init, HashesTyped, Chunks
<1>3. PoolTyped
  BY DEF Init, PoolTyped, Chunks
<1>4. ThreadsTyped
  BY DEF Init, ThreadsTyped, Labels
<1> QED
  BY <1>1, <1>2, <1>3, <1>4 DEF TypeOK
-----------------------------------------------------------------------------
(* A step of t leaves the registers of the other threads alone, and the    *)
(* rows of every file but its own; Begin touches only the request of a     *)
(* file that has none.                                                     *)
Registers(u) == <<pc[u], file[u], todo[u], held[u]>>
Rows(g) == <<list[g], fresh[g], stale[g]>>

LEMMA StepFrame ==
  ASSUME ControlInv, NEW t \in Threads, Step(t)
  PROVE  /\ \A u \in Threads : u # t => Registers(u)' = Registers(u)
         /\ \A g \in Files : pc[t] = "idle" \/ g # file[t] => Rows(g)' = Rows(g)
         /\ \A g \in Files : request[g] # None /\ (pc[t] = "idle" \/ g # file[t]) =>
                request'[g] = request[g]
<1> USE DEF Registers, Rows, Goto, fileVars, ControlInv, TypeOK
<1>1. CASE Begin(t)
  BY <1>1 DEF Begin, ThreadsTyped
<1>2. CASE Write(t)
  BY <1>2 DEF Write, Grow, SkipSame, ScanDone, Update, UpdateDone, FilesTyped, ThreadsTyped
<1>3. CASE Whole(t)
  BY <1>3 DEF Whole, Cut, Count, Swap, FilesTyped, ThreadsTyped
<1>4. CASE New(t)
  BY <1>4 DEF New, Lookup, Fetch, Put, Insert, Inc, Alive, FilesTyped, ThreadsTyped
<1>5. CASE Drop(t)
  BY <1>5 DEF Drop, Dec, Flags, CheckZero, DecDone, FilesTyped, ThreadsTyped
<1>6. CASE Delete(t)
  BY <1>6 DEF Delete, Mark, CheckOwn, Erase, Clear, Post, FilesTyped, ThreadsTyped
<1>7. CASE Return(t)
  BY <1>7 DEF Return, ThreadsTyped
<1> QED
  BY <1>1, <1>2, <1>3, <1>4, <1>5, <1>6, <1>7 DEF Step

LEMMA OthersInv ==
  ASSUME ControlInv, NEW t \in Threads, Step(t), NEW u \in Threads, u # t
  PROVE  ThreadInv(u)'
<1>1. Registers(u)' = Registers(u)
  BY StepFrame
<1>2. CASE pc[u] = "idle"
  BY <1>1, <1>2 DEF ThreadInv, Registers, Scanning, Dropping
<1>3. CASE pc[u] # "idle"
  <2>1. ThreadInv(u) /\ file[u] \in Files /\ request[file[u]] \in Requests
    BY <1>3 DEF ControlInv, ThreadInv
  <2>2. pc[t] = "idle" \/ file[u] # file[t]
    BY <1>3 DEF ControlInv, FileInv
  <2>3. Rows(file[u])' = Rows(file[u]) /\ request'[file[u]] = request[file[u]]
    BY <2>1, <2>2, <1>1, StepFrame, RequestsAssumption DEF Registers, Rows
  <2> QED
    BY SMTT(30), <1>1, <2>1, <2>3
       DEF ThreadInv, Registers, Rows, Scanning, Dropping, Nothing, Mentioned
<1> QED
  BY <1>2, <1>3

LEMMA BusyStep ==
  ASSUME ControlInv, NEW t \in Threads, Step(t), ~Begin(t)
  PROVE  /\ pc[t] # "idle"
         /\ Return(t) \/ (file' = file /\ request' = request)
         /\ pc'[t] # "idle" => file' = file
  BY DEF Step, Write, Grow, SkipSame, ScanDone, Update, UpdateDone,
         Whole, Cut, Count, Swap, New, Lookup, Fetch, Put, Insert, Inc, Alive,
         Drop, Dec, Flags, CheckZero, DecDone,
         Delete, Mark, CheckOwn, Erase, Clear, Post, Return, Goto,
         ControlInv, TypeOK, ThreadsTyped

LEMMA FileInvStep ==
  ASSUME ControlInv, NEW t \in Threads, Step(t)
  PROVE  FileInv'
<1> USE DEF ControlInv, TypeOK, ThreadsTyped
<1>1. ASSUME NEW u \in Threads, NEW v \in Threads,
             pc'[u] # "idle", pc'[v] # "idle", file'[u] = file'[v]
      PROVE  u = v
  <2>1. CASE Begin(t)
    <3>1. PICK f \in Files : file' = [file EXCEPT ![t] = f] /\ request[f] = None
      BY <2>1, ConstantsAssumption DEF Begin
    <3>2. \A w \in Threads \ {t} : pc'[w] # "idle" => file'[w] # f /\ pc'[w] = pc[w] /\ file'[w] = file[w]
      BY <2>1, <3>1, StepFrame, RequestsAssumption DEF Registers, ThreadInv
    <3> QED
      BY <1>1, <3>1, <3>2 DEF FileInv
  <2>2. CASE pc[t] # "idle"
    <3>1. pc'[t] # "idle" => file'[t] = file[t]
      BY <2>2, BusyStep DEF Begin
    <3> QED
      BY <1>1, <2>2, <3>1, StepFrame DEF Registers, FileInv
  <2>3. Begin(t) \/ pc[t] # "idle"
    BY BusyStep
  <2> QED
    BY <2>1, <2>2, <2>3
<1>2. ASSUME NEW f \in Files, request'[f] = None
      PROVE  Nothing(fresh, f)' /\ Nothing(stale, f)'
  <2>1. CASE Begin(t)
    <3>1. request[f] = None
      BY <1>2, <2>1, StepFrame, RequestsTyped, ConstantsAssumption DEF Begin
    <3> QED
      BY <2>1, <3>1 DEF Begin, FileInv, Nothing, fileVars
  <2>2. CASE pc[t] # "idle" /\ f # file[t]
    <3>1. Rows(f)' = Rows(f) /\ request[f] = None
      BY <1>2, <2>2, StepFrame
    <3> QED
      BY <3>1 DEF FileInv, Nothing, Rows
  <2>3. CASE pc[t] # "idle" /\ f = file[t]
    <3>1. request[f] # None
      BY <2>3, RequestsAssumption DEF ThreadInv
    <3>2. Return(t)
      BY <1>2, <2>3, <3>1, BusyStep DEF Begin
    <3> QED
      BY <2>3, <3>2 DEF Return, ThreadInv, Nothing, fileVars
  <2>4. Begin(t) \/ pc[t] # "idle"
    BY BusyStep
  <2> QED
    BY <2>1, <2>2, <2>3, <2>4
<1> QED
  BY <1>1, <1>2 DEF FileInv

LEMMA OwnInvWrite ==
  ASSUME ControlInv, NEW t \in Threads, Write(t)
  PROVE  ThreadInv(t)'
<1> USE DEF ControlInv, TypeOK, ThreadsTyped, Goto, Nothing, Scanning, Dropping
<1>1. CASE Grow(t)
  BY <1>1 DEF Grow, ThreadInv, Mentioned
<1>2. CASE SkipSame(t)
  BY <1>2 DEF SkipSame, ThreadInv, Mentioned, fileVars
<1>3. CASE ScanDone(t)
  BY <1>3 DEF ScanDone, ThreadInv, fileVars
<1>4. CASE Update(t)
  BY <1>4 DEF Update, ThreadInv, FilesTyped
<1>5. CASE UpdateDone(t)
  BY <1>5 DEF UpdateDone, ThreadInv, fileVars
<1> QED
  BY <1>1, <1>2, <1>3, <1>4, <1>5 DEF Write

LEMMA OwnInvWhole ==
  ASSUME ControlInv, NEW t \in Threads, Whole(t)
  PROVE  ThreadInv(t)'
<1> USE DEF ControlInv, TypeOK, ThreadsTyped, Goto, Nothing, Scanning, Dropping
<1>1. CASE Cut(t)
  BY <1>1 DEF Cut, ThreadInv, FilesTyped
<1>2. CASE Count(t)
  BY <1>2 DEF Count, ThreadInv, fileVars, Mentioned
<1>3. CASE Swap(t)
  BY <1>3 DEF Swap, ThreadInv, FilesTyped, NoChunks
<1> QED
  BY <1>1, <1>2, <1>3 DEF Whole

LEMMA OwnInvNew ==
  ASSUME ControlInv, NEW t \in Threads, New(t)
  PROVE  ThreadInv(t)'
<1> USE DEF ControlInv, TypeOK, ThreadsTyped, Goto, Nothing, Scanning, Dropping
<1>1. CASE Lookup(t)
  <2>0. file[t] \in Files /\ request[file[t]] \in Requests
    BY <1>1 DEF Lookup, ThreadInv
  <2>1. PICK p \in Positions :
          /\ p \in todo[t]
          /\ held' = [held EXCEPT ![t] = IF Data(t)[p] = Zero THEN Zero
                                         ELSE index[Data(t)[p]]]
          /\ held'[t] = None => pc'[t] = "fetch"
          /\ pc'[t] \in {"fetch", "inc"}
    BY <1>1 DEF Lookup, Lowest
  <2>2. p \in Mentioned(request[file[t]])
    BY <1>1, <2>1 DEF Lookup, ThreadInv
  <2>3. Data(t)[p] \in Chunks
    BY <2>0, <2>2 DEF Data, Mentioned, Requests
  <2>4. pc'[t] = "inc" => held'[t] \in Refs
    BY <1>1, <2>1, <2>3 DEF PoolTyped, Chunks, Refs, Lookup
  <2> QED
    BY <1>1, <2>1, <2>4 DEF Lookup, ThreadInv, fileVars, Mentioned
<1>2. CASE Fetch(t)
  BY <1>2 DEF Fetch, ThreadInv, fileVars, Mentioned
<1>3. CASE Put(t)
  BY <1>3 DEF Put, ThreadInv, fileVars, Mentioned
<1>4. CASE Insert(t)
  BY <1>4 DEF Insert, ThreadInv, fileVars, Mentioned, Refs
<1>5. CASE Inc(t)
  BY <1>5 DEF Inc, ThreadInv, FilesTyped, Mentioned
<1>6. CASE Alive(t)
  BY <1>6 DEF Alive, ThreadInv, fileVars, Mentioned
<1> QED
  BY <1>1, <1>2, <1>3, <1>4, <1>5, <1>6 DEF New

LEMMA OwnInvDrop ==
  ASSUME ControlInv, NEW t \in Threads, Drop(t) \/ Delete(t)
  PROVE  ThreadInv(t)'
<1> USE DEF ControlInv, TypeOK, ThreadsTyped, Goto, Nothing, Scanning, Dropping, ThreadInv, fileVars
<1>1. CASE Dec(t)
  BY <1>1 DEF Dec, FilesTyped, Lowest
<1>2. CASE Flags(t)
  BY <1>2 DEF Flags, Refs
<1>3. CASE CheckZero(t)
  BY <1>3 DEF CheckZero
<1>4. CASE DecDone(t)
  BY <1>4 DEF DecDone
<1>5. CASE Mark(t) \/ CheckOwn(t)
  BY <1>5 DEF Mark, CheckOwn
<1>6. CASE Erase(t) \/ Clear(t) \/ Post(t)
  BY <1>6 DEF Erase, Clear, Post
<1> QED
  BY <1>1, <1>2, <1>3, <1>4, <1>5, <1>6 DEF Drop, Delete

LEMMA OwnInvEnds ==
  ASSUME ControlInv, NEW t \in Threads, Begin(t) \/ Return(t)
  PROVE  ThreadInv(t)'
<1> USE DEF ControlInv, TypeOK, ThreadsTyped, Goto, Nothing, Scanning, Dropping, fileVars
<1>1. CASE Begin(t)
  <2>1. PICK f \in FilesOf[t] :
          /\ request[f] = None
          /\ file' = [file EXCEPT ![t] = f]
          /\ \E r \in RequestsOn(t, f) :
               /\ request' = [request EXCEPT ![f] = r]
               /\ todo' = [todo EXCEPT ![t] = Mentioned(r)]
               /\ Goto(t, CASE r.op = "write" -> "grow"
                            [] r.op = "swap" -> "scan"
                            [] r.op = "truncate" -> "cut")
    BY <1>1 DEF Begin
  <2>2. PICK r \in RequestsOn(t, f) :
          /\ request' = [request EXCEPT ![f] = r]
          /\ todo' = [todo EXCEPT ![t] = Mentioned(r)]
          /\ Goto(t, CASE r.op = "write" -> "grow"
                       [] r.op = "swap" -> "scan"
                       [] r.op = "truncate" -> "cut")
    BY <2>1
  <2>3. f \in Files /\ r \in Requests
    BY ConstantsAssumption, RequestsTyped
  <2>4. pc'[t] \in {"grow", "scan", "cut"}
    BY <2>2, <2>3 DEF Requests
  <2>5. request'[f] = r /\ file'[t] = f /\ todo'[t] = Mentioned(r)
    BY <2>1, <2>2, <2>3
  <2>6. Nothing(fresh, f)' /\ Nothing(stale, f)'
    BY <1>1, <2>1, <2>3 DEF Begin, FileInv
  <2> QED
    BY <2>3, <2>4, <2>5, <2>6 DEF ThreadInv, Mentioned
<1>2. CASE Return(t)
  BY <1>2 DEF Return, ThreadInv
<1> QED
  BY <1>1, <1>2

(* A step puts a hash only where it was before, or where its thread puts   *)
(* the one it holds.                                                       *)
LEMMA Gained ==
  ASSUME ControlInv, NEW t \in Threads, Step(t), NEW f \in Files, NEW p \in Positions
  PROVE  {list[f][p], fresh[f][p], stale[f][p]}' \cap Hashes
           \subseteq {list[f][p], fresh[f][p], stale[f][p], held[t]}
<1> USE DEF ControlInv, TypeOK
<1>1. CASE Rows(f)' = Rows(f)
  BY <1>1 DEF Rows
<1>z. Zero \notin Hashes /\ None \notin Hashes
  BY ConstantsAssumption
<1>f. CASE pc[t] # "idle" /\ f # file[t]
  BY <1>1, <1>f, StepFrame
<1>2. CASE Grow(t) /\ f = file[t]
  <2>1. list'[f][p] \in {list[f][p], Zero} /\ fresh' = fresh /\ stale' = stale
    BY <1>2 DEF Grow, FilesTyped
  <2> QED
    BY <2>1, <1>z
<1>3. CASE Update(t) /\ f = file[t]
  <2>1. /\ list'[f][p] \in {list[f][p], fresh[f][p]}
        /\ fresh'[f][p] \in {fresh[f][p], None}
        /\ stale'[f][p] \in {stale[f][p], list[f][p]}
    BY <1>3 DEF Update, FilesTyped
  <2> QED
    BY <2>1, <1>z
<1>4. CASE Cut(t) /\ f = file[t]
  <2>1. /\ list'[f][p] \in {list[f][p], Zero, None}
        /\ stale'[f][p] \in {stale[f][p], list[f][p]}
        /\ fresh' = fresh
    BY <1>4 DEF Cut, FilesTyped
  <2> QED
    BY <2>1, <1>z
<1>5. CASE Swap(t) /\ f = file[t]
  <2>1. list'[f][p] = fresh[f][p] /\ stale'[f][p] = list[f][p] /\ fresh'[f][p] = None
    BY <1>5 DEF Swap, FilesTyped, NoChunks
  <2> QED
    BY <2>1, <1>z
<1>6. CASE Inc(t) /\ f = file[t]
  <2>1. fresh'[f][p] \in {fresh[f][p], held[t]} /\ list' = list /\ stale' = stale
    BY <1>6 DEF Inc, FilesTyped
  <2> QED
    BY <2>1, <1>z
<1>7. CASE Dec(t) /\ f = file[t]
  <2>1. stale'[f][p] \in {stale[f][p], None} /\ list' = list /\ fresh' = fresh
    BY <1>7 DEF Dec, FilesTyped
  <2> QED
    BY <2>1, <1>z
<1>8. CASE fileVars' = fileVars
  BY <1>1, <1>8 DEF fileVars, Rows
<1>9. fileVars' = fileVars \/ Grow(t) \/ Update(t) \/ Cut(t) \/ Swap(t)
                           \/ Inc(t) \/ Dec(t)
  BY DEF Step, Begin, Write, SkipSame, ScanDone, UpdateDone,
     Whole, Count, New, Lookup, Fetch, Put, Insert, Alive, Drop, Flags, CheckZero,
     DecDone, Delete, Mark, CheckOwn, Erase, Clear, Post, Return
<1>10. fileVars' = fileVars \/ pc[t] # "idle"
  BY BusyStep DEF Begin
<1> QED
  BY <1>f, <1>2, <1>3, <1>4, <1>5, <1>6, <1>7, <1>8, <1>9, <1>10

(* Slots are given out once and never taken back from a hash, and a step   *)
(* puts only hashes somewhere that were somewhere before.                  *)
LEMMA SlotInvStep ==
  ASSUME ControlInv, NEW t \in Threads, Step(t)
  PROVE  SlotInv'
<1> USE DEF ControlInv, TypeOK
<1>1. \A h \in Hashes : slot[h] \in Slots => slot'[h] \in Slots
  BY DEF Step, Begin, Write, Grow, SkipSame, ScanDone, Update, UpdateDone,
         Whole, Cut, Count, Swap, New, Lookup, Fetch, Put, Insert, Inc, Alive,
         Drop, Dec, Flags, CheckZero, DecDone,
         Delete, Mark, CheckOwn, Erase, Clear, Post, Return,
         hashVars, HashesTyped, PoolTyped
<1>2. ASSUME NEW f \in Files, NEW p \in Positions
      PROVE  {list[f][p], fresh[f][p], stale[f][p]}' \cap Hashes
               \subseteq {list[f][p], fresh[f][p], stale[f][p], held[t]}
  BY Gained
<1>3. ASSUME NEW u \in Threads, held'[u] \in Hashes
      PROVE  slot'[held'[u]] \in Slots
  <2>1. CASE held'[u] = held[u]
    BY <1>1, <1>3, <2>1 DEF SlotInv
  <2>2. CASE Lookup(t)
    <3>1. held'[u] = held[u] \/ \E c \in Contents : held'[u] = index[c]
      BY SMTT(30), <1>3, <2>2, ConstantsAssumption
         DEF Lookup, ThreadsTyped, ThreadInv, Scanning, Lowest, Data, Requests, Mentioned, Chunks
    <3> QED
      BY <1>1, <1>3, <3>1 DEF SlotInv
  <2>3. CASE Fetch(t)
    BY <1>1, <1>3, <2>3 DEF Fetch, ThreadsTyped, HashesTyped, PoolTyped, SlotInv
  <2>4. CASE Dec(t)
    <3>1. held'[u] = held[u] \/ \E p \in Positions : held'[u] = stale[file[t]][p]
      BY <2>4 DEF Dec, ThreadsTyped
    <3>2. file[t] \in Files
      BY <2>4 DEF Dec, ThreadInv
    <3> QED
      BY <1>1, <1>3, <3>1, <3>2 DEF SlotInv
  <2>5. CASE Alive(t) \/ DecDone(t)
    BY <1>1, <1>3, <2>5, ConstantsAssumption DEF Alive, DecDone, ThreadsTyped, SlotInv
  <2>6. CASE Begin(t) \/ Write(t) \/ Whole(t) \/ Return(t)
    <3>1. held' = held
      BY <2>6 DEF Begin, Write, Grow, SkipSame, ScanDone, Update, UpdateDone,
                  Whole, Cut, Count, Swap, Return
    <3> QED
      BY <2>1, <3>1
  <2>7. CASE Put(t) \/ Insert(t) \/ Inc(t) \/ Flags(t) \/ CheckZero(t) \/ Delete(t)
    <3>1. held' = held
      BY <2>7 DEF Put, Insert, Inc, Flags, CheckZero,
                  Delete, Mark, CheckOwn, Erase, Clear, Post
    <3> QED
      BY <2>1, <3>1
  <2> QED
    BY <2>2, <2>3, <2>4, <2>5, <2>6, <2>7 DEF Step, New, Drop
<1>4. ASSUME NEW c \in Contents, index'[c] \in Hashes
      PROVE  index'[c] \in {index[c], held[t]}
  <2>z. None \notin Hashes
    BY ConstantsAssumption
  <2>1. CASE Insert(t) \/ Erase(t)
    BY <1>4, <2>z, <2>1 DEF Insert, Erase, PoolTyped
  <2>2. CASE Begin(t) \/ Write(t) \/ Whole(t) \/ Return(t)
    <3>1. index' = index
      BY <2>2 DEF Begin, Write, Grow, SkipSame, ScanDone, Update, UpdateDone,
                  Whole, Cut, Count, Swap, Return, poolVars
    <3> QED
      BY <3>1
  <2>3. CASE Lookup(t) \/ Fetch(t) \/ Put(t) \/ Inc(t) \/ Alive(t) \/ Drop(t)
    <3>1. index' = index
      BY <2>3 DEF Lookup, Fetch, Put, Inc, Alive, Drop, Dec, Flags, CheckZero,
                  DecDone, poolVars
    <3> QED
      BY <3>1
  <2>4. CASE Mark(t) \/ CheckOwn(t) \/ Clear(t) \/ Post(t)
    <3>1. index' = index
      BY <2>4 DEF Mark, CheckOwn, Clear, Post, poolVars
    <3> QED
      BY <3>1
  <2> QED
    BY <2>1, <2>2, <2>3, <2>4 DEF Step, New, Delete
<1> QED
  BY SMTT(30), <1>1, <1>2, <1>3, <1>4 DEF SlotInv

LEMMA ControlInit ==
  ASSUME Init
  PROVE  ControlInv
<1>1. \A t \in Threads : ThreadInv(t)
  BY DEF Init, ThreadInv, Scanning, Dropping
<1>2. FileInv
  BY DEF Init, FileInv, Nothing, NoChunks
<1>3. SlotInv
  BY ConstantsAssumption DEF Init, SlotInv, NoChunks
<1> QED
  BY <1>1, <1>2, <1>3, TypesInit DEF ControlInv

LEMMA ControlStep ==
  ASSUME ControlInv, [Next]_vars
  PROVE  ControlInv'
<1>1. ASSUME NEW t \in Threads, Step(t)
      PROVE  ControlInv'
  <2>1. TypeOK'
    BY <1>1, TypesBegin, TypesWrite, TypesWhole, TypesNew, TypesDrop, TypesDelete,
       TypesReturn DEF Step
  <2>2. ThreadInv(t)'
    BY <1>1, OwnInvWrite, OwnInvWhole, OwnInvNew, OwnInvDrop, OwnInvEnds DEF Step
  <2>3. \A u \in Threads : ThreadInv(u)'
    BY <1>1, <2>2, OthersInv
  <2> QED
    BY <1>1, <2>1, <2>3, FileInvStep, SlotInvStep DEF ControlInv
<1>2. CASE Remount
  <2>1. (\A t \in Threads : ThreadInv(t))'
    BY <1>2 DEF Remount, ControlInv, ThreadInv, Scanning, Dropping
  <2>2. FileInv' /\ SlotInv'
    BY <1>2 DEF Remount, ControlInv, FileInv, SlotInv, Nothing, fileVars, poolVars
  <2> QED
    BY <1>2, <2>1, <2>2, TypesRemount DEF ControlInv
<1>3. CASE UNCHANGED vars
  <2>1. TypeOK'
    BY <1>3 DEF vars, fileVars, hashVars, poolVars, ControlInv, TypeOK, FilesTyped,
                HashesTyped, PoolTyped, ThreadsTyped
  <2>2. (\A t \in Threads : ThreadInv(t))'
    BY <1>3 DEF vars, fileVars, ControlInv, ThreadInv, Scanning, Dropping, Nothing
  <2>3. FileInv' /\ SlotInv'
    BY <1>3 DEF vars, fileVars, hashVars, poolVars, ControlInv, FileInv, SlotInv, Nothing
  <2> QED
    BY <2>1, <2>2, <2>3 DEF ControlInv
<1> QED
  BY <1>1, <1>2, <1>3 DEF Next

(* Every value of the model has its type, and the pool only ever hands out *)
(* and takes back slots of the buckets (storage.cpp:292-316,               *)
(* hash.cpp:59-78), for any number of threads, files and chunks.           *)
THEOREM Typing == Spec => []TypeOK
<1>1. ControlInv => TypeOK
  BY DEF ControlInv
<1> QED
  BY ControlInit, ControlStep, <1>1, PTL DEF Spec

-----------------------------------------------------------------------------
Kinds == {"list", "fresh", "stale"}

LEMMA PlacesFinite == IsFiniteSet(Places)
<1> DEFINE Pairs == Kinds \X (Files \X Positions)
           flat == [x \in Pairs |-> <<x[1], x[2][1], x[2][2]>>]
<1>1. IsFiniteSet(Files \X Positions)
  BY ConstantsAssumption, PositionsFinite, FS_Product
<1>2. IsFiniteSet(Kinds)
  <2>1. IsFiniteSet({"list"})
    BY FS_Singleton
  <2>2. IsFiniteSet({"list"} \cup {"fresh"})
    BY <2>1, FS_AddElement
  <2>3. IsFiniteSet({"list"} \cup {"fresh"} \cup {"stale"})
    BY <2>2, FS_AddElement
  <2>4. {"list"} \cup {"fresh"} \cup {"stale"} = Kinds
    BY DEF Kinds
  <2> QED
    BY <2>3, <2>4
<1>3. IsFiniteSet(Pairs)
  BY <1>1, <1>2, FS_Product
<1>4. flat \in [Pairs -> Places]
  BY DEF Places, Kinds
<1>5. ASSUME NEW r \in Places
      PROVE  \E x \in Pairs : flat[x] = r
  <2>1. PICK k \in Kinds, f \in Files, p \in Positions : r = <<k, f, p>>
    BY <1>5 DEF Places, Kinds
  <2>2. <<k, <<f, p>>>> \in Pairs
    OBVIOUS
  <2>3. flat[<<k, <<f, p>>>>] = <<k, f, p>>
    BY <2>2
  <2> QED
    BY <2>1, <2>2, <2>3
<1>6. flat \in Surjection(Pairs, Places)
  <2> HIDE DEF flat, Pairs
  <2> QED
    BY <1>4, <1>5, Fun_IsSurj
<1> QED
  BY <1>3, <1>6, FS_Surjection

LEMMA RefsFinite ==
  ASSUME NEW h
  PROVE  IsFiniteSet(RefsTo(h)) /\ IsFiniteSet(RefsTo(h)')
  BY PlacesFinite, FS_Subset DEF RefsTo

(* What At says of each kind of place. *)
LEMMA PlaceCases ==
  ASSUME NEW f \in Files, NEW p \in Positions, NEW h
  PROVE  /\ <<"list", f, p>> \in RefsTo(h) <=> list[f][p] = h
         /\ <<"fresh", f, p>> \in RefsTo(h) <=> fresh[f][p] = h
         /\ <<"stale", f, p>> \in RefsTo(h) <=> stale[f][p] = h
         /\ <<"list", f, p>> \in RefsTo(h)' <=> list'[f][p] = h
         /\ <<"fresh", f, p>> \in RefsTo(h)' <=> fresh'[f][p] = h
         /\ <<"stale", f, p>> \in RefsTo(h)' <=> stale'[f][p] = h
  BY DEF RefsTo, Places, At

(* Moving what is listed to stale, and what is fresh to the list, at some  *)
(* positions of a file, leaves every hash as many references as it had.    *)
Turned(k) == IF k = "list" THEN "stale" ELSE IF k = "fresh" THEN "list" ELSE "fresh"
Back(k) == IF k = "list" THEN "fresh" ELSE IF k = "fresh" THEN "stale" ELSE "list"

SamePlace(h, g, p) ==
  /\ list'[g][p] = h <=> list[g][p] = h
  /\ fresh'[g][p] = h <=> fresh[g][p] = h
  /\ stale'[g][p] = h <=> stale[g][p] = h

TurnedPlace(h, f, p) ==
  /\ list'[f][p] = h <=> fresh[f][p] = h
  /\ stale'[f][p] = h <=> list[f][p] = h
  /\ fresh'[f][p] = h <=> stale[f][p] = h

LEMMA Rotation ==
  ASSUME NEW f \in Files, NEW S \in SUBSET Positions, NEW h,
         \A g \in Files, p \in Positions : g # f \/ p \notin S => SamePlace(h, g, p),
         \A p \in S : TurnedPlace(h, f, p)
  PROVE  Cardinality(RefsTo(h)') = Cardinality(RefsTo(h))
<1> DEFINE move(r) == IF r[2] = f /\ r[3] \in S THEN <<Turned(r[1]), r[2], r[3]>> ELSE r
           undo(r) == IF r[2] = f /\ r[3] \in S THEN <<Back(r[1]), r[2], r[3]>> ELSE r
           turn == [r \in RefsTo(h) |-> move(r)]
<1>0. ASSUME NEW r \in Places
      PROVE  \E k \in Kinds, g \in Files, p \in Positions :
                r = <<k, g, p>> /\ r[1] = k /\ r[2] = g /\ r[3] = p
  BY DEF Places, Kinds
<1>u. ASSUME NEW k \in Kinds, NEW g \in Files, NEW p \in Positions, g # f \/ p \notin S
      PROVE  <<k, g, p>> \in RefsTo(h)' <=> <<k, g, p>> \in RefsTo(h)
  <2>0. SamePlace(h, g, p)
    BY <1>u
  <2>1. CASE k = "list"
    BY <2>0, <2>1, PlaceCases DEF SamePlace
  <2>2. CASE k = "fresh"
    BY <2>0, <2>2, PlaceCases DEF SamePlace
  <2>3. CASE k = "stale"
    BY <2>0, <2>3, PlaceCases DEF SamePlace
  <2> QED
    BY <2>1, <2>2, <2>3 DEF Kinds
<1>v. ASSUME NEW k \in Kinds, NEW p \in S
      PROVE  /\ <<Turned(k), f, p>> \in RefsTo(h)' <=> <<k, f, p>> \in RefsTo(h)
             /\ <<k, f, p>> \in RefsTo(h)' <=> <<Back(k), f, p>> \in RefsTo(h)
  <2>0. TurnedPlace(h, f, p) /\ p \in Positions
    OBVIOUS
  <2>1. CASE k = "list"
    <3>1. Turned(k) = "stale" /\ Back(k) = "fresh"
      BY <2>1 DEF Turned, Back
    <3> QED
      BY <2>0, <2>1, <3>1, PlaceCases DEF TurnedPlace
  <2>2. CASE k = "fresh"
    <3>1. Turned(k) = "list" /\ Back(k) = "stale"
      BY <2>2 DEF Turned, Back
    <3> QED
      BY <2>0, <2>2, <3>1, PlaceCases DEF TurnedPlace
  <2>3. CASE k = "stale"
    <3>1. Turned(k) = "fresh" /\ Back(k) = "list"
      BY <2>3 DEF Turned, Back
    <3> QED
      BY <2>0, <2>3, <3>1, PlaceCases DEF TurnedPlace
  <2> QED
    BY <2>1, <2>2, <2>3 DEF Kinds
<1>1. ASSUME NEW r \in RefsTo(h)
      PROVE  move(r) \in RefsTo(h)' /\ undo(move(r)) = r
  <2>1. PICK k \in Kinds, g \in Files, p \in Positions :
          r = <<k, g, p>> /\ r[1] = k /\ r[2] = g /\ r[3] = p
    BY <1>0 DEF RefsTo
  <2>2. CASE g = f /\ p \in S
    <3>1. move(r) = <<Turned(k), f, p>>
      BY <2>1, <2>2
    <3>2. move(r) \in RefsTo(h)'
      BY <2>1, <2>2, <3>1, <1>v
    <3>3. undo(move(r)) = r
      BY <2>1, <2>2, <3>1 DEF Turned, Back, Kinds
    <3> QED
      BY <3>2, <3>3
  <2>3. CASE g # f \/ p \notin S
    <3>1. move(r) = r /\ undo(r) = r
      BY <2>1, <2>3
    <3>2. r \in RefsTo(h)'
      BY <2>1, <2>3, <1>u, <1>1
    <3> QED
      BY <3>1, <3>2
  <2> QED
    BY <2>2, <2>3
<1>2. ASSUME NEW r \in RefsTo(h)'
      PROVE  undo(r) \in RefsTo(h) /\ move(undo(r)) = r
  <2>1. PICK k \in Kinds, g \in Files, p \in Positions :
          r = <<k, g, p>> /\ r[1] = k /\ r[2] = g /\ r[3] = p
    BY <1>0 DEF RefsTo, Places
  <2>2. CASE g = f /\ p \in S
    <3>1. undo(r) = <<Back(k), f, p>>
      BY <2>1, <2>2
    <3>2. undo(r) \in RefsTo(h)
      BY <2>1, <2>2, <3>1, <1>v
    <3>3. move(undo(r)) = r
      BY <2>1, <2>2, <3>1 DEF Turned, Back, Kinds
    <3> QED
      BY <3>2, <3>3
  <2>3. CASE g # f \/ p \notin S
    <3>1. move(r) = r /\ undo(r) = r
      BY <2>1, <2>3
    <3>2. r \in RefsTo(h)
      BY <2>1, <2>3, <1>u, <1>2
    <3> QED
      BY <3>1, <3>2
  <2> QED
    BY <2>2, <2>3
<1> HIDE DEF move, undo
<1>3. turn \in [RefsTo(h) -> RefsTo(h)']
  BY <1>1
<1>4. \A a, b \in RefsTo(h) : turn[a] = turn[b] => a = b
  BY <1>1
<1>5. \A r \in RefsTo(h)' : \E s \in RefsTo(h) : turn[s] = r
  BY <1>2
<1>6. turn \in Bijection(RefsTo(h), RefsTo(h)')
  <2> HIDE DEF turn
  <2> QED
    BY <1>3, <1>4, <1>5, Fun_IsBij
<1>7. ExistsBijection(RefsTo(h), RefsTo(h)')
  BY <1>6 DEF ExistsBijection
<1> QED
  BY <1>7, RefsFinite, FS_Bijection

(* When the places of h change at most by one, RefsTo(h) does. *)
LEMMA RefsByPlace ==
  ASSUME NEW h, NEW R, R \subseteq Places,
         \A k \in Kinds, g \in Files, p \in Positions :
            <<k, g, p>> \in RefsTo(h)' <=> <<k, g, p>> \in R
  PROVE  RefsTo(h)' = R
<1>1. \A r \in Places : \E k \in Kinds, g \in Files, p \in Positions : r = <<k, g, p>>
  BY DEF Places, Kinds
<1>2. RefsTo(h)' \subseteq Places
  BY DEF RefsTo, Places
<1> QED
  BY <1>1, <1>2

LEMMA RefsKept ==
  ASSUME NEW h,
         \A g \in Files, p \in Positions : SamePlace(h, g, p)
  PROVE  RefsTo(h)' = RefsTo(h)
<1>1. ASSUME NEW k \in Kinds, NEW g \in Files, NEW p \in Positions
      PROVE  <<k, g, p>> \in RefsTo(h)' <=> <<k, g, p>> \in RefsTo(h)
  <2>0. SamePlace(h, g, p)
    OBVIOUS
  <2>1. CASE k = "list"
    BY <2>0, <2>1, PlaceCases DEF SamePlace
  <2>2. CASE k = "fresh"
    BY <2>0, <2>2, PlaceCases DEF SamePlace
  <2>3. CASE k = "stale"
    BY <2>0, <2>3, PlaceCases DEF SamePlace
  <2> QED
    BY <2>1, <2>2, <2>3 DEF Kinds
<1>2. RefsTo(h) \subseteq Places
  BY DEF RefsTo
<1> QED
  BY <1>1, <1>2, RefsByPlace

CountInv == ControlInv /\ RefExact

(* Taking hashes off a list, and putting those of an update or of a swap   *)
(* in their place, changes no number of references; only where the list    *)
(* gets longer does zeroHash gain some.                                    *)
LEMMA RefsMoved ==
  ASSUME ControlInv, NEW t \in Threads, Cut(t) \/ Update(t) \/ Swap(t), NEW h \in Refs,
         Cut(t) /\ h = Zero =>
           \A p \in Mentioned(request[file[t]]) : list[file[t]][p] # None
  PROVE  Cardinality(RefsTo(h)') = Cardinality(RefsTo(h))
<1> USE DEF ControlInv, TypeOK
<1>f. file[t] \in Files
  BY DEF Cut, Update, Swap, ThreadInv
<1>z. h # None /\ Zero # None
  BY ConstantsAssumption DEF Refs
<1>2. CASE Cut(t)
  <2> DEFINE removed == {p \in Positions \ Mentioned(request[file[t]]) : list[file[t]][p] # None}
  <2>1. Nothing(fresh, file[t]) /\ Nothing(stale, file[t]) /\ fresh' = fresh
    BY <1>2 DEF Cut, ThreadInv
  <2>2. ASSUME NEW g \in Files, NEW p \in Positions, g # file[t] \/ p \notin removed
        PROVE  (list'[g][p] = h <=> list[g][p] = h) /\ (stale'[g][p] = h <=> stale[g][p] = h)
    BY <1>2, <1>f, <1>z, <2>2 DEF Cut, FilesTyped, Mentioned
  <2>3. ASSUME NEW p \in removed
        PROVE  list'[file[t]][p] = None /\ stale'[file[t]][p] = list[file[t]][p]
    BY <1>2, <1>f, <2>3 DEF Cut, FilesTyped
  <2> DEFINE f == file[t]
  <2>4. removed \in SUBSET Positions
    OBVIOUS
  <2>5. \A g \in Files, p \in Positions : g # f \/ p \notin removed => SamePlace(h, g, p)
    BY <2>1, <2>2 DEF SamePlace
  <2>6. \A p \in removed : TurnedPlace(h, f, p)
    BY <1>z, <2>1, <2>3 DEF Nothing, TurnedPlace
  <2> HIDE DEF removed, f
  <2> QED
    BY <1>f, <2>4, <2>5, <2>6, Rotation DEF f
<1>3. CASE Update(t)
  <2>1. PICK p \in Positions :
          /\ p \in todo[t]
          /\ stale' = [stale EXCEPT ![file[t]][p] = list[file[t]][p]]
          /\ list' = [list EXCEPT ![file[t]][p] = fresh[file[t]][p]]
          /\ fresh' = [fresh EXCEPT ![file[t]][p] = None]
    BY <1>3 DEF Update, Lowest
  <2>2. stale[file[t]][p] = None
    BY <1>3, <2>1 DEF Update, ThreadInv
  <2>3. \A g \in Files, q \in Positions : g # file[t] \/ q \notin {p} => SamePlace(h, g, q)
    BY <1>f, <2>1 DEF FilesTyped, SamePlace
  <2>4. \A q \in {p} : TurnedPlace(h, file[t], q)
    BY <1>f, <1>z, <2>1, <2>2 DEF FilesTyped, TurnedPlace
  <2> DEFINE S == {p}
  <2>5. S \in SUBSET Positions
    OBVIOUS
  <2>6. file[t] \in Files
    BY <1>f
  <2> HIDE DEF S
  <2> QED
    BY <2>6, <2>3, <2>4, <2>5, Rotation DEF S
<1>4. CASE Swap(t)
  <2>1. Nothing(stale, file[t])
    BY <1>4 DEF Swap, ThreadInv
  <2>2. \A g \in Files, q \in Positions : g # file[t] \/ q \notin Positions => SamePlace(h, g, q)
    BY <1>4, <1>f DEF Swap, FilesTyped, SamePlace
  <2>3. \A q \in Positions : TurnedPlace(h, file[t], q)
    BY <1>4, <1>f, <1>z, <2>1 DEF Swap, FilesTyped, NoChunks, Nothing, TurnedPlace
  <2>4. Positions \in SUBSET Positions
    OBVIOUS
  <2> QED
    BY <1>f, <2>2, <2>3, <2>4, Rotation
<1> QED
  BY <1>2, <1>3, <1>4

LEMMA CountMoves ==
  ASSUME CountInv, NEW t \in Threads, Grow(t) \/ Cut(t) \/ Update(t) \/ Swap(t)
  PROVE  RefExact'
<1> USE DEF CountInv, ControlInv, TypeOK
<1>f. file[t] \in Files
  BY DEF Grow, Cut, Update, Swap, ThreadInv
<1>z. Zero \notin Hashes /\ None \notin Hashes
  BY ConstantsAssumption
<1>c. refcnt' = refcnt
  BY DEF Grow, Cut, Update, Swap, hashVars
<1> SUFFICES ASSUME NEW h \in Hashes
             PROVE  Cardinality(RefsTo(h)') = Cardinality(RefsTo(h))
  BY <1>c DEF RefExact
<1>1. CASE Grow(t)
  <2>1. ASSUME NEW g \in Files, NEW p \in Positions
        PROVE  list'[g][p] = h <=> list[g][p] = h
    <3> DEFINE added == {q \in Positions : list[file[t]][q] = None
                              /\ \E n \in Mentioned(request[file[t]]) : q <= n}
               row == [q \in Positions |-> IF q \in added THEN Zero ELSE list[file[t]][q]]
    <3>1. list' = list \/ list' = [list EXCEPT ![file[t]] = row]
      BY <1>1 DEF Grow
    <3>2. p \in added => list[file[t]][p] = None
      OBVIOUS
    <3> HIDE DEF added
    <3>a. row[p] = IF p \in added THEN Zero ELSE list[file[t]][p]
      OBVIOUS
    <3> HIDE DEF row
    <3>b. list'[g] = list[g] \/ (g = file[t] /\ list'[g] = row)
      BY <3>1, <1>f DEF FilesTyped
    <3>3. list'[g][p] = list[g][p] \/ (list[g][p] = None /\ list'[g][p] = Zero)
      BY <3>2, <3>a, <3>b
    <3> QED
      BY <3>3, <1>z
  <2>2. fresh' = fresh /\ stale' = stale
    BY <1>1 DEF Grow
  <2> QED
    BY <2>1, <2>2, RefsKept DEF SamePlace
<1>2. CASE Cut(t) \/ Update(t) \/ Swap(t)
  BY <1>z, <1>2, RefsMoved DEF Refs
<1> QED
  BY <1>1, <1>2

(* A reference is counted, and given up, together with its place.          *)
LEMMA RefsCounted ==
  ASSUME ControlInv, NEW t \in Threads, Inc(t), NEW h \in Refs
  PROVE  IF h = held[t]
           THEN /\ Cardinality(RefsTo(h)') = Cardinality(RefsTo(h)) + 1
                /\ refcnt'[h] = refcnt[h] + 1
           ELSE RefsTo(h)' = RefsTo(h) /\ refcnt'[h] = refcnt[h]
<1> USE DEF ControlInv, TypeOK
<1>f. file[t] \in Files
  BY DEF Inc, ThreadInv
<1>z. h # None
  BY ConstantsAssumption DEF Refs
<1>1. PICK p \in Positions :
        /\ p \in todo[t]
        /\ fresh' = [fresh EXCEPT ![file[t]][p] = held[t]]
  BY DEF Inc, Lowest
<1>2. fresh[file[t]][p] = None /\ held[t] \in Refs
  BY <1>1 DEF Inc, ThreadInv, Scanning
<1>3. ASSUME h # held[t]
      PROVE  RefsTo(h)' = RefsTo(h) /\ refcnt'[h] = refcnt[h]
  <2>1. \A g \in Files, q \in Positions : SamePlace(h, g, q)
    BY <1>f, <1>z, <1>1, <1>2, <1>3 DEF Inc, SamePlace, FilesTyped
  <2> QED
    BY <2>1, <1>3, RefsKept DEF Inc, HashesTyped, Refs
<1>4. ASSUME h = held[t]
      PROVE  /\ Cardinality(RefsTo(h)') = Cardinality(RefsTo(h)) + 1
             /\ refcnt'[h] = refcnt[h] + 1
  <2> DEFINE new == <<"fresh", file[t], p>>
             R == RefsTo(h) \cup {new}
  <2>1. R \subseteq Places
    BY <1>f DEF RefsTo, Places
  <2>2. ASSUME NEW k \in Kinds, NEW g \in Files, NEW q \in Positions
        PROVE  <<k, g, q>> \in RefsTo(h)' <=> <<k, g, q>> \in R
    <3>1. list' = list /\ stale' = stale
      BY DEF Inc
    <3>2. fresh'[g][q] = IF g = file[t] /\ q = p THEN h ELSE fresh[g][q]
      BY <1>f, <1>1, <1>4 DEF FilesTyped
    <3>3. CASE k = "list"
      BY <3>1, <3>3, PlaceCases
    <3>4. CASE k = "stale"
      BY <3>1, <3>4, PlaceCases
    <3>5. CASE k = "fresh" /\ g = file[t] /\ q = p
      <4>1. fresh'[g][q] = h
        BY <3>2, <3>5
      <4>2. <<k, g, q>> \in RefsTo(h)'
        BY <3>5, <4>1, PlaceCases
      <4> QED
        BY <3>5, <4>2
    <3>6. CASE k = "fresh" /\ ~(g = file[t] /\ q = p)
      <4>1. fresh'[g][q] = fresh[g][q]
        BY <3>2, <3>6
      <4>2. <<"fresh", g, q>> \in RefsTo(h)' <=> <<"fresh", g, q>> \in RefsTo(h)
        <5>1. <<"fresh", g, q>> \in RefsTo(h)' <=> fresh'[g][q] = h
          BY PlaceCases
        <5>2. <<"fresh", g, q>> \in RefsTo(h) <=> fresh[g][q] = h
          BY PlaceCases
        <5> QED
          BY <4>1, <5>1, <5>2
      <4>3. <<"fresh", g, q>> # new
        BY <3>6
      <4>4. \A x : x # new => (x \in R <=> x \in RefsTo(h))
        <5> HIDE DEF new
        <5> QED
          OBVIOUS
      <4> HIDE DEF new, R
      <4> QED
        BY <3>6, <4>2, <4>3, <4>4
    <3> QED
      BY <3>3, <3>4, <3>5, <3>6 DEF Kinds
  <2>3. RefsTo(h)' = R
    <3> HIDE DEF R
    <3> QED
      BY <2>1, <2>2, RefsByPlace
  <2>4. new \notin RefsTo(h)
    BY <1>f, <1>z, <1>2, PlaceCases
  <2>5. Cardinality(R) = Cardinality(RefsTo(h)) + 1
    BY <2>4, RefsFinite, FS_AddElement
  <2>6. refcnt'[h] = refcnt[h] + 1
    BY <1>4 DEF Inc, HashesTyped, Refs
  <2> QED
    BY <2>3, <2>5, <2>6
<1> QED
  BY <1>3, <1>4

LEMMA RefsGivenUp ==
  ASSUME ControlInv, NEW t \in Threads, Dec(t), NEW h \in Refs
  PROVE  \E p \in Positions :
           /\ p \in todo[t]
           /\ stale' = [stale EXCEPT ![file[t]][p] = None]
           /\ refcnt' = [refcnt EXCEPT ![stale[file[t]][p]] = @ - 1]
           /\ IF h = stale[file[t]][p]
                THEN /\ Cardinality(RefsTo(h)') = Cardinality(RefsTo(h)) - 1
                     /\ refcnt'[h] = refcnt[h] - 1
                ELSE RefsTo(h)' = RefsTo(h) /\ refcnt'[h] = refcnt[h]
<1> USE DEF ControlInv, TypeOK
<1>f. file[t] \in Files
  BY DEF Dec, ThreadInv
<1>z. h # None
  BY ConstantsAssumption DEF Refs
<1>1. PICK p \in Positions :
        /\ p \in todo[t]
        /\ stale' = [stale EXCEPT ![file[t]][p] = None]
        /\ refcnt' = [refcnt EXCEPT ![stale[file[t]][p]] = @ - 1]
  BY DEF Dec, Lowest
<1>2. ASSUME h # stale[file[t]][p]
      PROVE  RefsTo(h)' = RefsTo(h) /\ refcnt'[h] = refcnt[h]
  <2>1. \A g \in Files, q \in Positions : SamePlace(h, g, q)
    BY <1>f, <1>z, <1>1, <1>2 DEF Dec, SamePlace, FilesTyped
  <2> QED
    BY <2>1, <1>1, <1>2, RefsKept DEF HashesTyped, Refs
<1>3. ASSUME h = stale[file[t]][p]
      PROVE  /\ Cardinality(RefsTo(h)') = Cardinality(RefsTo(h)) - 1
             /\ refcnt'[h] = refcnt[h] - 1
  <2> DEFINE old == <<"stale", file[t], p>>
             R == RefsTo(h) \ {old}
  <2>1. R \subseteq Places
    BY DEF RefsTo
  <2>2. ASSUME NEW k \in Kinds, NEW g \in Files, NEW q \in Positions
        PROVE  <<k, g, q>> \in RefsTo(h)' <=> <<k, g, q>> \in R
    <3>1. list' = list /\ fresh' = fresh
      BY DEF Dec
    <3>2. stale'[g][q] = IF g = file[t] /\ q = p THEN None ELSE stale[g][q]
      BY <1>f, <1>1 DEF FilesTyped
    <3>3. CASE k = "list"
      BY <3>1, <3>3, PlaceCases
    <3>4. CASE k = "fresh"
      BY <3>1, <3>4, PlaceCases
    <3>5. CASE k = "stale" /\ g = file[t] /\ q = p
      <4>1. stale'[g][q] # h
        BY <3>2, <3>5, <1>z
      <4>2. <<k, g, q>> \notin RefsTo(h)'
        BY <3>5, <4>1, PlaceCases
      <4> QED
        BY <3>5, <4>2
    <3>6. CASE k = "stale" /\ ~(g = file[t] /\ q = p)
      <4>1. stale'[g][q] = stale[g][q]
        BY <3>2, <3>6
      <4>2. <<"stale", g, q>> \in RefsTo(h)' <=> <<"stale", g, q>> \in RefsTo(h)
        <5>1. <<"stale", g, q>> \in RefsTo(h)' <=> stale'[g][q] = h
          BY PlaceCases
        <5>2. <<"stale", g, q>> \in RefsTo(h) <=> stale[g][q] = h
          BY PlaceCases
        <5> QED
          BY <4>1, <5>1, <5>2
      <4>3. <<"stale", g, q>> # old
        BY <3>6
      <4>4. \A x : x # old => (x \in R <=> x \in RefsTo(h))
        <5> HIDE DEF old
        <5> QED
          OBVIOUS
      <4> HIDE DEF old, R
      <4> QED
        BY <3>6, <4>2, <4>3, <4>4
    <3> QED
      BY <3>3, <3>4, <3>5, <3>6 DEF Kinds
  <2>3. RefsTo(h)' = R
    <3> HIDE DEF R
    <3> QED
      BY <2>1, <2>2, RefsByPlace
  <2>4. old \in RefsTo(h)
    BY <1>f, <1>3, PlaceCases
  <2>5. Cardinality(R) = Cardinality(RefsTo(h)) - 1
    BY <2>4, RefsFinite, FS_RemoveElement
  <2>6. refcnt'[h] = refcnt[h] - 1
    BY <1>1, <1>3 DEF HashesTyped, Refs
  <2> QED
    BY <2>3, <2>5, <2>6
<1> QED
  BY <1>1, <1>2, <1>3

LEMMA CountChanges ==
  ASSUME CountInv, NEW t \in Threads, Fetch(t) \/ Inc(t) \/ Dec(t)
  PROVE  RefExact'
<1> USE DEF CountInv, ControlInv, TypeOK
<1>f. file[t] \in Files
  BY DEF Fetch, Inc, Dec, ThreadInv
<1>z. Zero \notin Hashes /\ None \notin Hashes
  BY ConstantsAssumption
<1>1. CASE Fetch(t)
  <2>1. PICK n \in Hashes : ~InUse(n) /\ refcnt' = [refcnt EXCEPT ![n] = 0]
    BY <1>1 DEF Fetch
  <2>2. \A h \in Hashes : RefsTo(h)' = RefsTo(h)
    BY <1>1, RefsKept DEF Fetch, fileVars, SamePlace
  <2>3. RefsTo(n) = {}
    <3>1. \A r \in Places : \E k \in Kinds, g \in Files, p \in Positions : r = <<k, g, p>>
      BY DEF Places, Kinds
    <3>2. \A r \in RefsTo(n) : r \in Places
      BY DEF RefsTo
    <3>3. ASSUME NEW k \in Kinds, NEW g \in Files, NEW p \in Positions
          PROVE  <<k, g, p>> \notin RefsTo(n)
      <4>1. list[g][p] # n /\ fresh[g][p] # n /\ stale[g][p] # n
        BY <2>1 DEF InUse
      <4>2. k = "list" \/ k = "fresh" \/ k = "stale"
        BY DEF Kinds
      <4> QED
        BY <4>1, <4>2, PlaceCases
    <3> QED
      BY <3>1, <3>2, <3>3
  <2>4. \A h \in Hashes : refcnt'[h] = IF h = n THEN 0 ELSE refcnt[h]
    BY <2>1 DEF HashesTyped, Refs
  <2> QED
    BY <2>2, <2>3, <2>4, FS_EmptySet DEF RefExact
<1>2. CASE Inc(t)
  <2>1. \A h \in Hashes : h \in Refs
    BY DEF Refs
  <2> QED
    BY <1>2, <2>1, RefsCounted DEF RefExact
<1>3. CASE Dec(t)
  <2>1. ASSUME NEW h \in Hashes
        PROVE  refcnt'[h] = Cardinality(RefsTo(h)')
    <3>1. h \in Refs
      BY DEF Refs
    <3> QED
      BY <1>3, <3>1, RefsGivenUp DEF RefExact
  <2> QED
    BY <2>1 DEF RefExact
<1> QED
  BY <1>1, <1>2, <1>3


LEMMA CountStep ==
  ASSUME CountInv, [Next]_vars
  PROVE  CountInv'
<1>1. ASSUME fileVars' = fileVars, \A h \in Hashes : refcnt'[h] = refcnt[h]
      PROVE  RefExact'
  <2>1. \A h \in Hashes : RefsTo(h)' = RefsTo(h)
    BY <1>1, RefsKept DEF fileVars, SamePlace
  <2> QED
    BY <1>1, <2>1 DEF CountInv, RefExact
<1>2. ASSUME NEW t \in Threads, Step(t)
      PROVE  RefExact'
  <2>1. CASE Grow(t) \/ Cut(t) \/ Update(t) \/ Swap(t)
    BY <2>1, CountMoves
  <2>2. CASE Fetch(t) \/ Inc(t) \/ Dec(t)
    BY <2>2, CountChanges
  <2>3. CASE Count(t)
    <3>1. \A h \in Hashes : refcnt'[h] = refcnt[h]
      BY <2>3, ConstantsAssumption DEF Count, CountInv, ControlInv, TypeOK, HashesTyped, Refs
    <3> QED
      BY <2>3, <3>1, <1>1 DEF Count
  <2>4. (fileVars' = fileVars /\ refcnt' = refcnt) \/ Grow(t) \/ Cut(t) \/ Update(t)
          \/ Swap(t) \/ Fetch(t) \/ Inc(t) \/ Dec(t) \/ Count(t)
    BY <1>2 DEF Step, Begin, Write, SkipSame, ScanDone, UpdateDone, Whole,
       New, Lookup, Put, Insert, Alive, Drop, Flags, CheckZero, DecDone,
       Delete, Mark, CheckOwn, Erase, Clear, Post, Return, hashVars
  <2> QED
    BY <1>1, <2>1, <2>2, <2>3, <2>4
<1>3. ASSUME Remount
      PROVE  RefExact'
  <2>1. \A h \in Hashes : refcnt'[h] = refcnt[h]
    BY <1>3, ConstantsAssumption DEF Remount, CountInv, ControlInv, TypeOK, HashesTyped, Refs
  <2>2. fileVars' = fileVars
    BY <1>3 DEF Remount
  <2> QED
    BY <2>1, <2>2, <1>1
<1>4. ASSUME UNCHANGED vars
      PROVE  RefExact'
  <2>1. fileVars' = fileVars /\ refcnt' = refcnt
    BY <1>4 DEF vars, hashVars
  <2> QED
    BY <2>1, <1>1
<1> QED
  BY <1>2, <1>3, <1>4, ControlStep DEF Next, CountInv

LEMMA CountInit ==
  ASSUME Init
  PROVE  CountInv
<1>1. ASSUME NEW h \in Hashes
      PROVE  RefsTo(h) = {}
  <2>1. \A r \in Places : \E k \in Kinds, g \in Files, p \in Positions : r = <<k, g, p>>
    BY DEF Places, Kinds
  <2>2. \A r \in RefsTo(h) : r \in Places
    BY DEF RefsTo
  <2>3. h # None
    BY ConstantsAssumption
  <2>4. ASSUME NEW k \in Kinds, NEW g \in Files, NEW p \in Positions
        PROVE  <<k, g, p>> \notin RefsTo(h)
    BY <2>3, PlaceCases DEF Init, NoChunks, Kinds
  <2> QED
    BY <2>1, <2>2, <2>4
<1>2. \A h \in Hashes : refcnt[h] = 0
  BY ConstantsAssumption DEF Init, Refs
<1> QED
  BY <1>1, <1>2, FS_EmptySet, ControlInit DEF CountInv, RefExact

(* The count of every hash is the number of references to it, whatever the *)
(* threads write at the same time and however their steps interleave: the  *)
(* increments and decrements of hash.cpp:50-78 are paired exactly with the *)
(* places of file.cpp that list a hash.                                    *)
THEOREM CountsAreExact == Spec => []RefExact
<1>1. CountInv => RefExact
  BY DEF CountInv
<1> QED
  BY <1>1, CountInit, CountStep, PTL DEF Spec

-----------------------------------------------------------------------------
(* What the store keeps, when two threads never meet in the section of one *)
(* content: no reference is left dangling, no slot is lost or written      *)
(* twice, and the files hold what was asked for. At the end, without that  *)
(* condition: what moves the count of the hash of zeros.                   *)

At3(f, p) == {list[f][p], fresh[f][p], stale[f][p]}
Referred(h) == \E f \in Files, p \in Positions : h \in At3(f, p)

Known(h) == h \notin deleted /\ content[h] \in Contents /\ index[content[h]] = h

(* A hash that only t has: it is being made. *)
Fresh(t) ==
  /\ held[t] \notin deleted
  /\ content[held[t]] \in Contents
  /\ index[content[held[t]]] = None
  /\ ~Referred(held[t])
  /\ \A u \in Threads : held[u] = held[t] => u = t

(* What a thread may rely on, at each label, about the hash it holds. *)
HoldInv(t) ==
  /\ pc[t] = "fetch" => \A p \in Positions : Lowest(p, todo[t]) =>
                          Data(t)[p] \in Contents /\ index[Data(t)[p]] = None
  /\ pc[t] \in {"put", "insert"} => Fresh(t)
  /\ pc[t] \in {"inc", "zero", "mark"} /\ held[t] \in Hashes => Known(held[t])
  /\ pc[t] = "flags" /\ held[t] \in Hashes \ deleted => Known(held[t])
  /\ pc[t] = "alive" => \E p \in Positions : fresh[file[t]][p] = held[t]
  /\ pc[t] \in {"mark", "own", "erase", "clear"} => ~Referred(held[t])
  /\ pc[t] \in {"own", "erase", "clear"} =>
       held[t] \in deleted /\ content[held[t]] \in Contents
  /\ pc[t] \in {"own", "erase"} => index[content[held[t]]] = held[t]
  /\ pc[t] = "clear" => index[content[held[t]]] # held[t]

(* The slots threads fill and empty are theirs. *)
Owning == {"put", "insert", "clear", "post"}
SlotOf(t) == slot[held[t]]

OwnSlotInv(t) ==
  /\ pc[t] \in Owning => SlotOf(t) \in Slots \ free
  /\ pc[t] \in {"put", "post"} =>
       slotHash[SlotOf(t)] = None /\ slotChunk[SlotOf(t)] = Zero
  /\ pc[t] \in {"insert", "clear"} =>
       slotHash[SlotOf(t)] = held[t] /\ slotChunk[SlotOf(t)] = content[held[t]]
  /\ \A u \in Threads :
       pc[t] \in Owning /\ pc[u] \in Owning /\ SlotOf(t) = SlotOf(u) => t = u

RefsInv == \A h \in Hashes : Referred(h) => Known(h)

(* What the index says of a hash, and why the hash is still there. *)
Keeping == {"inc", "flags", "zero", "mark", "own", "erase"}

Indexed(c, h) ==
  /\ content[h] = c
  /\ slot[h] \notin free
  /\ slotHash[slot[h]] = h
  /\ slotChunk[slot[h]] = c

Erasing(h) == \E t \in Threads : pc[t] \in {"own", "erase"} /\ held[t] = h
Kept(h) == Referred(h) \/ \E t \in Threads : held[t] = h /\ pc[t] \in Keeping

IndexInv ==
  \A c \in Contents : index[c] # None =>
     /\ Indexed(c, index[c])
     /\ index[c] \in deleted => Erasing(index[c])
     /\ Kept(index[c])

(* Every slot is in the pool, in the index, or on its way between them. *)
SlotKept(s) ==
  \/ s \in free
  \/ \E c \in Contents : index[c] # None /\ slot[index[c]] = s
  \/ \E t \in Threads : pc[t] \in Owning /\ SlotOf(t) = s
SlotsKept == \A s \in Slots : SlotKept(s)

Served(f) == request[f] # None => \E t \in Threads : pc[t] # "idle" /\ file[t] = f

StoreInv ==
  /\ \A t \in Threads : HoldInv(t) /\ OwnSlotInv(t)
  /\ RefsInv
  /\ IndexInv
  /\ FreeSlotsEmpty
  /\ SlotsKept
  /\ \A f \in Files : Served(f)
  /\ DeletesOnce

KeepInv == CountInv /\ StoreInv

-----------------------------------------------------------------------------
(* A step of t leaves alone what the other threads work on.                *)
LEMMA Frame ==
  ASSUME ControlInv, NEW t \in Threads, Step(t), NEW u \in Threads, u # t
  PROVE  /\ pc'[u] = pc[u] /\ file'[u] = file[u]
         /\ todo'[u] = todo[u] /\ held'[u] = held[u]
         /\ pc[u] # "idle" => /\ file[u] \in Files
                              /\ Data(u)' = Data(u)
                              /\ fresh'[file[u]] = fresh[file[u]]
<1>1. Registers(u)' = Registers(u)
  BY StepFrame
<1>2. CASE pc[u] = "idle"
  BY <1>1, <1>2 DEF Registers
<1>3. CASE pc[u] # "idle"
  <2>1. ThreadInv(u) /\ file[u] \in Files /\ request[file[u]] \in Requests
    BY <1>3 DEF ControlInv, ThreadInv
  <2>2. pc[t] = "idle" \/ file[u] # file[t]
    BY <1>3 DEF ControlInv, FileInv
  <2>3. Rows(file[u])' = Rows(file[u]) /\ request'[file[u]] = request[file[u]]
    BY <2>1, <2>2, <1>1, StepFrame, RequestsAssumption DEF Registers, Rows
  <2> QED
    BY <1>1, <2>1, <2>3 DEF Registers, Rows, Data
<1> QED
  BY <1>2, <1>3

(* Only incRefCnt and decRefCnt change which hashes are referred to: the   *)
(* other steps move references from place to place.                        *)
LEMMA Moved ==
  ASSUME ControlInv, NEW t \in Threads, Step(t), ~Inc(t), ~Dec(t)
  PROVE  \A h \in Hashes : Referred(h)' <=> Referred(h)
<1> USE DEF ControlInv, TypeOK
<1>z. Zero \notin Hashes /\ None \notin Hashes
  BY ConstantsAssumption
<1>1. ASSUME NEW f \in Files, NEW p \in Positions, NEW h \in Hashes
      PROVE  h \in At3(f, p)' <=> h \in At3(f, p)
  <2>1. CASE Rows(f)' = Rows(f)
    BY <2>1 DEF Rows, At3
  <2>2. CASE pc[t] # "idle" /\ f # file[t]
    BY <2>1, <2>2, StepFrame
  <2>3. CASE Grow(t) /\ f = file[t]
    <3>1. list'[f][p] = list[f][p] \/ (list'[f][p] = Zero /\ list[f][p] = None)
      BY <2>3 DEF Grow, FilesTyped
    <3> QED
      BY <2>3, <3>1, <1>z DEF Grow, At3
  <2>4. CASE Update(t) /\ f = file[t]
    <3>1. \/ list'[f][p] = list[f][p] /\ fresh'[f][p] = fresh[f][p] /\ stale'[f][p] = stale[f][p]
          \/ /\ list'[f][p] = fresh[f][p] /\ fresh'[f][p] = None
             /\ stale'[f][p] = list[f][p] /\ stale[f][p] = None
      BY <2>4 DEF Update, FilesTyped, ThreadInv, Lowest
    <3> QED
      BY <3>1, <1>z DEF At3
  <2>5. CASE Cut(t) /\ f = file[t]
    <3>1. /\ stale[f][p] = None /\ fresh' = fresh
          /\ \/ list'[f][p] = list[f][p] /\ stale'[f][p] = None
             \/ list'[f][p] = None /\ stale'[f][p] = list[f][p]
             \/ list'[f][p] = Zero /\ list[f][p] = None /\ stale'[f][p] = None
      BY <2>5 DEF Cut, FilesTyped, ThreadInv, Nothing
    <3> QED
      BY <3>1, <1>z DEF At3
  <2>6. CASE Swap(t) /\ f = file[t]
    <3>1. /\ list'[f][p] = fresh[f][p] /\ fresh'[f][p] = None
          /\ stale'[f][p] = list[f][p] /\ stale[f][p] = None
      BY <2>6 DEF Swap, FilesTyped, NoChunks, ThreadInv, Nothing
    <3> QED
      BY <3>1, <1>z DEF At3
  <2>7. CASE fileVars' = fileVars
    BY <2>1, <2>7 DEF fileVars, Rows
  <2>8. fileVars' = fileVars \/ Grow(t) \/ Update(t) \/ Cut(t) \/ Swap(t)
    BY DEF Step, Begin, Write, SkipSame, ScanDone, UpdateDone,
       Whole, Count, New, Lookup, Fetch, Put, Insert, Alive, Drop, Flags, CheckZero,
       DecDone, Delete, Mark, CheckOwn, Erase, Clear, Post, Return
  <2>9. fileVars' = fileVars \/ pc[t] # "idle"
    BY BusyStep DEF Begin
  <2> QED
    BY <2>2, <2>3, <2>4, <2>5, <2>6, <2>7, <2>8, <2>9
<1> QED
  BY <1>1 DEF Referred

(* Where the register held of a thread comes from.                         *)
LEMMA Taken ==
  ASSUME KeepInv, NEW t \in Threads, Step(t), held'[t] \in Hashes
  PROVE  \/ held'[t] = held[t]
         \/ Lookup(t) /\ pc'[t] = "inc"
            /\ \E c \in Contents : held'[t] = index[c] /\ content[held'[t]] = c
         \/ Fetch(t) /\ pc'[t] = "put" /\ ~InUse(held'[t])
         \/ Dec(t) /\ pc'[t] = "flags" /\ Referred(held'[t])
<1> USE DEF KeepInv, CountInv, ControlInv, TypeOK
<1>z. Zero \notin Hashes /\ None \notin Hashes
  BY ConstantsAssumption
<1>1. CASE Lookup(t)
  <2>1. PICK p \in todo[t] :
          /\ held' = [held EXCEPT ![t] = IF Data(t)[p] = Zero THEN Zero
                                         ELSE index[Data(t)[p]]]
          /\ Goto(t, IF held'[t] = None THEN "fetch" ELSE "inc")
    BY <1>1, <1>z DEF Lookup, Lowest, ThreadsTyped
  <2>2. p \in Mentioned(request[file[t]]) /\ request[file[t]] \in Requests
    BY <1>1, <2>1 DEF Lookup, ThreadInv, Scanning
  <2>3. Data(t)[p] \in Contents
    BY <2>1, <2>2, <1>z DEF Data, Mentioned, Requests, Chunks, ThreadsTyped
  <2>4. held'[t] = index[Data(t)[p]] /\ pc'[t] = "inc"
    BY <2>1, <2>3, <1>z DEF ThreadsTyped, Goto
  <2>5. content[held'[t]] = Data(t)[p]
    BY <2>3, <2>4, <1>z DEF StoreInv, IndexInv, Indexed
  <2> QED
    BY <1>1, <2>3, <2>4, <2>5
<1>2. CASE Fetch(t)
  BY <1>2 DEF Fetch, ThreadsTyped, Goto
<1>3. CASE Dec(t)
  <2>1. file[t] \in Files
    BY <1>3 DEF Dec, ThreadInv
  <2> QED
    BY <1>3, <2>1 DEF Dec, ThreadsTyped, Goto, Referred, At3
<1>4. CASE Alive(t) \/ DecDone(t)
  BY <1>4, <1>z DEF Alive, DecDone, ThreadsTyped
<1>5. held' = held \/ Lookup(t) \/ Fetch(t) \/ Dec(t) \/ Alive(t) \/ DecDone(t)
  BY DEF Step, Begin, Write, Grow, SkipSame, ScanDone, Update, UpdateDone,
         Whole, Cut, Count, Swap, New, Put, Insert, Inc, Drop, Flags, CheckZero,
         Delete, Mark, CheckOwn, Erase, Clear, Post, Return
<1> QED
  BY <1>1, <1>2, <1>3, <1>4, <1>5

(* The store is left alone by the steps that only look at it.              *)
SameStore ==
  /\ content' = content /\ slot' = slot /\ deleted' = deleted /\ index' = index
  /\ slotHash' = slotHash /\ slotChunk' = slotChunk /\ free' = free

Changes(t) ==
  Fetch(t) \/ Put(t) \/ Insert(t) \/ Mark(t) \/ Erase(t) \/ Clear(t) \/ Post(t)

LEMMA Quiet ==
  ASSUME NEW t \in Threads, Step(t), ~Changes(t)
  PROVE  SameStore
  BY DEF Step, Begin, Write, Grow, SkipSame, ScanDone, Update, UpdateDone,
         Whole, Cut, Count, Swap, New, Lookup, Inc, Alive, Drop, Dec, Flags, CheckZero,
         DecDone, Delete, CheckOwn, Return, Changes, SameStore, hashVars, poolVars

(* Nobody takes a hash another thread is making.                           *)
LEMMA NotTaken ==
  ASSUME KeepInv, NEW t \in Threads, Step(t), NEW u \in Threads, u # t,
         pc[u] \in {"put", "insert"}
  PROVE  held[u] \in Hashes /\ held'[t] # held[u] /\ held[t] # held[u]
<1> USE DEF KeepInv, CountInv, ControlInv, StoreInv
<1>1. held[u] \in Hashes /\ Fresh(u)
  BY DEF ThreadInv, HoldInv
<1>2. held[t] # held[u]
  BY <1>1 DEF Fresh
<1>3. ASSUME held'[t] = held[u]
      PROVE  FALSE
  <2>1. CASE Lookup(t) /\ \E c \in Contents : held'[t] = index[c] /\ content[held'[t]] = c
    BY <1>1, <1>3, <2>1, ConstantsAssumption DEF Fresh
  <2>2. CASE ~InUse(held'[t])
    BY <1>3, <2>2 DEF InUse
  <2>3. CASE Referred(held'[t])
    BY <1>1, <1>3, <2>3 DEF Fresh
  <2> QED
    BY <1>1, <1>2, <1>3, <2>1, <2>2, <2>3, Taken
<1> QED
  BY <1>1, <1>2, <1>3

(* incRefCnt adds one reference, decRefCnt takes one away.                 *)
LEMMA Counted ==
  ASSUME ControlInv, NEW t \in Threads
  PROVE  /\ Inc(t) => \A h \in Hashes : Referred(h)' <=> Referred(h) \/ h = held[t]
         /\ Dec(t) => \A h \in Hashes :
              /\ Referred(h)' => Referred(h)
              /\ Referred(h) => Referred(h)' \/ h = held'[t]
<1> USE DEF ControlInv, TypeOK
<1>z. Zero \notin Hashes /\ None \notin Hashes
  BY ConstantsAssumption
<1>1. ASSUME Inc(t)
      PROVE  \A h \in Hashes : Referred(h)' <=> Referred(h) \/ h = held[t]
  <2>0. file[t] \in Files
    BY <1>1 DEF Inc, ThreadInv
  <2>1. PICK p \in Positions : p \in todo[t] /\ fresh' = [fresh EXCEPT ![file[t]][p] = held[t]]
    BY <1>1 DEF Inc, Lowest
  <2>2. fresh[file[t]][p] = None
    BY <1>1, <2>1 DEF Inc, ThreadInv, Scanning
  <2>3. list' = list /\ stale' = stale
    BY <1>1 DEF Inc
  <2>4. ASSUME NEW h \in Hashes, NEW f \in Files, NEW q \in Positions
        PROVE  h \in At3(f, q)' <=> h \in At3(f, q) \/ (f = file[t] /\ q = p /\ h = held[t])
    BY <2>0, <2>1, <2>2, <2>3, <1>z DEF At3, FilesTyped
  <2> QED
    BY <2>0, <2>4 DEF Referred
<1>2. ASSUME Dec(t), NEW h \in Hashes
      PROVE  /\ Referred(h)' => Referred(h)
             /\ Referred(h) => Referred(h)' \/ h = held'[t]
  <2>0. file[t] \in Files
    BY <1>2 DEF Dec, ThreadInv
  <2>1. PICK p \in Positions : /\ stale' = [stale EXCEPT ![file[t]][p] = None]
                               /\ held' = [held EXCEPT ![t] = stale[file[t]][p]]
    BY <1>2 DEF Dec
  <2>2. held'[t] = stale[file[t]][p]
    BY <2>1 DEF ThreadsTyped
  <2>3. list' = list /\ fresh' = fresh
    BY <1>2 DEF Dec
  <2>4. ASSUME NEW f \in Files, NEW q \in Positions
        PROVE  /\ h \in At3(f, q)' => h \in At3(f, q)
               /\ h \in At3(f, q) => h \in At3(f, q)' \/ h = held'[t]
    BY <2>0, <2>1, <2>2, <2>3, <1>z DEF At3, FilesTyped
  <2> QED
    BY <2>4 DEF Referred
<1> QED
  BY <1>1, <1>2

(* What the other threads rely on is kept.                                 *)
LEMMA OthersHold ==
  ASSUME KeepInv, Apart, Apart', NEW t \in Threads, Step(t), NEW u \in Threads, u # t
  PROVE  HoldInv(u)'
<1> USE DEF KeepInv, CountInv, ControlInv, TypeOK, StoreInv
<1>z. Zero \notin Hashes /\ None \notin Hashes /\ None \notin Contents
  BY ConstantsAssumption
<1>f. /\ pc'[u] = pc[u] /\ file'[u] = file[u]
      /\ todo'[u] = todo[u] /\ held'[u] = held[u]
      /\ pc[u] # "idle" => /\ file[u] \in Files
                           /\ Data(u)' = Data(u)
                           /\ fresh'[file[u]] = fresh[file[u]]
  BY Frame
<1>i. HoldInv(u) /\ HoldInv(t)
  OBVIOUS
<1>h. pc[u] \in {"put", "insert", "zero", "mark", "own", "erase", "clear"} => held[u] \in Hashes
  BY DEF ThreadInv
<1>o. \A v \in Threads : v # t => held'[v] = held[v]
  BY Frame
<1>n. pc[u] \in {"put", "insert"} => held'[t] # held[u] /\ held[t] # held[u]
  BY NotTaken
<1>a. /\ Section(t) \cap Section(u) = {}
      /\ Section(t)' \cap Section(u)' = {}
  BY DEF Apart
<1>1. CASE SameStore /\ ~Inc(t) /\ ~Dec(t)
  <2>1. \A h \in Hashes : Referred(h)' <=> Referred(h)
    BY <1>1, Moved
  <2> QED
    BY <1>1, <1>f, <1>i, <1>h, <1>o, <1>n, <2>1 DEF HoldInv, Fresh, Known, SameStore, Lowest
<1>2. CASE Dec(t)
  <2>1. \A h \in Hashes : Referred(h)' => Referred(h)
    BY <1>2, Counted
  <2>2. SameStore
    BY <1>2 DEF Dec, SameStore, poolVars
  <2> QED
    BY <2>2, <1>f, <1>i, <1>h, <1>o, <1>n, <2>1 DEF HoldInv, Fresh, Known, SameStore, Lowest
<1>3. CASE Inc(t)
  <2>1. \A h \in Hashes : Referred(h)' <=> Referred(h) \/ h = held[t]
    BY <1>3, Counted
  <2>2. SameStore
    BY <1>3 DEF Inc, SameStore, poolVars
  <2>3. pc[u] \in {"mark", "own", "erase", "clear"} => held[u] # held[t]
    BY <1>3, <1>i, <1>h, <1>a DEF Inc, HoldInv, Known, Section
  <2> QED
    BY <2>2, <1>f, <1>i, <1>h, <1>o, <1>n, <2>1, <2>3 DEF HoldInv, Fresh, Known, SameStore, Lowest
<1>4. CASE Fetch(t)
  <2>1. PICK n \in Hashes :
          /\ ~InUse(n)
          /\ \E z : content' = [content EXCEPT ![n] = z]
          /\ deleted' = deleted \ {n}
    BY <1>4 DEF Fetch
  <2>2. held[u] # n
    BY <2>1 DEF InUse
  <2>3. \A h \in Hashes : Referred(h)' <=> Referred(h)
    BY <1>4, Moved DEF Fetch, Inc, Dec
  <2>4. held[u] \in Hashes => content'[held[u]] = content[held[u]]
    BY <2>1, <2>2 DEF HashesTyped
  <2>5. index' = index
    BY <1>4 DEF Fetch
  <2> QED
    BY <1>f, <1>i, <1>h, <1>o, <1>n, <2>1, <2>2, <2>3, <2>4, <2>5
       DEF HoldInv, Fresh, Known, Lowest
<1>5. CASE Put(t) \/ Clear(t) \/ Post(t)
  <2>1. \A h \in Hashes : Referred(h)' <=> Referred(h)
    BY <1>5, Moved DEF Put, Clear, Post, Inc, Dec
  <2>2. content' = content /\ deleted' = deleted /\ index' = index
    BY <1>5 DEF Put, Clear, Post, hashVars
  <2> QED
    BY <1>f, <1>i, <1>h, <1>o, <1>n, <2>1, <2>2 DEF HoldInv, Fresh, Known, Lowest
<1>6. CASE Insert(t)
  <2>1. \A h \in Hashes : Referred(h)' <=> Referred(h)
    BY <1>6, Moved DEF Insert, Inc, Dec
  <2>2. content' = content /\ deleted' = deleted /\ held' = held
        /\ index' = [index EXCEPT ![content[held[t]]] = held[t]] /\ pc'[t] = "inc"
    BY <1>6 DEF Insert, hashVars, Goto, ThreadsTyped
  <2>3. Fresh(t) /\ held[t] \in Hashes /\ held[t] # held[u]
    BY <1>6, <1>i DEF Insert, HoldInv, ThreadInv, Fresh
  <2>4. content[held[t]] \notin Section(u)'
    BY <1>a, <2>2, <2>3 DEF Section
  <2>5. \A c \in Contents : index'[c] = IF c = content[held[t]] THEN held[t] ELSE index[c]
    BY <2>2 DEF PoolTyped
  <2>6. CASE pc[u] = "fetch"
    <3>1. ASSUME NEW p \in Positions, Lowest(p, todo[u])'
          PROVE  Data(u)'[p] \in Contents /\ index'[Data(u)'[p]] = None
      <4>1. Data(u)[p] \in Contents /\ index[Data(u)[p]] = None /\ Lowest(p, todo[u])
        BY <1>f, <1>i, <2>6, <3>1 DEF HoldInv, Lowest
      <4>2. Data(u)'[p] = Data(u)[p]
        BY <1>f, <2>6
      <4>3. Data(u)[p] \in Section(u)'
        BY <1>f, <2>6, <3>1, <4>1, <4>2 DEF Section, Wanted
      <4> QED
        BY <2>4, <2>5, <4>1, <4>2, <4>3
    <3> QED
      BY <1>f, <2>6, <3>1 DEF HoldInv, Lowest
  <2>7. CASE pc[u] \in {"put", "insert"}
    <3>1. Fresh(u) /\ held[u] \in Hashes
      BY <1>i, <1>h, <2>7 DEF HoldInv
    <3>2. content[held[u]] # content[held[t]]
      BY <1>f, <2>2, <2>4, <2>7, <3>1 DEF Section
    <3> QED
      BY <1>f, <1>o, <2>1, <2>2, <2>5, <2>7, <3>1, <3>2 DEF HoldInv, Fresh
  <2>8. CASE pc[u] \notin {"fetch", "put", "insert"}
    <3>1. \A h \in Hashes : Known(h) => Known(h)'
      BY <1>z, <2>2, <2>3, <2>5 DEF Known, HashesTyped, Fresh
    <3>2. pc[u] \in {"own", "erase"} => index'[content[held[u]]] = held[u]
      BY <1>z, <1>i, <1>h, <2>2, <2>3, <2>5, <2>8 DEF HoldInv, HashesTyped, Fresh
    <3>3. pc[u] = "clear" => index'[content[held[u]]] # held[u]
      BY <1>i, <1>h, <2>2, <2>3, <2>8 DEF HoldInv, HashesTyped, PoolTyped, Fresh
    <3> QED
      BY <1>f, <1>i, <1>h, <2>1, <2>2, <2>8, <3>1, <3>2, <3>3 DEF HoldInv
  <2> QED
    BY <2>6, <2>7, <2>8
<1>7. CASE Mark(t)
  <2>1. \A h \in Hashes : Referred(h)' <=> Referred(h)
    BY <1>7, Moved DEF Mark, Inc, Dec
  <2>2. content' = content /\ deleted' = deleted \cup {held[t]} /\ index' = index
    BY <1>7 DEF Mark, poolVars
  <2>3. pc[u] \in {"inc", "zero", "mark"} /\ held[u] \in Hashes => held[u] # held[t]
    BY <1>7, <1>a DEF Mark, Section
  <2> QED
    BY <1>f, <1>i, <1>h, <1>o, <1>n, <2>1, <2>2, <2>3 DEF HoldInv, Fresh, Known, Lowest
<1>8. CASE Erase(t)
  <2>1. \A h \in Hashes : Referred(h)' <=> Referred(h)
    BY <1>8, Moved DEF Erase, Inc, Dec
  <2>2. /\ content' = content /\ deleted' = deleted
        /\ index' = [index EXCEPT ![content[held[t]]] = None]
    BY <1>8 DEF Erase, hashVars
  <2>3. /\ held[t] \in Hashes /\ held[t] \in deleted
        /\ index[content[held[t]]] = held[t]
    BY <1>8, <1>i DEF Erase, HoldInv, ThreadInv
  <2>4. \A c \in Contents : index'[c] = IF c = content[held[t]] THEN None ELSE index[c]
    BY <2>2 DEF PoolTyped
  <2>6. pc[u] \in {"inc", "zero", "mark", "own", "erase"} /\ held[u] \in Hashes
          => content[held[u]] # content[held[t]]
    BY <1>8, <1>a, <2>3 DEF Erase, Section
  <2>7. pc[u] = "flags" /\ held[u] \in Hashes \ deleted => content[held[u]] # content[held[t]]
    BY <1>i, <2>3 DEF HoldInv, Known
  <2> QED
    BY <1>z, <1>f, <1>i, <1>h, <1>o, <1>n, <2>1, <2>2, <2>4, <2>6, <2>7
       DEF HoldInv, Fresh, Known, Lowest
<1>9. SameStore \/ Changes(t)
  BY Quiet
<1> QED
  BY <1>1, <1>2, <1>3, <1>4, <1>5, <1>6, <1>7, <1>8, <1>9 DEF Changes

(* A hash with a count of 0 is referred to nowhere.                        *)
LEMMA Unreferred ==
  ASSUME CountInv, NEW h \in Hashes, refcnt[h] = 0
  PROVE  ~Referred(h)
<1>1. RefsTo(h) = {}
  BY RefsFinite, FS_EmptySet DEF CountInv, RefExact
<1>2. ASSUME NEW f \in Files, NEW p \in Positions
      PROVE  h \notin At3(f, p)
  BY <1>1, PlaceCases DEF At3
<1> QED
  BY <1>2 DEF Referred

LEMMA Uncounted ==
  ASSUME CountInv, NEW h \in Hashes, refcnt[h] # 0
  PROVE  Referred(h)
<1>1. RefsTo(h) # {}
  BY FS_EmptySet DEF CountInv, RefExact
<1>2. PICK k \in Kinds, f \in Files, p \in Positions : <<k, f, p>> \in RefsTo(h)
  BY <1>1 DEF RefsTo, Places, Kinds
<1>3. h \in At3(f, p)
  BY <1>2, PlaceCases DEF Kinds, At3
<1> QED
  BY <1>3 DEF Referred

LEMMA BeginLabel ==
  ASSUME ControlInv, NEW t \in Threads, Begin(t)
  PROVE  pc'[t] \in {"grow", "scan", "cut"}
<1>0. PICK f \in FilesOf[t] : \E r \in RequestsOn(t, f) :
        Goto(t, CASE r.op = "write" -> "grow"
                  [] r.op = "swap" -> "scan"
                  [] r.op = "truncate" -> "cut")
  BY DEF Begin
<1>1. PICK r \in RequestsOn(t, f) :
        Goto(t, CASE r.op = "write" -> "grow"
                  [] r.op = "swap" -> "scan"
                  [] r.op = "truncate" -> "cut")
  BY <1>0
<1>2. r.op \in {"write", "swap", "truncate"}
  BY RequestsTyped, ConstantsAssumption DEF Requests
<1> QED
  BY <1>1, <1>2 DEF Goto, ControlInv, TypeOK, ThreadsTyped

LEMMA OwnHold ==
  ASSUME KeepInv, Apart', NEW t \in Threads, Step(t)
  PROVE  HoldInv(t)'
<1> USE DEF KeepInv, CountInv, ControlInv, TypeOK, StoreInv, ThreadsTyped, Goto
<1>z. Zero \notin Hashes /\ None \notin Hashes /\ None \notin Contents /\ Zero \notin Contents
  BY ConstantsAssumption
<1>i. HoldInv(t) /\ ThreadInv(t)
  OBVIOUS
<1>1. CASE pc'[t] \in {"idle", "grow", "cut", "count", "scan", "update", "swap", "dec",
                       "rest", "done", "post"}
  BY <1>1 DEF HoldInv
<1>2. CASE Lookup(t)
  <2>1. PICK p \in todo[t] :
          /\ Lowest(p, todo[t])
          /\ held' = [held EXCEPT ![t] = IF Data(t)[p] = Zero THEN Zero
                                         ELSE index[Data(t)[p]]]
          /\ pc' = [pc EXCEPT ![t] = IF held'[t] = None THEN "fetch" ELSE "inc"]
    BY <1>2, <1>z DEF Lookup, Lowest
  <2>2. p \in Mentioned(request[file[t]]) /\ request[file[t]] \in Requests
    BY <1>2, <2>1, <1>i DEF Lookup, ThreadInv, Scanning
  <2>3. Data(t)[p] \in Chunks
    BY <2>2 DEF Data, Mentioned, Requests
  <2>4. todo' = todo /\ Data(t)' = Data(t)
    BY <1>2 DEF Lookup, Data
  <2>5. \A q \in Positions : Lowest(q, todo[t])' => q = p
    BY <2>1, <2>4 DEF Lowest, Positions
  <2>6. CASE held'[t] \in Hashes
    <3>1. PICK c \in Contents : held'[t] = index[c] /\ content[held'[t]] = c
      BY <2>1, <2>3, <2>6, <1>z DEF Chunks, IndexInv, Indexed
    <3>2. pc'[t] = "inc"
      BY <2>1, <2>6, <1>z
    <3>3. SameStore
      BY <1>2 DEF Lookup, SameStore, hashVars, poolVars
    <3>4. held'[t] \notin deleted
      <4>1. SUFFICES ASSUME held'[t] \in deleted
                     PROVE  FALSE
        OBVIOUS
      <4>2. PICK u \in Threads : pc[u] \in {"own", "erase"} /\ held[u] = held'[t]
        BY <1>z, <2>6, <3>1, <4>1 DEF IndexInv, Erasing
      <4>3. u # t
        BY <1>2, <4>2 DEF Lookup
      <4>4. pc'[u] = pc[u] /\ held'[u] = held[u]
        BY <4>3, Frame
      <4>5. content[held'[t]] \in Section(t)' \cap Section(u)'
        BY <2>6, <3>2, <3>3, <4>2, <4>4 DEF Section, SameStore
      <4> QED
        BY <4>3, <4>5 DEF Apart
    <3> QED
      BY <3>1, <3>2, <3>3, <3>4 DEF HoldInv, Known, SameStore
  <2>7. CASE held'[t] = None
    <3>1. Data(t)[p] \in Contents /\ index[Data(t)[p]] = None
      BY <2>1, <2>3, <2>7, ConstantsAssumption DEF Chunks
    <3>2. pc'[t] = "fetch" /\ index' = index
      BY <1>2, <2>1, <2>7 DEF Lookup, poolVars
    <3> QED
      BY <2>4, <2>5, <3>1, <3>2 DEF HoldInv
  <2>8. CASE held'[t] = Zero
    <3>1. pc'[t] = "inc"
      BY <2>1, <2>8, ConstantsAssumption
    <3> QED
      BY <1>z, <2>8, <3>1 DEF HoldInv
  <2>9. held'[t] \in Hashes \cup {None, Zero}
    BY <2>1, <2>3 DEF Chunks, PoolTyped
  <2> QED
    BY <2>6, <2>7, <2>8, <2>9
<1>3. CASE Fetch(t)
  <2>1. PICK p \in Positions, n \in Hashes :
          /\ Lowest(p, todo[t])
          /\ ~InUse(n)
          /\ content' = [content EXCEPT ![n] = Data(t)[p]]
          /\ deleted' = deleted \ {n}
          /\ held' = [held EXCEPT ![t] = n]
    BY <1>3 DEF Fetch
  <2>2. pc'[t] = "put" /\ held'[t] = n /\ index' = index
    BY <1>3, <2>1 DEF Fetch
  <2>3. content'[n] \in Contents /\ index[content'[n]] = None
    BY <1>3, <1>i, <2>1 DEF Fetch, HoldInv, HashesTyped
  <2>4. ~Referred(n)'
    <3>1. ~Referred(n)
      BY <2>1 DEF InUse, Referred, At3
    <3> QED
      BY <1>3, <3>1, Moved DEF Fetch, Inc, Dec
  <2>5. \A u \in Threads : held'[u] = n => u = t
    BY <2>1 DEF InUse
  <2> QED
    BY <2>1, <2>2, <2>3, <2>4, <2>5 DEF HoldInv, Fresh
<1>4. CASE Put(t)
  <2>1. \A h \in Hashes : Referred(h)' <=> Referred(h)
    BY <1>4, Moved DEF Put, Inc, Dec
  <2>2. Fresh(t) /\ held[t] \in Hashes
    BY <1>4, <1>i DEF Put, HoldInv, ThreadInv
  <2>3. pc'[t] = "insert" /\ held' = held /\ content' = content /\ deleted' = deleted
        /\ index' = index
    BY <1>4 DEF Put, hashVars
  <2> QED
    BY <2>1, <2>2, <2>3 DEF HoldInv, Fresh
<1>5. CASE Insert(t)
  <2>1. Fresh(t) /\ held[t] \in Hashes
    BY <1>5, <1>i DEF Insert, HoldInv, ThreadInv
  <2>2. pc'[t] = "inc" /\ held' = held /\ content' = content /\ deleted' = deleted
        /\ index' = [index EXCEPT ![content[held[t]]] = held[t]]
    BY <1>5 DEF Insert, hashVars
  <2>3. Known(held[t])'
    BY <2>1, <2>2 DEF Fresh, Known, PoolTyped
  <2> QED
    BY <2>2, <2>3 DEF HoldInv
<1>6. CASE Inc(t)
  <2>1. \E p \in Positions : fresh'[file[t]][p] = held[t]
    BY <1>6, <1>i DEF Inc, FilesTyped, ThreadInv
  <2> QED
    BY <1>6, <2>1 DEF Inc, HoldInv
<1>7. CASE Dec(t)
  <2>1. pc'[t] = "flags"
    BY <1>7 DEF Dec
  <2>2. SameStore
    BY <1>7 DEF Dec, SameStore, poolVars
  <2>3. held'[t] \in Hashes => Referred(held'[t])
    BY <1>7, <1>i DEF Dec, Referred, At3, ThreadInv
  <2> QED
    BY <2>1, <2>2, <2>3 DEF HoldInv, RefsInv, Known, SameStore
<1>8. CASE Flags(t)
  <2>1. SameStore /\ held' = held
    BY <1>8 DEF Flags, SameStore, hashVars, poolVars
  <2>2. pc'[t] = "zero" => held[t] \in Hashes \ deleted
    BY <1>8, <1>i DEF Flags, ThreadInv, Refs
  <2>3. pc'[t] \in {"zero", "dec"}
    BY <1>8 DEF Flags
  <2> QED
    BY <1>8, <1>i, <2>1, <2>2, <2>3 DEF Flags, HoldInv, Known, SameStore
<1>9. CASE CheckZero(t)
  <2>1. SameStore /\ held' = held /\ fileVars' = fileVars
    BY <1>9 DEF CheckZero, SameStore, hashVars, poolVars
  <2>2. held[t] \in Hashes /\ Known(held[t])
    BY <1>9, <1>i DEF CheckZero, HoldInv, ThreadInv
  <2>3. pc'[t] \in {"mark", "dec"}
    BY <1>9 DEF CheckZero
  <2>4. pc'[t] = "mark" => ~Referred(held[t])
    BY <1>9, <2>2, Unreferred DEF CheckZero
  <2>5. Referred(held[t])' <=> Referred(held[t])
    BY <2>1 DEF Referred, At3, fileVars
  <2> QED
    BY <2>1, <2>2, <2>3, <2>4, <2>5 DEF HoldInv, Known, SameStore
<1>10. CASE Mark(t)
  <2>1. /\ content' = content /\ index' = index /\ deleted' = deleted \cup {held[t]}
        /\ held' = held /\ pc'[t] = "own"
    BY <1>10 DEF Mark, poolVars
  <2>2. held[t] \in Hashes /\ Known(held[t]) /\ ~Referred(held[t])
    BY <1>10, <1>i DEF Mark, HoldInv, ThreadInv
  <2>3. Referred(held[t])' <=> Referred(held[t])
    BY <1>10, <2>2, Moved DEF Mark, Inc, Dec
  <2> QED
    BY <2>1, <2>2, <2>3 DEF HoldInv, Known
<1>11. CASE CheckOwn(t)
  <2>1. SameStore /\ held' = held /\ fileVars' = fileVars /\ pc'[t] = "erase"
    BY <1>11 DEF CheckOwn, SameStore, hashVars, poolVars
  <2>2. Referred(held[t])' <=> Referred(held[t])
    BY <2>1 DEF Referred, At3, fileVars
  <2> QED
    BY <1>11, <1>i, <2>1, <2>2 DEF CheckOwn, HoldInv, SameStore
<1>12. CASE Erase(t)
  <2>1. /\ held[t] \in Hashes /\ held[t] \in deleted /\ content[held[t]] \in Contents
        /\ index[content[held[t]]] = held[t] /\ ~Referred(held[t])
    BY <1>12, <1>i DEF Erase, HoldInv, ThreadInv
  <2>2. /\ content' = content /\ deleted' = deleted /\ held' = held
        /\ index' = [index EXCEPT ![content[held[t]]] = None] /\ pc'[t] = "clear"
    BY <1>12, <1>z, <2>1 DEF Erase, hashVars
  <2>3. Referred(held[t])' <=> Referred(held[t])
    BY <1>12, <2>1, Moved DEF Erase, Inc, Dec
  <2>4. index'[content[held[t]]] # held[t]
    BY <1>z, <2>1, <2>2 DEF PoolTyped
  <2> QED
    BY <2>1, <2>2, <2>3, <2>4 DEF HoldInv
<1>13. CASE Begin(t)
  <2>1. pc'[t] \in {"grow", "scan", "cut"}
    BY <1>13, BeginLabel
  <2> QED
    BY <1>1, <2>1
<1>14. CASE Write(t) \/ Whole(t) \/ Alive(t) \/ DecDone(t) \/ Clear(t) \/ Post(t) \/ Return(t)
  <2>1. pc'[t] \in {"idle", "grow", "cut", "count", "scan", "update", "swap", "dec",
                    "rest", "done", "post"}
    BY <1>14 DEF Write, Grow, SkipSame, ScanDone, Update, UpdateDone, Whole, Cut, Count,
                 Swap, Alive, DecDone, Clear, Post, Return
  <2> QED
    BY <1>1, <2>1
<1> QED
  BY <1>2, <1>3, <1>4, <1>5, <1>6, <1>7, <1>8, <1>9, <1>10, <1>11, <1>12, <1>13, <1>14
     DEF Step, New, Drop, Delete

LEMMA RefsStep ==
  ASSUME KeepInv, NEW t \in Threads, Step(t)
  PROVE  RefsInv'
<1> USE DEF KeepInv, CountInv, ControlInv, TypeOK, StoreInv
<1>z. None \notin Hashes
  BY ConstantsAssumption
<1>i. HoldInv(t) /\ ThreadInv(t)
  OBVIOUS
<1>1. ASSUME NEW h \in Hashes, Referred(h)'
      PROVE  Referred(h) \/ (Inc(t) /\ h = held[t])
  BY <1>1, Moved, Counted
<1>2. ASSUME NEW h \in Hashes, Known(h), Referred(h) \/ (Inc(t) /\ h = held[t])
      PROVE  Known(h)'
  <2>1. CASE SameStore
    BY <1>2, <2>1 DEF Known, SameStore
  <2>2. CASE Fetch(t)
    <3>1. PICK n \in Hashes :
            /\ ~InUse(n)
            /\ \E z : content' = [content EXCEPT ![n] = z]
            /\ deleted' = deleted \ {n} /\ index' = index
      BY <2>2 DEF Fetch
    <3>2. h # n
      BY <1>2, <3>1 DEF InUse, Known
    <3> QED
      BY <1>2, <3>1, <3>2 DEF Known, HashesTyped
  <2>3. CASE Put(t) \/ Clear(t) \/ Post(t)
    BY <1>2, <2>3 DEF Put, Clear, Post, Known, hashVars
  <2>4. CASE Insert(t)
    <3>1. Fresh(t)
      BY <2>4, <1>i DEF Insert, HoldInv
    <3> QED
      BY <1>2, <1>z, <2>4, <3>1 DEF Insert, Known, Fresh, PoolTyped, hashVars
  <2>5. CASE Mark(t)
    <3>1. ~Referred(held[t]) /\ ~Inc(t)
      BY <2>5, <1>i DEF Mark, HoldInv, Inc
    <3> QED
      BY <1>2, <2>5, <3>1 DEF Mark, Known, poolVars
  <2>6. CASE Erase(t)
    <3>1. ~Referred(held[t]) /\ ~Inc(t) /\ index[content[held[t]]] = held[t]
      BY <2>6, <1>i DEF Erase, HoldInv, Inc
    <3> QED
      BY <1>2, <2>6, <3>1 DEF Erase, Known, PoolTyped, hashVars
  <2> QED
    BY <2>1, <2>2, <2>3, <2>4, <2>5, <2>6, Quiet DEF Changes
<1>3. ASSUME NEW h \in Hashes, Referred(h) \/ (Inc(t) /\ h = held[t])
      PROVE  Known(h)
  BY <1>3, <1>i DEF Inc, HoldInv, RefsInv
<1> QED
  BY <1>1, <1>2, <1>3 DEF RefsInv

(* A step that leaves the store alone has no slot in its hands.            *)
LEMMA NotOwning ==
  ASSUME ControlInv, NEW t \in Threads, Step(t)
  PROVE  /\ ~Changes(t) => pc[t] \notin Owning /\ pc'[t] \notin Owning
         /\ pc'[t] \in Owning => Fetch(t) \/ Put(t) \/ Erase(t) \/ Clear(t)
<1> USE DEF ControlInv, TypeOK, ThreadsTyped, Goto
<1>1. CASE Begin(t)
  BY <1>1, BeginLabel DEF Begin, Owning
<1>2. CASE ~Begin(t)
  BY <1>2 DEF Step, Write, Grow, SkipSame, ScanDone, Update, UpdateDone,
         Whole, Cut, Count, Swap, New, Lookup, Fetch, Put, Insert, Inc, Alive,
         Drop, Dec, Flags, CheckZero, DecDone,
         Delete, Mark, CheckOwn, Erase, Clear, Post, Return, Changes, Owning
<1> QED
  BY <1>1, <1>2

(* A hash of the index has a slot nobody else has in his hands.            *)
LEMMA IndexedSlot ==
  ASSUME KeepInv, NEW c \in Contents, index[c] # None, NEW t \in Threads, pc[t] \in Owning
  PROVE  slot[index[c]] # SlotOf(t)
<1> USE DEF KeepInv, CountInv, ControlInv, TypeOK, StoreInv
<1>z. None \notin Hashes
  BY ConstantsAssumption
<1>1. Indexed(c, index[c]) /\ index[c] \in Hashes
  BY DEF IndexInv, PoolTyped
<1>2. HoldInv(t) /\ OwnSlotInv(t) /\ ThreadInv(t)
  OBVIOUS
<1>3. CASE pc[t] \in {"put", "post"}
  BY <1>z, <1>1, <1>2, <1>3 DEF OwnSlotInv, Indexed
<1>4. CASE pc[t] \in {"insert", "clear"} /\ index[c] = held[t]
  BY <1>z, <1>1, <1>2, <1>4 DEF HoldInv, Fresh, Indexed
<1>5. CASE pc[t] \in {"insert", "clear"} /\ index[c] # held[t]
  BY <1>1, <1>2, <1>5 DEF OwnSlotInv, Indexed
<1> QED
  BY <1>3, <1>4, <1>5 DEF Owning

LEMMA OwnSlotStep ==
  ASSUME KeepInv, NEW t \in Threads, Step(t)
  PROVE  \A u \in Threads : OwnSlotInv(u)'
<1> USE DEF KeepInv, CountInv, ControlInv, TypeOK, StoreInv
<1>z. None \notin Hashes
  BY ConstantsAssumption
<1>o. \A u \in Threads : u # t => pc'[u] = pc[u] /\ held'[u] = held[u]
  BY Frame
<1>h. \A u \in Threads : pc[u] \in Owning => held[u] \in Hashes /\ SlotOf(u) \in Slots
  BY DEF Owning, ThreadInv, SlotInv, SlotOf
<1>i. HoldInv(t) /\ OwnSlotInv(t) /\ ThreadInv(t)
  OBVIOUS
<1>1. CASE SameStore /\ ~Changes(t)
  <2>1. pc'[t] \notin Owning
    BY <1>1, NotOwning
  <2> QED
    BY <1>1, <1>o, <2>1 DEF OwnSlotInv, SlotOf, SameStore, Owning
<1>2. CASE Fetch(t)
  <2>1. PICK s \in free, n \in Hashes :
          /\ ~InUse(n) /\ free' = free \ {s}
          /\ \E z : content' = [content EXCEPT ![n] = z]
          /\ slot' = [slot EXCEPT ![n] = s]
          /\ held' = [held EXCEPT ![t] = n]
    BY <1>2 DEF Fetch
  <2>2. /\ held'[t] = n /\ slot'[n] = s /\ pc'[t] = "put"
        /\ slotHash' = slotHash /\ slotChunk' = slotChunk
    BY <1>2, <2>1 DEF Fetch, ThreadsTyped, HashesTyped, Goto
  <2>3. \A u \in Threads : u # t /\ pc[u] \in Owning =>
          SlotOf(u)' = SlotOf(u) /\ content'[held[u]] = content[held[u]]
    BY <1>o, <1>h, <2>1 DEF InUse, SlotOf, HashesTyped
  <2>4. slotHash[s] = None /\ slotChunk[s] = Zero /\ s \in Slots
    BY DEF FreeSlotsEmpty, PoolTyped
  <2>5. \A u \in Threads : u # t /\ pc[u] \in Owning => SlotOf(u) \notin free
    BY DEF OwnSlotInv
  <2>6. SlotOf(t)' = s
    BY <2>2 DEF SlotOf
  <2>7. OwnSlotInv(t)'
    BY <1>o, <2>1, <2>2, <2>3, <2>4, <2>5, <2>6 DEF OwnSlotInv
  <2>8. ASSUME NEW u \in Threads, u # t
        PROVE  OwnSlotInv(u)'
    <3>1. OwnSlotInv(u)
      OBVIOUS
    <3> QED
      BY <3>1, <1>o, <2>1, <2>2, <2>3, <2>5, <2>6, <2>8 DEF OwnSlotInv, Owning
  <2> QED
    BY <2>7, <2>8
<1>3. CASE Put(t) \/ Clear(t)
  <2>0. pc[t] \in Owning /\ pc'[t] \in Owning /\ held' = held /\ slot' = slot
        /\ content' = content /\ free' = free
    BY <1>3 DEF Put, Clear, Owning, Goto, ThreadsTyped, hashVars
  <2>1. \A u \in Threads : SlotOf(u)' = SlotOf(u)
    BY <2>0 DEF SlotOf
  <2>2. \A s \in Slots : s # SlotOf(t) => slotHash'[s] = slotHash[s] /\ slotChunk'[s] = slotChunk[s]
    BY <1>3 DEF Put, Clear, SlotOf, PoolTyped
  <2>3. \A u \in Threads : u # t /\ pc[u] \in Owning => SlotOf(u) # SlotOf(t)
    BY <2>0 DEF OwnSlotInv
  <2>4. /\ pc'[t] = "insert" => slotHash'[SlotOf(t)] = held[t]
                                /\ slotChunk'[SlotOf(t)] = content[held[t]]
        /\ pc'[t] = "post" => slotHash'[SlotOf(t)] = None /\ slotChunk'[SlotOf(t)] = Zero
        /\ pc'[t] \in {"insert", "post"}
    BY <1>3, <1>h, <2>0 DEF Put, Clear, SlotOf, PoolTyped, Goto, ThreadsTyped
  <2>5. OwnSlotInv(t)'
    BY <1>h, <1>i, <1>o, <2>0, <2>1, <2>3, <2>4 DEF OwnSlotInv
  <2>6. ASSUME NEW u \in Threads, u # t
        PROVE  OwnSlotInv(u)'
    <3>1. OwnSlotInv(u)
      OBVIOUS
    <3> QED
      BY <3>1, <1>h, <1>o, <2>0, <2>1, <2>2, <2>3, <2>6 DEF OwnSlotInv, Owning
  <2> QED
    BY <2>5, <2>6
<1>4. CASE Insert(t) \/ Mark(t)
  <2>1. pc'[t] \notin Owning /\ slot' = slot /\ content' = content /\ free' = free
        /\ slotHash' = slotHash /\ slotChunk' = slotChunk
    BY <1>4 DEF Insert, Mark, Owning, Goto, ThreadsTyped, hashVars, poolVars
  <2> QED
    BY <1>o, <2>1 DEF OwnSlotInv, SlotOf, Owning
<1>5. CASE Erase(t)
  <2>1. /\ pc'[t] \in {"clear", "dec"} /\ slot' = slot /\ content' = content
        /\ free' = free /\ slotHash' = slotHash /\ slotChunk' = slotChunk /\ held' = held
    BY <1>5 DEF Erase, Goto, ThreadsTyped, hashVars
  <2>2. /\ held[t] \in Hashes /\ content[held[t]] \in Contents
        /\ index[content[held[t]]] = held[t]
    BY <1>5, <1>i DEF Erase, HoldInv, ThreadInv
  <2>3. Indexed(content[held[t]], held[t]) /\ SlotOf(t) \in Slots
    BY <1>z, <2>2 DEF IndexInv, SlotInv, SlotOf
  <2>4. \A u \in Threads : pc[u] \in Owning => SlotOf(u) # SlotOf(t)
    BY <1>z, <2>2, IndexedSlot DEF SlotOf
  <2>5. \A u \in Threads : SlotOf(u)' = SlotOf(u)
    BY <2>1 DEF SlotOf
  <2>6. OwnSlotInv(t)'
    BY <1>o, <2>1, <2>3, <2>4, <2>5 DEF OwnSlotInv, Indexed, SlotOf, Owning
  <2>7. ASSUME NEW u \in Threads, u # t
        PROVE  OwnSlotInv(u)'
    <3>1. OwnSlotInv(u)
      OBVIOUS
    <3> QED
      BY <3>1, <1>o, <2>1, <2>4, <2>5, <2>7 DEF OwnSlotInv, Owning
  <2> QED
    BY <2>6, <2>7
<1>6. CASE Post(t)
  <2>1. /\ pc'[t] = "dec" /\ slot' = slot /\ content' = content /\ held' = held
        /\ slotHash' = slotHash /\ slotChunk' = slotChunk /\ free' = free \cup {SlotOf(t)}
    BY <1>6 DEF Post, Goto, ThreadsTyped, hashVars, SlotOf
  <2>2. \A u \in Threads : u # t /\ pc[u] \in Owning => SlotOf(u) # SlotOf(t)
    BY <1>6 DEF OwnSlotInv, Post, Owning
  <2>3. \A u \in Threads : SlotOf(u)' = SlotOf(u)
    BY <2>1 DEF SlotOf
  <2>4. ASSUME NEW u \in Threads
        PROVE  OwnSlotInv(u)'
    <3>1. OwnSlotInv(u)
      OBVIOUS
    <3> QED
      BY <3>1, <1>o, <2>1, <2>2, <2>3 DEF OwnSlotInv, Owning
  <2> QED
    BY <2>4
<1> QED
  BY <1>1, <1>2, <1>3, <1>4, <1>5, <1>6, Quiet DEF Changes

(* Who keeps a hash, when a step only looks at the store.                  *)
LEMMA KeptQuiet ==
  ASSUME KeepInv, NEW t \in Threads, Step(t), ~Changes(t),
         NEW c \in Contents, NEW h \in Hashes, index[c] = h
  PROVE  /\ Kept(h)'
         /\ h \in deleted => Erasing(h)'
<1> USE DEF KeepInv, CountInv, ControlInv, TypeOK, StoreInv
<1>z. None \notin Hashes /\ Zero \notin Hashes
  BY ConstantsAssumption
<1>o. \A u \in Threads : u # t => pc'[u] = pc[u] /\ held'[u] = held[u]
  BY Frame
<1>1. Kept(h) /\ (h \in deleted => Erasing(h))
  BY <1>z DEF IndexInv
<1>2. ASSUME Erasing(h)
      PROVE  Erasing(h)'
  <2>1. PICK u \in Threads : pc[u] \in {"own", "erase"} /\ held[u] = h
    BY <1>2 DEF Erasing
  <2>2. CASE u = t
    <3>0. CheckOwn(t) /\ pc[t] = "own"
      BY <2>1, <2>2 DEF Step, Begin, Write, Grow, SkipSame, ScanDone, Update, UpdateDone,
         Whole, Cut, Count, Swap, New, Lookup, Fetch, Put, Insert, Inc, Alive,
         Drop, Dec, Flags, CheckZero, DecDone,
         Delete, Mark, CheckOwn, Clear, Post, Return, Changes
    <3>1. pc'[t] = "erase" /\ held' = held
      BY <3>0 DEF CheckOwn, Goto, ThreadsTyped
    <3> QED
      BY <2>1, <2>2, <3>1 DEF Erasing
  <2>3. CASE u # t
    BY <1>o, <2>1, <2>3 DEF Erasing
  <2> QED
    BY <2>2, <2>3
<1>3. ASSUME Erasing(h)'
      PROVE  Kept(h)'
  BY <1>3 DEF Erasing, Kept, Keeping
<1>4. ASSUME Referred(h)
      PROVE  Kept(h)'
  <2>1. Referred(h)' \/ (Dec(t) /\ h = held'[t])
    BY <1>4, Moved, Counted
  <2>2. Dec(t) => pc'[t] = "flags"
    BY DEF Dec, Goto, ThreadsTyped
  <2>3. CASE Referred(h)'
    BY <2>3 DEF Kept
  <2>4. CASE Dec(t) /\ h = held'[t]
    BY <2>2, <2>4 DEF Kept, Keeping
  <2> QED
    BY <2>1, <2>3, <2>4
<1>5. ASSUME NEW u \in Threads, u # t, held[u] = h, pc[u] \in Keeping
      PROVE  Kept(h)'
  BY <1>5, <1>o DEF Kept
<1>6. ASSUME held[t] = h, pc[t] \in Keeping
      PROVE  Kept(h)'
  <2>1. CASE Inc(t)
    <3>1. Referred(h)'
      BY <1>6, <2>1, Counted
    <3> QED
      BY <3>1 DEF Kept
  <2>2. CASE Flags(t)
    <3>1. held' = held /\ (pc'[t] = "zero" \/ h \in deleted \cup {Zero})
      BY <1>6, <2>2 DEF Flags, Goto, ThreadsTyped
    <3>2. CASE pc'[t] = "zero"
      BY <1>6, <3>1, <3>2 DEF Kept, Keeping
    <3>3. CASE h \in deleted \cup {Zero}
      BY <1>z, <1>1, <1>2, <1>3, <3>3
    <3> QED
      BY <3>1, <3>2, <3>3
  <2>3. CASE CheckZero(t)
    <3>1. held' = held /\ fileVars' = fileVars /\ (pc'[t] = "mark" \/ refcnt[h] # 0)
      BY <1>6, <2>3 DEF CheckZero, Goto, ThreadsTyped
    <3>2. CASE pc'[t] = "mark"
      BY <1>6, <3>1, <3>2 DEF Kept, Keeping
    <3>3. CASE refcnt[h] # 0
      <4>3. Referred(h)
        BY <3>3, Uncounted
      <4> QED
        BY <1>4, <4>3
    <3> QED
      BY <3>1, <3>2, <3>3
  <2>4. CASE CheckOwn(t)
    <3>1. pc'[t] = "erase" /\ held' = held
      BY <2>4 DEF CheckOwn, Goto, ThreadsTyped
    <3> QED
      BY <1>6, <3>1 DEF Kept, Keeping
  <2> QED
    BY <1>6, <2>1, <2>2, <2>3, <2>4 DEF Step, Begin, Write, Grow, SkipSame, ScanDone,
       Update, UpdateDone, Whole, Cut, Count, Swap, New, Lookup, Fetch, Put, Insert, Alive,
       Drop, Dec, DecDone, Delete, Mark, Erase, Clear, Post, Return, Changes, Keeping
<1> QED
  BY <1>1, <1>2, <1>4, <1>5, <1>6 DEF Kept

LEMMA IndexTyped ==
  ASSUME ControlInv, NEW t \in Threads, Step(t)
  PROVE  index' \in [Contents -> Hashes \cup {None}]
<1>1. TypeOK'
  BY TypesBegin, TypesWrite, TypesWhole, TypesNew, TypesDrop, TypesDelete, TypesReturn
     DEF Step
<1> QED
  BY <1>1 DEF TypeOK, PoolTyped

LEMMA IndexStep ==
  ASSUME KeepInv, NEW t \in Threads, Step(t)
  PROVE  IndexInv'
<1> USE DEF KeepInv, CountInv, ControlInv, TypeOK, StoreInv
<1>z. None \notin Hashes
  BY ConstantsAssumption
<1>o. \A u \in Threads : u # t => pc'[u] = pc[u] /\ held'[u] = held[u]
  BY Frame
<1>i. HoldInv(t) /\ OwnSlotInv(t) /\ ThreadInv(t)
  OBVIOUS
<1>w. ASSUME NEW c \in Contents, NEW h \in Hashes, index[c] = h
      PROVE  Indexed(c, h) /\ Kept(h) /\ (h \in deleted => Erasing(h))
  BY <1>w, <1>z DEF IndexInv
<1> SUFFICES ASSUME NEW c \in Contents, NEW h \in Hashes, index'[c] = h
             PROVE  Indexed(c, h)' /\ Kept(h)' /\ (h \in deleted' => Erasing(h)')
  <2>1. index' \in [Contents -> Hashes \cup {None}]
    BY IndexTyped
  <2> QED
    BY <2>1 DEF IndexInv
<1>1. CASE ~Changes(t)
  <2>1. SameStore
    BY <1>1, Quiet
  <2>2. index[c] = h /\ deleted' = deleted
    BY <2>1 DEF SameStore
  <2>3. Indexed(c, h)'
    <3>1. Indexed(c, h)
      BY <2>2, <1>w
    <3> QED
      BY <2>1, <3>1 DEF Indexed, SameStore
  <2>4. Kept(h)' /\ (h \in deleted => Erasing(h)')
    BY <1>1, <2>2, KeptQuiet
  <2> QED
    BY <2>2, <2>3, <2>4
<1>m. Changes(t) => \A x \in Hashes : Referred(x)' <=> Referred(x)
  BY Moved DEF Changes, Fetch, Put, Insert, Mark, Erase, Clear, Post, Inc, Dec
<1>k. ASSUME Changes(t), NEW x \in Hashes, Kept(x), held'[t] = held[t], pc'[t] \in Keeping
      PROVE  Kept(x)'
  BY <1>k, <1>m, <1>o DEF Kept
<1>l. ASSUME Changes(t), NEW x \in Hashes, Kept(x), held[t] # x \/ pc[t] \notin Keeping
      PROVE  Kept(x)'
  BY <1>l, <1>m, <1>o DEF Kept
<1>e. ASSUME NEW x, Erasing(x), held[t] # x \/ pc[t] \notin {"own", "erase"}
      PROVE  Erasing(x)'
  BY <1>e, <1>o DEF Erasing
<1>2. CASE Fetch(t)
  <2>1. PICK s \in free, n \in Hashes :
          /\ ~InUse(n) /\ index' = index /\ free' = free \ {s}
          /\ \E z : content' = [content EXCEPT ![n] = z]
          /\ slot' = [slot EXCEPT ![n] = s]
          /\ deleted' = deleted \ {n}
          /\ slotHash' = slotHash /\ slotChunk' = slotChunk
          /\ pc[t] = "fetch"
    BY <1>2 DEF Fetch
  <2>2. index[c] = h /\ h # n
    BY <2>1 DEF InUse
  <2>3. Indexed(c, h) /\ Kept(h) /\ (h \in deleted => Erasing(h))
    BY <1>w, <2>2
  <2>4. Indexed(c, h)'
    BY <2>1, <2>2, <2>3 DEF Indexed, HashesTyped
  <2> QED
    BY <1>2, <1>l, <1>e, <2>1, <2>3, <2>4 DEF Changes, Keeping
<1>3. CASE Put(t) \/ Clear(t)
  <2>1. /\ index' = index /\ free' = free /\ content' = content /\ slot' = slot
        /\ deleted' = deleted /\ pc[t] \in {"put", "clear"}
    BY <1>3 DEF Put, Clear, hashVars
  <2>2. \A s \in Slots : s # SlotOf(t) => slotHash'[s] = slotHash[s] /\ slotChunk'[s] = slotChunk[s]
    BY <1>3 DEF Put, Clear, SlotOf, PoolTyped
  <2>3. Indexed(c, h) /\ Kept(h) /\ (h \in deleted => Erasing(h))
    BY <1>w, <2>1
  <2>4. slot[h] \in Slots /\ slot[h] # SlotOf(t)
    BY <1>z, <2>1, IndexedSlot DEF Owning, SlotInv
  <2>5. Indexed(c, h)'
    BY <2>1, <2>2, <2>3, <2>4 DEF Indexed
  <2> QED
    BY <1>3, <1>l, <1>e, <2>1, <2>3, <2>5 DEF Changes, Keeping
<1>4. CASE Insert(t)
  <2>1. /\ index' = [index EXCEPT ![content[held[t]]] = held[t]]
        /\ free' = free /\ content' = content /\ slot' = slot /\ deleted' = deleted
        /\ slotHash' = slotHash /\ slotChunk' = slotChunk
        /\ held' = held /\ pc'[t] = "inc" /\ pc[t] = "insert"
    BY <1>4 DEF Insert, hashVars, Goto, ThreadsTyped
  <2>2. Fresh(t) /\ held[t] \in Hashes
    BY <1>i, <2>1 DEF HoldInv, ThreadInv
  <2>3. Indexed(c, h)' <=> Indexed(c, h)
    BY <2>1 DEF Indexed
  <2>4. CASE c = content[held[t]]
    <3>1. h = held[t]
      BY <2>1, <2>4 DEF PoolTyped
    <3>2. Indexed(c, h)
      BY <1>i, <2>1, <2>4, <3>1 DEF OwnSlotInv, Indexed, SlotOf, Owning
    <3>3. Kept(h)' /\ h \notin deleted'
      BY <2>1, <2>2, <3>1 DEF Kept, Keeping, Fresh
    <3> QED
      BY <2>3, <3>2, <3>3
  <2>5. CASE c # content[held[t]]
    <3>1. index[c] = h
      BY <2>1, <2>5 DEF PoolTyped
    <3>2. Indexed(c, h) /\ Kept(h) /\ (h \in deleted => Erasing(h))
      BY <1>w, <3>1
    <3> QED
      BY <1>4, <1>l, <1>e, <2>1, <2>3, <3>2 DEF Changes, Keeping
  <2> QED
    BY <2>4, <2>5
<1>5. CASE Mark(t)
  <2>1. /\ index' = index /\ free' = free /\ content' = content /\ slot' = slot
        /\ deleted' = deleted \cup {held[t]}
        /\ slotHash' = slotHash /\ slotChunk' = slotChunk
        /\ held' = held /\ pc'[t] = "own" /\ pc[t] = "mark"
    BY <1>5 DEF Mark, poolVars, Goto, ThreadsTyped
  <2>2. h = held[t] => Erasing(h)'
    BY <2>1 DEF Erasing
  <2>3. Indexed(c, h) /\ Kept(h) /\ (h \in deleted => Erasing(h))
    BY <1>w, <2>1
  <2>4. Kept(h)'
    BY <1>5, <1>k, <2>1, <2>3 DEF Changes, Keeping
  <2>5. Indexed(c, h)'
    BY <2>1, <2>3 DEF Indexed
  <2> QED
    BY <1>e, <2>1, <2>2, <2>3, <2>4, <2>5
<1>6. CASE Erase(t)
  <2>1. /\ index' = [index EXCEPT ![content[held[t]]] = None]
        /\ free' = free /\ content' = content /\ slot' = slot /\ deleted' = deleted
        /\ slotHash' = slotHash /\ slotChunk' = slotChunk /\ pc[t] = "erase"
    BY <1>6 DEF Erase, hashVars
  <2>2. index[c] = h /\ c # content[held[t]]
    BY <1>z, <2>1 DEF PoolTyped
  <2>3. Indexed(c, h) /\ Kept(h) /\ (h \in deleted => Erasing(h))
    BY <1>w, <2>2
  <2>4. h # held[t]
    BY <2>2, <2>3 DEF Indexed
  <2>5. Indexed(c, h)'
    BY <2>1, <2>3 DEF Indexed
  <2> QED
    BY <1>6, <1>l, <1>e, <2>1, <2>3, <2>4, <2>5 DEF Changes
<1>7. CASE Post(t)
  <2>1. /\ index' = index /\ free' = free \cup {SlotOf(t)} /\ content' = content
        /\ slot' = slot /\ deleted' = deleted
        /\ slotHash' = slotHash /\ slotChunk' = slotChunk /\ pc[t] = "post"
    BY <1>7 DEF Post, hashVars, SlotOf
  <2>2. Indexed(c, h) /\ Kept(h) /\ (h \in deleted => Erasing(h))
    BY <1>w, <2>1
  <2>3. slot[h] # SlotOf(t)
    BY <1>z, <2>1, IndexedSlot DEF Owning
  <2>4. Indexed(c, h)'
    BY <2>1, <2>2, <2>3 DEF Indexed
  <2> QED
    BY <1>7, <1>l, <1>e, <2>1, <2>2, <2>4 DEF Changes, Keeping
<1> QED
  BY <1>1, <1>2, <1>3, <1>4, <1>5, <1>6, <1>7 DEF Changes

-----------------------------------------------------------------------------
LEMMA FreeStep ==
  ASSUME KeepInv, NEW t \in Threads, Step(t)
  PROVE  FreeSlotsEmpty'
<1> USE DEF KeepInv, CountInv, ControlInv, TypeOK, StoreInv
<1>i. OwnSlotInv(t) /\ FreeSlotsEmpty
  OBVIOUS
<1>1. CASE SameStore
  BY <1>1, <1>i DEF FreeSlotsEmpty, SameStore
<1>2. CASE Fetch(t)
  BY <1>2, <1>i DEF Fetch, FreeSlotsEmpty
<1>3. CASE Put(t) \/ Clear(t)
  <2>1. SlotOf(t) \notin free /\ free' = free
    BY <1>3, <1>i DEF Put, Clear, OwnSlotInv, Owning
  <2>2. \A s \in Slots : s # SlotOf(t) => slotHash'[s] = slotHash[s] /\ slotChunk'[s] = slotChunk[s]
    BY <1>3 DEF Put, Clear, SlotOf, PoolTyped
  <2> QED
    BY <1>i, <2>1, <2>2 DEF FreeSlotsEmpty, PoolTyped
<1>4. CASE Insert(t) \/ Mark(t) \/ Erase(t)
  <2>1. free' = free /\ slotHash' = slotHash /\ slotChunk' = slotChunk
    BY <1>4 DEF Insert, Mark, Erase, poolVars
  <2> QED
    BY <1>i, <2>1 DEF FreeSlotsEmpty
<1>5. CASE Post(t)
  <2>1. free' = free \cup {SlotOf(t)} /\ slotHash' = slotHash /\ slotChunk' = slotChunk
    BY <1>5 DEF Post, SlotOf
  <2>2. slotHash[SlotOf(t)] = None /\ slotChunk[SlotOf(t)] = Zero
    BY <1>5, <1>i DEF Post, OwnSlotInv
  <2> QED
    BY <1>i, <2>1, <2>2 DEF FreeSlotsEmpty
<1> QED
  BY <1>1, <1>2, <1>3, <1>4, <1>5, Quiet DEF Changes

LEMMA SlotsStep ==
  ASSUME KeepInv, NEW t \in Threads, Step(t)
  PROVE  SlotsKept'
<1> USE DEF KeepInv, CountInv, ControlInv, TypeOK, StoreInv
<1>z. None \notin Hashes
  BY ConstantsAssumption
<1>o. \A u \in Threads : u # t => pc'[u] = pc[u] /\ held'[u] = held[u]
  BY Frame
<1>i. HoldInv(t) /\ OwnSlotInv(t) /\ ThreadInv(t)
  OBVIOUS
<1> SUFFICES ASSUME NEW s \in Slots, SlotKept(s)
             PROVE  SlotKept(s)'
  BY DEF SlotsKept
<1>f. ASSUME s \in free, s \in free'
      PROVE  SlotKept(s)'
  BY <1>f DEF SlotKept
<1>t. ASSUME pc'[t] \in Owning, SlotOf(t)' = s
      PROVE  SlotKept(s)'
  BY <1>t DEF SlotKept
<1>u. ASSUME NEW u \in Threads, u # t, pc[u] \in Owning, SlotOf(u) = s,
             slot'[held[u]] = slot[held[u]]
      PROVE  SlotKept(s)'
  <2>1. SlotOf(u)' = s /\ pc'[u] \in Owning
    BY <1>o, <1>u DEF SlotOf
  <2> QED
    BY <2>1 DEF SlotKept
<1>c. ASSUME NEW c \in Contents, index'[c] # None, NEW h, index'[c] = h, slot'[h] = s
      PROVE  SlotKept(s)'
  BY <1>c DEF SlotKept
<1>1. CASE ~Changes(t)
  <2>1. SameStore /\ pc[t] \notin Owning
    BY <1>1, Quiet, NotOwning
  <2>2. CASE s \in free
    BY <1>f, <2>1, <2>2 DEF SameStore
  <2>3. ASSUME NEW c \in Contents, index[c] # None, slot[index[c]] = s
        PROVE  SlotKept(s)'
    BY <1>c, <2>1, <2>3 DEF SameStore
  <2>4. ASSUME NEW u \in Threads, pc[u] \in Owning, SlotOf(u) = s
        PROVE  SlotKept(s)'
    BY <1>u, <2>1, <2>4 DEF SameStore
  <2> QED
    BY <2>2, <2>3, <2>4 DEF SlotKept
<1>2. CASE Fetch(t)
  <2>1. PICK n \in free, h \in Hashes :
          /\ ~InUse(h) /\ free' = free \ {n}
          /\ slot' = [slot EXCEPT ![h] = n]
          /\ held' = [held EXCEPT ![t] = h]
    BY <1>2 DEF Fetch
  <2>2. /\ index' = index /\ pc[t] = "fetch" /\ pc'[t] = "put"
        /\ held'[t] = h /\ slot'[h] = n
    BY <1>2, <2>1 DEF Fetch, ThreadsTyped, HashesTyped, Goto
  <2>3. \A g \in Hashes : g # h => slot'[g] = slot[g]
    BY <2>1 DEF HashesTyped
  <2>4. CASE s \in free /\ s # n
    BY <1>f, <2>1, <2>4
  <2>5. CASE s = n
    BY <1>t, <2>2, <2>5 DEF SlotOf, Owning
  <2>6. ASSUME NEW c \in Contents, index[c] # None, slot[index[c]] = s
        PROVE  SlotKept(s)'
    <3>1. index[c] \in Hashes /\ index[c] # h
      BY <2>1, <2>6 DEF InUse, PoolTyped
    <3> QED
      BY <1>c, <2>2, <2>3, <2>6, <3>1
  <2>7. ASSUME NEW u \in Threads, pc[u] \in Owning, SlotOf(u) = s
        PROVE  SlotKept(s)'
    <3>1. u # t /\ held[u] \in Hashes /\ held[u] # h
      BY <2>1, <2>2, <2>7 DEF InUse, Owning, ThreadInv
    <3> QED
      BY <1>u, <2>3, <2>7, <3>1 DEF SlotOf
  <2> QED
    BY <2>4, <2>5, <2>6, <2>7 DEF SlotKept
<1>3. CASE Put(t) \/ Clear(t) \/ Mark(t)
  <2>1. /\ index' = index /\ free' = free /\ slot' = slot /\ held' = held
        /\ pc[t] \in Owning => pc'[t] \in Owning
    BY <1>3 DEF Put, Clear, Mark, hashVars, poolVars, Goto, ThreadsTyped, Owning
  <2>2. ASSUME NEW u \in Threads, pc[u] \in Owning, SlotOf(u) = s
        PROVE  SlotKept(s)'
    BY <1>t, <1>u, <2>1, <2>2 DEF SlotOf
  <2> QED
    BY <1>f, <1>c, <2>1, <2>2 DEF SlotKept
<1>4. CASE Insert(t)
  <2>1. /\ index' = [index EXCEPT ![content[held[t]]] = held[t]]
        /\ free' = free /\ slot' = slot
    BY <1>4 DEF Insert, hashVars
  <2>2. /\ held[t] \in Hashes /\ content[held[t]] \in Contents
        /\ index[content[held[t]]] = None
    BY <1>4, <1>i DEF Insert, HoldInv, ThreadInv, Fresh
  <2>3. index'[content[held[t]]] = held[t]
    BY <2>1, <2>2 DEF PoolTyped
  <2>4. \A c \in Contents : index[c] # None => index'[c] = index[c]
    BY <2>1, <2>2 DEF PoolTyped
  <2>5. ASSUME NEW u \in Threads, pc[u] \in Owning, SlotOf(u) = s
        PROVE  SlotKept(s)'
    <3>1. CASE u = t
      BY <1>c, <1>z, <2>1, <2>2, <2>3, <2>5, <3>1 DEF SlotOf
    <3>2. CASE u # t
      BY <1>u, <2>1, <2>5, <3>2
    <3> QED
      BY <3>1, <3>2
  <2>6. ASSUME NEW c \in Contents, index[c] # None, slot[index[c]] = s
        PROVE  SlotKept(s)'
    BY <1>c, <2>1, <2>4, <2>6
  <2> QED
    BY <1>f, <2>1, <2>5, <2>6 DEF SlotKept
<1>5. CASE Erase(t)
  <2>1. /\ index' = [index EXCEPT ![content[held[t]]] = None]
        /\ free' = free /\ slot' = slot /\ held' = held /\ pc[t] = "erase"
    BY <1>5 DEF Erase, hashVars
  <2>2. /\ held[t] \in Hashes /\ content[held[t]] \in Contents
        /\ index[content[held[t]]] = held[t]
    BY <1>5, <1>i DEF Erase, HoldInv, ThreadInv
  <2>3. pc'[t] = "clear"
    BY <1>5, <1>z, <2>2 DEF Erase, Goto, ThreadsTyped
  <2>4. ASSUME NEW c \in Contents, index[c] # None, slot[index[c]] = s
        PROVE  SlotKept(s)'
    <3>1. CASE c = content[held[t]]
      BY <1>t, <2>1, <2>2, <2>3, <2>4, <3>1 DEF SlotOf, Owning
    <3>2. CASE c # content[held[t]]
      <4>1. index'[c] = index[c]
        BY <2>1, <3>2 DEF PoolTyped
      <4> QED
        BY <1>c, <2>1, <2>4, <4>1
    <3> QED
      BY <3>1, <3>2
  <2>5. ASSUME NEW u \in Threads, pc[u] \in Owning, SlotOf(u) = s
        PROVE  SlotKept(s)'
    BY <1>u, <2>1, <2>5 DEF Owning
  <2> QED
    BY <1>f, <2>1, <2>4, <2>5 DEF SlotKept
<1>6. CASE Post(t)
  <2>1. index' = index /\ free' = free \cup {SlotOf(t)} /\ slot' = slot
    BY <1>6 DEF Post, hashVars, SlotOf
  <2>2. ASSUME NEW u \in Threads, pc[u] \in Owning, SlotOf(u) = s
        PROVE  SlotKept(s)'
    <3>1. CASE u = t
      BY <2>1, <2>2, <3>1 DEF SlotKept
    <3>2. CASE u # t
      BY <1>u, <2>1, <2>2, <3>2
    <3> QED
      BY <3>1, <3>2
  <2> QED
    BY <1>f, <1>c, <2>1, <2>2 DEF SlotKept
<1> QED
  BY <1>1, <1>2, <1>3, <1>4, <1>5, <1>6 DEF Changes

-----------------------------------------------------------------------------
LEMMA ServedStep ==
  ASSUME KeepInv, NEW t \in Threads, Step(t), NEW f \in Files
  PROVE  Served(f)'
<1> USE DEF KeepInv, CountInv, ControlInv, TypeOK, StoreInv, ThreadsTyped
<1>o. \A u \in Threads : u # t => pc'[u] = pc[u] /\ file'[u] = file[u]
  BY Frame
<1>i. Served(f) /\ ThreadInv(t)
  OBVIOUS
<1>1. CASE Begin(t)
  <2>1. PICK g \in FilesOf[t] : /\ file' = [file EXCEPT ![t] = g]
                                /\ \E r : request' = [request EXCEPT ![g] = r]
    BY <1>1 DEF Begin
  <2>2. pc'[t] # "idle" /\ pc[t] = "idle"
    BY <1>1, BeginLabel DEF Begin
  <2>3. CASE f = g
    BY <2>1, <2>2, <2>3 DEF Served
  <2>4. CASE f # g
    <3>1. request'[f] = request[f]
      BY <2>1, <2>4
    <3> QED
      BY <1>i, <1>o, <2>2, <3>1 DEF Served
  <2> QED
    BY <2>3, <2>4
<1>2. CASE Return(t)
  <2>1. request' = [request EXCEPT ![file[t]] = None]
    BY <1>2 DEF Return
  <2>2. CASE f = file[t]
    BY <2>1, <2>2 DEF Served
  <2>3. CASE f # file[t]
    <3>1. request'[f] = request[f]
      BY <2>1, <2>3
    <3> QED
      BY <1>i, <1>o, <2>3, <3>1 DEF Served
  <2> QED
    BY <2>2, <2>3
<1>3. CASE ~Begin(t) /\ ~Return(t)
  <2>1. pc[t] # "idle" /\ file' = file /\ request' = request
    BY <1>3, BusyStep
  <2>2. pc'[t] # "idle"
    BY <1>3 DEF Step, Write, Grow, SkipSame, ScanDone, Update, UpdateDone,
       Whole, Cut, Count, Swap, New, Lookup, Fetch, Put, Insert, Inc, Alive,
       Drop, Dec, Flags, CheckZero, DecDone,
       Delete, Mark, CheckOwn, Erase, Clear, Post, Goto
  <2> QED
    BY <1>i, <1>o, <2>1, <2>2 DEF Served
<1> QED
  BY <1>1, <1>2, <1>3

LEMMA DeletesStep ==
  ASSUME KeepInv, aborted = "no", NEW t \in Threads, Step(t)
  PROVE  DeletesOnce'
<1> USE DEF KeepInv, CountInv, ControlInv, TypeOK, StoreInv
<1>i. HoldInv(t) /\ ThreadInv(t)
  OBVIOUS
<1>1. CASE Alive(t)
  <2>1. PICK p \in Positions : fresh[file[t]][p] = held[t]
    BY <1>1, <1>i DEF Alive, HoldInv
  <2>2. held[t] \notin deleted
    BY <1>1, <1>i, <2>1 DEF Alive, ThreadInv, Referred, At3, RefsInv, Known, HashesTyped
  <2> QED
    BY <1>1, <2>2 DEF Alive, DeletesOnce, NeverRevived, OwnIndexed
<1>2. CASE CheckOwn(t)
  BY <1>2, <1>i DEF CheckOwn, HoldInv, DeletesOnce, NeverRevived, OwnIndexed
<1>3. CASE Return(t)
  BY <1>3 DEF Return, DeletesOnce, NeverRevived, OwnIndexed
<1>4. aborted' = aborted \/ Alive(t) \/ CheckOwn(t) \/ Return(t)
  BY DEF Step, Begin, Write, Grow, SkipSame, ScanDone, Update, UpdateDone,
         Whole, Cut, Count, Swap, New, Lookup, Fetch, Put, Insert, Inc,
         Drop, Dec, Flags, CheckZero, DecDone, Delete, Mark, Erase, Clear, Post
<1> QED
  BY <1>1, <1>2, <1>3, <1>4 DEF DeletesOnce, NeverRevived, OwnIndexed

(* Only the count of zeroHash and aborted are no part of what is kept.     *)
LEMMA StoreKept ==
  ASSUME StoreInv, DeletesOnce', fileVars' = fileVars, poolVars' = poolVars,
         content' = content, slot' = slot, deleted' = deleted,
         pc' = pc, file' = file, todo' = todo, held' = held, request' = request
  PROVE  StoreInv'
<1> USE DEF StoreInv, fileVars, poolVars
<1>1. ASSUME NEW t \in Threads
      PROVE  HoldInv(t)'
  <2>1. HoldInv(t)
    OBVIOUS
  <2> QED
    BY <2>1 DEF HoldInv, Fresh, Known, Referred, At3, Lowest, Data
<1>2. ASSUME NEW t \in Threads
      PROVE  OwnSlotInv(t)'
  <2>1. OwnSlotInv(t)
    OBVIOUS
  <2> QED
    BY <2>1 DEF OwnSlotInv, SlotOf
<1>3. RefsInv'
  BY DEF RefsInv, Referred, At3, Known
<1>4. IndexInv'
  BY DEF IndexInv, Indexed, Erasing, Kept, Referred, At3
<1>5. FreeSlotsEmpty'
  BY DEF FreeSlotsEmpty
<1>6. SlotsKept'
  BY DEF SlotsKept, SlotKept, SlotOf
<1>7. \A f \in Files : Served(f)'
  BY DEF Served
<1> QED
  BY <1>1, <1>2, <1>3, <1>4, <1>5, <1>6, <1>7

LEMMA KeepInit ==
  ASSUME Init
  PROVE  KeepInv /\ Apart
<1>z. Zero # None /\ None \notin Hashes /\ Zero \notin Hashes
  BY ConstantsAssumption
<1>1. CountInv
  BY CountInit
<1>2. \A t \in Threads : pc[t] = "idle" /\ held[t] = None
  BY DEF Init
<1>3. \A t \in Threads : HoldInv(t)
  BY <1>2 DEF HoldInv
<1>4. \A t \in Threads : OwnSlotInv(t)
  BY <1>2 DEF OwnSlotInv, Owning
<1>5. RefsInv
  BY <1>z DEF Init, RefsInv, Referred, At3, NoChunks
<1>6. IndexInv
  BY DEF Init, IndexInv
<1>7. FreeSlotsEmpty
  BY DEF Init, FreeSlotsEmpty
<1>8. SlotsKept
  BY DEF Init, SlotsKept, SlotKept
<1>9. \A f \in Files : Served(f)
  BY DEF Init, Served
<1>10. DeletesOnce
  BY DEF Init, DeletesOnce, NeverRevived, OwnIndexed
<1>11. Apart
  BY <1>2 DEF Apart, Section
<1> QED
  BY <1>1, <1>3, <1>4, <1>5, <1>6, <1>7, <1>8, <1>9, <1>10, <1>11 DEF KeepInv, StoreInv

LEMMA KeepStep ==
  ASSUME KeepInv, Apart, [Next /\ Apart']_vars
  PROVE  KeepInv' /\ Apart'
<1>1. CASE UNCHANGED vars
  <2>1. StoreInv' 
    BY <1>1, StoreKept DEF vars, hashVars, KeepInv, StoreInv, DeletesOnce, NeverRevived, OwnIndexed
  <2>2. Apart'
    BY <1>1 DEF vars, hashVars, Apart, Section, Wanted, Lowest, Data
  <2> QED
    BY <1>1, <2>1, <2>2, CountStep DEF KeepInv
<1>2. CASE Next /\ Apart'
  <2>1. CountInv' /\ aborted = "no"
    BY <1>2, CountStep DEF KeepInv, Next
  <2>2. ASSUME NEW t \in Threads, Step(t)
        PROVE  StoreInv'
    <3>1. ASSUME NEW u \in Threads
          PROVE  HoldInv(u)'
      BY <1>2, <2>2, OthersHold, OwnHold
    <3> QED
      BY <2>1, <2>2, <3>1, OwnSlotStep, RefsStep, IndexStep, FreeStep, SlotsStep,
         ServedStep, DeletesStep DEF StoreInv
  <2>3. ASSUME Remount
        PROVE  StoreInv'
    <3>1. DeletesOnce'
      BY <2>1, <2>3 DEF Remount, DeletesOnce, NeverRevived, OwnIndexed
    <3>2. /\ fileVars' = fileVars /\ poolVars' = poolVars
          /\ content' = content /\ slot' = slot /\ deleted' = deleted
          /\ pc' = pc /\ file' = file /\ todo' = todo /\ held' = held
          /\ request' = request
      BY <2>3 DEF Remount, fileVars, poolVars
    <3> QED
      BY <3>1, <3>2, StoreKept DEF KeepInv
  <2> QED
    BY <1>2, <2>1, <2>2, <2>3 DEF Next, KeepInv
<1> QED
  BY <1>1, <1>2

-----------------------------------------------------------------------------
LEMMA ApartKeeps == ApartSpec => [](KeepInv /\ Apart)
<1>1. KeepInv /\ Apart /\ [Next /\ Apart']_vars => (KeepInv /\ Apart)'
  BY KeepStep
<1> QED
  BY <1>1, KeepInit, PTL DEF ApartSpec

LEMMA KeptLive ==
  ASSUME KeepInv
  PROVE  NoDangling
<1> SUFFICES ASSUME NEW r \in Places, At(r) \in Hashes
             PROVE  Live(At(r))
  BY DEF NoDangling
<1>1. PICK k \in Kinds, f \in Files, p \in Positions : r = <<k, f, p>>
  BY DEF Places, Kinds
<1>2. At(r) \in At3(f, p)
  BY <1>1 DEF At, At3, Kinds
<1>3. Known(At(r))
  BY <1>2 DEF KeepInv, StoreInv, RefsInv, Referred
<1>4. Indexed(content[At(r)], At(r))
  BY <1>3, ConstantsAssumption DEF Known, KeepInv, StoreInv, IndexInv
<1> QED
  BY <1>3, <1>4 DEF Known, Indexed, Live

LEMMA KeptAccounted ==
  ASSUME KeepInv
  PROVE  SlotsAccounted
<1> USE DEF KeepInv, StoreInv, CountInv, ControlInv, TypeOK
<1> SUFFICES ASSUME \A t \in Threads : pc[t] = "idle"
             PROVE  /\ \A c \in Contents :
                         index[c] # None => \E f \in Files, p \in Positions :
                                              list[f][p] = index[c]
                    /\ free = Slots \ {slot[h] : h \in {index[c] : c \in Contents} \ {None}}
  BY DEF SlotsAccounted, NothingLeaks
<1>z. None \notin Hashes
  BY ConstantsAssumption
<1>1. \A f \in Files : Nothing(fresh, f) /\ Nothing(stale, f)
  BY DEF Served, FileInv
<1>2. ASSUME NEW c \in Contents, index[c] # None
      PROVE  \E f \in Files, p \in Positions : list[f][p] = index[c]
  <2>1. Kept(index[c]) /\ index[c] \in Hashes
    BY <1>2 DEF IndexInv, PoolTyped
  <2>2. Referred(index[c])
    BY <2>1 DEF Kept, Keeping
  <2>3. PICK f \in Files, p \in Positions : index[c] \in At3(f, p)
    BY <2>2 DEF Referred
  <2>4. fresh[f][p] = None /\ stale[f][p] = None
    BY <1>1 DEF Nothing
  <2> QED
    BY <1>z, <2>1, <2>3, <2>4 DEF At3
<1>3. ASSUME NEW s \in free, NEW c \in Contents, index[c] # None
      PROVE  slot[index[c]] # s
  BY <1>3 DEF IndexInv, Indexed
<1>4. ASSUME NEW s \in Slots, s \notin free
      PROVE  \E c \in Contents : index[c] # None /\ slot[index[c]] = s
  BY <1>4 DEF SlotsKept, SlotKept, Owning
<1>5. free \subseteq Slots
  BY DEF PoolTyped
<1> QED
  BY <1>2, <1>3, <1>4, <1>5

(* As long as no two threads are between looking a content up and counting *)
(* its hash, or between finding it unused and erasing it, at the same time *)
(* (storage.cpp:295-315, hash.cpp:61-66), no chunk list and no operation   *)
(* in progress refers to a hash that was deleted or whose slot holds       *)
(* something else, whatever else the threads do at the same time.          *)
THEOREM ReferencesHold == ApartSpec => []NoDangling
  BY ApartKeeps, KeptLive, PTL

(* Under the same condition the slots the pool hands out are empty         *)
(* (storage.cpp:306-310, hash.cpp:68-69), and when no call is in progress  *)
(* every hash in the index is in some file and every other slot is back in *)
(* the pool.                                                               *)
THEOREM NothingIsLost == ApartSpec => []SlotsAccounted
  BY ApartKeeps, KeptAccounted, PTL

-----------------------------------------------------------------------------
(* When threads change different files and write different contents, each  *)
(* has to do with hashes of its own contents only.                         *)
ItsRequest(t) ==
  pc[t] # "idle" =>
    /\ file[t] \in FilesOf[t]
    /\ \A p \in Positions : Data(t)[p] \in ContentsOf[t] \cup {Zero, None}
ItsRows(t) ==
  \A f \in FilesOf[t], p \in Positions :
     \A h \in At3(f, p) \cap Hashes : content[h] \in ContentsOf[t]
ItsHeld(t) == held[t] \in Hashes => content[held[t]] \in ContentsOf[t]
ItsOwn(t) == ItsRequest(t) /\ ItsRows(t) /\ ItsHeld(t)

LEMMA ItsOwnApart ==
  ASSUME Isolation, CountInv, \A t \in Threads : ItsOwn(t)
  PROVE  Apart
<1> SUFFICES ASSUME NEW t \in Threads, NEW c \in Section(t)
             PROVE  c \in ContentsOf[t]
  BY DEF Apart, Isolation
<1>1. ItsOwn(t) /\ ThreadInv(t)
  BY DEF CountInv, ControlInv
<1>2. CASE pc[t] = "fetch"
  <2>1. c \in Contents /\ \E p \in Positions : Data(t)[p] = c
    BY <1>2 DEF Section, Wanted
  <2> QED
    BY <1>1, <1>2, <2>1, ConstantsAssumption DEF ItsOwn, ItsRequest
<1>3. CASE pc[t] # "fetch"
  BY <1>1, <1>3 DEF Section, ItsOwn, ItsHeld
<1> QED
  BY <1>2, <1>3

LEMMA ItsOwnStep ==
  ASSUME Isolation, KeepInv, \A t \in Threads : ItsOwn(t),
         NEW t \in Threads, Step(t), NEW u \in Threads
  PROVE  ItsOwn(u)'
<1> USE DEF KeepInv, CountInv, ControlInv, TypeOK, ThreadsTyped
<1>z. Zero \notin Hashes /\ None \notin Hashes
  BY ConstantsAssumption
<1>i. ItsOwn(u) /\ ItsOwn(t) /\ ThreadInv(t) /\ ThreadInv(u)
  OBVIOUS
<1>s. FilesOf[u] \subseteq Files /\ FilesOf[t] \subseteq Files
  BY ConstantsAssumption
<1>c. content' = content \/ Fetch(t)
  BY Quiet DEF SameStore, Changes, Put, Insert, Mark, Erase, Clear, Post, hashVars
<1>1. ASSUME NEW h \in Hashes, InUse(h)
      PROVE  content'[h] = content[h]
  <2>1. CASE Fetch(t)
    <3>1. PICK n \in Hashes :
          ~InUse(n) /\ \E z : content' = [content EXCEPT ![n] = z]
      BY <2>1 DEF Fetch
    <3> QED
      BY <1>1, <3>1 DEF HashesTyped
  <2> QED
    BY <1>c, <2>1
<1>h. \A v \in Threads : held[v] \in Hashes => content'[held[v]] = content[held[v]]
  BY <1>1 DEF InUse
<1>2. ItsRows(u)'
  <2> SUFFICES ASSUME NEW f \in FilesOf[u], NEW p \in Positions, NEW h \in Hashes,
                      h \in At3(f, p)'
               PROVE  content'[h] \in ContentsOf[u]
    BY DEF ItsRows
  <2>0. f \in Files
    BY <1>s
  <2>1. CASE h \in At3(f, p)
    <3>1. InUse(h)
      BY <2>0, <2>1 DEF InUse, At3
    <3> QED
      BY <1>1, <1>i, <2>1, <3>1 DEF ItsOwn, ItsRows
  <2>2. CASE h \notin At3(f, p)
    <3>1. h = held[t]
      BY <2>0, <2>2, Gained DEF At3
    <3>2. pc[t] # "idle" /\ f = file[t]
      BY <2>0, <2>2, StepFrame DEF Rows, At3
    <3>3. u = t
      BY <1>i, <3>2 DEF ItsOwn, ItsRequest, Isolation
    <3> QED
      BY <1>h, <1>i, <3>1, <3>3 DEF ItsOwn, ItsHeld
  <2> QED
    BY <2>1, <2>2
<1>3. CASE u # t
  <2>1. /\ pc'[u] = pc[u] /\ file'[u] = file[u] /\ held'[u] = held[u]
        /\ pc[u] # "idle" => Data(u)' = Data(u)
    BY <1>3, Frame
  <2>2. ItsRequest(u)'
    BY <1>i, <2>1 DEF ItsOwn, ItsRequest
  <2>3. ItsHeld(u)'
    BY <1>h, <1>i, <2>1 DEF ItsOwn, ItsHeld
  <2> QED
    BY <1>2, <2>2, <2>3 DEF ItsOwn
<1>4. CASE u = t
  <2>1. ItsRequest(t)'
    <3>1. CASE Begin(t)
      <4>1. PICK f \in FilesOf[t] : /\ file' = [file EXCEPT ![t] = f]
                                    /\ \E r \in RequestsOn(t, f) :
                                         request' = [request EXCEPT ![f] = r]
        BY <3>1 DEF Begin
      <4>2. PICK r \in RequestsOn(t, f) : request' = [request EXCEPT ![f] = r]
        BY <4>1
      <4>3. file'[t] = f /\ request'[f] = r
        BY <1>s, <4>1, <4>2
      <4>4. \A p \in Positions : r.data[p] \in ContentsOf[t] \cup {Zero, None}
        BY <4>2 DEF RequestsOn, WriteRequests, SwapRequests, TruncateRequests
      <4> QED
        BY <4>3, <4>4 DEF ItsRequest, Data
    <3>2. CASE Return(t)
      BY <3>2 DEF Return, ItsRequest, Goto
    <3>3. CASE ~Begin(t) /\ ~Return(t)
      <4>1. pc[t] # "idle" /\ file' = file /\ request' = request
        BY <3>3, BusyStep
      <4> QED
        BY <1>i, <4>1 DEF ItsOwn, ItsRequest, Data
    <3> QED
      BY <3>1, <3>2, <3>3
  <2>2. ItsHeld(t)'
    <3> SUFFICES ASSUME held'[t] \in Hashes
                 PROVE  content'[held'[t]] \in ContentsOf[t]
      BY DEF ItsHeld
    <3>1. CASE held'[t] = held[t]
      BY <1>h, <1>i, <3>1 DEF ItsOwn, ItsHeld
    <3>2. CASE Lookup(t)
      <4>1. PICK p \in todo[t] :
              held' = [held EXCEPT ![t] = IF Data(t)[p] = Zero THEN Zero
                                          ELSE index[Data(t)[p]]]
        BY <3>2 DEF Lookup, Lowest
      <4>2. p \in Mentioned(request[file[t]]) /\ request[file[t]] \in Requests
        BY <3>2, <4>1, <1>i DEF Lookup, ThreadInv, Scanning
      <4>3. Data(t)[p] \in Contents /\ held'[t] = index[Data(t)[p]]
        BY <1>z, <4>1, <4>2 DEF Data, Mentioned, Requests, Chunks
      <4>4. content[held'[t]] = Data(t)[p]
        BY <1>z, <4>3 DEF StoreInv, IndexInv, Indexed
      <4>5. content' = content
        BY <3>2 DEF Lookup, hashVars
      <4>6. pc[t] # "idle" /\ p \in Positions
        BY <3>2, <4>2 DEF Lookup, Mentioned
      <4> QED
        BY <1>i, <4>3, <4>4, <4>5, <4>6, ConstantsAssumption DEF ItsOwn, ItsRequest
    <3>3. CASE Fetch(t)
      <4>1. PICK p \in Positions, n \in Hashes :
              /\ Lowest(p, todo[t])
              /\ content' = [content EXCEPT ![n] = Data(t)[p]]
              /\ held' = [held EXCEPT ![t] = n]
        BY <3>3 DEF Fetch
      <4>2. content'[held'[t]] = Data(t)[p] /\ pc[t] = "fetch"
        BY <3>3, <4>1 DEF Fetch, HashesTyped
      <4>3. Data(t)[p] \in Contents
        BY <4>1, <4>2 DEF StoreInv, HoldInv
      <4> QED
        BY <1>i, <4>2, <4>3, ConstantsAssumption DEF ItsOwn, ItsRequest
    <3>4. CASE Dec(t)
      <4>1. PICK p \in Positions : held' = [held EXCEPT ![t] = stale[file[t]][p]]
        BY <3>4 DEF Dec
      <4>2. held'[t] = stale[file[t]][p] /\ pc[t] # "idle"
        BY <3>4, <4>1 DEF Dec
      <4>3. content' = content
        BY <3>4 DEF Dec
      <4> QED
        BY <1>i, <4>2, <4>3 DEF ItsOwn, ItsRequest, ItsRows, At3
    <3> QED
      BY <3>1, <3>2, <3>3, <3>4, Taken
  <2> QED
    BY <1>2, <1>4, <2>1, <2>2 DEF ItsOwn
<1> QED
  BY <1>3, <1>4

EachItsOwn == \A t \in Threads : ItsOwn(t)

LEMMA IsolatedInit ==
  ASSUME Init
  PROVE  EachItsOwn
  BY ConstantsAssumption
     DEF Init, EachItsOwn, ItsOwn, ItsRequest, ItsRows, ItsHeld, At3, NoChunks

LEMMA IsolatedStep ==
  ASSUME Isolation, KeepInv, EachItsOwn, [Next]_vars
  PROVE  EachItsOwn'
<1>1. ASSUME NEW t \in Threads, Step(t)
      PROVE  EachItsOwn'
  BY <1>1, ItsOwnStep DEF EachItsOwn
<1>2. CASE fileVars' = fileVars /\ content' = content /\ pc' = pc /\ file' = file
           /\ held' = held /\ request' = request
  <2>1. ASSUME NEW t \in Threads
        PROVE  ItsOwn(t)'
    <3>1. ItsOwn(t)
      BY DEF EachItsOwn
    <3> QED
      BY <1>2, <3>1 DEF ItsOwn, ItsRequest, ItsRows, ItsHeld, At3, Data, fileVars
  <2> QED
    BY <2>1 DEF EachItsOwn
<1> QED
  BY <1>1, <1>2 DEF Next, Remount, vars, hashVars

(* Threads that change different files and write different contents never  *)
(* meet in a section, so every behaviour of theirs is one of ApartSpec.    *)
THEOREM IsolatedApart ==
  ASSUME Isolation
  PROVE  Spec => ApartSpec /\ []Apart
<1> DEFINE Inv == KeepInv /\ Apart /\ EachItsOwn
<1>1. Init => Inv
  BY KeepInit, IsolatedInit
<1>2. CountInv /\ EachItsOwn => Apart
  BY ItsOwnApart DEF EachItsOwn
<1>3. CountInv' /\ EachItsOwn' => Apart'
  BY <1>2, PTL
<1>4. Inv /\ [Next]_vars => Apart' /\ Inv'
  <2>1. SUFFICES ASSUME Inv, [Next]_vars
                 PROVE  Apart' /\ Inv'
    OBVIOUS
  <2>2. CountInv' /\ EachItsOwn'
    BY <2>1, CountStep, IsolatedStep DEF KeepInv
  <2>3. KeepInv' /\ Apart'
    BY <2>1, <2>2, <1>3, KeepStep
  <2> QED
    BY <2>2, <2>3
<1>5. Inv /\ [Next]_vars => [Next /\ Apart']_vars
  BY <1>4
<1>6. Inv => Apart
  OBVIOUS
<1> HIDE DEF Inv
<1> QED
  BY <1>1, <1>4, <1>5, <1>6, PTL DEF Spec, ApartSpec

-----------------------------------------------------------------------------
(* What a call has done so far, at each label.                             *)
KindInv(t) ==
  /\ pc[t] \in {"grow", "update"} => Op(t) = "write"
  /\ pc[t] = "cut" => Op(t) = "truncate"
  /\ pc[t] = "swap" => Op(t) = "swap" /\ todo[t] = {}
  /\ pc[t] = "count" => Op(t) # "swap"
  /\ pc[t] \in Scanning => Op(t) # "truncate"

(* A write has made the file long enough before it looks at the chunks.    *)
GrownInv(t) ==
  pc[t] \notin {"idle", "grow"} /\ Op(t) = "write" =>
    \A p \in Mentioned(request[file[t]]) : list[file[t]][p] # None

(* The new hashes have the contents asked for, a write leaves out only     *)
(* what the file holds already, and a swap nothing.                        *)
FreshInv(t) ==
  LET f == file[t]
  IN pc[t] \in Scanning \cup {"update", "swap"} => \A p \in Positions :
       /\ fresh[f][p] # None => ContentOf(fresh[f][p]) = Data(t)[p]
       /\ Data(t)[p] # None /\ p \notin todo[t] /\ fresh[f][p] = None =>
            Op(t) = "write" /\ ContentOf(list[f][p]) = Data(t)[p]

HeldInv(t) ==
  pc[t] \in {"put", "insert", "inc"} =>
    \A p \in Positions : Lowest(p, todo[t]) => ContentOf(held[t]) = Data(t)[p]

(* Once the list is changed, the file holds what was asked for.            *)
Ending == Dropping \cup {"count", "rest", "done"}

DoneInv(t) ==
  LET f == file[t]
  IN pc[t] \in Ending =>
       /\ Op(t) = "write" /\ pc[t] # "count" => \A p \in Positions :
            Data(t)[p] # None => ContentOf(list[f][p]) = Data(t)[p]
       /\ Op(t) = "swap" => \A p \in Positions : ContentOf(list[f][p]) = Data(t)[p]
       /\ Op(t) = "truncate" => \A p \in Positions :
            list[f][p] = None <=> Data(t)[p] = None

WorkInv(t) == KindInv(t) /\ GrownInv(t) /\ FreshInv(t) /\ HeldInv(t) /\ DoneInv(t)

(* Files have no gaps, and no request makes one.                           *)
ShapeInv(f) ==
  /\ \A p, q \in Positions : p < q /\ list[f][q] # None => list[f][p] # None
  /\ request[f] # None /\ request[f].op # "write" => IsPrefixSet(Mentioned(request[f]))

PromiseInv == (\A t \in Threads : WorkInv(t)) /\ (\A f \in Files : ShapeInv(f))

-----------------------------------------------------------------------------
LEMMA ContentKept ==
  ASSUME ControlInv, NEW t \in Threads, Step(t), NEW h, h \in Hashes => InUse(h)
  PROVE  ContentOf(h)' = ContentOf(h)
<1>1. CASE Fetch(t)
  <2>1. PICK n \in Hashes :
          ~InUse(n) /\ \E z : content' = [content EXCEPT ![n] = z]
    BY <1>1 DEF Fetch
  <2> QED
    BY <2>1 DEF ControlInv, TypeOK, HashesTyped, ContentOf
<1>2. CASE ~Fetch(t)
  <2>1. content' = content
    BY <1>2, Quiet DEF SameStore, Changes, Put, Insert, Mark, Erase, Clear, Post, hashVars
  <2> QED
    BY <2>1 DEF ContentOf
<1> QED
  BY <1>1, <1>2

LEMMA ReferredKept ==
  ASSUME ControlInv, NEW t \in Threads, Step(t),
         NEW f \in Files, NEW p \in Positions, NEW h \in At3(f, p)
  PROVE  ContentOf(h)' = ContentOf(h)
<1>1. h \in Hashes => InUse(h)
  BY DEF InUse, At3
<1> QED
  BY <1>1, ContentKept

(* What a step of t leaves alone in the file of another thread.            *)
LEMMA FrameRows ==
  ASSUME ControlInv, NEW t \in Threads, Step(t), NEW u \in Threads, u # t, pc[u] # "idle"
  PROVE  /\ list'[file[u]] = list[file[u]] /\ fresh'[file[u]] = fresh[file[u]]
         /\ request'[file[u]] = request[file[u]] /\ file[u] \in Files
<1>1. ThreadInv(u) /\ file[u] \in Files /\ request[file[u]] \in Requests
  BY DEF ControlInv, ThreadInv
<1>2. pc[t] = "idle" \/ file[u] # file[t]
  BY DEF ControlInv, FileInv
<1>3. \A g \in Files : g = file[u] => Rows(g)' = Rows(g) /\ request'[g] = request[g]
  BY <1>1, <1>2, StepFrame, RequestsAssumption
<1> QED
  BY <1>1, <1>3 DEF Rows

LEMMA WorkOthers ==
  ASSUME ControlInv, NEW t \in Threads, Step(t), NEW u \in Threads, u # t, WorkInv(u)
  PROVE  WorkInv(u)'
<1> USE DEF ControlInv
<1>1. /\ pc'[u] = pc[u] /\ file'[u] = file[u] /\ todo'[u] = todo[u] /\ held'[u] = held[u]
      /\ pc[u] # "idle" => Data(u)' = Data(u)
  BY Frame
<1>2. CASE pc[u] = "idle"
  BY <1>1, <1>2 DEF WorkInv, KindInv, GrownInv, FreshInv, HeldInv, DoneInv, Scanning,
                    Ending, Dropping
<1>3. CASE pc[u] # "idle"
  <2>1. /\ list'[file[u]] = list[file[u]] /\ fresh'[file[u]] = fresh[file[u]]
        /\ request'[file[u]] = request[file[u]] /\ file[u] \in Files
    BY <1>3, FrameRows
  <2>2. Op(u)' = Op(u)
    BY <1>1, <2>1 DEF Op
  <2>3. ASSUME NEW p \in Positions
        PROVE  /\ ContentOf(list[file[u]][p])' = ContentOf(list[file[u]][p])
               /\ ContentOf(fresh[file[u]][p])' = ContentOf(fresh[file[u]][p])
    <3>1. \A h \in At3(file[u], p) : ContentOf(h)' = ContentOf(h)
      BY <2>1, ReferredKept
    <3> QED
      BY <1>1, <2>1, <3>1 DEF At3, ContentOf
  <2>4. ContentOf(held[u])' = ContentOf(held[u])
    <3>1. \A h : h = held[u] => ContentOf(h)' = ContentOf(h)
      BY ContentKept DEF InUse
    <3> QED
      BY <1>1, <3>1 DEF ContentOf
  <2>5. KindInv(u)' /\ GrownInv(u)' /\ HeldInv(u)'
    BY <1>1, <1>3, <2>1, <2>2, <2>4
       DEF WorkInv, KindInv, GrownInv, HeldInv, Mentioned, Lowest
  <2>6. FreshInv(u)' /\ DoneInv(u)'
    BY <1>1, <1>3, <2>1, <2>2, <2>3 DEF WorkInv, FreshInv, DoneInv
  <2> QED
    BY <2>5, <2>6 DEF WorkInv
<1> QED
  BY <1>2, <1>3

-----------------------------------------------------------------------------
LEMMA WorkBegin ==
  ASSUME ControlInv, NEW t \in Threads, Begin(t)
  PROVE  WorkInv(t)'
<1> USE DEF ControlInv, TypeOK, ThreadsTyped
<1>1. PICK f \in FilesOf[t] :
        /\ request[f] = None
        /\ file' = [file EXCEPT ![t] = f]
        /\ \E r \in RequestsOn(t, f) :
             /\ request' = [request EXCEPT ![f] = r]
             /\ todo' = [todo EXCEPT ![t] = Mentioned(r)]
             /\ Goto(t, CASE r.op = "write" -> "grow"
                          [] r.op = "swap" -> "scan"
                          [] r.op = "truncate" -> "cut")
  BY DEF Begin
<1>2. PICK r \in RequestsOn(t, f) :
        /\ request' = [request EXCEPT ![f] = r]
        /\ todo' = [todo EXCEPT ![t] = Mentioned(r)]
        /\ Goto(t, CASE r.op = "write" -> "grow"
                     [] r.op = "swap" -> "scan"
                     [] r.op = "truncate" -> "cut")
  BY <1>1
<1>3. f \in Files /\ r \in Requests
  BY ConstantsAssumption, RequestsTyped
<1>4. file'[t] = f /\ request'[f] = r /\ todo'[t] = Mentioned(r)
  BY <1>1, <1>2, <1>3
<1>5. Op(t)' = r.op /\ Data(t)' = r.data
  BY <1>4 DEF Op, Data
<1>6. pc'[t] \in {"grow", "scan", "cut"}
  BY BeginLabel
<1>7. /\ pc'[t] = "grow" => r.op = "write"
      /\ pc'[t] = "cut" => r.op = "truncate"
      /\ pc'[t] = "scan" => r.op = "swap"
  BY <1>2, <1>3 DEF Goto, Requests
<1>8. KindInv(t)' /\ GrownInv(t)' /\ HeldInv(t)' /\ DoneInv(t)'
  BY <1>5, <1>6, <1>7 DEF KindInv, GrownInv, HeldInv, DoneInv, Ending, Dropping, Scanning
<1>9. FreshInv(t)'
  <2>1. fresh' = fresh /\ list' = list
    BY DEF Begin, fileVars
  <2>2. \A p \in Positions : fresh'[f][p] = None /\ (r.data[p] # None => p \in Mentioned(r))
    BY <1>1, <1>3, <2>1 DEF FileInv, Nothing, Mentioned
  <2> QED
    BY <1>4, <1>5, <2>2 DEF FreshInv
<1> QED
  BY <1>8, <1>9 DEF WorkInv

LEMMA WorkWhole ==
  ASSUME ControlInv, NEW t \in Threads, Grow(t) \/ Whole(t), WorkInv(t)
  PROVE  WorkInv(t)'
<1> USE DEF ControlInv, TypeOK, ThreadsTyped
<1> DEFINE f == file[t]
<1>z. Zero \notin Hashes /\ None \notin Hashes /\ Zero # None
  BY ConstantsAssumption
<1>0. f \in Files /\ request[f] \in Requests /\ pc[t] \in {"grow", "cut", "count", "swap"}
  BY DEF Grow, Whole, Cut, Count, Swap, ThreadInv
<1>1. file' = file /\ request' = request
  BY DEF Grow, Whole, Cut, Count, Swap
<1>2. Op(t)' = Op(t) /\ Data(t)' = Data(t)
      /\ Mentioned(request[f])' = Mentioned(request[f])
  BY <1>1 DEF Op, Data, Mentioned
<1>3. Op(t) \in {"write", "swap", "truncate"}
  BY <1>0 DEF Op, Requests
<1>4. \A p \in Positions : Data(t)[p] # None <=> p \in Mentioned(request[f])
  BY DEF Data, Mentioned
<1>5. CASE Grow(t)
  <2>1. Op(t) = "write" /\ fresh' = fresh
    BY <1>5 DEF Grow, WorkInv, KindInv
  <2>2. pc'[t] \in {"scan", "count"} /\ (pc'[t] = "scan" => todo'[t] = Mentioned(request[f]))
    BY <1>5 DEF Grow, Goto, ThreadInv
  <2>3. ASSUME NEW p \in Mentioned(request[f])
        PROVE  list'[f][p] # None
    <3>1. p \in Positions /\ p <= p
      BY DEF Mentioned, Positions
    <3>2. CASE list[f][p] # None
      BY <1>5, <1>z, <1>0, <3>1, <3>2 DEF Grow, FilesTyped
    <3>3. CASE list[f][p] = None
      BY <1>5, <1>z, <1>0, <3>1, <3>3 DEF Grow, FilesTyped
    <3> QED
      BY <3>2, <3>3
  <2>4. \A p \in Positions : fresh'[f][p] = None
    BY <1>5, <1>0, <2>1 DEF ThreadInv, Nothing, Grow
  <2>5. KindInv(t)' /\ HeldInv(t)' /\ DoneInv(t)'
    BY <1>2, <2>1, <2>2 DEF KindInv, HeldInv, DoneInv, Scanning, Ending, Dropping
  <2>6. GrownInv(t)' /\ FreshInv(t)'
    BY <1>1, <1>2, <1>4, <2>1, <2>2, <2>3, <2>4 DEF GrownInv, FreshInv, Scanning
  <2> QED
    BY <2>5, <2>6 DEF WorkInv
<1>6. CASE Cut(t)
  <2>1. Op(t) = "truncate"
    BY <1>6 DEF Cut, WorkInv, KindInv
  <2>2. pc'[t] \in {"dec", "count", "rest"}
    BY <1>6 DEF Cut, Goto
  <2>3. \A p \in Positions : list'[f][p] = None <=> p \notin Mentioned(request[f])
    BY <1>6, <1>z, <1>0 DEF Cut, FilesTyped
  <2>4. KindInv(t)' /\ HeldInv(t)' /\ GrownInv(t)' /\ FreshInv(t)'
    BY <1>2, <2>1, <2>2 DEF KindInv, HeldInv, GrownInv, FreshInv, Scanning
  <2>5. DoneInv(t)'
    BY <1>1, <1>2, <1>4, <2>1, <2>3 DEF DoneInv
  <2> QED
    BY <2>4, <2>5 DEF WorkInv
<1>7. CASE Count(t)
  <2>1. /\ list' = list /\ fresh' = fresh /\ Op(t) # "swap"
        /\ \A p \in Positions : fresh[f][p] = None
    BY <1>7, <1>0 DEF Count, fileVars, WorkInv, KindInv, ThreadInv, Nothing
  <2>2. /\ Op(t) = "write" => pc'[t] = "scan" /\ todo'[t] = Mentioned(request[f])
        /\ Op(t) = "truncate" => pc'[t] = "rest"
    BY <1>7, <1>0 DEF Count, Goto, Mentioned
  <2>3. KindInv(t)' /\ HeldInv(t)'
    BY <1>2, <1>3, <2>1, <2>2 DEF KindInv, HeldInv, Scanning
  <2>4. GrownInv(t)'
    BY <1>1, <1>2, <1>7, <2>1 DEF GrownInv, WorkInv, Count
  <2>5. FreshInv(t)'
    BY <1>1, <1>2, <1>3, <1>4, <2>1, <2>2 DEF FreshInv, Scanning
  <2>6. DoneInv(t)'
    BY <1>1, <1>2, <1>3, <1>7, <2>1, <2>2 DEF DoneInv, WorkInv, Count, Ending, Dropping
  <2> QED
    BY <2>3, <2>4, <2>5, <2>6 DEF WorkInv
<1>8. CASE Swap(t)
  <2>1. Op(t) = "swap" /\ todo[t] = {} /\ content' = content
    BY <1>8 DEF Swap, WorkInv, KindInv, hashVars
  <2>2. pc'[t] = "dec" /\ list'[f] = fresh[f]
    BY <1>8, <1>0 DEF Swap, Goto, FilesTyped
  <2>3. KindInv(t)' /\ HeldInv(t)' /\ GrownInv(t)' /\ FreshInv(t)'
    BY <1>2, <2>1, <2>2 DEF KindInv, HeldInv, GrownInv, FreshInv, Scanning
  <2>4. ASSUME NEW p \in Positions
        PROVE  ContentOf(fresh[f][p]) = Data(t)[p]
    BY <1>8, <1>z, <2>1 DEF Swap, WorkInv, FreshInv, ContentOf
  <2>5. \A p \in Positions : ContentOf(list'[f][p]) = Data(t)[p]
    BY <2>2, <2>4
  <2>6. DoneInv(t)'
    BY <1>1, <1>2, <2>1, <2>5 DEF DoneInv, ContentOf
  <2> QED
    BY <2>3, <2>6 DEF WorkInv
<1> QED
  BY <1>5, <1>6, <1>7, <1>8 DEF Whole

LEMMA WorkUpdate ==
  ASSUME ControlInv, NEW t \in Threads, Update(t) \/ UpdateDone(t), WorkInv(t)
  PROVE  WorkInv(t)'
<1> USE DEF ControlInv, TypeOK, ThreadsTyped
<1> DEFINE f == file[t]
<1>z. Zero \notin Hashes /\ None \notin Hashes /\ Zero # None
  BY ConstantsAssumption
<1>0. /\ f \in Files /\ request[f] \in Requests /\ pc[t] = "update" /\ Op(t) = "write"
      /\ todo[t] = {p \in Positions : fresh[f][p] # None}
  BY DEF Update, UpdateDone, ThreadInv, WorkInv, KindInv
<1>1. file' = file /\ request' = request /\ content' = content
  BY DEF Update, UpdateDone, hashVars
<1>2. Op(t)' = Op(t) /\ Data(t)' = Data(t)
      /\ Mentioned(request[f])' = Mentioned(request[f])
  BY <1>1 DEF Op, Data, Mentioned
<1>3. CASE Update(t)
  <2>1. PICK p \in Positions :
          /\ p \in todo[t]
          /\ list' = [list EXCEPT ![f][p] = fresh[f][p]]
          /\ fresh' = [fresh EXCEPT ![f][p] = None]
          /\ todo' = [todo EXCEPT ![t] = @ \ {p}]
    BY <1>3 DEF Update, Lowest
  <2>2. /\ list'[f][p] = fresh[f][p] /\ fresh'[f][p] = None /\ fresh[f][p] # None
        /\ \A q \in Positions : q # p => list'[f][q] = list[f][q]
                                         /\ fresh'[f][q] = fresh[f][q]
        /\ todo'[t] = todo[t] \ {p} /\ pc' = pc
    BY <1>0, <1>3, <2>1 DEF Update, FilesTyped
  <2>3. ContentOf(fresh[f][p]) = Data(t)[p]
    BY <1>0, <2>2 DEF WorkInv, FreshInv
  <2>4. KindInv(t)' /\ HeldInv(t)' /\ DoneInv(t)'
    BY <1>0, <1>2, <2>2 DEF KindInv, HeldInv, DoneInv, Scanning, Ending, Dropping
  <2>5. GrownInv(t)'
    BY <1>0, <1>1, <1>2, <2>2 DEF GrownInv, WorkInv, Mentioned
  <2>6. FreshInv(t)'
    <3> SUFFICES ASSUME NEW q \in Positions
                 PROVE  /\ fresh'[f][q] # None => ContentOf(fresh'[f][q]) = Data(t)[q]
                        /\ Data(t)[q] # None /\ q \notin todo'[t] /\ fresh'[f][q] = None =>
                             ContentOf(list'[f][q]) = Data(t)[q]
      BY <1>0, <1>1, <1>2 DEF FreshInv, ContentOf
    <3>1. CASE q = p
      BY <2>2, <2>3, <3>1
    <3>2. CASE q # p
      BY <1>0, <2>2, <3>2 DEF WorkInv, FreshInv
    <3> QED
      BY <3>1, <3>2
  <2> QED
    BY <2>4, <2>5, <2>6 DEF WorkInv
<1>4. CASE UpdateDone(t)
  <2>1. list' = list /\ fresh' = fresh /\ pc'[t] = "dec" /\ todo[t] = {}
    BY <1>4 DEF UpdateDone, fileVars, Goto
  <2>2. KindInv(t)' /\ HeldInv(t)' /\ FreshInv(t)'
    BY <1>0, <1>2, <2>1 DEF KindInv, HeldInv, FreshInv, Scanning
  <2>3. GrownInv(t)'
    BY <1>0, <1>1, <1>2, <2>1 DEF GrownInv, WorkInv
  <2>4. \A p \in Positions : Data(t)[p] # None => ContentOf(list[f][p]) = Data(t)[p]
    BY <1>0, <2>1 DEF WorkInv, FreshInv
  <2>5. DoneInv(t)'
    BY <1>0, <1>1, <1>2, <2>1, <2>4 DEF DoneInv, ContentOf
  <2> QED
    BY <2>2, <2>3, <2>5 DEF WorkInv
<1> QED
  BY <1>3, <1>4

(* The loop over the chunks leaves the list alone, and of the new hashes   *)
(* only incRefCnt adds one.                                                *)
ScanStep(t) ==
  SkipSame(t) \/ ScanDone(t) \/ Lookup(t) \/ Fetch(t) \/ Put(t) \/ Insert(t) \/ Alive(t)

LEMMA ScanFrame ==
  ASSUME ControlInv, NEW t \in Threads, ScanStep(t) \/ Inc(t)
  PROVE  /\ file[t] \in Files /\ request[file[t]] \in Requests /\ pc[t] \in Scanning
         /\ file' = file /\ request' = request /\ list' = list
         /\ Op(t)' = Op(t) /\ Data(t)' = Data(t)
         /\ \A p \in Positions : /\ ContentOf(list[file[t]][p])' = ContentOf(list[file[t]][p])
                                 /\ (fresh' = fresh =>
                                       ContentOf(fresh[file[t]][p])' = ContentOf(fresh[file[t]][p]))
<1> USE DEF ControlInv
<1>1. pc[t] \in Scanning
  BY DEF ScanStep, Inc, SkipSame, ScanDone, Lookup, Fetch, Put, Insert, Alive, Scanning
<1>2. file[t] \in Files /\ request[file[t]] \in Requests
  BY <1>1 DEF ThreadInv, Scanning
<1>3. file' = file /\ request' = request /\ list' = list
  BY DEF ScanStep, Inc, SkipSame, ScanDone, Lookup, Fetch, Put, Insert, Alive, fileVars
<1>4. Op(t)' = Op(t) /\ Data(t)' = Data(t)
  BY <1>3 DEF Op, Data
<1>5. Step(t)
  BY DEF ScanStep, Step, Write, New
<1>6. ASSUME NEW p \in Positions
      PROVE  \A h \in At3(file[t], p) : ContentOf(h)' = ContentOf(h)
  BY <1>2, <1>5, ReferredKept
<1>7. ASSUME NEW p \in Positions
      PROVE  /\ ContentOf(list[file[t]][p])' = ContentOf(list[file[t]][p])
             /\ (fresh' = fresh =>
                   ContentOf(fresh[file[t]][p])' = ContentOf(fresh[file[t]][p]))
  BY <1>3, <1>6 DEF At3, ContentOf
<1> QED
  BY <1>1, <1>2, <1>3, <1>4, <1>7

LEMMA WorkScan ==
  ASSUME KeepInv, NEW t \in Threads, ScanStep(t) \/ Inc(t), WorkInv(t)
  PROVE  WorkInv(t)'
<1> USE DEF KeepInv, CountInv, ControlInv, TypeOK, ThreadsTyped
<1> DEFINE f == file[t]
<1>z. Zero \notin Hashes /\ None \notin Hashes /\ Zero # None /\ None \notin Contents
  BY ConstantsAssumption
<1>s. /\ f \in Files /\ request[f] \in Requests /\ pc[t] \in Scanning
      /\ file' = file /\ request' = request /\ list' = list
      /\ Op(t)' = Op(t) /\ Data(t)' = Data(t)
      /\ \A p \in Positions : /\ ContentOf(list[f][p])' = ContentOf(list[f][p])
                              /\ (fresh' = fresh =>
                                    ContentOf(fresh[f][p])' = ContentOf(fresh[f][p]))
  BY ScanFrame
<1>i. KindInv(t) /\ GrownInv(t) /\ FreshInv(t) /\ HeldInv(t) /\ ThreadInv(t)
  BY DEF WorkInv
<1>m. Op(t) \in {"write", "swap"}
  BY <1>s, <1>i DEF KindInv, Op, Requests
<1>p. pc'[t] \in Scanning \cup {"update", "swap"} /\ pc'[t] \notin Ending
  <2>1. CASE ScanDone(t)
    BY <2>1 DEF ScanDone, Goto, Ending, Dropping
  <2>2. CASE ~ScanDone(t)
    BY <2>2 DEF ScanStep, SkipSame, Lookup, Fetch, Put, Insert, Alive, Inc, Goto,
                Scanning, Ending, Dropping
  <2> QED
    BY <2>1, <2>2
<1>1. KindInv(t)'
  <2>1. CASE ScanDone(t)
    BY <1>s, <1>m, <2>1 DEF ScanDone, KindInv, Goto, Scanning
  <2>2. CASE ~ScanDone(t)
    <3>1. pc'[t] \in Scanning
      BY <2>2 DEF ScanStep, SkipSame, Lookup, Fetch, Put, Insert, Alive, Inc, Goto, Scanning
    <3> QED
      BY <1>s, <1>m, <3>1 DEF KindInv, Scanning
  <2> QED
    BY <2>1, <2>2
<1>2. GrownInv(t)'
  BY <1>s, <1>i DEF GrownInv, Mentioned, Scanning
<1>3. DoneInv(t)'
  BY <1>p DEF DoneInv
<1>4. CASE SkipSame(t)
  <2>1. PICK p \in Positions : SameChunk(t, p) /\ todo' = [todo EXCEPT ![t] = @ \ {p}]
    BY <1>4 DEF SkipSame
  <2>2. fresh' = fresh /\ pc' = pc /\ pc[t] = "scan"
    BY <1>4 DEF SkipSame, fileVars
  <2>3. FreshInv(t)'
    BY <1>s, <1>i, <2>1, <2>2 DEF FreshInv, SameChunk, Scanning
  <2>4. HeldInv(t)'
    BY <2>2 DEF HeldInv
  <2> QED
    BY <1>1, <1>2, <1>3, <2>3, <2>4 DEF WorkInv
<1>5. CASE ScanDone(t)
  <2>1. /\ todo[t] = {} /\ fresh' = fresh /\ pc[t] = "scan" /\ pc'[t] \in {"update", "swap"}
        /\ Op(t) = "write" => todo'[t] = {p \in Positions : fresh[f][p] # None}
    BY <1>5 DEF ScanDone, fileVars, Goto
  <2>2. FreshInv(t)'
    BY <1>s, <1>i, <2>1 DEF FreshInv, Scanning
  <2>3. HeldInv(t)'
    BY <2>1 DEF HeldInv
  <2> QED
    BY <1>1, <1>2, <1>3, <2>2, <2>3 DEF WorkInv
<1>6. CASE Lookup(t) \/ Fetch(t) \/ Put(t) \/ Insert(t) \/ Alive(t)
  <2>1. todo' = todo /\ fresh' = fresh
    BY <1>6 DEF Lookup, Fetch, Put, Insert, Alive, fileVars
  <2>2. FreshInv(t)'
    BY <1>s, <1>i, <2>1 DEF FreshInv
  <2>3. HeldInv(t)'
    <3> SUFFICES ASSUME pc'[t] \in {"put", "insert", "inc"},
                        NEW p \in Positions, Lowest(p, todo[t])
                 PROVE  ContentOf(held[t])' = Data(t)[p]
      BY <1>s, <2>1 DEF HeldInv, Lowest
    <3>1. CASE Lookup(t)
      <4>1. PICK q \in todo[t] :
              /\ Lowest(q, todo[t])
              /\ held' = [held EXCEPT ![t] = IF Data(t)[q] = Zero THEN Zero
                                             ELSE index[Data(t)[q]]]
              /\ Goto(t, IF held'[t] = None THEN "fetch" ELSE "inc")
        BY <1>z, <3>1 DEF Lookup, Lowest
      <4>2. q = p /\ content' = content
        BY <3>1, <4>1 DEF Lookup, hashVars, Lowest, Positions
      <4>3. q \in Mentioned(request[f])
        BY <1>i, <1>s, <4>1 DEF ThreadInv
      <4>4. Data(t)[q] \in Chunks
        BY <1>s, <4>3 DEF Data, Mentioned, Requests
      <4>5. CASE Data(t)[q] = Zero
        BY <1>z, <4>1, <4>2, <4>5 DEF ContentOf
      <4>6. CASE Data(t)[q] # Zero
        <5>1. held'[t] = index[Data(t)[q]] /\ Data(t)[q] \in Contents
          BY <4>1, <4>4, <4>6 DEF Chunks
        <5>2. held'[t] # None /\ held'[t] \in Hashes
          BY <4>1, <5>1 DEF Goto, PoolTyped
        <5>3. content[held'[t]] = Data(t)[q]
          BY <5>1, <5>2 DEF StoreInv, IndexInv, Indexed
        <5> QED
          BY <4>2, <5>2, <5>3 DEF ContentOf
      <4> QED
        BY <4>5, <4>6
    <3>2. CASE Fetch(t)
      <4>1. PICK q \in Positions, h \in Hashes :
              /\ Lowest(q, todo[t])
              /\ content' = [content EXCEPT ![h] = Data(t)[q]]
              /\ held' = [held EXCEPT ![t] = h]
        BY <3>2 DEF Fetch
      <4>2. q = p /\ held'[t] = h /\ content'[h] = Data(t)[q]
        BY <4>1 DEF Lowest, Positions, HashesTyped
      <4> QED
        BY <4>2 DEF ContentOf
    <3>3. CASE Put(t) \/ Insert(t)
      <4>1. held' = held /\ content' = content /\ pc[t] \in {"put", "insert"}
        BY <3>3 DEF Put, Insert, hashVars
      <4> QED
        BY <1>i, <4>1 DEF HeldInv, ContentOf
    <3>4. CASE Alive(t)
      BY <3>4 DEF Alive, Goto
    <3> QED
      BY <1>6, <3>1, <3>2, <3>3, <3>4
  <2> QED
    BY <1>1, <1>2, <1>3, <2>2, <2>3 DEF WorkInv
<1>7. CASE Inc(t)
  <2>1. PICK p \in Positions :
          /\ Lowest(p, todo[t])
          /\ fresh' = [fresh EXCEPT ![f][p] = held[t]]
          /\ todo' = [todo EXCEPT ![t] = @ \ {p}]
    BY <1>7 DEF Inc
  <2>2. /\ pc[t] = "inc" /\ pc'[t] = "alive" /\ content' = content
        /\ fresh'[f][p] = held[t] /\ todo'[t] = todo[t] \ {p}
        /\ \A q \in Positions : q # p => fresh'[f][q] = fresh[f][q]
    BY <1>7, <1>s, <2>1 DEF Inc, Goto, FilesTyped
  <2>3. held[t] # None /\ ContentOf(held[t]) = Data(t)[p]
    BY <1>i, <1>z, <2>1, <2>2 DEF ThreadInv, HeldInv, Refs
  <2>4. FreshInv(t)'
    <3> SUFFICES ASSUME NEW q \in Positions
                 PROVE  /\ fresh'[f][q] # None => ContentOf(fresh'[f][q]) = Data(t)[q]
                        /\ Data(t)[q] # None /\ q \notin todo'[t] /\ fresh'[f][q] = None =>
                             Op(t) = "write" /\ ContentOf(list[f][q]) = Data(t)[q]
      BY <1>s, <2>2 DEF FreshInv, ContentOf
    <3>1. CASE q = p
      BY <2>2, <2>3, <3>1
    <3>2. CASE q # p
      BY <1>i, <1>s, <2>2, <3>2 DEF FreshInv
    <3> QED
      BY <3>1, <3>2
  <2>5. HeldInv(t)'
    BY <2>2 DEF HeldInv
  <2> QED
    BY <1>1, <1>2, <1>3, <2>4, <2>5 DEF WorkInv
<1> QED
  BY <1>4, <1>5, <1>6, <1>7 DEF ScanStep

(* Counting down changes neither lists nor contents that are referred to.  *)
LEMMA WorkDrop ==
  ASSUME ControlInv, NEW t \in Threads, Drop(t) \/ Delete(t), WorkInv(t)
  PROVE  WorkInv(t)'
<1> USE DEF ControlInv, TypeOK, ThreadsTyped
<1>1. pc[t] \in Dropping /\ pc'[t] \in Dropping \cup {"rest", "done"}
  BY DEF Drop, Dec, Flags, CheckZero, DecDone, Delete, Mark, CheckOwn, Erase, Clear, Post,
         Goto, Dropping
<1>2. file' = file /\ request' = request /\ list' = list /\ content' = content
  BY DEF Drop, Dec, Flags, CheckZero, DecDone, Delete, Mark, CheckOwn, Erase, Clear, Post,
         fileVars, hashVars
<1>3. Op(t)' = Op(t) /\ Data(t)' = Data(t)
  BY <1>2 DEF Op, Data
<1>4. KindInv(t)' /\ FreshInv(t)' /\ HeldInv(t)'
  BY <1>1 DEF KindInv, FreshInv, HeldInv, Dropping, Scanning
<1>5. GrownInv(t)'
  BY <1>1, <1>2, <1>3 DEF GrownInv, WorkInv, Mentioned, Dropping
<1>6. DoneInv(t)'
  BY <1>1, <1>2, <1>3 DEF DoneInv, WorkInv, ContentOf, Ending, Dropping
<1> QED
  BY <1>4, <1>5, <1>6 DEF WorkInv

LEMMA WorkStep ==
  ASSUME KeepInv, NEW t \in Threads, Step(t), \A u \in Threads : WorkInv(u), NEW u \in Threads
  PROVE  WorkInv(u)'
<1> USE DEF KeepInv, CountInv
<1>1. CASE u # t
  BY <1>1, WorkOthers
<1>2. CASE Return(t)
  <2>1. pc'[t] = "idle"
    BY <1>2 DEF Return, Goto, ControlInv, TypeOK, ThreadsTyped
  <2>2. WorkInv(t)'
    BY <2>1 DEF WorkInv, KindInv, GrownInv, FreshInv, HeldInv, DoneInv, Ending, Dropping,
                Scanning
  <2> QED
    BY <1>1, <2>2
<1>3. CASE ~Return(t)
  <2>1. WorkInv(t)'
    BY <1>3, WorkBegin, WorkWhole, WorkUpdate, WorkScan, WorkDrop
       DEF Step, Write, New, ScanStep
  <2> QED
    BY <1>1, <2>1
<1> QED
  BY <1>2, <1>3

-----------------------------------------------------------------------------
(* What the parts above say of the chunk lists without the contents of     *)
(* hashes: it holds whatever the index finds, and so needs nothing about   *)
(* the sections of two threads.                                            *)
FillInv(t) ==
  LET f == file[t]
  IN pc[t] \in Scanning \cup {"update", "swap"} => \A p \in Positions :
       /\ fresh[f][p] # None => p \in Mentioned(request[f])
       /\ Op(t) = "swap" /\ p \in Mentioned(request[f]) \ todo[t] => fresh[f][p] # None

PlanInv(t) == KindInv(t) /\ GrownInv(t) /\ FillInv(t)

LEMMA PlanFromWork ==
  ASSUME ControlInv, NEW t \in Threads, WorkInv(t)
  PROVE  PlanInv(t)
<1> USE DEF ControlInv, TypeOK
<1>1. CASE pc[t] \in Scanning \cup {"update", "swap"}
  <2>1. file[t] \in Files
    BY <1>1 DEF ThreadInv, Scanning
  <2>2. ASSUME NEW p \in Positions, fresh[file[t]][p] # None
        PROVE  Data(t)[p] # None
    <3>1. Data(t)[p] = ContentOf(fresh[file[t]][p])
      BY <1>1, <2>2 DEF WorkInv, FreshInv
    <3>2. fresh[file[t]][p] \in Refs
      BY <2>1, <2>2 DEF FilesTyped
    <3> QED
      BY <3>1, <3>2, ConstantsAssumption DEF ContentOf, Refs, HashesTyped, Chunks
  <2>3. ASSUME NEW p \in Positions, Op(t) = "swap", Data(t)[p] # None, p \notin todo[t]
        PROVE  fresh[file[t]][p] # None
    BY <1>1, <2>3 DEF WorkInv, FreshInv
  <2>4. \A p \in Positions : p \in Mentioned(request[file[t]]) <=> Data(t)[p] # None
    BY DEF Mentioned, Data
  <2>5. FillInv(t)
    BY <2>2, <2>3, <2>4 DEF FillInv
  <2> QED
    BY <2>5 DEF WorkInv, PlanInv
<1>2. CASE pc[t] \notin Scanning \cup {"update", "swap"}
  BY <1>2 DEF WorkInv, PlanInv, FillInv
<1> QED
  BY <1>1, <1>2

LEMMA PlanOthers ==
  ASSUME ControlInv, NEW t \in Threads, Step(t), NEW u \in Threads, u # t, PlanInv(u)
  PROVE  PlanInv(u)'
<1>1. pc'[u] = pc[u] /\ file'[u] = file[u] /\ todo'[u] = todo[u]
  BY Frame
<1>2. CASE pc[u] = "idle"
  BY <1>1, <1>2 DEF PlanInv, KindInv, GrownInv, FillInv, Scanning
<1>3. CASE pc[u] # "idle"
  <2>1. /\ list'[file[u]] = list[file[u]] /\ fresh'[file[u]] = fresh[file[u]]
        /\ request'[file[u]] = request[file[u]]
    BY <1>3, FrameRows
  <2>2. Op(u)' = Op(u)
    BY <1>1, <2>1 DEF Op
  <2> QED
    BY <1>1, <1>3, <2>1, <2>2 DEF PlanInv, KindInv, GrownInv, FillInv, Mentioned
<1> QED
  BY <1>2, <1>3

LEMMA PlanBegin ==
  ASSUME ControlInv, NEW t \in Threads, Begin(t)
  PROVE  PlanInv(t)'
<1> USE DEF ControlInv, TypeOK, ThreadsTyped
<1>1. PICK f \in FilesOf[t] :
        /\ request[f] = None
        /\ file' = [file EXCEPT ![t] = f]
        /\ \E r \in RequestsOn(t, f) :
             /\ request' = [request EXCEPT ![f] = r]
             /\ todo' = [todo EXCEPT ![t] = Mentioned(r)]
             /\ Goto(t, CASE r.op = "write" -> "grow"
                          [] r.op = "swap" -> "scan"
                          [] r.op = "truncate" -> "cut")
  BY DEF Begin
<1>2. PICK r \in RequestsOn(t, f) :
        /\ request' = [request EXCEPT ![f] = r]
        /\ todo' = [todo EXCEPT ![t] = Mentioned(r)]
        /\ Goto(t, CASE r.op = "write" -> "grow"
                     [] r.op = "swap" -> "scan"
                     [] r.op = "truncate" -> "cut")
  BY <1>1
<1>3. f \in Files /\ r \in Requests
  BY ConstantsAssumption, RequestsTyped
<1>4. file'[t] = f /\ request'[f] = r /\ todo'[t] = Mentioned(r)
  BY <1>1, <1>2, <1>3
<1>5. Op(t)' = r.op
  BY <1>4 DEF Op
<1>6. /\ pc'[t] \in {"grow", "scan", "cut"}
      /\ pc'[t] = "grow" => r.op = "write"
      /\ pc'[t] = "cut" => r.op = "truncate"
      /\ pc'[t] = "scan" => r.op = "swap"
  BY <1>2, <1>3 DEF Goto, Requests
<1>7. \A p \in Positions : fresh'[f][p] = None
  BY <1>1, <1>3 DEF FileInv, Nothing, Begin, fileVars
<1>8. KindInv(t)' /\ GrownInv(t)'
  BY <1>5, <1>6 DEF KindInv, GrownInv, Scanning
<1>9. FillInv(t)'
  BY <1>4, <1>7 DEF FillInv, Mentioned
<1> QED
  BY <1>8, <1>9 DEF PlanInv

LEMMA PlanWhole ==
  ASSUME ControlInv, NEW t \in Threads, Grow(t) \/ Whole(t), PlanInv(t)
  PROVE  PlanInv(t)'
<1> USE DEF ControlInv, TypeOK, ThreadsTyped
<1> DEFINE f == file[t]
<1>z. Zero # None
  BY ConstantsAssumption
<1>0. /\ f \in Files /\ request[f] \in Requests /\ pc[t] \in {"grow", "cut", "count", "swap"}
      /\ pc[t] \in {"grow", "cut", "count"} => \A p \in Positions : fresh[f][p] = None
  BY DEF Grow, Whole, Cut, Count, Swap, ThreadInv, Nothing
<1>1. /\ file' = file /\ request' = request
      /\ Op(t)' = Op(t) /\ Mentioned(request[f])' = Mentioned(request[f])
  BY DEF Grow, Whole, Cut, Count, Swap, Op, Mentioned
<1>2. Op(t) \in {"write", "swap", "truncate"}
  BY <1>0 DEF Op, Requests
<1>3. CASE Grow(t)
  <2>1. Op(t) = "write" /\ fresh' = fresh /\ pc'[t] \in {"scan", "count"}
    BY <1>3 DEF Grow, PlanInv, KindInv, Goto
  <2>2. ASSUME NEW p \in Mentioned(request[f])
        PROVE  list'[f][p] # None
    <3>1. p \in Positions /\ p <= p
      BY DEF Mentioned, Positions
    <3>2. CASE list[f][p] # None
      BY <1>3, <1>z, <1>0, <3>1, <3>2 DEF Grow, FilesTyped
    <3>3. CASE list[f][p] = None
      BY <1>3, <1>z, <1>0, <3>1, <3>3 DEF Grow, FilesTyped
    <3> QED
      BY <3>2, <3>3
  <2>3. \A p \in Positions : fresh'[f][p] = None
    BY <1>3, <1>0, <2>1 DEF Grow
  <2>4. KindInv(t)' /\ GrownInv(t)' /\ FillInv(t)'
    BY <1>1, <2>1, <2>2, <2>3 DEF KindInv, GrownInv, FillInv, Scanning
  <2> QED
    BY <2>4 DEF PlanInv
<1>4. CASE Cut(t)
  <2>1. Op(t) = "truncate" /\ pc'[t] \in {"dec", "count", "rest"}
    BY <1>4 DEF Cut, PlanInv, KindInv, Goto
  <2> QED
    BY <1>1, <2>1 DEF PlanInv, KindInv, GrownInv, FillInv, Scanning
<1>5. CASE Count(t)
  <2>1. /\ list' = list /\ fresh' = fresh /\ Op(t) # "swap"
        /\ \A p \in Positions : fresh'[f][p] = None
    BY <1>5, <1>0 DEF Count, fileVars, PlanInv, KindInv
  <2>2. /\ Op(t) = "write" => pc'[t] = "scan"
        /\ Op(t) = "truncate" => pc'[t] = "rest"
    BY <1>5, <1>0 DEF Count, Goto
  <2>3. KindInv(t)' /\ FillInv(t)'
    BY <1>1, <1>2, <2>1, <2>2 DEF KindInv, FillInv, Scanning
  <2>4. GrownInv(t)'
    BY <1>1, <1>5, <2>1 DEF GrownInv, PlanInv, Count
  <2> QED
    BY <2>3, <2>4 DEF PlanInv
<1>6. CASE Swap(t)
  <2>1. Op(t) = "swap" /\ pc'[t] = "dec"
    BY <1>6 DEF Swap, PlanInv, KindInv, Goto
  <2> QED
    BY <1>1, <2>1 DEF PlanInv, KindInv, GrownInv, FillInv, Scanning
<1> QED
  BY <1>3, <1>4, <1>5, <1>6 DEF Whole

LEMMA PlanUpdate ==
  ASSUME ControlInv, NEW t \in Threads, Update(t) \/ UpdateDone(t), PlanInv(t)
  PROVE  PlanInv(t)'
<1> USE DEF ControlInv, TypeOK, ThreadsTyped
<1> DEFINE f == file[t]
<1>0. /\ f \in Files /\ pc[t] = "update" /\ Op(t) = "write"
      /\ todo[t] = {p \in Positions : fresh[f][p] # None}
  BY DEF Update, UpdateDone, ThreadInv, PlanInv, KindInv
<1>1. /\ file' = file /\ request' = request
      /\ Op(t)' = Op(t) /\ Mentioned(request[f])' = Mentioned(request[f])
  BY DEF Update, UpdateDone, Op, Mentioned
<1>2. pc'[t] \in {"update", "dec"}
  BY DEF Update, UpdateDone, Goto
<1>3. \A p \in Positions : /\ fresh'[f][p] # None => fresh[f][p] # None
                           /\ list'[f][p] = list[f][p] \/ list'[f][p] # None
  <2>1. CASE Update(t)
    BY <1>0, <2>1 DEF Update, FilesTyped, Lowest
  <2>2. CASE UpdateDone(t)
    BY <2>2 DEF UpdateDone, fileVars
  <2> QED
    BY <2>1, <2>2
<1>4. KindInv(t)' /\ FillInv(t)'
  BY <1>0, <1>1, <1>2, <1>3 DEF PlanInv, KindInv, FillInv, Scanning
<1>5. GrownInv(t)'
  BY <1>0, <1>1, <1>3 DEF PlanInv, GrownInv, Mentioned
<1> QED
  BY <1>4, <1>5 DEF PlanInv

LEMMA PlanScan ==
  ASSUME ControlInv, NEW t \in Threads, ScanStep(t) \/ Inc(t), PlanInv(t)
  PROVE  PlanInv(t)'
<1> USE DEF ControlInv, TypeOK, ThreadsTyped
<1> DEFINE f == file[t]
<1>z. None \notin Refs
  BY ConstantsAssumption DEF Refs
<1>0. /\ f \in Files /\ request[f] \in Requests /\ pc[t] \in Scanning
      /\ file' = file /\ request' = request /\ list' = list /\ Op(t)' = Op(t)
  BY ScanFrame
<1>1. Mentioned(request[f])' = Mentioned(request[f])
  BY <1>0 DEF Mentioned
<1>2. Op(t) \in {"write", "swap"} /\ todo[t] \subseteq Mentioned(request[f])
  BY <1>0 DEF PlanInv, KindInv, Op, Requests, ThreadInv
<1>3. GrownInv(t)'
  BY <1>0, <1>1 DEF PlanInv, GrownInv, Scanning
<1>4. /\ pc'[t] \in Scanning \cup {"update", "swap"}
      /\ pc'[t] = "update" => Op(t) = "write"
      /\ pc'[t] = "swap" => Op(t) = "swap" /\ todo'[t] = {}
  <2>1. CASE ScanDone(t)
    BY <1>2, <2>1 DEF ScanDone, Goto
  <2>2. CASE ~ScanDone(t)
    BY <1>0, <2>2 DEF ScanStep, SkipSame, Lookup, Fetch, Put, Insert, Alive, Inc, Goto, Scanning
  <2> QED
    BY <2>1, <2>2
<1>5. KindInv(t)'
  BY <1>0, <1>2, <1>4 DEF KindInv, Scanning
<1>6. FillInv(t)'
  <2>1. CASE Inc(t)
    <3>1. PICK p \in Positions :
            /\ p \in todo[t]
            /\ fresh' = [fresh EXCEPT ![f][p] = held[t]]
            /\ todo' = [todo EXCEPT ![t] = @ \ {p}]
      BY <2>1 DEF Inc, Lowest
    <3>2. held[t] # None
      BY <1>z, <2>1 DEF Inc, ThreadInv
    <3>3. /\ \A q \in Positions : fresh'[f][q] = IF q = p THEN held[t] ELSE fresh[f][q]
          /\ todo'[t] = todo[t] \ {p}
      BY <1>0, <3>1 DEF FilesTyped
    <3> QED
      BY <1>0, <1>1, <1>2, <3>1, <3>2, <3>3 DEF PlanInv, FillInv
  <2>2. CASE SkipSame(t) \/ (ScanDone(t) /\ Op(t) = "write")
    <3>1. Op(t) = "write" /\ fresh' = fresh
      BY <2>2 DEF SkipSame, ScanDone, SameChunk, fileVars
    <3> QED
      BY <1>0, <1>1, <3>1 DEF PlanInv, FillInv
  <2>3. CASE ScanStep(t) /\ ~SkipSame(t) /\ ~(ScanDone(t) /\ Op(t) = "write")
    <3>1. todo' = todo /\ fresh' = fresh
      BY <2>3 DEF ScanStep, ScanDone, Lookup, Fetch, Put, Insert, Alive, fileVars
    <3> QED
      BY <1>0, <1>1, <3>1 DEF PlanInv, FillInv
  <2> QED
    BY <2>1, <2>2, <2>3
<1> QED
  BY <1>3, <1>5, <1>6 DEF PlanInv

LEMMA PlanStep ==
  ASSUME ControlInv, NEW t \in Threads, Step(t), NEW u \in Threads, PlanInv(u)
  PROVE  PlanInv(u)'
<1>1. CASE u # t
  BY <1>1, PlanOthers
<1>2. CASE Return(t) /\ u = t
  <2>1. pc'[t] = "idle"
    BY <1>2 DEF Return, Goto, ControlInv, TypeOK, ThreadsTyped
  <2> QED
    BY <1>2, <2>1 DEF PlanInv, KindInv, GrownInv, FillInv, Scanning
<1>3. CASE (Drop(t) \/ Delete(t)) /\ u = t
  <2>1. pc[t] \in Dropping /\ pc'[t] \in Dropping \cup {"rest", "done"}
    BY <1>3 DEF Drop, Dec, Flags, CheckZero, DecDone, Delete, Mark, CheckOwn, Erase, Clear,
                Post, Goto, Dropping, ControlInv, TypeOK, ThreadsTyped
  <2>2. file' = file /\ request' = request /\ list' = list
    BY <1>3 DEF Drop, Dec, Flags, CheckZero, DecDone, Delete, Mark, CheckOwn, Erase, Clear,
                Post, fileVars
  <2>3. Op(t)' = Op(t)
    BY <2>2 DEF Op
  <2> QED
    BY <1>3, <2>1, <2>2, <2>3
       DEF PlanInv, KindInv, GrownInv, FillInv, Mentioned, Dropping, Scanning
<1>4. CASE ~Return(t) /\ ~(Drop(t) \/ Delete(t)) /\ u = t
  <2>1. PlanInv(t)'
    BY <1>4, PlanBegin, PlanWhole, PlanUpdate, PlanScan
       DEF Step, Write, New, ScanStep
  <2> QED
    BY <1>4, <2>1
<1> QED
  BY <1>1, <1>2, <1>3, <1>4

LEMMA ShapeStep ==
  ASSUME ControlInv, NEW t \in Threads, Step(t), PlanInv(t), NEW f \in Files, ShapeInv(f)
  PROVE  ShapeInv(f)'
<1> USE DEF ControlInv, TypeOK, ThreadsTyped
<1>z. Zero \notin Hashes /\ None \notin Hashes /\ Zero # None
  BY ConstantsAssumption
<1>1. request'[f] # None /\ request'[f].op # "write" => IsPrefixSet(Mentioned(request'[f]))
  <2>1. CASE Begin(t)
    <3>1. PICK g \in FilesOf[t] : \E r \in RequestsOn(t, g) :
            request' = [request EXCEPT ![g] = r]
      BY <2>1 DEF Begin
    <3>2. PICK r \in RequestsOn(t, g) : request' = [request EXCEPT ![g] = r]
      BY <3>1
    <3>3. r.op # "write" => IsPrefixSet(Mentioned(r))
      BY <3>2 DEF RequestsOn, WriteRequests, SwapRequests, TruncateRequests
    <3>4. request'[f] = IF f = g THEN r ELSE request[f]
      BY <3>2
    <3> QED
      BY <3>3, <3>4 DEF ShapeInv
  <2>2. CASE Return(t)
    <3>1. request'[f] = None \/ request'[f] = request[f]
      BY <2>2 DEF Return
    <3> QED
      BY <3>1 DEF ShapeInv
  <2>3. CASE ~Begin(t) /\ ~Return(t)
    BY <2>3, BusyStep DEF ShapeInv
  <2> QED
    BY <2>1, <2>2, <2>3
<1>2. \A p, q \in Positions : p < q /\ list'[f][q] # None => list'[f][p] # None
  <2> SUFFICES ASSUME NEW p \in Positions, NEW q \in Positions, p < q, list'[f][q] # None
               PROVE  list'[f][p] # None
    OBVIOUS
  <2>p. p \in Int /\ q \in Int
    BY DEF Positions
  <2>0. list[f][q] # None => list[f][p] # None
    BY DEF ShapeInv
  <2>1. CASE list'[f] = list[f]
    BY <2>0, <2>1
  <2>2. CASE Grow(t) /\ f = file[t]
    <3> DEFINE added == {x \in Positions :
                          list[f][x] = None /\ \E m \in Mentioned(request[f]) : x <= m}
    <3>1. \A x \in Positions : list'[f][x] = IF x \in added THEN Zero ELSE list[f][x]
      BY <2>2 DEF Grow, FilesTyped
    <3>2. CASE q \in added
      <4>1. PICK m \in Mentioned(request[f]) : q <= m
        BY <3>2
      <4>2. p <= m
        BY <2>p, <4>1 DEF Mentioned, Positions
      <4> QED
        BY <1>z, <3>1, <4>2
    <3>3. CASE q \notin added
      BY <1>z, <2>0, <3>1, <3>3
    <3> QED
      BY <3>2, <3>3
  <2>3. CASE Cut(t) /\ f = file[t]
    <3>1. Op(t) = "truncate" /\ request[f] # None
      BY <2>3, RequestsAssumption DEF PlanInv, KindInv, Cut, ThreadInv
    <3>2. IsPrefixSet(Mentioned(request[f]))
      BY <2>3, <3>1 DEF ShapeInv, Op
    <3>3. \A x \in Positions : list'[f][x] = None <=> x \notin Mentioned(request[f])
      BY <2>3, <1>z DEF Cut, FilesTyped
    <3> QED
      BY <3>2, <3>3 DEF IsPrefixSet
  <2>4. CASE Update(t) /\ f = file[t]
    <3>1. /\ pc[t] = "update" /\ Op(t) = "write"
          /\ \A x \in Positions : list'[f][x] = list[f][x] \/ fresh[f][x] # None
      BY <2>4 DEF Update, PlanInv, KindInv, FilesTyped, Lowest, ThreadInv
    <3>2. \A x \in Positions : fresh[f][x] # None => x \in Mentioned(request[f])
      BY <2>4, <3>1 DEF PlanInv, FillInv
    <3>3. \A x \in Mentioned(request[f]) : list[f][x] # None
      BY <2>4, <3>1 DEF PlanInv, GrownInv
    <3>4. list[f][q] # None
      BY <3>1, <3>2, <3>3
    <3>5. list'[f][p] = list[f][p] \/ list'[f][p] = fresh[f][p]
      BY <2>4 DEF Update, FilesTyped
    <3>6. list'[f][p] # list[f][p] => fresh[f][p] # None
      BY <3>1
    <3> QED
      BY <2>0, <3>4, <3>5, <3>6
  <2>5. CASE Swap(t) /\ f = file[t]
    <3>1. /\ Op(t) = "swap" /\ request[f] # None /\ pc[t] = "swap" /\ todo[t] = {}
          /\ list'[f] = fresh[f]
      BY <2>5, RequestsAssumption DEF PlanInv, KindInv, Swap, ThreadInv, FilesTyped
    <3>2. IsPrefixSet(Mentioned(request[f]))
      BY <2>5, <3>1 DEF ShapeInv, Op
    <3>3. \A x \in Positions : fresh[f][x] # None <=> x \in Mentioned(request[f])
      BY <2>5, <3>1 DEF PlanInv, FillInv, Mentioned
    <3>4. q \in Mentioned(request[f])
      BY <2>5, <3>1, <3>3
    <3>5. p \in Mentioned(request[f])
      BY <3>2, <3>4 DEF IsPrefixSet
    <3> QED
      BY <2>5, <3>1, <3>3, <3>5
  <2>6. list' = list \/ Grow(t) \/ Update(t) \/ Cut(t) \/ Swap(t)
    BY DEF Step, Begin, Write, SkipSame, ScanDone, UpdateDone, Whole, Count, New, Lookup,
       Fetch, Put, Insert, Inc, Alive, Drop, Dec, Flags, CheckZero, DecDone,
       Delete, Mark, CheckOwn, Erase, Clear, Post, Return, fileVars
  <2>7. f # file[t] => list'[f] = list[f]
    <3>1. pc[t] # "idle" /\ f # file[t] => Rows(f)' = Rows(f)
      BY StepFrame
    <3>2. pc[t] = "idle" => list' = list
      BY BusyStep DEF Begin, fileVars
    <3> QED
      BY <3>1, <3>2 DEF Rows
  <2> QED
    BY <2>1, <2>2, <2>3, <2>4, <2>5, <2>6, <2>7
<1> QED
  BY <1>1, <1>2 DEF ShapeInv

-----------------------------------------------------------------------------
(* A set of natural numbers has a least element, a bounded one a largest.  *)
LEMMA LeastOf ==
  ASSUME NEW S \in SUBSET Nat, S # {}
  PROVE  \E m \in S : \A k \in S : m <= k
<1>1. PICK x \in S : \A y \in S : ~ (<<y, x>> \in OpToRel(<, Nat))
  BY NatLessThanWellFounded, WFMin
<1>2. ASSUME NEW y \in S
      PROVE  ~ (y < x)
  <2>1. <<y, x>> \in Nat \X Nat
    OBVIOUS
  <2>2. <<y, x>>[1] < <<y, x>>[2] => <<y, x>> \in OpToRel(<, Nat)
    BY <2>1 DEF OpToRel
  <2> QED
    BY <1>1, <2>2
<1> QED
  BY <1>2

LEMMA Largest ==
  ASSUME NEW N \in Nat, NEW S \in SUBSET (1..N), S # {}
  PROVE  \E m \in S : \A k \in S : k <= m
<1> DEFINE Mirror == {N - k : k \in S}
<1>0. \A k \in S : N - k \in Nat
  OBVIOUS
<1>1. Mirror \in SUBSET Nat /\ Mirror # {}
  BY <1>0
<1>2. PICK b \in Mirror : \A k \in Mirror : b <= k
  BY <1>1, LeastOf
<1>3. PICK m \in S : b = N - m
  BY <1>2
<1>4. \A k \in S : b <= N - k
  BY <1>2
<1> QED
  BY <1>3, <1>4

-----------------------------------------------------------------------------
(* The refinement: what a client would read, step by step.                 *)
Tables == [Files -> [Positions -> Chunks \cup {None}]]

LEMMA RowReplaced ==
  ASSUME NEW before \in Tables, NEW after \in Tables, NEW f \in Files,
         NEW row \in [Positions -> Chunks \cup {None}],
         \A g \in Files \ {f} : after[g] = before[g],
         \A p \in Positions : after[f][p] = row[p]
  PROVE  after = [before EXCEPT ![f] = row]
<1>1. after[f] = row
  BY DEF Tables
<1>2. [before EXCEPT ![f] = row] \in Tables
  BY DEF Tables
<1>3. \A g \in Files : after[g] = [before EXCEPT ![f] = row][g]
  BY <1>1 DEF Tables
<1> QED
  BY <1>2, <1>3 DEF Tables

(* A client reads the content of the hash the list refers to.              *)
LEMMA StoredIs ==
  ASSUME KeepInv
  PROVE  /\ contents \in Tables
         /\ \A f \in Files, p \in Positions :
              /\ contents[f][p] = ContentOf(list[f][p])
              /\ contents[f][p] = None <=> list[f][p] = None
<1> USE DEF KeepInv, CountInv, ControlInv, TypeOK
<1>z. Zero \notin Hashes /\ None \notin Hashes /\ Zero # None /\ None \notin Contents
  BY ConstantsAssumption
<1>1. ASSUME NEW f \in Files, NEW p \in Positions
      PROVE  /\ Stored(list[f][p]) = ContentOf(list[f][p])
             /\ ContentOf(list[f][p]) \in Chunks \cup {None}
             /\ ContentOf(list[f][p]) = None <=> list[f][p] = None
  <2>1. CASE list[f][p] \in Hashes
    <3>1. Known(list[f][p])
      BY <2>1 DEF StoreInv, RefsInv, Referred, At3
    <3>2. Indexed(content[list[f][p]], list[f][p])
      BY <1>z, <2>1, <3>1 DEF StoreInv, IndexInv, Known
    <3> QED
      BY <1>z, <2>1, <3>1, <3>2 DEF Known, Indexed, Stored, ContentOf, Chunks
  <2>2. CASE list[f][p] \notin Hashes
    BY <1>z, <2>2 DEF Stored, ContentOf, FilesTyped, Refs, Chunks
  <2> QED
    BY <2>1, <2>2
<1>2. \A f \in Files : contents[f] = [p \in Positions |-> Stored(list[f][p])]
  BY DEF contents
<1>3. contents \in Tables
  <2>1. ASSUME NEW f \in Files
        PROVE  [p \in Positions |-> Stored(list[f][p])] \in [Positions -> Chunks \cup {None}]
    BY <1>1
  <2> QED
    BY <2>1 DEF contents, Tables
<1>4. ASSUME NEW f \in Files, NEW p \in Positions
      PROVE  contents[f][p] = ContentOf(list[f][p])
  BY <1>1, <1>2
<1> QED
  BY <1>1, <1>3, <1>4

LEMMA StoredIsNext ==
  KeepInv' => (/\ contents \in Tables
               /\ \A f \in Files, p \in Positions :
                    /\ contents[f][p] = ContentOf(list[f][p])
                    /\ contents[f][p] = None <=> list[f][p] = None)'
<1>1. KeepInv => /\ contents \in Tables
                 /\ \A f \in Files, p \in Positions :
                      /\ contents[f][p] = ContentOf(list[f][p])
                      /\ contents[f][p] = None <=> list[f][p] = None
  BY StoredIs
<1> QED
  BY <1>1, PTL

(* Where the list stays as it is, so does what a client reads.             *)
LEMMA StoredKept ==
  ASSUME KeepInv, KeepInv', NEW t \in Threads, Step(t), NEW f \in Files, NEW p \in Positions
  PROVE  \A h \in At3(f, p) : list'[f][p] = h => contents'[f][p] = ContentOf(h)
<1>1. contents'[f][p] = ContentOf(list[f][p])'
  BY StoredIsNext
<1>2. \A h \in At3(f, p) : ContentOf(h)' = ContentOf(h)
  BY ReferredKept DEF KeepInv, CountInv
<1> QED
  BY <1>1, <1>2 DEF ContentOf

LEMMA StoredPlain ==
  ASSUME KeepInv', NEW f \in Files, NEW p \in Positions, NEW h, list'[f][p] = h,
         h \notin Hashes
  PROVE  contents'[f][p] = h
  BY StoredIsNext DEF ContentOf

Lists(t) == Grow(t) \/ Cut(t) \/ Update(t) \/ Swap(t)

LEMMA ListFrame ==
  ASSUME ControlInv, NEW t \in Threads, Step(t), NEW g \in Files, g # file[t] \/ ~Lists(t)
  PROVE  list'[g] = list[g]
<1>1. CASE ~Lists(t)
  <2>1. list' = list
    BY <1>1 DEF Lists, Step, Begin, Write, SkipSame, ScanDone, UpdateDone, Whole, Count,
       New, Lookup, Fetch, Put, Insert, Inc, Alive, Drop, Dec, Flags, CheckZero, DecDone,
       Delete, Mark, CheckOwn, Erase, Clear, Post, Return, fileVars
  <2> QED
    BY <2>1
<1>2. CASE Lists(t)
  <2>1. pc[t] # "idle"
    BY <1>2 DEF Lists, Grow, Cut, Update, Swap
  <2>2. Rows(g)' = Rows(g)
    BY <1>2, <2>1, StepFrame
  <2> QED
    BY <2>2 DEF Rows
<1> QED
  BY <1>1, <1>2

LEMMA RowSame ==
  ASSUME KeepInv, KeepInv', NEW t \in Threads, Step(t), NEW g \in Files, list'[g] = list[g]
  PROVE  contents'[g] = contents[g]
<1>1. \A p \in Positions : contents'[g][p] = ContentOf(list[g][p])
  BY StoredKept DEF At3
<1>2. \A p \in Positions : contents[g][p] = ContentOf(list[g][p])
  BY StoredIs
<1>3. contents \in Tables /\ contents' \in Tables
  BY StoredIs, StoredIsNext
<1> QED
  BY <1>1, <1>2, <1>3 DEF Tables

(* A step on one file changes what is read in that file only.              *)
LEMMA RowChanged ==
  ASSUME KeepInv, KeepInv', NEW t \in Threads, Step(t), file[t] \in Files,
         NEW row \in [Positions -> Chunks \cup {None}],
         \A p \in Positions : contents'[file[t]][p] = row[p]
  PROVE  contents' = [contents EXCEPT ![file[t]] = row]
<1>1. contents \in Tables /\ contents' \in Tables
  BY StoredIs, StoredIsNext
<1>2. ASSUME NEW g \in Files \ {file[t]}
      PROVE  contents'[g] = contents[g]
  <2>1. list'[g] = list[g]
    BY ListFrame DEF KeepInv, CountInv
  <2> QED
    BY <2>1, RowSame
<1> QED
  BY <1>1, <1>2, RowReplaced

LEMMA TableSame ==
  ASSUME KeepInv, KeepInv', NEW t \in Threads, Step(t), \A g \in Files : list'[g] = list[g]
  PROVE  contents' = contents
<1>1. contents \in Tables /\ contents' \in Tables
  BY StoredIs, StoredIsNext
<1>2. \A g \in Files : contents'[g] = contents[g]
  BY RowSame
<1> QED
  BY <1>1, <1>2 DEF Tables

LEMMA MapGrow ==
  ASSUME KeepInv, KeepInv', PromiseInv, NEW t \in Threads, Step(t), Grow(t)
  PROVE  [FC!Next]_FC!storeVars
<1> USE DEF KeepInv, CountInv, ControlInv, TypeOK
<1> DEFINE f == file[t]
           asked == Mentioned(request[f])
           added == {p \in Positions : list[f][p] = None /\ \E q \in asked : p <= q}
<1>z. Zero \notin Hashes /\ None \notin Hashes /\ Zero # None
  BY ConstantsAssumption
<1>0. f \in Files /\ request[f] \in Requests /\ request' = request /\ Op(t) = "write"
  BY DEF Grow, ThreadInv, PromiseInv, WorkInv, KindInv
<1>1. CASE added = {}
  <2>1. list' = list
    BY <1>1 DEF Grow
  <2>2. contents' = contents
    BY <2>1, TableSame
  <2> QED
    BY <1>0, <2>2 DEF FC!storeVars
<1>2. CASE added # {}
  <2>1. asked # {} /\ asked \in SUBSET (1..NumPositions)
    BY <1>2 DEF Mentioned, Positions
  <2>2. PICK n \in asked : \A q \in asked : q <= n
    BY <2>1, Largest, ConstantsAssumption
  <2> DEFINE row == [p \in Positions |-> IF p <= n /\ contents[f][p] = None THEN Zero
                                         ELSE contents[f][p]]
  <2>3. \A p \in Positions : p \in added <=> p <= n /\ list[f][p] = None
    <3> TAKE p \in Positions
    <3>1. ASSUME NEW q \in asked, p <= q
          PROVE  p <= n
      BY <2>2, <3>1 DEF Mentioned, Positions
    <3> QED
      BY <2>2, <3>1
  <2>4. ASSUME NEW p \in Positions
        PROVE  contents'[f][p] = row[p]
    <3>1. list'[f][p] = IF p \in added THEN Zero ELSE list[f][p]
      BY <1>0, <1>2 DEF Grow, FilesTyped
    <3>2. contents[f][p] = None <=> list[f][p] = None
      BY <1>0, StoredIs
    <3>3. CASE p \in added
      <4>1. contents'[f][p] = Zero
        BY <1>z, <1>0, <3>1, <3>3, StoredPlain
      <4> QED
        BY <2>3, <3>2, <3>3, <4>1
    <3>4. CASE p \notin added
      <4>1. contents'[f][p] = ContentOf(list[f][p])
        BY <1>0, <3>1, <3>4, StoredKept DEF At3
      <4>2. contents[f][p] = ContentOf(list[f][p])
        BY <1>0, StoredIs
      <4> QED
        BY <2>3, <3>2, <3>4, <4>1, <4>2
    <3> QED
      BY <3>3, <3>4
  <2>5. row \in [Positions -> Chunks \cup {None}]
    BY <1>0, StoredIs DEF Tables, Chunks
  <2>6. contents' = [contents EXCEPT ![f] = row]
    BY <1>0, <2>4, <2>5, RowChanged
  <2>7. FC!Grow(f)
    <3>1. n \in FC!Mentioned(request[f])
      BY DEF Mentioned, FC!Mentioned
    <3>2. request[f] # None /\ request[f].op = "write"
      BY <1>0, RequestsAssumption DEF Op
    <3>3. contents' = [contents EXCEPT ![f] =
            [p \in Positions |-> IF p <= n /\ @[p] = None THEN Zero ELSE @[p]]]
      BY <2>6
    <3> QED
      BY <1>0, <3>1, <3>2, <3>3 DEF FC!Grow
  <2> QED
    BY <1>0, <2>7 DEF FC!Next
<1> QED
  BY <1>1, <1>2

LEMMA MapCut ==
  ASSUME KeepInv, KeepInv', PromiseInv, NEW t \in Threads, Step(t), Cut(t)
  PROVE  [FC!Next]_FC!storeVars
<1> USE DEF KeepInv, CountInv, ControlInv, TypeOK
<1> DEFINE f == file[t]
           keep == Mentioned(request[f])
           removed == {p \in Positions \ keep : list[f][p] # None}
           added == {p \in keep : list[f][p] = None}
<1>z. Zero \notin Hashes /\ None \notin Hashes /\ Zero # None
  BY ConstantsAssumption
<1>0. /\ f \in Files /\ request[f] \in Requests /\ request' = request
      /\ request[f] # None /\ request[f].op = "truncate"
  BY RequestsAssumption DEF Cut, ThreadInv, PromiseInv, WorkInv, KindInv, Op
<1>l. \A p \in Positions : list'[f][p] = IF p \notin keep THEN None
                                         ELSE IF p \in added THEN Zero ELSE list[f][p]
  BY <1>0 DEF Cut, FilesTyped
<1>k. keep \subseteq Positions /\ IsPrefixSet(keep)
  BY <1>0 DEF PromiseInv, ShapeInv, Mentioned
<1>d. \A p \in Positions : request[f].data[p] = None <=> p \notin keep
  BY DEF Mentioned
<1>r. \A p \in Positions : /\ contents[f][p] = ContentOf(list[f][p])
                           /\ contents[f][p] = None <=> list[f][p] = None
                           /\ contents[f][p] \in Chunks \cup {None}
  BY <1>0, StoredIs DEF Tables
<1>c. ASSUME NEW p \in Positions
      PROVE  contents'[f][p] = IF p \notin keep THEN None
                               ELSE IF p \in added THEN Zero ELSE contents[f][p]
  <2>1. CASE p \notin keep
    BY <1>z, <1>0, <1>l, <2>1, StoredPlain
  <2>2. CASE p \in added
    BY <1>z, <1>0, <1>l, <2>2, StoredPlain
  <2>3. CASE p \in keep /\ p \notin added
    <3>1. list'[f][p] = list[f][p]
      BY <1>l, <2>3
    <3>2. contents'[f][p] = ContentOf(list[f][p])
      BY <1>0, <3>1, StoredKept DEF At3
    <3> QED
      BY <1>r, <2>3, <3>2
  <2> QED
    BY <2>1, <2>2, <2>3
<1>1. CASE removed # {}
  <2>1. added = {}
    <3>1. SUFFICES ASSUME NEW q \in added, NEW p \in removed
                   PROVE  FALSE
      BY <1>1
    <3>2. p \in Int /\ q \in Int /\ p # q
      BY <1>k DEF Positions
    <3>3. CASE p < q
      BY <1>k, <3>3 DEF IsPrefixSet
    <3>4. CASE q < p
      BY <1>0, <1>k, <3>4 DEF PromiseInv, ShapeInv
    <3> QED
      BY <3>2, <3>3, <3>4
  <2> DEFINE row == [p \in Positions |-> IF request[f].data[p] = None THEN None
                                         ELSE contents[f][p]]
  <2>2. row \in [Positions -> Chunks \cup {None}]
    BY <1>r
  <2>3. \A p \in Positions : contents'[f][p] = row[p]
    BY <1>c, <1>d, <2>1
  <2>4. contents' = [contents EXCEPT ![f] = row]
    BY <1>0, <2>2, <2>3, RowChanged
  <2>5. FC!Cut(f)
    BY <1>0, <2>4 DEF FC!Cut
  <2> QED
    BY <1>0, <2>5 DEF FC!Next
<1>2. CASE removed = {} /\ added # {}
  <2>1. keep # {} /\ keep \in SUBSET (1..NumPositions)
    BY <1>k, <1>2 DEF Positions
  <2>2. PICK n \in keep : \A q \in keep : q <= n
    BY <2>1, Largest, ConstantsAssumption
  <2>3. \A p \in Positions : p \in keep <=> p <= n
    <3> TAKE p \in Positions
    <3>1. p \in Int /\ n \in Int
      BY <1>k DEF Positions
    <3>2. p < n => p \in keep
      BY <1>k DEF IsPrefixSet
    <3> QED
      BY <2>2, <3>1, <3>2
  <2> DEFINE row == [p \in Positions |-> IF p <= n /\ contents[f][p] = None THEN Zero
                                         ELSE contents[f][p]]
  <2>4. row \in [Positions -> Chunks \cup {None}]
    BY <1>r DEF Chunks
  <2>5. \A p \in Positions : contents'[f][p] = row[p]
    BY <1>c, <1>r, <1>2, <2>3
  <2>6. contents' = [contents EXCEPT ![f] = row]
    BY <1>0, <2>4, <2>5, RowChanged
  <2>7. FC!Grow(f)
    <3>1. n \in FC!Mentioned(request[f])
      BY DEF Mentioned, FC!Mentioned
    <3>2. contents' = [contents EXCEPT ![f] =
            [p \in Positions |-> IF p <= n /\ @[p] = None THEN Zero ELSE @[p]]]
      BY <2>6
    <3> QED
      BY <1>0, <3>1, <3>2 DEF FC!Grow
  <2> QED
    BY <1>0, <2>7 DEF FC!Next
<1>3. CASE removed = {} /\ added = {}
  <2>1. \A p \in Positions : contents'[f][p] = contents[f][p]
    BY <1>c, <1>r, <1>3
  <2>2. contents[f] \in [Positions -> Chunks \cup {None}] /\ contents \in Tables
    BY <1>0, StoredIs DEF Tables
  <2>3. contents' = [contents EXCEPT ![f] = contents[f]]
    BY <1>0, <2>1, <2>2, RowChanged
  <2>4. contents' = contents
    BY <2>2, <2>3 DEF Tables
  <2> QED
    BY <1>0, <2>4 DEF FC!storeVars
<1> QED
  BY <1>1, <1>2, <1>3

LEMMA MapUpdate ==
  ASSUME KeepInv, KeepInv', PromiseInv, NEW t \in Threads, Step(t), Update(t)
  PROVE  [FC!Next]_FC!storeVars
<1> USE DEF KeepInv, CountInv, ControlInv, TypeOK
<1> DEFINE f == file[t]
<1>0. /\ f \in Files /\ request[f] \in Requests /\ request' = request
      /\ request[f] # None /\ request[f].op = "write" /\ pc[t] = "update"
  BY RequestsAssumption DEF Update, ThreadInv, PromiseInv, WorkInv, KindInv, Op
<1>1. PICK p \in Positions : /\ list' = [list EXCEPT ![f][p] = fresh[f][p]]
                             /\ p \in todo[t]
  BY DEF Update, Lowest
<1>2. /\ list'[f][p] = fresh[f][p] /\ fresh[f][p] # None
      /\ \A q \in Positions : q # p => list'[f][q] = list[f][q]
  BY <1>0, <1>1 DEF FilesTyped, ThreadInv
<1>3. ContentOf(fresh[f][p]) = Data(t)[p]
  BY <1>0, <1>2 DEF PromiseInv, WorkInv, FreshInv
<1>4. Data(t)[p] \in Chunks
  <2>1. fresh[f][p] \in Refs
    BY <1>0, <1>2 DEF FilesTyped
  <2> QED
    BY <1>3, <2>1 DEF ContentOf, Refs, HashesTyped, Chunks
<1>5. p \in FC!Mentioned(request[f])
  <2>1. None \notin Chunks
    BY ConstantsAssumption DEF Chunks
  <2> QED
    BY <1>4, <2>1 DEF Data, FC!Mentioned
<1> DEFINE row == [contents[f] EXCEPT ![p] = Data(t)[p]]
<1>6. contents[f] \in [Positions -> Chunks \cup {None}]
  BY <1>0, StoredIs DEF Tables
<1>7. row \in [Positions -> Chunks \cup {None}]
  BY <1>4, <1>6
<1>8. ASSUME NEW q \in Positions
      PROVE  contents'[f][q] = row[q]
  <2>1. CASE q = p
    <3>1. contents'[f][p] = ContentOf(fresh[f][p])
      BY <1>0, <1>2, StoredKept DEF At3
    <3> QED
      BY <1>3, <1>6, <2>1, <3>1
  <2>2. CASE q # p
    <3>1. contents'[f][q] = ContentOf(list[f][q])
      BY <1>0, <1>2, <2>2, StoredKept DEF At3
    <3>2. contents[f][q] = ContentOf(list[f][q])
      BY <1>0, StoredIs
    <3> QED
      BY <1>6, <2>2, <3>1, <3>2
  <2> QED
    BY <2>1, <2>2
<1>9. contents' = [contents EXCEPT ![f] = row]
  BY <1>0, <1>7, <1>8, RowChanged
<1>10. FC!Put(f)
  BY <1>0, <1>5, <1>9 DEF FC!Put, Data
<1> QED
  BY <1>0, <1>10 DEF FC!Next

LEMMA MapSwap ==
  ASSUME KeepInv, KeepInv', PromiseInv, NEW t \in Threads, Step(t), Swap(t)
  PROVE  [FC!Next]_FC!storeVars
<1> USE DEF KeepInv, CountInv, ControlInv, TypeOK
<1> DEFINE f == file[t]
<1>z. None \notin Hashes
  BY ConstantsAssumption
<1>0. /\ f \in Files /\ request[f] \in Requests /\ request' = request
      /\ request[f] # None /\ request[f].op = "swap" /\ pc[t] = "swap" /\ todo[t] = {}
  BY RequestsAssumption DEF Swap, ThreadInv, PromiseInv, WorkInv, KindInv, Op
<1>1. list'[f] = fresh[f]
  BY <1>0 DEF Swap, FilesTyped
<1>2. request[f].data \in [Positions -> Chunks \cup {None}]
  BY <1>0 DEF Requests
<1>3. ASSUME NEW p \in Positions
      PROVE  contents'[f][p] = request[f].data[p]
  <2>0. FreshInv(t) /\ Op(t) # "write"
    BY <1>0 DEF PromiseInv, WorkInv, Op
  <2>1. ContentOf(fresh[f][p]) = Data(t)[p]
    <3>1. CASE fresh[f][p] # None
      BY <1>0, <2>0, <3>1 DEF FreshInv
    <3>2. CASE fresh[f][p] = None
      <4>1. Data(t)[p] = None
        BY <1>0, <2>0, <3>2 DEF FreshInv
      <4> QED
        BY <1>z, <3>2, <4>1 DEF ContentOf
    <3> QED
      BY <3>1, <3>2
  <2>2. contents'[f][p] = ContentOf(fresh[f][p])
    BY <1>0, <1>1, StoredKept DEF At3
  <2> QED
    BY <2>1, <2>2 DEF Data
<1>4. contents' = [contents EXCEPT ![f] = request[f].data]
  BY <1>0, <1>2, <1>3, RowChanged
<1>5. FC!Replace(f)
  BY <1>0, <1>4 DEF FC!Replace
<1> QED
  BY <1>0, <1>5 DEF FC!Next

LEMMA MapBegin ==
  ASSUME KeepInv, KeepInv', NEW t \in Threads, Step(t), Begin(t)
  PROVE  [FC!Next]_FC!storeVars
<1>1. contents' = contents
  BY TableSame DEF Begin, fileVars
<1>2. PICK f \in FilesOf[t] : /\ request[f] = None
                              /\ \E r \in RequestsOn(t, f) :
                                   request' = [request EXCEPT ![f] = r]
  BY DEF Begin
<1>3. f \in Files
  BY ConstantsAssumption
<1>4. FC!Ask(f)
  BY <1>1, <1>2, <1>3, RequestsTyped DEF FC!Ask
<1> QED
  BY <1>3, <1>4 DEF FC!Next

LEMMA MapReturn ==
  ASSUME KeepInv, KeepInv', PromiseInv, NEW t \in Threads, Step(t), Return(t)
  PROVE  [FC!Next]_FC!storeVars
<1> USE DEF KeepInv, CountInv, ControlInv, TypeOK
<1> DEFINE f == file[t]
<1>0. /\ f \in Files /\ request[f] \in Requests /\ request[f] # None
      /\ request' = [request EXCEPT ![f] = None] /\ pc[t] \in {"rest", "done"}
  BY RequestsAssumption DEF Return, ThreadInv
<1>1. contents' = contents
  BY TableSame DEF Return, fileVars
<1>2. /\ request[f].op \in {"write", "swap", "truncate"}
      /\ request[f].data \in [Positions -> Chunks \cup {None}]
  BY <1>0 DEF Requests
<1>3. /\ contents[f] \in [Positions -> Chunks \cup {None}]
      /\ \A p \in Positions : /\ contents[f][p] = ContentOf(list[f][p])
                              /\ contents[f][p] = None <=> list[f][p] = None
  BY <1>0, StoredIs DEF Tables
<1>4. DoneInv(t) /\ pc[t] \in Ending
  BY <1>0 DEF PromiseInv, WorkInv, Ending
<1>5. FC!Fulfilled(request[f], contents[f])
  <2>1. CASE request[f].op = "write"
    <3>1. \A p \in FC!Mentioned(request[f]) : contents[f][p] = request[f].data[p]
      BY <1>0, <1>3, <1>4, <2>1 DEF DoneInv, Op, Data, FC!Mentioned
    <3> QED
      BY <2>1, <3>1 DEF FC!Fulfilled
  <2>2. CASE request[f].op = "swap"
    <3>1. \A p \in Positions : contents[f][p] = request[f].data[p]
      BY <1>0, <1>3, <1>4, <2>2 DEF DoneInv, Op, Data
    <3>2. contents[f] = request[f].data
      BY <1>2, <1>3, <3>1
    <3> QED
      BY <2>2, <3>2 DEF FC!Fulfilled
  <2>3. CASE request[f].op = "truncate"
    <3>1. \A p \in Positions : contents[f][p] = None <=> request[f].data[p] = None
      BY <1>0, <1>3, <1>4, <2>3 DEF DoneInv, Op, Data
    <3> QED
      BY <2>3, <3>1 DEF FC!Fulfilled
  <2> QED
    BY <1>2, <2>1, <2>2, <2>3
<1>6. FC!Answer(f)
  BY <1>0, <1>1, <1>5 DEF FC!Answer
<1> QED
  BY <1>0, <1>6 DEF FC!Next

LEMMA MapStep ==
  ASSUME KeepInv, KeepInv', PromiseInv, NEW t \in Threads, Step(t)
  PROVE  [FC!Next]_FC!storeVars
<1>1. CASE Begin(t)
  BY <1>1, MapBegin
<1>2. CASE Return(t)
  BY <1>2, MapReturn
<1>3. CASE Lists(t)
  BY <1>3, MapGrow, MapCut, MapUpdate, MapSwap DEF Lists
<1>4. CASE ~Begin(t) /\ ~Return(t) /\ ~Lists(t)
  <2>1. request' = request
    BY <1>4, BusyStep DEF KeepInv, CountInv
  <2>2. \A g \in Files : list'[g] = list[g]
    BY <1>4, ListFrame DEF KeepInv, CountInv
  <2>3. contents' = contents
    BY <2>2, TableSame
  <2> QED
    BY <2>1, <2>3 DEF FC!storeVars
<1> QED
  BY <1>1, <1>2, <1>3, <1>4

LEMMA PromiseInit ==
  ASSUME Init
  PROVE  PromiseInv
<1>1. \A t \in Threads : WorkInv(t)
  BY DEF Init, WorkInv, KindInv, GrownInv, FreshInv, HeldInv, DoneInv, Scanning, Ending,
         Dropping
<1>2. \A f \in Files : ShapeInv(f)
  BY DEF Init, ShapeInv, NoChunks
<1> QED
  BY <1>1, <1>2 DEF PromiseInv

LEMMA PromiseKept ==
  ASSUME PromiseInv, fileVars' = fileVars, content' = content, pc' = pc, file' = file,
         todo' = todo, held' = held, request' = request
  PROVE  PromiseInv'
<1>1. ASSUME NEW t \in Threads
      PROVE  WorkInv(t)'
  <2>1. WorkInv(t)
    BY DEF PromiseInv
  <2>2. KindInv(t)' /\ GrownInv(t)' /\ HeldInv(t)'
    BY <2>1 DEF WorkInv, KindInv, GrownInv, HeldInv, Op, Data, ContentOf, Lowest,
                Mentioned, fileVars
  <2>3. FreshInv(t)' /\ DoneInv(t)'
    BY <2>1 DEF WorkInv, FreshInv, DoneInv, Op, Data, ContentOf, fileVars
  <2> QED
    BY <2>2, <2>3 DEF WorkInv
<1>2. ASSUME NEW f \in Files
      PROVE  ShapeInv(f)'
  <2>1. ShapeInv(f)
    BY DEF PromiseInv
  <2> QED
    BY <2>1 DEF ShapeInv, fileVars
<1> QED
  BY <1>1, <1>2 DEF PromiseInv

LEMMA PromiseStep ==
  ASSUME KeepInv, PromiseInv, [Next]_vars
  PROVE  PromiseInv'
<1>1. ASSUME NEW t \in Threads, Step(t)
      PROVE  PromiseInv'
  <2>1. \A u \in Threads : WorkInv(u)'
    BY <1>1, WorkStep DEF PromiseInv
  <2>2. \A f \in Files : ShapeInv(f)'
    BY <1>1, PlanFromWork, ShapeStep DEF PromiseInv, KeepInv, CountInv
  <2> QED
    BY <2>1, <2>2 DEF PromiseInv
<1>2. CASE Remount
  BY <1>2, PromiseKept DEF Remount
<1>3. CASE UNCHANGED vars
  BY <1>3, PromiseKept DEF vars, hashVars
<1> QED
  BY <1>1, <1>2, <1>3 DEF Next

LEMMA MapNext ==
  ASSUME KeepInv, KeepInv', PromiseInv, [Next]_vars
  PROVE  [FC!Next]_FC!storeVars
<1>1. CASE \E t \in Threads : Step(t)
  BY <1>1, MapStep
<1>2. CASE Remount \/ UNCHANGED vars
  <2>1. /\ list' = list /\ request' = request /\ slot' = slot
        /\ slotChunk' = slotChunk
    BY <1>2 DEF Remount, vars, fileVars, hashVars, poolVars
  <2>2. contents' = contents
    BY <2>1 DEF contents, Stored
  <2> QED
    BY <2>1, <2>2 DEF FC!storeVars
<1> QED
  BY <1>1, <1>2 DEF Next

LEMMA MapInit ==
  ASSUME Init
  PROVE  FC!Init
<1>1. \A f \in Files, p \in Positions : Stored(list[f][p]) = None
  BY ConstantsAssumption DEF Init, NoChunks, Stored
<1>2. contents = [f \in Files |-> [p \in Positions |-> None]]
  BY <1>1 DEF contents
<1> QED
  BY <1>2 DEF Init, FC!Init

(* As long as no two threads meet in a section of one content, the store   *)
(* does what FileContents promises, for any number of threads, files and   *)
(* contents: what a client reads in a file changes only by the requests    *)
(* made on it, chunk by chunk for a write (file.cpp:750), at once for a    *)
(* truncation or an exchange of the list (:538-561, :844), and a call      *)
(* returns when the file holds what was asked for.                         *)
THEOREM StoreImplements == ApartSpec => KeepsContents
<1> DEFINE Inv == KeepInv /\ PromiseInv
<1>1. Init => Inv /\ FC!Init
  BY KeepInit, PromiseInit, MapInit
<1>2. Inv /\ KeepInv' /\ [Next]_vars => Inv' /\ [FC!Next]_FC!storeVars
  BY PromiseStep, MapNext
<1>3. [Next /\ Apart']_vars => [Next]_vars
  OBVIOUS
<1>4. Inv => KeepInv
  OBVIOUS
<1> HIDE DEF Inv
<1> QED
  BY <1>1, <1>2, <1>3, <1>4, ApartKeeps, PTL DEF ApartSpec, KeepsContents, FC!Spec

-----------------------------------------------------------------------------
(* The hash of zeros. What waits to be counted is listed.                  *)
ZeroInv == Awaited \subseteq RefsTo(Zero)
ZeroKept == ZeroInv' /\ Surplus' = Surplus

TallyInv ==
  /\ ControlInv
  /\ \A t \in Threads : PlanInv(t)
  /\ \A f \in Files : ShapeInv(f)
  /\ ZeroInv

(* The places of a file's list at some positions. *)
Row(f, S) == {<<"list", f, p>> : p \in S}

LEMMA RowCounted ==
  ASSUME NEW f \in Files, NEW S \in SUBSET Positions
  PROVE  /\ IsFiniteSet(Row(f, S)) /\ Cardinality(Row(f, S)) = Cardinality(S)
         /\ Row(f, S) \subseteq Places
         /\ \A g \in Files, p \in Positions : <<"list", g, p>> \in Row(f, S) <=> g = f /\ p \in S
<1> DEFINE at == [p \in S |-> <<"list", f, p>>]
<1>1. IsFiniteSet(S)
  BY PositionsFinite, FS_Subset
<1>2. at \in [S -> Row(f, S)] /\ (\A p, q \in S : at[p] = at[q] => p = q)
      /\ \A r \in Row(f, S) : \E p \in S : at[p] = r
  BY DEF Row
<1>3. at \in Bijection(S, Row(f, S))
  <2> HIDE DEF at
  <2> QED
    BY <1>2, Fun_IsBij
<1>4. ExistsBijection(S, Row(f, S))
  BY <1>3 DEF ExistsBijection
<1>5. IsFiniteSet(Row(f, S)) /\ Cardinality(Row(f, S)) = Cardinality(S)
  BY <1>1, <1>4, FS_Bijection
<1>6. Row(f, S) \subseteq Places
  BY DEF Row, Places
<1> QED
  BY <1>5, <1>6 DEF Row

LEMMA AwaitedCases ==
  /\ \A f \in Files, p \in Positions :
       <<"list", f, p>> \in Awaited <=> Waiting(f, p)
  /\ Awaited \subseteq Places /\ IsFiniteSet(Awaited) /\ Cardinality(Awaited) \in Nat
  /\ \A r \in Awaited : \E f \in Files, p \in Positions : r = <<"list", f, p>>
<1>1. IsFiniteSet(Places)
  BY PlacesFinite
<1>2. Awaited \subseteq Places
  BY DEF Awaited
<1>3. IsFiniteSet(Awaited) /\ Cardinality(Awaited) \in Nat
  BY <1>1, <1>2, FS_Subset, FS_CardinalityType
<1>4. ASSUME NEW f \in Files, NEW p \in Positions
      PROVE  <<"list", f, p>> \in Awaited <=> Waiting(f, p)
  BY DEF Awaited, Places
<1>5. \A r \in Awaited : \E f \in Files, p \in Positions : r = <<"list", f, p>>
  BY DEF Awaited
<1> QED
  BY <1>2, <1>3, <1>4, <1>5

(* Only growing a list, cutting it and counting change who waits. *)
LEMMA WaitingFrame ==
  ASSUME ControlInv, NEW t \in Threads, Step(t), NEW f \in Files, NEW p \in Positions
  PROVE  /\ f # file[t] \/ pc[t] = "idle" => (pc'[t] = "count" /\ file'[t] = f)
                                             \/ (Waiting(f, p)' <=> Waiting(f, p))
         /\ pc[t] # "count" /\ pc'[t] # "count" => (Waiting(f, p)' <=> Waiting(f, p))
<1>1. ASSUME NEW u \in Threads, u # t
      PROVE  (pc'[u] = "count" /\ file'[u] = f /\ p \in todo'[u])
               <=> (pc[u] = "count" /\ file[u] = f /\ p \in todo[u])
  BY <1>1, Frame
<1> QED
  BY <1>1 DEF Waiting

(* Nobody else waits on the file of a thread at work. *)
LEMMA OneWaits ==
  ASSUME ControlInv, NEW t \in Threads, pc[t] # "idle", NEW p \in Positions
  PROVE  Waiting(file[t], p) <=> pc[t] = "count" /\ p \in todo[t]
  BY DEF ControlInv, FileInv, Waiting

LEMMA WaitingZero ==
  ASSUME TallyInv, NEW f \in Files, NEW p \in Positions, Waiting(f, p)
  PROVE  list[f][p] = Zero
  BY AwaitedCases, PlaceCases DEF TallyInv, ZeroInv

LEMMA ZeroCounts ==
  ASSUME TallyInv
  PROVE  /\ refcnt[Zero] \in Int /\ Cardinality(Awaited) \in Nat
         /\ Cardinality(RefsTo(Zero)) \in Nat /\ Cardinality(RefsTo(Zero)') \in Nat
<1>1. Zero \in Refs
  BY DEF Refs
<1> QED
  BY <1>1, AwaitedCases, RefsFinite, FS_CardinalityType
     DEF TallyInv, ControlInv, TypeOK, HashesTyped

(* A step that neither begins nor ends a wait, and counts what it adds.    *)
LEMMA ZeroBalanced ==
  ASSUME TallyInv, NEW t \in Threads, Step(t), pc[t] # "count", pc'[t] # "count",
         refcnt'[Zero] + Cardinality(RefsTo(Zero)) = refcnt[Zero] + Cardinality(RefsTo(Zero)'),
         refcnt'[Zero] \in Int
  PROVE  ZeroKept
<1>1. \A f \in Files, p \in Positions : Waiting(f, p)' <=> Waiting(f, p)
  BY WaitingFrame DEF TallyInv
<1>2. Awaited' = Awaited
  BY <1>1 DEF Awaited, Places
<1>3. Awaited \subseteq RefsTo(Zero)'
  <2>1. ASSUME NEW f \in Files, NEW p \in Positions, Waiting(f, p)
        PROVE  <<"list", f, p>> \in RefsTo(Zero)'
    <3>1. PICK u \in Threads : pc[u] = "count" /\ file[u] = f
      BY <2>1 DEF Waiting
    <3>2. list'[f] = list[f]
      BY <3>1, FrameRows DEF TallyInv
    <3>3. list'[f][p] = Zero
      BY <2>1, <3>2, WaitingZero
    <3> QED
      BY <3>3, PlaceCases
  <2> QED
    BY <2>1, AwaitedCases
<1>5. refcnt'[Zero] + Cardinality(Awaited) - Cardinality(RefsTo(Zero)')
        = refcnt[Zero] + Cardinality(Awaited) - Cardinality(RefsTo(Zero))
  <2> DEFINE n == Cardinality(Awaited)
             r == Cardinality(RefsTo(Zero))
             s == Cardinality(RefsTo(Zero)')
  <2>1. n \in Nat /\ r \in Nat /\ s \in Nat /\ refcnt[Zero] \in Int
    BY ZeroCounts
  <2>2. refcnt'[Zero] + r = refcnt[Zero] + s
    OBVIOUS
  <2>i. refcnt'[Zero] \in Int
    OBVIOUS
  <2> HIDE DEF n, r, s
  <2>3. ASSUME NEW x \in Int, NEW y \in Int, y + r = x + s
        PROVE  y + n - s = x + n - r
    BY <2>1, <2>3
  <2>4. refcnt'[Zero] + n - s = refcnt[Zero] + n - r
    BY <2>1, <2>2, <2>3, <2>i
  <2> QED
    BY <2>4 DEF n, r, s
<1> QED
  BY <1>2, <1>3, <1>5 DEF ZeroKept, ZeroInv, Surplus

(* Zeros are appended: they wait to be counted. *)
LEMMA ZeroAppended ==
  ASSUME TallyInv, NEW t \in Threads, Step(t), pc[t] \notin {"idle", "count"},
         pc'[t] = "count", file'[t] = file[t], file[t] \in Files, todo'[t] \in SUBSET Positions,
         fresh' = fresh, stale' = stale, refcnt' = refcnt,
         \A p \in todo'[t] : list[file[t]][p] = None,
         \A g \in Files, p \in Positions :
            list'[g][p] = IF g = file[t] /\ p \in todo'[t] THEN Zero ELSE list[g][p]
  PROVE  ZeroKept
<1> DEFINE f == file[t]
           S == todo'[t]
           R == RefsTo(Zero) \cup Row(f, S)
<1>z. Zero # None
  BY ConstantsAssumption
<1>r. /\ IsFiniteSet(Row(f, S)) /\ Cardinality(Row(f, S)) = Cardinality(S)
      /\ Row(f, S) \subseteq Places
      /\ \A g \in Files, p \in Positions : <<"list", g, p>> \in Row(f, S) <=> g = f /\ p \in S
  BY RowCounted
<1>k. \A k, g, p : k # "list" => <<k, g, p>> \notin Row(f, S)
  BY DEF Row
<1>1. RefsTo(Zero)' = R
  <2>1. ASSUME NEW k \in Kinds, NEW g \in Files, NEW p \in Positions
        PROVE  <<k, g, p>> \in RefsTo(Zero)' <=> <<k, g, p>> \in R
    <3>1. CASE k = "list"
      <4>1. list'[g][p] = Zero <=> (list[g][p] = Zero \/ (g = f /\ p \in S))
        BY <1>z
      <4> QED
        BY <1>r, <3>1, <4>1, PlaceCases
    <3>2. CASE k = "fresh" \/ k = "stale"
      BY <1>k, <3>2, PlaceCases
    <3> QED
      BY <3>1, <3>2 DEF Kinds
  <2>2. R \subseteq Places
    BY <1>r DEF RefsTo
  <2> HIDE DEF R
  <2> QED
    BY <2>1, <2>2, RefsByPlace
<1>2. Awaited' = Awaited \cup Row(f, S)
  <2>1. ASSUME NEW g \in Files, NEW p \in Positions
        PROVE  Waiting(g, p)' <=> Waiting(g, p) \/ (g = f /\ p \in S)
    <3>1. CASE g # f
      BY <3>1, WaitingFrame DEF TallyInv
    <3>2. CASE g = f
      <4>1. ~Waiting(f, p)
        BY OneWaits DEF TallyInv
      <4>2. p \in S => Waiting(g, p)'
        BY <3>2 DEF Waiting
      <4>3. Waiting(g, p)' => p \in S
        <5>1. ASSUME NEW u \in Threads, u # t
              PROVE  ~(pc'[u] = "count" /\ file'[u] = f)
          BY <5>1, Frame DEF TallyInv, ControlInv, FileInv
        <5> QED
          BY <3>2, <5>1 DEF Waiting
      <4> QED
        BY <3>2, <4>1, <4>2, <4>3
    <3> QED
      BY <3>1, <3>2
  <2>2. \A r \in Row(f, S) : \E p \in S : r = <<"list", f, p>>
    BY DEF Row
  <2>3. \A r \in Awaited' : \E g \in Files, p \in Positions : r = <<"list", g, p>> /\ Waiting(g, p)'
    BY DEF Awaited
  <2>4. \A g \in Files, p \in Positions : Waiting(g, p)' => <<"list", g, p>> \in Awaited'
    BY DEF Awaited, Places
  <2>5. \A r \in Awaited' : r \in Awaited \cup Row(f, S)
    BY <2>1, <2>3, <1>r, AwaitedCases
  <2>6. \A r \in Awaited \cup Row(f, S) : r \in Awaited'
    BY <2>1, <2>2, <2>4, AwaitedCases
  <2> QED
    BY <2>5, <2>6
<1>3. Row(f, S) \cap RefsTo(Zero) = {} /\ Row(f, S) \cap Awaited = {}
  <2>1. ASSUME NEW p \in S
        PROVE  <<"list", f, p>> \notin RefsTo(Zero)
    <3>1. list[f][p] # Zero /\ p \in Positions
      BY <1>z
    <3> QED
      BY <3>1, PlaceCases
  <2>2. Awaited \subseteq RefsTo(Zero)
    BY DEF TallyInv, ZeroInv
  <2> QED
    BY <2>1, <2>2 DEF Row
<1>4. Cardinality(R) = Cardinality(RefsTo(Zero)) + Cardinality(S)
      /\ Cardinality(Awaited \cup Row(f, S)) = Cardinality(Awaited) + Cardinality(S)
  <2>1. /\ RefsTo(Zero) \cap Row(f, S) = {} /\ Awaited \cap Row(f, S) = {}
        /\ IsFiniteSet(RefsTo(Zero)) /\ IsFiniteSet(Awaited)
    BY <1>3, RefsFinite, AwaitedCases
  <2>2. Cardinality(RefsTo(Zero)) \in Nat /\ Cardinality(Awaited) \in Nat
        /\ Cardinality(S) \in Nat /\ Cardinality({}) = 0
    BY ZeroCounts, PositionsFinite, FS_EmptySet
  <2>3. Cardinality(R) = Cardinality(RefsTo(Zero)) + Cardinality(Row(f, S)) - Cardinality({})
    BY <1>r, <2>1, FS_Union
  <2>4. Cardinality(Awaited \cup Row(f, S))
          = Cardinality(Awaited) + Cardinality(Row(f, S)) - Cardinality({})
    BY <1>r, <2>1, FS_Union
  <2> HIDE DEF S, R, f
  <2> QED
    BY <1>r, <2>2, <2>3, <2>4
<1>5. Awaited' \subseteq RefsTo(Zero)'
  BY <1>1, <1>2 DEF TallyInv, ZeroInv
<1>7. refcnt'[Zero] + Cardinality(Awaited') - Cardinality(RefsTo(Zero)')
        = refcnt[Zero] + Cardinality(Awaited) - Cardinality(RefsTo(Zero))
  <2> DEFINE n == Cardinality(Awaited)
             r == Cardinality(RefsTo(Zero))
             s == Cardinality(S)
  <2>1. n \in Nat /\ r \in Nat /\ s \in Nat /\ refcnt[Zero] \in Int
    BY ZeroCounts, PositionsFinite
  <2>2. Cardinality(Awaited') = n + s /\ Cardinality(RefsTo(Zero)') = r + s
    BY <1>1, <1>2, <1>4
  <2>3. refcnt'[Zero] = refcnt[Zero]
    OBVIOUS
  <2> HIDE DEF n, r, s
  <2>4. refcnt'[Zero] + Cardinality(Awaited') - Cardinality(RefsTo(Zero)') = refcnt[Zero] + n - r
    BY <2>1, <2>2, <2>3
  <2> QED
    BY <2>4 DEF n, r
<1> QED
  BY <1>5, <1>7 DEF ZeroKept, ZeroInv, Surplus

LEMMA ZeroRepaid ==
  ASSUME TallyInv, NEW t \in Threads, Step(t), Count(t)
  PROVE  ZeroKept
<1> DEFINE f == file[t]
           S == todo[t]
<1> USE DEF TallyInv
<1>0. pc[t] = "count" /\ f \in Files /\ S \in SUBSET Positions /\ pc'[t] # "count"
  BY DEF Count, ControlInv, ThreadInv, TypeOK, ThreadsTyped, Goto
<1>r. /\ IsFiniteSet(Row(f, S)) /\ Cardinality(Row(f, S)) = Cardinality(S)
      /\ \A g \in Files, p \in Positions : <<"list", g, p>> \in Row(f, S) <=> g = f /\ p \in S
  BY <1>0, RowCounted
<1>1. RefsTo(Zero)' = RefsTo(Zero)
  <2>1. list' = list /\ fresh' = fresh /\ stale' = stale
    BY DEF Count, fileVars
  <2> QED
    BY <2>1, RefsKept DEF SamePlace
<1>2. Awaited' = Awaited \ Row(f, S) /\ Row(f, S) \subseteq Awaited
  <2>1. ASSUME NEW g \in Files, NEW p \in Positions
        PROVE  Waiting(g, p)' <=> Waiting(g, p) /\ ~(g = f /\ p \in S)
    <3>1. CASE g # f
      BY <1>0, <3>1, WaitingFrame
    <3>2. CASE g = f
      <4>1. Waiting(f, p) <=> p \in S
        BY <1>0, OneWaits
      <4>2. ~Waiting(g, p)'
        <5>1. ASSUME NEW u \in Threads, u # t
              PROVE  ~(pc'[u] = "count" /\ file'[u] = f)
          BY <1>0, <5>1, Frame DEF ControlInv, FileInv
        <5> QED
          BY <1>0, <3>2, <5>1 DEF Waiting
      <4> QED
        BY <3>2, <4>1, <4>2
    <3> QED
      BY <3>1, <3>2
  <2>2. \A r \in Row(f, S) : \E p \in S : r = <<"list", f, p>>
    BY DEF Row
  <2>3. \A p \in S : Waiting(f, p)
    BY <1>0 DEF Waiting
  <2>4. \A r \in Awaited' : \E g \in Files, p \in Positions : r = <<"list", g, p>> /\ Waiting(g, p)'
    BY DEF Awaited
  <2>5. \A g \in Files, p \in Positions : Waiting(g, p)' => <<"list", g, p>> \in Awaited'
    BY DEF Awaited, Places
  <2>6. Row(f, S) \subseteq Awaited
    BY <1>0, <2>2, <2>3, AwaitedCases
  <2>7. \A r \in Awaited' : r \in Awaited \ Row(f, S)
    BY <1>r, <2>1, <2>4, AwaitedCases
  <2>8. \A r \in Awaited \ Row(f, S) : r \in Awaited'
    BY <1>r, <2>1, <2>5, AwaitedCases
  <2> QED
    BY <2>6, <2>7, <2>8
<1>3. Cardinality(Awaited \ Row(f, S)) = Cardinality(Awaited) - Cardinality(S)
  <2>1. Awaited \cap Row(f, S) = Row(f, S)
    BY <1>2
  <2>2. IsFiniteSet(Awaited)
    BY AwaitedCases
  <2> DEFINE R == Row(f, S)
  <2>3. Cardinality(R) = Cardinality(S)
    BY <1>r
  <2>4. Cardinality(Awaited \ R) = Cardinality(Awaited) - Cardinality(R)
    <3> HIDE DEF R
    <3> QED
      BY <2>1, <2>2, FS_Difference DEF R
  <2> HIDE DEF f, S
  <2> QED
    BY <2>3, <2>4
<1>4. refcnt'[Zero] = refcnt[Zero] + Cardinality(S)
  BY DEF Count, ControlInv, TypeOK, HashesTyped, Refs
<1>5. Awaited' \subseteq RefsTo(Zero)'
  BY <1>1, <1>2 DEF ZeroInv
<1>6. refcnt'[Zero] + Cardinality(Awaited') - Cardinality(RefsTo(Zero)')
        = refcnt[Zero] + Cardinality(Awaited) - Cardinality(RefsTo(Zero))
  <2> DEFINE n == Cardinality(Awaited)
             r == Cardinality(RefsTo(Zero))
             s == Cardinality(S)
  <2>1. n \in Nat /\ r \in Nat /\ s \in Nat /\ refcnt[Zero] \in Int
    BY <1>0, ZeroCounts, PositionsFinite
  <2>2. Cardinality(Awaited') = n - s /\ Cardinality(RefsTo(Zero)') = r
    BY <1>1, <1>2, <1>3
  <2>3. refcnt'[Zero] = refcnt[Zero] + s
    BY <1>4
  <2> HIDE DEF n, r, s
  <2>4. refcnt'[Zero] + Cardinality(Awaited') - Cardinality(RefsTo(Zero)') = refcnt[Zero] + n - r
    BY <2>1, <2>2, <2>3
  <2> QED
    BY <2>4 DEF n, r
<1> QED
  BY <1>5, <1>6 DEF ZeroKept, ZeroInv, Surplus

(* A file has no gaps, so that truncate never cuts and appends at once. *)
LEMMA CutOrAppend ==
  ASSUME ControlInv, NEW t \in Threads, Cut(t), PlanInv(t), \A f \in Files : ShapeInv(f),
         NEW p \in Mentioned(request[file[t]]), list[file[t]][p] = None,
         NEW q \in Positions, q \notin Mentioned(request[file[t]])
  PROVE  list[file[t]][q] = None
<1>1. file[t] \in Files /\ request[file[t]] # None /\ Op(t) = "truncate"
  BY RequestsAssumption DEF Cut, ControlInv, ThreadInv, PlanInv, KindInv
<1>2. IsPrefixSet(Mentioned(request[file[t]]))
  BY <1>1 DEF ShapeInv, Op
<1>3. p \in Positions /\ p \in Int /\ q \in Int /\ p # q
  BY DEF Mentioned, Positions
<1>4. p < q
  BY <1>2, <1>3 DEF IsPrefixSet
<1> QED
  BY <1>1, <1>3, <1>4 DEF ShapeInv

LEMMA ZeroGrow ==
  ASSUME TallyInv, NEW t \in Threads, Step(t), Grow(t)
  PROVE  ZeroKept
<1> USE DEF TallyInv, ControlInv, TypeOK, ThreadsTyped
<1> DEFINE f == file[t]
           added == {p \in Positions :
                       list[f][p] = None /\ \E q \in Mentioned(request[f]) : p <= q}
<1>0. f \in Files /\ pc[t] = "grow" /\ fresh' = fresh /\ stale' = stale /\ refcnt' = refcnt
      /\ file' = file
  BY DEF Grow, ThreadInv, hashVars
<1>1. CASE added = {}
  <2>1. list' = list /\ pc'[t] = "scan"
    BY <1>1 DEF Grow, Goto
  <2>2. RefsTo(Zero)' = RefsTo(Zero)
    BY <1>0, <2>1, RefsKept DEF SamePlace
  <2> QED
    BY <1>0, <2>1, <2>2, ZeroCounts, ZeroBalanced
<1>2. CASE added # {}
  <2>1. pc'[t] = "count" /\ todo'[t] = added
    BY <1>2 DEF Grow, Goto
  <2>2. \A g \in Files, p \in Positions :
           list'[g][p] = IF g = f /\ p \in added THEN Zero ELSE list[g][p]
    BY <1>0, <1>2 DEF Grow, FilesTyped
  <2>3. \A p \in added : list[f][p] = None
    OBVIOUS
  <2>4. added \in SUBSET Positions
    OBVIOUS
  <2> HIDE DEF added
  <2> QED
    BY <1>0, <2>1, <2>2, <2>3, <2>4, ZeroAppended
<1> QED
  BY <1>1, <1>2

LEMMA ZeroCut ==
  ASSUME TallyInv, NEW t \in Threads, Step(t), Cut(t)
  PROVE  ZeroKept
<1> USE DEF TallyInv, ControlInv, TypeOK, ThreadsTyped
<1> DEFINE f == file[t]
           keep == Mentioned(request[f])
           removed == {p \in Positions \ keep : list[f][p] # None}
           added == {p \in keep : list[f][p] = None}
<1>0. f \in Files /\ pc[t] = "cut" /\ fresh' = fresh /\ refcnt' = refcnt /\ file' = file
      /\ keep \subseteq Positions
  BY DEF Cut, ThreadInv, hashVars, Mentioned
<1>1. removed = {} \/ added = {}
  BY CutOrAppend
<1>2. CASE added = {}
  <2>1. pc'[t] \in {"dec", "rest"}
    BY <1>2 DEF Cut, Goto
  <2>2. \A p \in keep : list[f][p] # None
    BY <1>2
  <2>3. Cardinality(RefsTo(Zero)') = Cardinality(RefsTo(Zero))
    BY <2>2, RefsMoved DEF Refs
  <2> QED
    BY <1>0, <2>1, <2>3, ZeroCounts, ZeroBalanced
<1>3. CASE added # {} /\ removed = {}
  <2>1. pc'[t] = "count" /\ todo'[t] = added
    BY <1>3 DEF Cut, Goto
  <2>2. \A g \in Files, p \in Positions :
           /\ list'[g][p] = IF g = f /\ p \in added THEN Zero ELSE list[g][p]
           /\ stale'[g][p] = stale[g][p]
    <3>1. \A p \in Positions : p \notin keep => list[f][p] = None
      BY <1>3
    <3>2. \A p \in Positions : list'[f][p] = IF p \notin keep THEN None
                                             ELSE IF p \in added THEN Zero ELSE list[f][p]
      BY <1>0 DEF Cut, FilesTyped
    <3>3. \A g \in Files : g # f => list'[g] = list[g] /\ stale'[g] = stale[g]
      BY <1>0 DEF Cut, FilesTyped
    <3>4. \A p \in Positions : stale'[f][p] = IF p \in removed THEN list[f][p] ELSE stale[f][p]
      BY <1>0 DEF Cut, FilesTyped
    <3>5. \A p \in added : p \in keep
      OBVIOUS
    <3> HIDE DEF keep, added, removed
    <3> QED
      BY <1>0, <1>3, <3>1, <3>2, <3>3, <3>4, <3>5
  <2>3. \A p \in added : list[f][p] = None
    OBVIOUS
  <2>4. added \in SUBSET Positions
    BY <1>0
  <2>5. stale' = stale
    <3>1. stale' \in [Files -> [Positions -> Refs \cup {None}]]
      BY TypesWhole DEF Whole, FilesTyped
    <3> QED
      BY <2>2, <3>1 DEF FilesTyped
  <2> HIDE DEF added
  <2> QED
    BY <1>0, <2>1, <2>2, <2>3, <2>4, <2>5, ZeroAppended
<1> QED
  BY <1>1, <1>2, <1>3

LEMMA ZeroStep ==
  ASSUME TallyInv, NEW t \in Threads, Step(t)
  PROVE  ZeroKept
<1> USE DEF TallyInv, ControlInv, TypeOK
<1>z. Zero \in Refs /\ Zero \notin Hashes
  BY ConstantsAssumption DEF Refs
<1>n. /\ refcnt[Zero] \in Int /\ Cardinality(RefsTo(Zero)) \in Nat
      /\ Cardinality(RefsTo(Zero)') \in Nat
  BY ZeroCounts
<1>1. CASE Grow(t)
  BY <1>1, ZeroGrow
<1>2. CASE Cut(t)
  BY <1>2, ZeroCut
<1>3. CASE Count(t)
  BY <1>3, ZeroRepaid
<1>4. CASE Update(t) \/ Swap(t)
  <2>1. Cardinality(RefsTo(Zero)') = Cardinality(RefsTo(Zero)) /\ refcnt' = refcnt
    BY <1>z, <1>4, RefsMoved DEF Update, Swap, Cut, hashVars
  <2>2. pc[t] # "count" /\ pc'[t] # "count"
    BY <1>4 DEF Update, Swap, Goto, ThreadsTyped
  <2> QED
    BY <1>n, <2>1, <2>2, ZeroBalanced
<1>5. CASE Inc(t)
  <2>1. refcnt'[Zero] + Cardinality(RefsTo(Zero)) = refcnt[Zero] + Cardinality(RefsTo(Zero)')
        /\ refcnt'[Zero] \in Int
    BY <1>z, <1>n, <1>5, RefsCounted
  <2>2. pc[t] # "count" /\ pc'[t] # "count"
    BY <1>5 DEF Inc, Goto, ThreadsTyped
  <2> QED
    BY <2>1, <2>2, ZeroBalanced
<1>6. CASE Dec(t)
  <2>0. \/ /\ Cardinality(RefsTo(Zero)') = Cardinality(RefsTo(Zero)) - 1
           /\ refcnt'[Zero] = refcnt[Zero] - 1
        \/ RefsTo(Zero)' = RefsTo(Zero) /\ refcnt'[Zero] = refcnt[Zero]
    BY <1>z, <1>6, RefsGivenUp
  <2>1. refcnt'[Zero] + Cardinality(RefsTo(Zero)) = refcnt[Zero] + Cardinality(RefsTo(Zero)')
        /\ refcnt'[Zero] \in Int
    BY <1>n, <2>0
  <2>2. pc[t] # "count" /\ pc'[t] # "count"
    BY <1>6 DEF Dec, Goto, ThreadsTyped
  <2> QED
    BY <2>1, <2>2, ZeroBalanced
<1>7. CASE ~(Grow(t) \/ Whole(t) \/ Update(t) \/ Inc(t) \/ Dec(t))
  <2>1. list' = list /\ fresh' = fresh /\ stale' = stale /\ refcnt'[Zero] = refcnt[Zero]
    <3>1. CASE Fetch(t)
      BY <1>z, <3>1 DEF Fetch, fileVars, HashesTyped
    <3>2. CASE ~Fetch(t)
      BY <1>7, <3>2 DEF Step, Begin, Write, SkipSame, ScanDone, UpdateDone,
         New, Lookup, Put, Insert, Alive, Drop, Flags, CheckZero, DecDone,
         Delete, Mark, CheckOwn, Erase, Clear, Post, Return, fileVars, hashVars
    <3> QED
      BY <3>1, <3>2
  <2>2. RefsTo(Zero)' = RefsTo(Zero)
    BY <2>1, RefsKept DEF SamePlace
  <2>3. pc[t] # "count" /\ pc'[t] # "count"
    <3>1. CASE Begin(t)
      BY <3>1, BeginLabel DEF Begin
    <3>2. CASE ~Begin(t)
      BY <1>7, <3>2 DEF Step, Write, SkipSame, ScanDone, UpdateDone,
         New, Lookup, Fetch, Put, Insert, Alive, Drop, Flags, CheckZero, DecDone,
         Delete, Mark, CheckOwn, Erase, Clear, Post, Return, Goto, ThreadsTyped
    <3> QED
      BY <3>1, <3>2
  <2> QED
    BY <1>n, <2>1, <2>2, <2>3, ZeroBalanced
<1> QED
  BY <1>1, <1>2, <1>3, <1>4, <1>5, <1>6, <1>7 DEF Whole

LEMMA TallyInit ==
  ASSUME Init
  PROVE  TallyInv
<1>1. ControlInv
  BY CountInit DEF CountInv
<1>2. (\A t \in Threads : PlanInv(t)) /\ \A f \in Files : ShapeInv(f)
  BY <1>1, PromiseInit, PlanFromWork DEF PromiseInv
<1>3. Awaited = {}
  BY DEF Init, Awaited, Waiting
<1> QED
  BY <1>1, <1>2, <1>3 DEF TallyInv, ZeroInv

LEMMA TallyStep ==
  ASSUME TallyInv, [Next]_vars
  PROVE  /\ TallyInv'
         /\ remounts' = remounts => Surplus' = Surplus
<1>1. ASSUME NEW t \in Threads, Step(t)
      PROVE  TallyInv' /\ Surplus' = Surplus
  <2>1. ControlInv'
    BY <1>1, ControlStep DEF TallyInv, Next
  <2>2. \A u \in Threads : PlanInv(u)'
    BY <1>1, PlanStep DEF TallyInv
  <2>3. \A f \in Files : ShapeInv(f)'
    BY <1>1, ShapeStep DEF TallyInv
  <2>4. ZeroKept
    BY <1>1, ZeroStep
  <2> QED
    BY <2>1, <2>2, <2>3, <2>4 DEF TallyInv, ZeroKept
<1>2. CASE Remount \/ UNCHANGED vars
  <2>1. ControlInv'
    BY ControlStep DEF TallyInv
  <2>2. /\ list' = list /\ fresh' = fresh /\ stale' = stale /\ pc' = pc /\ file' = file
        /\ todo' = todo /\ request' = request
    BY <1>2 DEF Remount, vars, fileVars, hashVars
  <2>3. \A u \in Threads : PlanInv(u)'
    BY <2>2 DEF TallyInv, PlanInv, KindInv, GrownInv, FillInv, Op, Mentioned
  <2>4. \A f \in Files : ShapeInv(f)'
    BY <2>2 DEF TallyInv, ShapeInv, Mentioned
  <2>5. RefsTo(Zero)' = RefsTo(Zero) /\ Awaited' = Awaited
    BY <2>2, RefsKept DEF SamePlace, Awaited, Waiting, Places
  <2>6. ZeroInv'
    BY <2>5 DEF TallyInv, ZeroInv
  <2>7. remounts' = remounts => refcnt' = refcnt
    BY <1>2 DEF Remount, vars, hashVars, TallyInv, ControlInv, TypeOK, ThreadsTyped
  <2>8. remounts' = remounts => Surplus' = Surplus
    BY <2>5, <2>7 DEF Surplus
  <2> QED
    BY <2>1, <2>3, <2>4, <2>6, <2>8 DEF TallyInv
<1> QED
  BY <1>1, <1>2 DEF Next

(* Whatever the threads write, truncate, exchange and delete at the same   *)
(* time, the count of the hash of zeros moves with the references to it,   *)
(* those included that are listed before they are counted (file.cpp:556,   *)
(* :703, hash.cpp:50-78). Only a mount, which makes the hash anew with a   *)
(* count of 1 (fs.cpp:67), puts the two out of step.                       *)
THEOREM ZeroMovesWithLists == Spec => ZeroCounted
<1>1. TallyInv /\ [Next]_vars => TallyInv' /\ [remounts' = remounts => Surplus' = Surplus]_vars
  BY TallyStep
<1> QED
  BY <1>1, TallyInit, PTL DEF Spec, ZeroCounted

LEMMA ListedCounted ==
  ASSUME RefExact, ControlInv, NEW f \in Files, NEW p \in Positions, list[f][p] \in Hashes
  PROVE  refcnt[list[f][p]] > 0
<1> DEFINE h == list[f][p]
<1>1. <<"list", f, p>> \in RefsTo(h)
  BY PlaceCases
<1>2. Cardinality(RefsTo(h)) \in Nat /\ Cardinality(RefsTo(h)) # 0
  <2> HIDE DEF h
  <2> QED
    BY <1>1, RefsFinite, FS_EmptySet, FS_CardinalityType
<1> QED
  BY <1>2 DEF RefExact

LEMMA RestFailsAtZero ==
  ASSUME RefExact, ControlInv, NEW f \in Files, RestFails(f)
  PROVE  refcnt[Zero] <= 0
<1>1. PICK p \in Positions : list[f][p] # None /\ refcnt[list[f][p]] <= 0
  BY DEF RestFails
<1>2. list[f][p] \in Refs /\ refcnt[list[f][p]] \in Int
  BY <1>1 DEF ControlInv, TypeOK, FilesTyped, HashesTyped
<1>3. list[f][p] \notin Hashes
  <2>1. SUFFICES ASSUME list[f][p] \in Hashes
                 PROVE  FALSE
    OBVIOUS
  <2>2. refcnt[list[f][p]] > 0
    BY <2>1, ListedCounted
  <2> QED
    BY <1>1, <1>2, <2>2
<1> QED
  BY <1>1, <1>2, <1>3 DEF Refs

(* The assertion of file::rest that a listed hash has a count              *)
(* (file.cpp:884) can fail for one hash only, that of zeros, and only once *)
(* its count is used up: every other listed hash has a count at every      *)
(* step of every interleaving, after any number of mounts.                 *)
THEOREM RestFailsForZerosOnly == Spec => OthersRestCounted
<1>1. ASSUME CountInv, Next, aborted' = "file.cpp:884"
      PROVE  refcnt[Zero] <= 0
  <2>1. aborted = "no"
    BY <1>1 DEF Next
  <2>2. \E f \in Files : RestFails(f)
    <3>1. CASE Remount
      BY <1>1, <2>1, <3>1 DEF Remount
    <3>2. ASSUME NEW t \in Threads, Return(t)
          PROVE  \E f \in Files : RestFails(f)
      BY <1>1, <2>1, <3>2 DEF Return, CountInv, ControlInv, ThreadInv
    <3>3. ASSUME NEW t \in Threads, Step(t), ~Return(t)
          PROVE  FALSE
      <4>1. CASE Alive(t) \/ CheckOwn(t)
        BY <1>1, <2>1, <4>1 DEF Alive, CheckOwn
      <4>2. CASE ~(Alive(t) \/ CheckOwn(t))
        BY <1>1, <2>1, <3>3, <4>2 DEF Step, Begin, Write, Grow, SkipSame, ScanDone, Update,
           UpdateDone, Whole, Cut, Count, Swap, New, Lookup, Fetch, Put, Insert, Inc, Drop, Dec,
           Flags, CheckZero, DecDone, Delete, Mark, Erase, Clear, Post
      <4> QED
        BY <4>1, <4>2
    <3> QED
      BY <1>1, <3>1, <3>2, <3>3 DEF Next
  <2> QED
    BY <1>1, <2>2, RestFailsAtZero DEF CountInv
<1>2. CountInv /\ [Next]_vars => CountInv' /\ [aborted' = "file.cpp:884" => refcnt[Zero] <= 0]_vars
  BY <1>1, CountStep
<1> QED
  BY <1>2, CountInit, PTL DEF Spec, OthersRestCounted
===============================================================================
