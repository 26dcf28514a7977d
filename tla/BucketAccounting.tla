-------------------------- MODULE BucketAccounting --------------------------
(***************************************************************************)
(* filesystem/bucketaccounting.cpp: the pool of free bucket indexes. A     *)
(* fixed array of records (_records) is threaded into two lists, the       *)
(* available ones, which hold an index, and the free ones, which hold none.*)
(* fetch() and post() move a record from one list to the other with        *)
(* compare-and-exchange; only the refill of an empty list takes a lock.    *)
(*                                                                         *)
(*   head[l], next[r]  the list heads and nextNode                         *)
(*   data[r]           the index a record holds (None: 0)                  *)
(*   hint, bucketsInUse, mutex (_mut)                                      *)
(*   live              the indexes the callers hold: handed out by fetch,  *)
(*                     or in use since before the mount                    *)
(*   pc, op, expected, successor, node, value   the registers of a call    *)
(*   aborted           the assertion that failed                           *)
(*                                                                         *)
(* One action is one access to a list head or to the next field of a       *)
(* record. createBuckets and the rebuilding of the lists in releaseBuckets *)
(* are one action each: the lock keeps a second refill out. It does not    *)
(* keep out a call that has taken a record and not yet put it back; such a *)
(* call runs before or after the whole rebuilding here, and already that   *)
(* breaks the lists.                                                       *)
(*                                                                         *)
(* Apart: the calls overlap only in ways the lists can take, calls of the  *)
(* same kind with more records in the list they take from than calls in    *)
(* progress, so that no refill overlaps a call. The callers do not ensure  *)
(* this; with Apart = FALSE any calls overlap, as FUSE's threads make them.*)
(*                                                                         *)
(* Bounds: maxBuckets and chunksInBucket (10 and 100 in the code), and     *)
(* MaxFetches, the calls of fetch().                                       *)
(***************************************************************************)
EXTENDS Integers, FiniteSets

CONSTANTS Threads, NoThread, maxBuckets, chunksInBucket, OldBuckets, MaxFetches,
          Apart, None

ASSUME PoolAssumption ==
  /\ NoThread \notin Threads /\ IsFiniteSet(Threads)
  /\ maxBuckets \in Nat \ {0} /\ chunksInBucket \in Nat \ {0}
  /\ OldBuckets \subseteq Nat \ {0} /\ IsFiniteSet(OldBuckets)
  /\ None \notin Nat \X (0 .. chunksInBucket - 1)
  /\ Apart \in BOOLEAN

VARIABLES head, next, data, hint, bucketsInUse, mutex, live,
          pc, op, expected, successor, node, value, fetches, aborted

listVars == <<head, next, data>>
bucketVars == <<hint, bucketsInUse>>
registers == <<op, expected, successor, node, value>>
vars == <<listVars, bucketVars, mutex, live, pc, registers, fetches, aborted>>

Records == 1 .. maxBuckets * chunksInBucket
Null == 0
Slots == 0 .. chunksInBucket - 1
Indexes(B) == B \X Slots

(* cleanRecords, :93-98: every record points to the one after it. *)
InOrder == [r \in Records |-> IF r + 1 \in Records THEN r + 1 ELSE Null]

(* A mount: the files refer to indexes of the old buckets. *)
Init ==
  /\ head = [available |-> Null, free |-> 1]
  /\ next = InOrder
  /\ data = [r \in Records |-> None]
  /\ hint = 1
  /\ bucketsInUse = OldBuckets
  /\ mutex = NoThread
  /\ live = Indexes(OldBuckets)
  /\ pc = [t \in Threads |-> "idle"]
  /\ op = [t \in Threads |-> "none"]
  /\ expected = [t \in Threads |-> Null]
  /\ successor = [t \in Threads |-> Null]
  /\ node = [t \in Threads |-> Null]
  /\ value = [t \in Threads |-> None]
  /\ fetches = 0
  /\ aborted = "no"

Goto(t, label) == pc' = [pc EXCEPT ![t] = label]

(* fetch takes from the available list and gives to the free one; post the *)
(* other way round.                                                        *)
From(t) == IF op[t] = "fetch" THEN "available" ELSE "free"
To(t) == IF op[t] = "fetch" THEN "free" ELSE "available"

(* The records of a list: those in every set that has its head and, of each *)
(* record in it, the next.                                                 *)
Leads(S, first, nxt) ==
  first \in S \cup {Null} /\ \A q \in S : nxt[q] \in S \cup {Null}
Reach(first, nxt) ==
  {r \in Records : \A S \in SUBSET Records : Leads(S, first, nxt) => r \in S}
Chain(l) == Reach(head[l], next)

(* A call that takes from list l may start. *)
MayStart(kind, l) ==
  LET calls == {t \in Threads : pc[t] # "idle"}
  IN Apart /\ calls # {} =>
       /\ \A t \in calls : op[t] = kind
       /\ Cardinality(Chain(l)) > Cardinality(calls)

(* The ids new buckets can have. *)
Unused == {b \in hint .. hint + maxBuckets + Cardinality(bucketsInUse) :
             b \notin bucketsInUse}

(* The available records of a bucket, :129-132. *)
IndexesOf(b) == {r \in Records : data[r] # None /\ data[r][1] = b}

-----------------------------------------------------------------------------
(* Faulty versions of the operations, each with one mistake a change to    *)
(* the code could make. No action uses them: a run in which one takes the  *)
(* place of the operation it is named after must break a property.         *)

TakeCasNotComparing(t) ==
  /\ pc[t] = "take"
  /\ head' = [head EXCEPT ![From(t)] = successor[t]]
  /\ node' = [node EXCEPT ![t] = expected[t]]
  /\ Goto(t, "use")
  /\ UNCHANGED <<next, data, bucketVars, mutex, live, op, expected, successor,
                 value, fetches, aborted>>

InsertRetryNotReloading(t) ==
  /\ pc[t] = "insert"
  /\ head[To(t)] # expected[t]
  /\ UNCHANGED vars

NewIdUnchecked(k) == hint + k

CompleteButOne ==
  {b \in bucketsInUse : Cardinality(IndexesOf(b)) >= chunksInBucket - 1}

-----------------------------------------------------------------------------
Fetch(t) ==
  /\ pc[t] = "idle"
  /\ MayStart("fetch", "available")
  /\ fetches < MaxFetches
  /\ fetches' = fetches + 1
  /\ op' = [op EXCEPT ![t] = "fetch"]
  /\ Goto(t, "load")
  /\ UNCHANGED <<listVars, bucketVars, mutex, live, expected, successor, node,
                 value, aborted>>

(* A caller gives back an index it holds, once (hash.cpp:69, fs.cpp:295,   *)
(* 703, storage.cpp:175).                                                  *)
Post(t) ==
  /\ pc[t] = "idle"
  /\ MayStart("post", "free")
  /\ \E i \in live :
       /\ live' = live \ {i}
       /\ value' = [value EXCEPT ![t] = i]
  /\ op' = [op EXCEPT ![t] = "post"]
  /\ Goto(t, "load")
  /\ UNCHANGED <<listVars, bucketVars, mutex, expected, successor, node,
                 fetches, aborted>>

(* takeFromList, :43-52 *)
TakeLoad(t) ==
  /\ pc[t] = "load"
  /\ expected' = [expected EXCEPT ![t] = head[From(t)]]
  /\ Goto(t, IF head[From(t)] = Null THEN "lock" ELSE "next")
  /\ UNCHANGED <<listVars, bucketVars, mutex, live, op, successor, node, value,
                 fetches, aborted>>

TakeNext(t) ==
  /\ pc[t] = "next"
  /\ successor' = [successor EXCEPT ![t] = next[expected[t]]]
  /\ Goto(t, "take")
  /\ UNCHANGED <<listVars, bucketVars, mutex, live, op, expected, node, value,
                 fetches, aborted>>

(* A compare_exchange that fails loads expected again. *)
TakeCas(t) ==
  /\ pc[t] = "take"
  /\ IF head[From(t)] = expected[t]
       THEN /\ head' = [head EXCEPT ![From(t)] = successor[t]]
            /\ node' = [node EXCEPT ![t] = expected[t]]
            /\ Goto(t, "use")
            /\ UNCHANGED expected
       ELSE /\ expected' = [expected EXCEPT ![t] = head[From(t)]]
            /\ Goto(t, IF head[From(t)] = Null THEN "lock" ELSE "next")
            /\ UNCHANGED <<head, node>>
  /\ UNCHANGED <<next, data, bucketVars, mutex, live, op, successor, value,
                 fetches, aborted>>

(* :184, :208-209 *)
Use(t) ==
  /\ pc[t] = "use"
  /\ IF op[t] = "fetch"
       THEN /\ value' = [value EXCEPT ![t] = data[node[t]]]
            /\ data' = [data EXCEPT ![node[t]] = None]
       ELSE /\ data' = [data EXCEPT ![node[t]] = value[t]]
            /\ UNCHANGED value
  /\ Goto(t, "link")
  /\ UNCHANGED <<head, next, bucketVars, mutex, live, op, expected, successor,
                 node, fetches, aborted>>

(* insertIntoList, :32-40 *)
InsertLoad(t) ==
  /\ pc[t] = "link"
  /\ expected' = [expected EXCEPT ![t] = head[To(t)]]
  /\ next' = [next EXCEPT ![node[t]] = head[To(t)]]
  /\ Goto(t, "insert")
  /\ UNCHANGED <<head, data, bucketVars, mutex, live, op, successor, node,
                 value, fetches, aborted>>

InsertRetry(t) ==
  /\ pc[t] = "insert"
  /\ head[To(t)] # expected[t]
  /\ Goto(t, "link")
  /\ UNCHANGED <<listVars, bucketVars, mutex, live, registers, fetches, aborted>>

(* The exchange succeeds, and the call returns. *)
InsertCas(t) ==
  /\ pc[t] = "insert"
  /\ head[To(t)] = expected[t]
  /\ head' = [head EXCEPT ![To(t)] = node[t]]
  /\ live' = IF op[t] = "fetch" THEN live \cup {value[t]} ELSE live
  /\ value' = [value EXCEPT ![t] = None]
  /\ node' = [node EXCEPT ![t] = Null]
  /\ expected' = [expected EXCEPT ![t] = Null]
  /\ successor' = [successor EXCEPT ![t] = Null]
  /\ op' = [op EXCEPT ![t] = "none"]
  /\ Goto(t, "idle")
  /\ UNCHANGED <<next, data, bucketVars, mutex, fetches, aborted>>

-----------------------------------------------------------------------------
(* The list to take from was empty: :190-195, :214-220. *)
Lock(t) ==
  /\ pc[t] = "lock"
  /\ mutex = NoThread
  /\ mutex' = t
  /\ Goto(t, "check")
  /\ UNCHANGED <<listVars, bucketVars, live, registers, fetches, aborted>>

Check(t) ==
  /\ pc[t] = "check"
  /\ IF head[From(t)] = Null /\ head[To(t)] # Null
       THEN /\ Goto(t, IF op[t] = "fetch" THEN "create" ELSE "release")
            /\ UNCHANGED mutex
       ELSE Goto(t, "load") /\ mutex' = NoThread
  /\ UNCHANGED <<listVars, bucketVars, live, registers, fetches, aborted>>

(* createBuckets takes the first ids that are not in use. *)
NewId(k) == CHOOSE b \in Unused : Cardinality({c \in Unused : c < b}) = k

(* :100-120 *)
CreateBuckets(t) ==
  /\ pc[t] = "create"
  /\ data' = [r \in Records |-> <<NewId((r - 1) \div chunksInBucket),
                                  (r - 1) % chunksInBucket>>]
  /\ bucketsInUse' = bucketsInUse \cup {NewId(k) : k \in 0 .. maxBuckets - 1}
  /\ hint' = NewId(maxBuckets - 1) + 1
  /\ next' = InOrder
  /\ head' = [available |-> 1, free |-> Null]
  /\ mutex' = NoThread
  /\ Goto(t, "load")
  /\ UNCHANGED <<live, registers, fetches, aborted>>

(* _ASSERT(freeList.load()==nullptr), :124 *)
ReleaseBegin(t) ==
  /\ pc[t] = "release"
  /\ aborted' = IF head["free"] = Null THEN aborted ELSE "bucketaccounting.cpp:124"
  /\ Goto(t, "steal")
  /\ UNCHANGED <<listVars, bucketVars, mutex, live, registers, fetches>>

(* stealList and the assertion after it, :125-126 *)
StealList(t) ==
  /\ pc[t] = "steal"
  /\ aborted' = IF head["available"] = Null THEN "bucketaccounting.cpp:126"
                ELSE aborted
  /\ head' = [head EXCEPT !["available"] = Null]
  /\ Goto(t, "rebuild")
  /\ UNCHANGED <<next, data, bucketVars, mutex, live, registers, fetches>>

(* The records of S are pushed on list l so that they come in their order. *)
Pushed(S, old) ==
  [r \in S |-> LET later == {q \in S : q > r}
               IN IF later = {} THEN old
                  ELSE CHOOSE q \in later : \A p \in later : q <= p]
Front(S, old) == IF S = {} THEN old ELSE CHOOSE r \in S : \A q \in S : r <= q

(* The buckets that have as many records as chunks, :134-140. *)
Complete == {b \in bucketsInUse : Cardinality(IndexesOf(b)) = chunksInBucket}

(* :141-167 *)
ReleaseBuckets(t) ==
  /\ pc[t] = "rebuild"
  /\ LET gone == {r \in Records : data[r] = None \/ data[r][1] \in Complete}
         kept == Records \ gone
         links == [l \in {"free", "available"} |->
                     Pushed(IF l = "free" THEN gone ELSE kept, head[l])]
     IN IF Complete = {}
          THEN /\ aborted' = "bucketaccounting.cpp:141"
               /\ UNCHANGED <<listVars, bucketsInUse, mutex, pc>>
          ELSE /\ data' = [r \in Records |-> IF r \in gone THEN None ELSE data[r]]
               /\ next' = [r \in Records |-> IF r \in gone THEN links["free"][r]
                                             ELSE links["available"][r]]
               /\ head' = [free |-> Front(gone, head["free"]),
                           available |-> Front(kept, head["available"])]
               /\ bucketsInUse' = bucketsInUse \ Complete
               /\ mutex' = NoThread
               /\ Goto(t, "load")
               /\ UNCHANGED aborted
  /\ UNCHANGED <<hint, live, registers, fetches>>

Take(t) == TakeLoad(t) \/ TakeNext(t) \/ TakeCas(t) \/ Use(t)
Insert(t) == InsertLoad(t) \/ InsertRetry(t) \/ InsertCas(t)
Refill(t) ==
  \/ Lock(t) \/ Check(t) \/ CreateBuckets(t)
  \/ ReleaseBegin(t) \/ StealList(t) \/ ReleaseBuckets(t)
Work(t) == Take(t) \/ Insert(t) \/ Refill(t)

Next ==
  /\ aborted = "no"
  /\ \E t \in Threads : Fetch(t) \/ Post(t) \/ Work(t)

Spec == Init /\ [][Next]_vars

(* A call that was made keeps running, unless an assertion stops the       *)
(* program.                                                                *)
FairSpec == Spec /\ \A t \in Threads : WF_vars(aborted = "no" /\ Work(t))

-----------------------------------------------------------------------------
Index == Nat \X Slots

TypeOK ==
  /\ head \in [{"available", "free"} -> Records \cup {Null}]
  /\ next \in [Records -> Records \cup {Null}]
  /\ \A r \in Records : data[r] = None \/ data[r] \in Index
  /\ hint \in Nat /\ bucketsInUse \subseteq Nat
  /\ mutex \in Threads \cup {NoThread}
  /\ \A i \in live : i \in Index
  /\ \A t \in Threads : value[t] = None \/ value[t] \in Index
  /\ \A t \in Threads : {expected[t], successor[t], node[t]} \subseteq Records \cup {Null}

(* While releaseBuckets has stolen the list, its records are in nobody's. *)
Stolen == \E t \in Threads : pc[t] = "rebuild"

Pool == {data[r] : r \in IF Stolen THEN Records ELSE Chain("available")} \ {None}

(* The index a call has in its hands. *)
InHand(t) ==
  IF pc[t] = "use" /\ op[t] = "fetch" THEN {data[node[t]]} ELSE {value[t]} \ {None}

Used == live \cup UNION {InHand(t) : t \in Threads}

(* An index is handed out to one caller at a time: what a fetch is about   *)
(* to return is an index nobody holds (bucketaccounting.cpp:203-224).      *)
OneOwner ==
  \A t \in Threads : pc[t] \in {"link", "insert"} /\ op[t] = "fetch" =>
    /\ value[t] \in Index \ live
    /\ \A u \in Threads \ {t} : value[t] # value[u]

(* A record is in one of the lists, or in the hands of one call. *)
EachRecordOnce ==
  LET mine == {node[t] : t \in {u \in Threads : pc[u] \in {"use", "link", "insert"}}}
  IN ~Stolen =>
       /\ Chain("available") \cap Chain("free") = {}
       /\ mine \cap (Chain("available") \cup Chain("free")) = {}
       /\ mine \cup Chain("available") \cup Chain("free") = Records

(* Every index of a bucket in use is in the pool or with a caller, never   *)
(* with both and never lost; so a bucket whose file is removed             *)
(* (:161-164) holds nothing anybody refers to. Nor is a record lost.       *)
Conserved ==
  /\ Pool \cap Used = {}
  /\ Pool \cup Used = Indexes(bucketsInUse)
  /\ EachRecordOnce

IP == INSTANCE IndexPool WITH
        pool <- Pool, used <- Used, open <- bucketsInUse

(* The lists implement the abstract pool. *)
KeepsIndexes == IP!Spec

(* A call returns: the retries of fetch and post end (:181-197, :205-222). *)
CallReturns ==
  \A t \in Threads : pc[t] # "idle" ~> (pc[t] = "idle" \/ aborted # "no")
=============================================================================
