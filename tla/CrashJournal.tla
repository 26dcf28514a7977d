----------------------------- MODULE CrashJournal -----------------------------
(***************************************************************************)
(* What a crash leaves and what the journal makes of it: journal.cpp, the  *)
(* replayEntry functions of fs.cpp and file.cpp, and the stores of         *)
(* storage.cpp. One directory, the root, holds files of at most one chunk. *)
(*                                                                         *)
(*   mem, disk   the inode records (meta), the slots of the data buckets   *)
(*               (data) and, in memory only, the chunk of each file object *)
(*               (list), which rest() puts in the record                   *)
(*   open        the journal entries on disk that are not closed           *)
(*   logs        the entries the change logs of the buckets hold           *)
(*   metaChanged the bucket of the records counts a change: without one it *)
(*               is not stored (a chmod is in its log and counts none)     *)
(*   held, todo  the entries the running call holds, and its steps         *)
(*   pool        the free inode indexes                                    *)
(*   recovered   entries were replayed since the last clean mount          *)
(*   tree        what the calls made so far come to, each of them done in  *)
(*               one step when it begins (no variable of the code)         *)
(*                                                                         *)
(* An entry is closed when nobody holds it (~journalEntryWrapper). Calls   *)
(* run one after the other; a crash may come between any two steps.        *)
(*                                                                         *)
(* Without Faults a store is whole and comes between calls, when the files *)
(* are at rest; the code ensures none of this. What it also does, and what *)
(* then breaks recovery, is in the model by its name in Faults:            *)
(*   "torn"      the two halves of storeAllData, metadata and data, are    *)
(*               separate, and a store may run while a call does           *)
(*   "unrested"  a store may run while a file that was written is open     *)
(*   "emptied"   the last name of the directory may be removed             *)
(*   "replaced"  a rename may replace a file                               *)
(*   "used"      after a replay the file system is used before it is       *)
(*               unmounted and mounted once more                           *)
(*                                                                         *)
(* Bounds: MaxCalls calls, MaxCrashes crashes, Slots chunks.               *)
(***************************************************************************)
EXTENDS Integers, FiniteSets, Sequences

CONSTANTS Names, Inos, None, Values, Modes, mode0, NumSlots, MaxCalls, MaxCrashes,
          Faults

FaultNames == {"torn", "unrested", "emptied", "replaced", "used"}

ASSUME JournalAssumption ==
  /\ mode0 \in Modes
  /\ None \notin Inos \cup Values
  /\ NumSlots \in Nat /\ MaxCalls \in Nat /\ MaxCrashes \in Nat
  /\ Faults \subseteq FaultNames

VARIABLES mem, disk, open, logs, metaChanged, held, todo, pool, nextId, recovered,
          tree, calls, crashes

vars == <<mem, disk, open, logs, metaChanged, held, todo, pool, nextId, recovered, tree,
          calls, crashes>>

Slots == 0 .. NumSlots
zeroHash == 0                 \* the slot of the chunk of zeros
root == "root"
Records == Inos \cup {root}

Zeros == [kind |-> "zeros"]
Empty == [n \in Names |-> None]
DirText(d) == [kind |-> "dir", names |-> d]
Data(v) == [kind |-> "data", value |-> v]

Texts == {Zeros} \cup {DirText(d) : d \in [Names -> Inos \cup {None}]} \cup {Data(v) : v \in Values}

(* Buckets are made when there is no free slot (bucketaccounting.cpp:218):  *)
(* a call finds one for the chunk it changes.                              *)
ASSUME SlotsAssumption ==
  /\ IsFiniteSet(Inos) /\ root \notin Inos
  /\ None \notin Slots /\ None \notin Texts
  /\ NumSlots > Cardinality(Records)

NoRecord == [type |-> "NONE", mode |-> mode0, size |-> 0, ctd |-> None]
NewRecord(m) == [NoRecord EXCEPT !.type = "REG", !.mode = m]

Blank ==
  [meta |-> [r \in Records |-> IF r = root THEN [NoRecord EXCEPT !.type = "DIR"]
                               ELSE NoRecord],
   data |-> [s \in Slots |-> [text |-> Zeros, refs |-> IF s = zeroHash THEN 1 ELSE 0]],
   list |-> [r \in Records |-> None]]

-----------------------------------------------------------------------------
(* Steps on the state of a mount.                                          *)

Least(S) == CHOOSE n \in S : \A m \in S : n <= m
FreeSlots(w) == {s \in Slots \ {zeroHash} : w.data[s].refs = 0}

(* Faulty: a chunk of any text will do. *)
NewHashAnyText(w, text) ==
  LET used == {s \in Slots \ {zeroHash} : w.data[s].refs > 0} IN
  IF used # {} THEN Least(used) ELSE Least(FreeSlots(w))

(* newHash finds a chunk with this text, or takes a free slot. *)
newHash(w, text) ==
  LET found == {s \in Slots \ {zeroHash} : w.data[s].refs > 0 /\ w.data[s].text = text} IN
  IF found # {} THEN Least(found) ELSE Least(FreeSlots(w))

(* Faulty: a count above one is not lowered. *)
DropLastOnly(data, s) ==
  IF s \in {None, zeroHash} \/ data[s].refs # 1 THEN data
  ELSE [data EXCEPT ![s] = [text |-> Zeros, refs |-> 0]]

(* decRefCnt: the last reference clears the slot. *)
Drop(data, s) ==
  IF s \in {None, zeroHash} THEN data
  ELSE IF data[s].refs = 1 THEN [data EXCEPT ![s] = [text |-> Zeros, refs |-> 0]]
  ELSE [data EXCEPT ![s].refs = @ - 1]

(* The chunk of a file becomes one with this text, or goes: swapContent,   *)
(* writeInner, truncateInner.                                              *)
SetText(w, r, text) ==
  IF text = None
  THEN [w EXCEPT !.data = Drop(@, w.list[r]), !.list[r] = None, !.meta[r].size = 0]
  ELSE LET s == newHash(w, text)
           counted == [w.data EXCEPT ![s] = [text |-> text, refs |-> @.refs + 1]] IN
       [w EXCEPT !.data = Drop(counted, w.list[r]), !.list[r] = s, !.meta[r].size = 1]

rest(w, r) == [w EXCEPT !.meta[r].ctd = w.list[r]]

(* readDirectoryContent: zeros cannot be parsed. *)
Text(w, r) == IF w.meta[r].size = 0 THEN None ELSE w.data[w.list[r]].text
Readable(w) == w.meta[root].size # 0 => Text(w, root).kind = "dir"
Dir(w) == IF w.meta[root].size = 0 THEN Empty ELSE Text(w, root).names
SetDir(w, d) == SetText(w, root, IF d = Empty THEN None ELSE DirText(d))

(* One step of a call, or of a replay. *)
Do(w, step) ==
  CASE step.do = "add" -> SetDir(w, [Dir(w) EXCEPT ![step.name] = step.ino])
    [] step.do = "remove" -> SetDir(w, [Dir(w) EXCEPT ![step.name] = None])
    [] step.do = "rest" -> rest(w, step.ino)
    [] step.do = "make" -> [w EXCEPT !.meta[step.ino] = NewRecord(step.mode),
                                     !.list[step.ino] = None]
    [] step.do = "shred" -> [SetText(w, step.ino, None) EXCEPT !.meta[step.ino] = NoRecord]
    [] step.do = "write" -> SetText(w, step.ino, Data(step.value))
    [] step.do = "cut" -> rest(SetText(w, step.ino, None), step.ino)
    [] step.do = "chmod" -> [w EXCEPT !.meta[step.ino].mode = step.mode]
    [] step.do \in {"journal", "end"} -> w

(* Faulty: the entry of a new directory text is in no change log. *)
LogsOfUnlogged(w, step) ==
  IF step.do \in {"chmod", "cut"} THEN {"meta"} ELSE {}

(* The steps that rest a file, or make or clear a record.                  *)
Counted == {"rest", "make", "shred", "cut"}

(* Where the entry of a step is kept: with the data bucket that got a new  *)
(* text, or of the chunk that was cut off, with the bucket of the record,  *)
(* or nowhere.                                                             *)
LogsOf(w, step) ==
  CASE step.do \in {"add", "remove"} ->
         IF Do(w, step).meta[root].size = 0 THEN {} ELSE {"data"}
    [] step.do = "write" -> {"data"}
    [] step.do = "cut" ->
         {"meta"} \cup IF w.list[step.ino] = None THEN {} ELSE {"data"}
    [] step.do = "chmod" -> {"meta"}
    [] OTHER -> {}

Step(do, ino) == [do |-> do, ino |-> ino]
RestRoot == Step("rest", root)
Add(n, i) == [do |-> "add", name |-> n, ino |-> i]
Take(n) == [do |-> "remove", name |-> n]

UnlinkSteps(n, i) == <<Take(n), RestRoot, Step("shred", i)>>

(* renamemoveinner: a file that has the new name is unlinked by a call of  *)
(* its own, with an entry of its own.                                      *)
RenameSteps(e, d, id) ==
  (IF d[e.to] = None THEN <<>>
   ELSE LET u == [type |-> "unlink", id |-> id, name |-> e.to] IN
        <<[do |-> "journal", entry |-> u]>> \o UnlinkSteps(e.to, d[e.to])
          \o <<[do |-> "end", id |-> id]>>)
  \o <<Add(e.to, d[e.name]), RestRoot, Take(e.name), RestRoot>>

(* The steps of an entry in the directory d, whose nested entry gets id. *)
StepsOf(e, d, id) ==
  CASE e.type = "mkobject" ->
         <<Add(e.name, e.ino), RestRoot, [do |-> "make", ino |-> e.ino, mode |-> e.mode]>>
    [] e.type = "unlink" -> UnlinkSteps(e.name, d[e.name])
    [] e.type = "renamemove" -> RenameSteps(e, d, id)
    [] e.type = "write" -> <<[do |-> "write", ino |-> e.ino, value |-> e.value]>>
    [] e.type = "truncate" -> <<Step("cut", e.ino)>>
    [] e.type = "chmod" -> <<[do |-> "chmod", ino |-> e.ino, mode |-> e.mode]>>

(* The steps one after the other. *)
DoAll(w, steps) ==
  LET after[k \in 0 .. Len(steps)] == IF k = 0 THEN w ELSE Do(after[k - 1], steps[k])
  IN after[Len(steps)]

-----------------------------------------------------------------------------
(* The mount.                                                              *)

(* loadHashes: a slot that is not on disk is read as zeros. *)
Loaded(d) ==
  [meta |-> d.meta, data |-> d.data,
   list |-> [r \in Records |->
      IF d.meta[r].size = 0 THEN None
      ELSE IF d.meta[r].ctd = None \/ d.data[d.meta[r].ctd].refs = 0 THEN zeroHash
      ELSE d.meta[r].ctd]]

(* replayEntry with je = nullptr. An entry that cannot be done is left out *)
(* (tryReplay reports the error and goes on).                              *)
CanReplay(w, e) ==
  CASE e.type = "mkobject" -> Readable(w) /\ Dir(w)[e.name] = None
    [] e.type \in {"unlink", "renamemove"} -> Readable(w) /\ Dir(w)[e.name] # None
    [] OTHER -> w.meta[e.ino].type # "NONE"

replayEntry(w, e) ==
  IF CanReplay(w, e) THEN DoAll(w, StepsOf(e, Dir(w), 0)) ELSE w

(* The entries in the order of their numbers. *)
tryReplay(d, entries) ==
  LET before[k \in 0 .. nextId] ==
        IF k = 0 THEN Loaded(d)
        ELSE IF \E e \in entries : e.id = k - 1
             THEN replayEntry(before[k - 1], CHOOSE e \in entries : e.id = k - 1)
             ELSE before[k - 1]
  IN before[nextId]

(* loadBuckets posts the indexes that are free on disk, before the replay. *)
FreeOnDisk(d) == {i \in Inos : d.meta[i].type = "NONE"}

Init ==
  /\ mem = Blank
  /\ disk = [meta |-> Blank.meta, data |-> Blank.data]
  /\ open = {} /\ logs = [data |-> {}, meta |-> {}] /\ metaChanged = FALSE
  /\ held = {} /\ todo = <<>>
  /\ pool = Inos
  /\ nextId = 0 /\ recovered = FALSE /\ calls = 0 /\ crashes = 0
  /\ tree = [n \in Names |-> None]

-----------------------------------------------------------------------------
(* Calls.                                                                  *)

Evict(entries, l, h) == {e \in entries : e.id \in l.data \cup l.meta \cup h}

Idle == todo = <<>> /\ held = {}

(* What a call is for, in a tree t whose names d leads to inodes. *)
Effect(t, d, e) ==
  LET Those(i) == {n \in Names : d[n] = i} IN
  CASE e.type = "mkobject" -> [t EXCEPT ![e.name] = [content |-> None, mode |-> e.mode]]
    [] e.type = "unlink" -> [t EXCEPT ![e.name] = None]
    [] e.type = "renamemove" -> [t EXCEPT ![e.name] = None, ![e.to] = t[e.name]]
    [] e.type = "write" ->
         [n \in Names |-> IF n \in Those(e.ino) THEN [t[n] EXCEPT !.content = e.value]
                          ELSE t[n]]
    [] e.type = "truncate" ->
         [n \in Names |-> IF n \in Those(e.ino) THEN [t[n] EXCEPT !.content = None]
                          ELSE t[n]]
    [] e.type = "chmod" ->
         [n \in Names |-> IF n \in Those(e.ino) THEN [t[n] EXCEPT !.mode = e.mode]
                          ELSE t[n]]

(* JOURNAL->add, before anything is changed. *)
Begin(e) ==
  LET entry == [e EXCEPT !.id = nextId] IN
  /\ Idle /\ calls < MaxCalls /\ (recovered => "used" \in Faults)
  /\ open' = open \cup {entry}
  /\ held' = {nextId}
  /\ todo' = StepsOf(entry, Dir(mem), nextId + 1)
  /\ nextId' = nextId + 1 /\ calls' = calls + 1
  /\ tree' = Effect(tree, Dir(mem), entry)
  /\ UNCHANGED <<mem, disk, logs, metaChanged, recovered, crashes>>

mkobject(n, i, m) ==
  /\ Readable(mem) /\ Dir(mem)[n] = None /\ i \in pool
  /\ Cardinality(FreeSlots(mem)) > 1
  /\ Begin([type |-> "mkobject", id |-> 0, name |-> n, ino |-> i, mode |-> m])
  /\ pool' = pool \ {i}

unlink(n) ==
  /\ Readable(mem) /\ Dir(mem)[n] # None
  /\ "emptied" \in Faults \/ \E k \in Names \ {n} : Dir(mem)[k] # None
  /\ Begin([type |-> "unlink", id |-> 0, name |-> n])
  /\ UNCHANGED pool

renamemove(n, to) ==
  /\ Readable(mem) /\ n # to /\ Dir(mem)[n] # None
  /\ Dir(mem)[to] # Dir(mem)[n]
  /\ Dir(mem)[to] # None => "replaced" \in Faults
  /\ Begin([type |-> "renamemove", id |-> 0, name |-> n, to |-> to])
  /\ UNCHANGED pool

Named == IF Readable(mem) THEN {Dir(mem)[n] : n \in Names} \ {None} ELSE {}

write(i, v) ==
  /\ i \in Named /\ Cardinality(FreeSlots(mem)) > 1
  /\ Begin([type |-> "write", id |-> 0, ino |-> i, value |-> v])
  /\ UNCHANGED pool

truncate(i) ==
  /\ i \in Named /\ Begin([type |-> "truncate", id |-> 0, ino |-> i]) /\ UNCHANGED pool

chmod(i, m) ==
  /\ i \in Named /\ mem.meta[i].mode # m
  /\ Begin([type |-> "chmod", id |-> 0, ino |-> i, mode |-> m]) /\ UNCHANGED pool

(* close: rest, without an entry. *)
close(i) ==
  /\ Idle /\ i \in Named /\ mem.list[i] # mem.meta[i].ctd
  /\ mem' = rest(mem, i) /\ metaChanged' = TRUE
  /\ UNCHANGED <<disk, open, logs, held, todo, pool, nextId, recovered, tree, calls, crashes>>

(* The call takes its next step. Its entry goes to the logs with it; a     *)
(* nested call that ends lets go of its entry.                             *)
Proceed ==
  LET step == Head(todo)
      mine == IF step.do \in {"journal", "end"} THEN {}
              ELSE {CHOOSE id \in held : \A k \in held : k <= id}
      kept == LogsOf(mem, step)
      l == [data |-> IF "data" \in kept THEN logs.data \cup mine ELSE logs.data,
            meta |-> IF "meta" \in kept THEN logs.meta \cup mine ELSE logs.meta]
      h == CASE step.do = "journal" -> held \cup {step.entry.id}
             [] step.do = "end" -> held \ {step.id}
             [] OTHER -> held IN
  /\ todo # <<>>
  /\ mem' = Do(mem, step)
  /\ logs' = l /\ held' = h
  /\ metaChanged' = (metaChanged \/ step.do \in Counted)
  /\ todo' = Tail(todo)
  /\ open' = Evict(IF step.do = "journal" THEN open \cup {step.entry} ELSE open, l, h)
  /\ nextId' = IF step.do = "journal" THEN nextId + 1 ELSE nextId
  /\ pool' = IF step.do = "shred" THEN pool \cup {step.ino} ELSE pool
  /\ UNCHANGED <<disk, recovered, tree, calls, crashes>>

(* The call returns: it lets go of its entry. *)
Return ==
  /\ todo = <<>> /\ held # {}
  /\ held' = {} /\ open' = Evict(open, logs, {})
  /\ UNCHANGED <<mem, disk, logs, metaChanged, todo, pool, nextId, recovered, tree, calls,
                 crashes>>

-----------------------------------------------------------------------------
(* Stores, crashes, mounts.                                                *)

Rested == \A r \in Records : mem.list[r] = mem.meta[r].ctd
MayStore ==
  /\ "torn" \in Faults \/ Idle
  /\ "unrested" \in Faults \/ Rested
  /\ recovered => "used" \in Faults

Stored(d, l) ==
  /\ disk' = d /\ logs' = l
  /\ open' = Evict(open, l, held)
  /\ UNCHANGED <<mem, held, todo, pool, nextId, recovered, tree, calls, crashes>>

(* bucket::store: the records and their log stay while no change is counted. *)
StoreMeta(d) == IF metaChanged THEN [d EXCEPT !.meta = mem.meta] ELSE d
MetaLogStored(l) == IF metaChanged THEN [l EXCEPT !.meta = {}] ELSE l
StoreData(d) == [d EXCEPT !.data = mem.data]
DataLogStored(l) == [l EXCEPT !.data = {}]

(* storeAllData stores the metadata buckets and then the data buckets. *)
storeAllData ==
  /\ MayStore
  /\ IF "torn" \in Faults
     THEN \/ Stored(StoreMeta(disk), MetaLogStored(logs)) /\ metaChanged' = FALSE
          \/ Stored(StoreData(disk), DataLogStored(logs)) /\ UNCHANGED metaChanged
     ELSE /\ Stored(StoreData(StoreMeta(disk)), DataLogStored(MetaLogStored(logs)))
          /\ metaChanged' = FALSE

(* Memory is lost. The next mount loads what is on disk, replays the open  *)
(* entries and removes the files of the journal.                           *)
CrashAndMount ==
  /\ crashes < MaxCrashes /\ (recovered => "used" \in Faults)
  /\ mem' = tryReplay(disk, open)
  /\ recovered' = (open # {})
  /\ metaChanged' = \E e \in open : e.type \notin {"chmod", "write"}
  /\ open' = {} /\ logs' = [data |-> {}, meta |-> {}]
  /\ held' = {} /\ todo' = <<>>
  /\ pool' = FreeOnDisk(disk)
  /\ nextId' = 0 /\ crashes' = crashes + 1
  /\ UNCHANGED <<disk, tree, calls>>

AllAtRest(w) == [w EXCEPT !.meta = [r \in Records |-> [@[r] EXCEPT !.ctd = w.list[r]]]]
OnDisk(w) == [meta |-> w.meta, data |-> w.data]

(* ~fs rests the files, which counts a change, and stores everything; a    *)
(* mount loads it.                                                         *)
CleanRemount ==
  LET d == OnDisk(AllAtRest(mem)) IN
  /\ Idle /\ recovered
  /\ disk' = d /\ mem' = Loaded(d)
  /\ open' = {} /\ logs' = [data |-> {}, meta |-> {}] /\ metaChanged' = FALSE
  /\ pool' = FreeOnDisk(d)
  /\ nextId' = 0 /\ recovered' = FALSE
  /\ UNCHANGED <<held, todo, tree, calls, crashes>>

Next ==
  \/ \E n \in Names, i \in Inos, m \in Modes : mkobject(n, i, m)
  \/ \E n \in Names : unlink(n)
  \/ \E n, to \in Names : renamemove(n, to)
  \/ \E i \in Inos, v \in Values : write(i, v)
  \/ \E i \in Inos : truncate(i) \/ close(i)
  \/ \E i \in Inos, m \in Modes : chmod(i, m)
  \/ Proceed \/ Return
  \/ storeAllData \/ CrashAndMount \/ CleanRemount

Spec == Init /\ [][Next]_vars

-----------------------------------------------------------------------------
(* What a user finds in a mount. *)
FileOf(w, i) ==
  [content |-> IF w.meta[i].size = 0 THEN None
               ELSE LET t == Text(w, i) IN IF t.kind = "data" THEN t.value ELSE t.kind,
   mode |-> w.meta[i].mode]

TreeOf(w) ==
  [n \in Names |-> IF ~Readable(w) THEN [content |-> "lost", mode |-> mode0]
                   ELSE IF Dir(w)[n] = None THEN None ELSE FileOf(w, Dir(w)[n])]

(* What a crash now would leave; none is considered between a replay and  *)
(* the clean mount after it.                                               *)
Recovered ==
  IF recovered /\ "used" \notin Faults THEN mem ELSE tryReplay(disk, open)

TypeOK ==
  /\ DOMAIN mem.meta = Records /\ DOMAIN mem.data = Slots
  /\ \A r \in Records : mem.list[r] \in Slots \cup {None}
  /\ pool \subseteq Inos

(* What a call does, a nested one included, it does while its entry is on  *)
(* disk; entries have numbers of their own, and one that is on disk is     *)
(* held by the running call or by a change log, also when a bucket is      *)
(* stored and drops its log in the middle of a call (journal.cpp:17-87,    *)
(* bucket.cpp:228-232).                                                    *)
WriteAhead ==
  /\ todo # <<>> => held # {}
  /\ \A id \in held : \E e \in open : e.id = id
  /\ \A e \in open : e.id \in 0 .. nextId - 1 /\ e.id \in held \cup logs.data \cup logs.meta
  /\ \A e, f \in open : e.id = f.id => e = f

(* A call is done, for a crash, when its entry is written, and stays done  *)
(* however much of it was done before the crash and whatever was closed,   *)
(* stored and replayed (journal.cpp:132-214, fs.cpp:325-364). Stores are   *)
(* whole and come between calls; no name is the last one, or replaced.     *)
Durable == TreeOf(Recovered) = tree

(* Between calls the mount shows what they made, and so does a mount right *)
(* after a replay: one call does not change the file of another            *)
(* (fs.cpp:284-292, :641-644). Using that mount is another matter: the     *)
(* pool was filled before the replay (storage.cpp:163-173, "used").        *)
ShowsCalls == Idle => TreeOf(mem) = tree

CountsMatch(w) ==
  \A s \in Slots \ {zeroHash} :
    w.data[s].refs = Cardinality({r \in Records : w.meta[r].type # "NONE" /\ w.list[r] = s})

(* After a crash the counts of the chunks are the numbers of files that    *)
(* have them, so that nothing leaks and nothing is dropped too early, the  *)
(* entries that are done a second time included (hash.cpp:47-78,           *)
(* file.cpp:822-860). A crash between the stores of the lists and of the   *)
(* counts ("torn") is not examined.                                        *)
CountsRecovered == CountsMatch(Recovered)
=============================================================================
