# cloudCryptFS: a verification project

cloudCryptFS is an encrypted, deduplicating file system in user space. A file is
a list of chunks of 4096 bytes; equal chunks are stored once, in the slots of
*buckets*; a bucket is two encrypted files on disk (hashes and chunks). Metadata
(inodes, directories) are chunks as well, of buckets of their own. FUSE calls the
file system from several threads.

The modules here model that program as it is in `src/src/modules`. Every
definition that models code names its lines in `PROJECT.json` ("map"). The
sections below: what the system consists of, which module models what, what the
runs show, what is proved, what is left out, and what comes next.

## 1. The system

| Component | Source | State it keeps | Operations |
|---|---|---|---|
| Recursive shared mutex | `util/shared_recursive_mutex.cpp` | `lck`, `owner`, `count`, `shared_locks` | `lock`, `try_lock`, `unlock`, `lock_shared`, `try_lock_shared`, `unlock_shared`, `hasUniqueLock` |
| Chunk lists | `filesystem/file.cpp`, `util/atomic_shared_ptr_list.h` | `hashList` of each file, inode record chain, inode fields | `read`, `write`, `truncate`, `swapContent`, `loadHashes`, `rest`, `chmod`, `chown`, `addNode`, `removeNode`, ... |
| Hashes | `filesystem/hash.cpp` | `refcnt`, `flags`, `bucketIndex`, cached chunk | `incRefCnt`, `decRefCnt`, `data`, `write`, `rest` |
| Registry | `filesystem/storage.cpp` | `hashesIndex`, `loadedBuckets` | `newHash`, `getHash`, `getBucket`, `loadHashesFromBucket`, `storeAllData`, `migrate` |
| Buckets | `filesystem/bucket.cpp` | hash and chunk arrays, change log, flags | `getHash`, `getChunk`, `putHashAndChunk`, `putHashedChunk`, `clearHashAndChunk`, `store`, `migrateTo`, `del` |
| Pool of indexes | `filesystem/bucketaccounting.cpp` | two lists over an array of records, ids in use | `fetch`, `post` |
| Journal | `filesystem/journal.cpp` | files of entries, open entries | open and close an entry, rotate, `tryReplay` |
| Name space | `filesystem/fs.cpp` | inode cache, path cache, handles | `mkobject`, `mknod`, `unlink`, `renamemove`, `softlink`, `hardlink`, `get`, handles, mount and unmount |
| Metadata writer | `filesystem/fs.cpp`, `fs.h` | `_outstandingChanges`, two locks, detached threads | `unloadBuckets`, `storeMetadata`, `~fs` |
| Access control | `filesystem/file.cpp:933-1034` | - | `validate_access`, `validate_ownership` |
| FUSE callbacks | `fuse_main.cpp` | - | one callback per system call |
| Program runs | `main.cpp`, `modules/services`, `fs.cpp:162-323`, `storage.cpp:198-264` | `config.json`, key file, `._lock`, started services | create, mount, migrate, stop in reverse order |
| Protocols, crypto, keys | `crypto/` | salts, keys | names of bucket files, encrypt, decrypt |
| JSON, lexer, strings, console | `util/`, `script/` | - | sequential |

How they interact. A FUSE thread calls a `file`. The file takes `_mut` (shared for
reads and for writes that begin at a chunk boundary, unique for the others), asks
`storage::newHash` for the hash of each new chunk, counts it (`incRefCnt`), stores
it in its list and drops the hash it replaced (`decRefCnt`). `newHash` looks the
SHA-256 sum up in `hashesIndex`; when it is new, it fetches an index from the pool,
puts hash and chunk into a bucket slot and inserts the hash. `decRefCnt`, on the
last reference, erases the entry, clears the slot and posts the index. No lock
spans these three objects: that is where the program is hardest. Buckets are
written when they are full of changes, at rest, and at unmount; the journal keeps
an entry open from the begin of an operation until the last bucket it touched is
stored.

Assumptions on what is outside `src/`: the kernel sends one modifying call per
inode at a time (its inode lock), and any number of reads beside it when the mount uses `direct_io`
(as `do_test.sh` does); libsodium's sums do not collide and decryption returns
what was encrypted.

### What is hard, and what is correct

* **Mutex.** Spin lock plus counter: a writer sets the flag and waits for the
  readers, a reader borrows the same flag. Correct: exclusion, recursion counts,
  the writer is not starved by readers, no deadlock.
* **Deduplicating store.** Lookup, count, list, uncount and deletion are separate
  accesses. Correct: counts equal references; nothing refers to a slot that was
  given back; nothing leaks; a call on one file changes no other.
* **Bytes of a file.** Two computations of the number of chunks (aligned or not)
  must agree; a reader reads size and list at different moments. Correct: bytes
  go where they belong; a read never shows another place's byte.
* **Pool.** Lists without a lock, whose records come back (the ABA problem), and a
  refill that rebuilds all of it. Correct: one owner per index, none lost, a
  bucket removed only when unused.
* **Buckets.** A change counted before it is made, beside a store that resets the
  counter; a full change log; arrays detached under a writer. Correct: what was
  put is on disk after the last store, an entry is closed only when it is.
* **Journal.** A crash between any two writes; replay of half-done operations;
  rotation. Correct: after replay, every answered operation is there or its
  entry is still open.
* **Name space.** Several steps that may fail one by one, cached paths of a moved
  directory. Correct: link counts equal names, no name of a missing inode, no
  stale path.
* **Inode chain.** A chain of records rewritten one at a time, which never gets
  shorter. Correct: the list that is loaded is the list that was rested.
* **Metadata writer.** Threads nobody joins, two locks and a counter; the list of the
  buckets is written by these threads only. Correct: every change is stored in the end,
  an unmount ends, no call and no storing thread outlives it, and the list is as
  current as the calls asked for.
* **Program runs.** Files that must agree (config, key file, names and keys of the
  buckets) and are written one by one; one lock file. Correct: what was created can
  be opened by its owner and by nobody else.

Every such place is a hazard in `PROJECT.json`, at its line, with the properties
that watch it, or with the reason why none does.

## 2. What is modelled

| Module | Models | Abstract specification |
|---|---|---|
| `SharedRecursiveMutex` | every operation of the mutex, one action per atomic access | `RWLock` |
| `DedupStore` | chunk lists, hashes, index, slots, pool (as a set); write, truncate, swap of whole chunks, delete of a hash, clean remount | `FileContents` |
| `BucketAccounting` | `fetch`, `post`, `createBuckets`, `releaseBuckets` | `IndexPool` |
| `BucketCache` | one data bucket: put, clear, `getChunk`, `loadChunks`, `addChange`, `store`, unmount | - |
| `ChunkFile` | byte offsets of `writeInner`, `truncateInner`, `read`; closing and loading | `ByteFile` |
| `InodeChain` | `rest`, `loadHashes`, `createCtd` over the chain of records (operators, used by ChunkFile) | the list itself (`ChainKeepsList`) |
| `Namespace` | names, links, modes, owners, handles, the caches of paths and files, remount | `FileTree` |
| `Access` | `validate_access`, `validate_ownership` (operators, used in the guards of Namespace) | - |
| `CrashJournal` | entries, logs of buckets, stores, crash, replay | the variable `tree`: each call in one step |
| `MetadataWriter` | `unloadBuckets`, writer threads, `storeMetadata`, `~fs` | - |
| `Sessions` | create, mount, migrate, lock file, keys, crash | `fsys`: what the owner knows |

`MC...` modules give the constants of the runs their values. `...Proofs` modules
hold the theorems, in a module of their own for each component; those of the mutex and of the
metadata writer share `ThreadingProofs`. `TypeOK` says what the variables of a module hold; it is
proved (§5) where a module has one, except in CrashJournal; `Types` and `StoredInv` in the proofs say as much of
MetadataWriter and Sessions. The runs check what is worth more than types.

**SharedRecursiveMutex.** `lck`, `owner`, `count`, `shared_locks` are the fields of
the class; `at` says before which access a thread stands. `depth[t]` and `readers` are
ghosts: the sections a caller is inside. A caller follows the rules of `file.cpp`: it asks
`hasUniqueLock` before it takes a shared section, takes no unique one inside a
shared one, and leaves what it entered. The depth of nesting is bounded.

**DedupStore.** One action is one access to shared state. A call begins (`Begin`)
with a request: a write of a range of chunks, a new length, or the new content of
a directory. A write grows the list (`Grow`), makes its new chunks one at a time
(`SkipSame`, `Lookup`, `Fetch`, `Put`, `Insert`, `Inc`, `Alive`), stores them
(`Update`) and drops the old ones (`Dec`, `Flags`, `CheckZero`, `Mark`, `CheckOwn`,
`Erase`, `Clear`, `Post`). `truncate` and `swap` use the same actions in their order.
`fresh` and `stale` are the local vectors of a call (new hashes not yet listed, old
ones not yet dropped). `Remount` is a clean unmount and mount in one step.
`aborted` records the assertion that failed: `_ASSERT` ends the program
(`main.cpp:176-181`), and nothing happens afterwards. A content stands for its sum.
`Section(t)` is the content a thread is looking up, inserting, counting or deleting;
`Apart` says that no two threads are in the section of one content, and `ApartSpec` is
`Spec` restricted to such behaviours. `Surplus` is what the count of the hash of zeros has beyond its
references, those listed and not yet counted (`Awaited`) set aside.

**BucketAccounting.** `head`, `next`, `data` are the lists and records; a list is what can be reached
from its head (`Chain`). The registers of a call are
`expected`, `successor`, `node`, `value`. `live` is a ghost: the indexes callers hold, including
those of files written before the mount. Rebuilding under the lock is one action,
though the lock does not keep out a call with a record in its hands; that
such a call breaks the lists is visible already when it runs before or after
the whole rebuilding.

**BucketCache.** One action is one access to shared state of one bucket: its arrays in
memory, its two files, its change counters and its change log. An operation is
what DedupStore makes of one slot (`PutHash`, `PutChunk`, `HashChanged`), between the
journal entry it opens (`Begin`) and the log it leaves it in (`Install`, `LoadLog`,
`AddChange`). `store` runs in the metadata writer, which drops the chunks, and in
`addChange` when the log is full. Arrays and logs are objects: `C`, `mine` and `taken`
are the references a call holds, and an entry is open as long as somebody can
reach the log it is in. `ObjectsAssumption` says that the sets of objects are large enough for
`new` to find one that nobody holds. `promised` is a ghost: what the operations asked for.

**ChunkFile and InodeChain.** One file with one modifying call and one reader. `_mut` is used by its
specification, so a section is a set of `pc` values. A hash is its chunk: what
storing it means is DedupStore's subject. `seen` is a ghost: what each place held,
or was being given, while the reader ran. Between calls the file may be closed (the list is
rested into the chain of records) and loaded again; records behind the end of the
list keep what they held, as on disk.

**Namespace.** One action is one call of the kernel, with everything the callback and
the file system do for it. `get` fills and repairs the caches wherever it is called,
so the calls are operators on a world (the four variables as a record) and are
applied one to the result of another. Before a call the kernel looks up each
component of its path (`LookUp`), because the mounts of `do_test.sh` set
`entry_timeout=0`; what the kernel itself refuses (a rename into a directory of its
own path, a link to a directory) never reaches the callback. A directory's content
is a function from names to inodes: how it is stored as JSON in chunks is
DedupStore's `swap` and CrashJournal's `SetDir`. `pathPermissions` is the list of
directories a file object was first found by, the input of `Access`.

**CrashJournal.** `mem` is what a mount has in memory and `disk` what was stored;
both have inode records, slots of data buckets with their counts, and (in memory)
the chunk of each file object. A call is a sequence of steps (`StepsOf`), each of which puts
the call's entry into the logs of the buckets it changes (`LogsOf`); an entry
that no log and no call holds is closed. `storeAllData` writes the buckets and drops their logs; the metadata bucket only
when it counts a change (`metaChanged`), which a `chmod` does not make.
`CrashAndMount` may come between any two steps: it loads the disk, replays the
open entries in their order with the same operators a call uses, and posts to the
pool the indexes that were free on disk. The ghost `tree` takes each call in one step.
`SlotsAssumption` asks for more slots than there are records: `createBuckets` makes a bucket
whenever none is free (`bucketaccounting.cpp:218`), so a replay always finds one.

**MetadataWriter.** A call that changed buckets starts a thread unless one waits
(`TryLock`); the thread waits, lets the next one in, takes the second lock, writes the list of the
buckets into the records of the root's metadata (`SetList`) and stores (`storeAllData`). The destructor waits
for the counted calls, takes both locks, rests and closes the files and stores. It has reset `root` by then
(`fs.cpp:105`), so the part of `storeMetadata` that writes the list (`if(root)`, `:371`) is not run: the list on
disk is what writer threads wrote. Data buckets have no content here, only whether they are used and whether
they count a change; `memText` and `diskText` are the lists the records hold, `placed` the bucket each record is
in. `asked` and `quiet` are ghosts: the buckets changed by calls that went through `unloadBuckets`, and by
calls that have not (yet).

**Sessions.** Processes run `main` on one directory. Keys and salts are generations; a
file name and a sealed text carry the protocol or key they were made with, and only
that opens them. `Holding` are the runs that have the file system. One bucket of each
kind stands for all of them, and a store is one step. The store of the first data bucket at its creation is left
out: it counts no change, so `bucket::store` returns at once (`fs.cpp:203-204`, `bucket.cpp:219`).

The modules meet at their abstract specifications: ChunkFile uses what RWLock
promises; DedupStore treats the pool as IndexPool does; Namespace's calls are
CrashJournal's calls in one step each; CrashJournal and Sessions take a bucket's store
as atomic, which `Recoverable` of BucketCache says of it as far as puts stay out of its way (`Exclusive`).

## 3. The runs

| Run | Instance | Shows |
|---|---|---|
| `Mutex` | 3 threads, nesting 2 | invariant, exclusion, refinement of RWLock; a waiting writer gets in; somebody always enters |
| `Dedup` | 2 threads that share a content and never meet in its section (`ApartSpec`), a file and a directory of 2 chunks, a content and zeros, 3 slots, 3 hash objects, 1 remount | nothing dangles or leaks; refinement of FileContents; the count of the hash of zeros moves with its references, and a file at rest lists no other hash without a count, also after the mount |
| `DedupIsolated` | 2 threads, own files and contents, 2 positions | counts exact, the hash of zeros stays, assertions hold, in every interleaving |
| `DedupRevive` | 2 threads, the same content | the assertion of `hash.cpp:53` fails |
| `Pool` | 2 threads, 2 buckets of 2, 1 old bucket, 3 fetches, calls apart | one owner, nothing lost, records in one list, refinement of IndexPool, calls return |
| `Bucket` | 2 threads and the writer, 2 slots, 3 operations, logs of 1 entry, no store while a put writes | a change is on disk or its entry is open; what was put is read back |
| `Chunks` | chunks of 3 bytes, files up to 4 bytes, records of 1 and 2 entries, a writer and a reader | bytes kept, reads show what was there, the chain gives back the list, assertions of `:717` and `:746` hold |
| `ChunksGrow` | chunks of 2 bytes, files up to 4 | the assertion of `file.cpp:701` fails |
| `Names` | root and a user, 5 inodes, 2 names, paths of 2 components, 2 open files for 1 handle, 3 changing calls from an empty and from a populated tree | link counts, path cache, handles; every call is a step of FileTree, also one that fails half way |
| `Journal` | 2 names, 2 inodes, 2 contents, 2 modes, 3 slots beside that of zeros, 4 calls, 2 crashes between any two steps, whole stores between calls | after a crash the replay gives what the calls had made, and exact counts |
| `Shutdown` | 2 calling threads, 2 writers, 2 data buckets, a list of 1 or 2 records, 2 calls | an unmount ends and leaves nobody behind but a writer that waits for a lock; every bucket that counts a change is on disk, and the list of the buckets as far as writers wrote it; what was changed is stored |
| `Sessions` | 2 processes, 2 passwords, 6 runs, 3 generations of keys, 2 crashes | the file system can be opened by its owner and by no older key, and is written under its present protocol only |

Why the bounds are enough. *Mutex*: three threads give a writer against two readers,
two writers and a reader, and every pair inside a try; nesting 2 is the first
recursive level, and each further one repeats it. *Dedup*: two positions let one
content stand twice in a file and one write span two chunks; two files share; a
third slot exists so that slots are reused in another order. *Pool*: two buckets of
two make a refill, a release of one bucket while the other is partly used, and ids
that are not contiguous (the old bucket 1); a third fetch crosses the boundary of a
bucket. *Bucket*: three operations put, clear and put again, or fill a log of one entry twice, and two slots
make a store write one slot for the sake of the other. *Chunks*: with chunks of 3 in a file of 4 every offset within a chunk
exists, first and last chunk are both partial, and a write or a read crosses a
boundary; a list of two chunks fills the first record and reaches the second; the contents are one byte `x` against the bytes of a hole, since only the
place of a byte is in question. *Names*: five inodes are the root, two directories, a file
and one more to make; two names and two components give a rename within, into and
over everything; the populated tree puts three more calls behind its first moves; a
second open finds no handle. *Journal*: four calls make a file, write it, rename it
and change it again; three slots hold the directory, a content and the next version
of either. *Shutdown*: two calls and two writers put one thread asleep while another
stores; a list of two buckets needs a second record. *Sessions*: six runs are a
creation, two migrations and mounts between and beside them.

**Conditions** under which the passing runs hold, and which the code does **not**
ensure. Most are constants, so that a change of the code can be checked by
dropping the condition, and so that a reader can see what happens without it:

* `DedupIsolated`: threads share no content except zeros (`FilesOf`, `ContentsOf`).
* `Dedup`: threads share contents, but never look up, count or delete the same one
  at the same time (`ApartSpec`).
* `Pool`: calls overlap only when they are of the same kind and
  the list holds more records than there are calls (`Apart`).
* `Bucket`: no store runs between the moment a put takes the array and the moment
  it has written to it (`Exclusive`).
* `Names`: a directory is renamed only while no path below it is cached (`Steady`);
  users other than root make calls while every file object's list of directories is
  that of all its paths (`PermsFresh`): with an old list a user may be refused in the middle of a
  call, which is then half done (`LinksMatchNames` fails within three calls). No property is about who is let in: what
  could be asked is the formula that the code evaluates, and an old list is the case left out.
  Calls do not overlap.
* `Journal` (`Faults = {}`): the two halves of a store are not separated and no store
  runs inside a call ("torn"); files that were written are closed before a store ("unrested");
  the last name of a directory is not removed ("emptied"); a rename replaces no file ("replaced"); after a
  replay the file system is unmounted before it is used ("used"). Each name put into
  `Faults` drops its condition. So the run is about what the journal does with half-done and with already
  stored calls, and not about a crash inside a store.
* `Shutdown`: what the properties leave out they say themselves. `ShutdownComplete` and `ListCovers` are about the records of
  the root's metadata that are in the root's bucket; `ListCovers` is about unmounts that leave no waiting
  writer behind; `NobodyLeft` excepts such a writer.
* `Sessions`: a run that fails early does not end while another is mounted ("failed");
  two runs do not both find no lock or no `config.json` ("race"); a migration does not
  crash half way ("migration"). With the first two the lock file is a lock, so nothing is
  stated about how many runs have the file system.

Deadlock is checked for `Mutex`, and for `DedupIsolated`. In the other runs the
system may stop: an assertion that fails ends the program, the file system is
unmounted, and the bounds on remounts, calls and crashes end the run.

**Fairness.** `SharedRecursiveMutex!FairSpec`: a thread that is inside an operation
keeps running (spinning threads are scheduled by the operating system), and a
section ends. No fairness between threads that spin on the same flag is assumed,
so a single thread may starve, and only "somebody enters" is stated for the
flag itself. `BucketAccounting!FairSpec`: a call that was made keeps running unless an
assertion stopped the program. `MetadataWriter!Spec`: calls run to their end (weak
fairness); a writer thread and the destructor get, in the end, a `std::mutex` that is
free again and again (strong fairness: the operating system wakes whoever waits).
Nothing makes a user unmount.

## 4. Findings

1. `hash.cpp:53` can fail (run `DedupRevive`): `newHash` returns a hash another
   thread is deleting. The same race also changes other files (`DedupOther.cfg`
   below).
2. A chunk-aligned write after an unaligned one fails the assertion at
   `file.cpp:701` (run `ChunksGrow`).

### Observed

What the modules show when a condition is dropped. Each of these configurations ends
with a counterexample (`tlc -config <cfg> <module>`); they are not part of the runs.

| Configuration | Module | Property | What happens |
|---|---|---|---|
| `DedupOther.cfg` | `MCDedupStore` | `OtherFilesKept` | a call changes the content of another file (the comment at `file.cpp:521` wonders about that) |
| `DedupRemount.cfg` | `MCDedupStore` | `RestedAlive` | `zeroHash` starts at a count of 1 at every mount; shortening old files with holes brings it to 0 and the assertion of `file.cpp:884` fails |
| `PoolTwice.cfg` | `MCBucketAccounting` | `OneOwner` | `takeFromList` has the ABA problem (`bucketaccounting.cpp:45-48`): an index is handed out twice |
| `BucketLost.cfg` | `MCBucketCache` | `ReadsBack` | `putHashAndChunk` writes to an array that `store(true)` has detached and copied (`bucket.cpp:196-202`): the chunk is lost |
| `NamesStale.cfg` | `MCNamespace` | `PathsResolve` | after a directory was moved the old paths below it still lead to its files |
| `ShutdownList.cfg` | `MCMetadataWriter` | `ListStored` | the comment of `storeMetadata` (`fs.cpp:376`) says that the list of buckets is stored with it; `~fs` resets `root` first (`:105`, `:371`), so a bucket that only a `mkdir` opened is not listed, is not loaded by the next mount (`storage.cpp:160-179`), and `createBuckets` hands its number out again |
| `JournalUsed.cfg` | `MCCrashJournal` | `ShowsCalls` | the pool is filled from the disk before the replay, and the replay takes indexes without the pool: a new file overwrites a replayed one |

Setting `Faults` in `Journal.cfg` and `Sessions.cfg` does the same for the
conditions of section 3 (with "torn", `Durable` and `CountsRecovered` fail after one call and one half of a
store; with "migration", `Usable` and `OldKeyGone`; with "failed" or "race", all three properties of `Sessions`). What is behind them, and behind the exceptions:

* a data bucket stored without the metadata bucket that refers to it (or the other way round), and a crash,
  leave counts and lists that do not agree, and the entries that would repair it are partly closed;
* an emptied directory has no chunk, so no log keeps the entry of the call that
  emptied it;
* the records of the root's metadata are changed in place and not
  marked (`fs.cpp:146`); what a writer wrote there reaches the disk because the destructor rests the root, if they are in
  the same bucket;
* nothing counts a writer thread that waits for a lock; `~fs` may end before it, and the thread goes on with an
  object that is gone;
* a run that fails removes the lock of one that is mounted: `~storage` removes
  `._lock` whoever put it (`storage.cpp:198-203`, reached through `atexit`);
* a crash during a migration leaves buckets under new names while the new key file is
  only in memory;
* creating with two different passwords leaves a `config.json`, and the next creation stops at it.

Further observations without a text in the repository that says otherwise:
truncating keeps the bytes of the last chunk beyond the new size, and a file made
longer again shows them (`ByteFile` promises no zeros there); a bucket whose last
hash was cleared is not written (`bucket.cpp:317`), so the cleared hashes come back
at the next mount (`Recoverable` excepts them); `addChange` may find no log where it
has just put one (`bucket.cpp:327-328`, a store in between) and abort; a pool whose buckets are all
partly used cannot release one and aborts (`bucketaccounting.cpp:141`, which says so itself); a read that begins
inside a chunk and crosses a boundary is short (`file.cpp:609`, warned about at
`:644`), so `ReadsWhatWasThere` asks for completeness of reads from a chunk boundary only;
the handle of a file that was unlinked while open is not given back (`HandlesMatch`
excepts it); hard links, `utimens` and the list of the root's metadata are not journalled;
a member of the group may change the mode when the group may write.

## 5. Proofs

`DedupStoreProofs`, for any threads, files, contents, slots, and any sharing
between them (no condition on `FilesOf` and `ContentsOf`):

* `Typing`: `[]TypeOK`. What a step writes depends on where the call is, so types
  need `ControlInv` (which file, request and hash a thread has at each `pc`, and
  that two threads are never on one file);
* `CountsAreExact`: `Spec => []RefExact`. References only move (from a local vector
  to a list and back) or come and go together with the count. The lemma `Rotation`
  states that a step that moves references between places of one file and
  position keeps their number; one lemma per step says how the set of places of a
  hash changes. So whatever goes wrong in `DedupRevive` and `DedupOther.cfg`, it is
  never a wrong count: it is the time between finding a hash and counting it.

The second half of `DedupStoreProofs` is about the behaviours of `ApartSpec`. That hypothesis is
what the code lacks a lock for: without it the run `DedupRevive` ends in a failed
assertion. It is not empty: the run `Dedup` has two threads that share and delete
hashes under it, and `IsolatedApart` proves it of every behaviour in which threads change different files and
write different contents (`Isolation`).

* `ReferencesHold`, `NothingIsLost`: `[]NoDangling`, `[]SlotsAccounted`.
  Neither is inductive. `CountInv` (from `CountsAreExact`) and `StoreInv` are: `StoreInv` says
  that the index, the slots and the contents of the living hashes agree, what each thread may
  rely on at each `pc` about the hash it holds (`HoldInv`: that it is known, that it is its
  own, that nobody refers to it), and which slots are on their way between pool and hash.
  The section of a content is what keeps that true while another thread moves;
* `StoreImplements`: `ApartSpec => KeepsContents`,
  from `EachItsOwn` and `PromiseInv`, which relates the local vectors of a call to what it has
  been asked for, position by position.

Two theorems have no hypothesis again, neither on the behaviours nor on the number of mounts:

* `ZeroMovesWithLists`: `Spec => ZeroCounted`. The hash of zeros is listed before it is counted (`truncate`, `Grow`), so
  its count alone says nothing; `TallyInv` says which listed places are not counted yet (`Awaited`), and every step
  but a mount keeps the difference (`Surplus`);
* `RestFailsForZerosOnly`: `Spec => OthersRestCounted`. A mount starts `zeroHash` with a count of 1 whatever the files
  list, and the assertion of `file.cpp:884` can fail afterwards (`DedupRemount.cfg`). It can fail for no other hash: from
  `CountInv`, a listed hash that is not the one of zeros has a count.

`ChunkFileProofs`, for any size of chunks, files and inode records:

* `WritesAlwaysFit`: `[]WritesFit`, by the arithmetic of `NumHashesInWrite` against the list that
  `GrowList` makes (lemma `Counted`) and of what each chunk of a request gets (lemmas `Parts` and
  `PartPlaces`). `FileInv` carries it: how long the list is at each `pc`, that chunks beyond
  the size are zeros, and that each chunk to be stored is the listed one with the bytes
  of the write put in, also after it was stored;
* `ChainIsTheList`: `[]ChainKeepsList`. Lemma `LoadRested`: whatever the records held, entry `k` is put where
  it is looked for (`Place`), and every record up to it exists (`RecordsOrdered`);
* `ImplementsBytes`: `Spec => KeepsBytes`, a simulation step per action. `Cut` and `Store` change only what
  the call covers; growing with zeros and loading again change no byte;
* `ReadsAreRight`: `[]ReadsWhatWasThere`. `ReaderInv` says that what the file holds at a place of the read
  has been seen, that no unique section runs beside a read that fetches and so its chunks stay, and
  how full the buffer is before each chunk. This is where the shared section for aligned writes
  matters: they may change a chunk during the read, but never the number of chunks;
* `Typing`: `[]TypeOK`.

`BucketCacheProofs`, for any slots, threads, entries and size of the log, when `Exclusive`: no store
runs between the moment a put takes the array and the moment it has written to it. The code does
not ensure that, and `BucketLost.cfg` shows the chunk it loses. What a reader then finds (`ReadsBack`) is therefore
checked by the run only; the theorems are about entries and logs.

* `BucketInvariant`: `[]BucketInv`. `Control` says who holds `_mut` and what a call may rely on at each `pc`;
  `Shown`, what memory shows of a slot once its put has come that far; `Caught`, `ChunkCaught` and
  `HashCaught`, what a store has copied on its way to disk; `KeptAt`, that the change of a
  slot is pending (a call or the log of the bucket has its entry), on disk, or leaving with the log
  of a store;
* `ChangesSurvive`: `[]Recoverable`. A put that overtakes a store adds its entry to the log the store has detached
  or to a new one; `KeptAt` needs both halves, the entry that is still open and the change counter
  that makes the next store write;
* `Typing`: `[]TypeOK`.

`BucketAccountingProofs`, for any threads, buckets and chunks of a bucket, when `Apart`: calls overlap
only with calls of the same kind, with more records in the list they take from than there are
calls. The callers do not ensure it, and `PoolTwice.cfg` shows what happens then; `Apart` lets any number of
threads race for the heads, and every refill and release happen.

* `PoolInvariant`: `[]PoolInv`. `Calls` says what a call knows at each `pc`, `Room` that each one that is still to
  take a record finds one (so that whoever meets an empty list is alone), `Threaded` that the
  lists and the records in hand are all records, each once, `Filled` which records hold an index, `Owned` who has
  each index. Lists are sets of reachable records here, so no induction over a list is needed: taking the
  head leaves the rest (`TakenOff`), a record whose next is the head goes before it (`PutOn`),
  nothing else is noticed (`Elsewhere`), and what a refill strings together is the whole set (`InSequence`);
* `NothingLost`: `[]Conserved`. The compare-and-exchange of `takeFromList` is
  right because, under `Apart`, the head it compares with either never left the list, and then its next field was not
  written, or does not come back while a call of the kind runs (`Knows`, the conjunct about `successor`). `OneOwner` itself, which
  the ABA problem refutes, is left to the run;
* `ImplementsPool`: `Spec => KeepsIndexes`. `createBuckets` makes indexes of buckets that were not in use (`NewIds`),
  and a bucket counted as complete has each of its indexes in a record (`Whole`);
* `Typing`: `[]TypeOK`.

The first half of `ThreadingProofs`, for any callers, writer threads and buckets, without a further condition:

* `UnmountIsLast`: `Spec => []NobodyLeft`, and `UnmountStores`: `Spec => []ShutdownComplete`,
  both from `ShutdownInv`: who holds each of the two locks at each place (`Locks`), that
  `outstandingChanges` counts the tracked calls (`Counts`), and what the destructor may rely
  on at each of its steps (`Ending`, `Stored`, `RootOnDisk`). Neither promise is inductive: that no
  writer thread sleeps or stores when `fs` is gone needs that none can be started, wake up or store
  while the destructor has the locks;
* `ListIsCurrent`: `Spec => []ListCovers`. `Listed` says that the list in memory is current for every bucket outside
  `quiet` (`Current`), or somebody is there who will still write it (`ToWrite`): a writer, or a call about to start one.

The second half of `ThreadingProofs`, for every set of threads and any nesting (both components are extended there, which is why
the mutex has its `MutexSpec`, `MutexNext` and `at`):

* `MutexTypes`, `LockInvariant`: `[]TypeOK`, `[]LockInv`;
* `MutualExclusion`: `MutexSpec => []Exclusion`. Exclusion is not inductive: it says
  nothing of the moment between setting the flag and entering. `LockInv` adds who
  holds the flag, that `owner` and `count` are those of the caller inside, that
  `shared_locks` counts the readers, and that a writer past its wait has none;
* `ImplementsRWLock`: `MutexSpec => RWSpec`, by a simulation step per action.

`SessionsProofs`, for any processes, passwords and bounds, when `Faults` is empty:

* `WritesForOwner`: `Spec => []StoresForOwner`. `LockedInv` says who has the lock file at each step, `StoredInv` what is on disk
  and what the run that has the file system knows at each step of a creation, a mount and a migration. A run
  that waited while another migrated the directory finds no root under the protocol it read before, and stops.
  What depends on a migration that runs to its end (`Usable`, `OldKeyGone`) is left to the run.

`NamespaceProofs`, for any names, inodes, users, groups and modes, any depth of paths, any number of handles and
calls, and any trees the directories may hold at the start, when `Steady`: no directory is renamed while a
path below it is cached. The code does not ensure that, and `NamesStale` shows the stale path.

* `NameInvariant`: `[]NameInv`, which is `Good(World) /\ Handled`. `WellFormed` says that the entries of the directories are one
  tree: the root has no name, whoever has a name exists, link counts are numbers of names, only a directory
  has entries. `Cached` says that a cached path is where the directories lead (`Res`, the look-up without the cache),
  and that its object is there; `Handled`, whose file each handle is and which were left behind by a deletion. None of
  the three invariants the run checks is inductive: a cached path stays right when a name is removed only because the
  tree has one way to each directory (lemma `Unique`), and a link count stays right only if the
  file had the name that is taken away;
* what a look-up does is stated once, for any world (`ChildIs`, `GetIs`): it returns what `Res` returns and changes the caches
  only (`Warms`). It is a recursive function of the length of the path; the lemma takes the least length for which
  it would not hold. One lemma per operation says what an answer comes to (`UnlinkIs`, `RenameIs`, `MakeIs` and
  the like), in terms of four changes of the entries: put, removed, moved, nothing (`TreeChange`). What a change does to names,
  link counts and other paths is proved for the trees alone, before any cache is considered
  (`NamesPut`, `MovedTree`, `LeadingDiffer`);
* `LinksCounted`, `HandlesRight`: `[]LinksMatchNames`, `[]HandlesMatch`;
* `TreeKeepsToSpec`: `Spec => TreeSpec`. A step of a call is one step of FileTree, except a rename onto an
  existing name, which is the removal and the move FileTree allows in one step;
* `NamespaceTyped`: `[]TypeOK`.

`CrashJournalProofs`, for any names, inodes, contents, modes and slots, and any `Faults`. Whether a crash loses something
depends on when buckets are stored, which the code leaves open (section 3); what the journal needs of a replay,
and what it gives in every behaviour, does not. A mount is *sound* (`Sound`) when its counts are exact, its directory can be
read and names records that exist.

* `ReplayDoesTheCall`: on any sound mount, replaying an entry whose name or file is there makes exactly the
  change of its call (`Effect`), and leaves the mount sound, whichever slots the texts are in; a rename that replaces a file and its nested
  unlink included;
* `ReplayTwice`: replaying the same entry again changes nothing a user sees, which is why an entry may stay open after
  its call was done and stored;
* `ReplayDoesTheCalls`: the mount after a crash does the calls of the open entries in the order of their numbers,
  leaves out those that cannot be done, and comes to a sound mount, if what was stored is sound. `tryReplay` is a
  recursive function of the number; the lemma takes the least number at which it would not hold;
* `StoredIsLoaded`: what is stored of a sound mount at rest is loaded with the same names, contents and modes and exact
  counts;
* `EntryWhileCalling`: `Spec => []WriteAhead`, for any `Faults`. What a call still has to do it does while its entry is on disk, and
  an entry goes only when the call has returned and no log holds it, wherever stores and crashes come;
* replay and call do not choose the same slots, so mounts are compared by their *face*: the types, modes and texts of the
  records, wherever the chunks are. Each step has an effect on faces alone (`DoFace`, lemma `StepFace`), and the steps of
  a call do the same from any mount of the same face.

That these facts come together to `Durable`, `ShowsCalls` and `CountsRecovered` when stores are whole is checked by the run `Journal`.

All rest on the named assumptions of the modules only (`NamespaceAssumption`, `TreesAssumption`: the directories
to begin with are a tree,
`ConstantsAssumption`,
`RequestsAssumption`, `BucketAssumption`, `ObjectsAssumption`, `WriterAssumption`, `PoolAssumption`, `JournalAssumption`, `SlotsAssumption`, `SessionsAssumption`, `ChainAssumption`, `FileAssumption`,
`ValuesAssumption` and those of the mutex), which the runs evaluate.

Only model-checked: everything about fairness (`WriterDrains`, `SomebodyEnters`,
`CallReturns`, `ChangesReachDisk`, `ShutdownEnds`: liveness is out of the prover's reach), what happens when one of the
conditions of section 3 is dropped, which is a counterexample and no theorem, and the properties whose subject
is just what such a condition leaves out: `DeletesOnce`, `AssertsHold`, `ZeroAlive` (two threads in one section, a mount),
`OneOwner` (ABA), `ReadsBack` (a put beside a store), `PathsResolve` (a moved directory), `Durable`, `ShowsCalls`,
`CountsRecovered` (a torn store, use after a replay), `Usable`, `OldKeyGone` (a crash inside a migration). Their runs say what holds
under the condition on a small instance; a theorem with the condition as its hypothesis would not say more about this code.

## 6. Not modelled, and why

* JSON and lexer (`script/`): sequential data structures without protocol state;
  the modules use maps where the code uses JSON objects.
* Strings, console, logging, statistics, special files (`/stats` and the like), Windows:
  formatting and output. `putSystemString` writes a temporary file and renames it, so
  a file is written in one step in Sessions and BucketCache.
* Cryptography: calls into libsodium, used by their effect (Sessions). `key.cpp` hides
  keys in memory.
* FUSE callbacks that answer `-ENOSYS` (`fsync` among them), `statfs`, extended attributes.
* In DedupStore: the chunk a hash caches, the split of a slot write into hash and
  chunk, crashes. In ChunkFile: error paths other than that of `getRange`.
* In BucketCache: metadata buckets (their filters, and
  `putHashedChunk`, after which nothing counts the change again) and errors of the disk.
* In Namespace: calls that overlap (two threads that look up the same inode, `inodeToFile`
  between test and insertion), `utimens`, special files.
* In CrashJournal: rotation of journal files, the order of entries inside a cipher
  stream, directories below the root, a crash during the replay (it repeats the replay).
* In Sessions: a crash inside a store, `keyfile.bak`, options given on the command line.
* `fstest.c` and `do_test.sh`: tests; the modules take from them what callers do.

## 7. Plan

The modules were written in the order of section 2, the deduplicating store first. The system's own logic is modelled.
What could be added:

1. CrashJournal with directories below the root, and a replay that crashes itself.
2. The composition of BucketCache with CrashJournal: a store in steps below the replay of entries.
3. Calls of the name space that overlap, where `inodeToFile` is tested and filled in two steps (`fs.cpp`).
