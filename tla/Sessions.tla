------------------------------- MODULE Sessions -------------------------------
(***************************************************************************)
(* The runs of the program on one directory: main (main.cpp:33-173) creates, *)
(* mounts or migrates a file system, initStorage takes the lock file       *)
(* (storage.cpp:246-264), initFileSystem finds or makes the root           *)
(* (fs.cpp:162-259), and when the services stop, fs stores and then the    *)
(* storage removes the lock file (storage.cpp:198-203).                    *)
(*                                                                         *)
(*   config, keyfile, lock  the files of those names: which generation of  *)
(*                          salts and of key file they hold                *)
(*   files    the bucket files, by name: what is in them is sealed         *)
(*   fsys     the file system as its owner knows it: the password and what *)
(*            was stored last (no variable of the code)                    *)
(*   pc, run  of each process: where it is and what it has in memory       *)
(*   gen      the random keys made so far                                  *)
(*                                                                         *)
(* Cryptography is symbolic: a name or a sealed text is made from a key    *)
(* and is of use only to one who has that key. One bucket of each kind     *)
(* stands for all. A store is one step (what a crash inside it leaves, and *)
(* the journal, are the subject of CrashJournal).                          *)
(*                                                                         *)
(* Three conditions, which the code does not ensure and Faults may break:  *)
(*   "failed"     a run that fails before it has the lock may end while    *)
(*                another is mounted (it removes the lock of that one)     *)
(*   "race"       two runs may both find no lock, or no config.json        *)
(*   "migration"  a migration may crash between the first file it writes   *)
(*                and the new config.json                                  *)
(*                                                                         *)
(* Bounds: MaxRuns runs, MaxGen generations of keys, MaxCrashes crashes.   *)
(***************************************************************************)
EXTENDS Integers, Functions

CONSTANTS Procs, Passwords, Contents, Empty, None, Forged,
          MaxRuns, MaxGen, MaxCrashes, Faults

ASSUME SessionsAssumption ==
  /\ MaxRuns \in Nat /\ MaxGen \in Nat /\ MaxCrashes \in Nat
  /\ Empty \in Contents /\ None \notin 1 .. MaxGen /\ Forged \notin Contents
  /\ Faults \subseteq {"failed", "race", "migration"}

VARIABLES config, keyfile, lock, files, fsys, pc, run, gen, runs, crashes

outside == <<config, keyfile, lock>>
bounds == <<gen, runs, crashes>>
vars == <<outside, files, fsys, pc, run, bounds>>

-----------------------------------------------------------------------------
(* Protocols.                                                              *)

(* The secrets of a protocol come from the salts of the config, the key    *)
(* file and the password, all three.                                       *)
Protocol(c, k, pw) == [config |-> c, keyfile |-> k, pass |-> pw]

(* Names are hashes of the number of the bucket, its kind and a secret.    *)
FileName(kind, prot) == [kind |-> kind, prot |-> prot]

Seal(key, text) == [key |-> key, text |-> text]
Open(key, sealed) == IF sealed.key = key THEN sealed.text ELSE Forged

(* What a protocol reads: the key in the metadata of the root, and with it *)
(* the data. A bucket without a file is empty; one that cannot be          *)
(* decrypted is reported and left empty.                                   *)
Found(prot) == FileName("meta", prot) \in DOMAIN files
KeyOf(prot) == Open(prot, files[FileName("meta", prot)])
DataOf(prot, key) ==
  LET name == FileName("data", prot) IN
  IF name \in DOMAIN files /\ Open(key, files[name]) # Forged THEN Open(key, files[name]) ELSE Empty

With(name, sealed, disk) ==
  [n \in DOMAIN disk \cup {name} |-> IF n = name THEN sealed ELSE disk[n]]

Write(name, sealed) == files' = With(name, sealed, files)
Delete(name) == files' = Restrict(files, DOMAIN files \ {name})

-----------------------------------------------------------------------------
NotMounted == {"off", "config", "putkeyfile", "putconfig", "password", "lock", "putlock", "exit"}
Holding == {p \in Procs : pc[p] \notin NotMounted}
HalfMigrated == {p \in Procs : pc[p] \in {"oldmeta", "newdata", "olddata", "newkeyfile", "newconfig"}}

Idle == [mode |-> None, pass |-> None, prot |-> None, key |-> None, rootKey |-> None,
         val |-> Empty, new |-> None]

Init ==
  /\ config = None /\ keyfile = None /\ lock = FALSE
  /\ files = <<>> /\ fsys = None
  /\ pc = [p \in Procs |-> "off"] /\ run = [p \in Procs |-> Idle]
  /\ gen = 0 /\ runs = 0 /\ crashes = 0

GoTo(p, next) == pc' = [pc EXCEPT ![p] = next]

Start(p, mode, pw) ==
  /\ pc[p] = "off" /\ runs < MaxRuns
  /\ runs' = runs + 1
  /\ run' = [run EXCEPT ![p] = [Idle EXCEPT !.mode = mode, !.pass = pw]]
  /\ GoTo(p, "config")
  /\ UNCHANGED <<outside, files, fsys, gen, crashes>>

(* A new config has new salts; it is not stored over another. *)
NewConfig(p) ==
  /\ pc[p] = "config" /\ run[p].mode = "create" /\ config = None
  /\ "race" \in Faults \/ \A q \in Procs : pc[q] \notin {"putkeyfile", "putconfig"}
  /\ gen < MaxGen /\ gen' = gen + 1
  /\ run' = [run EXCEPT ![p].prot = Protocol(gen', None, None)]
  /\ GoTo(p, "putkeyfile")
  /\ UNCHANGED <<outside, files, fsys, runs, crashes>>

LoadConfig(p) ==
  /\ pc[p] = "config" /\ run[p].mode # "create" /\ config # None
  /\ run' = [run EXCEPT ![p].prot = Protocol(config, None, None)]
  /\ GoTo(p, "password")
  /\ UNCHANGED <<outside, files, fsys, bounds>>

(* "Found existing config.json, abort!", "Could not load config.json" *)
Abort(p) ==
  /\ pc[p] = "config" /\ (run[p].mode = "create") = (config # None)
  /\ GoTo(p, "exit")
  /\ UNCHANGED <<outside, files, fsys, run, bounds>>

PutKeyfile(p) ==
  /\ pc[p] = "putkeyfile"
  /\ keyfile' = run[p].prot.config
  /\ GoTo(p, "putconfig")
  /\ UNCHANGED <<config, lock, files, fsys, run, bounds>>

PutConfig(p) ==
  /\ pc[p] = "putconfig"
  /\ config' = run[p].prot.config
  /\ GoTo(p, "password")
  /\ UNCHANGED <<keyfile, lock, files, fsys, run, bounds>>

(* The key file is read; one who creates may fail to repeat the password.  *)
EnterPassword(p) ==
  /\ pc[p] = "password"
  /\ \/ /\ keyfile # None
        /\ run' = [run EXCEPT ![p].prot = Protocol(run[p].prot.config, keyfile, run[p].pass)]
        /\ GoTo(p, "lock")
     \/ /\ keyfile = None \/ run[p].mode = "create"
        /\ GoTo(p, "exit") /\ UNCHANGED run
  /\ UNCHANGED <<outside, files, fsys, bounds>>

-----------------------------------------------------------------------------
(* Storage and file system start.                                          *)

WaitForLock(p) ==
  /\ pc[p] = "lock" /\ ~lock
  /\ "race" \in Faults \/ \A q \in Procs : pc[q] # "putlock"
  /\ GoTo(p, "putlock")
  /\ UNCHANGED <<outside, files, fsys, run, bounds>>

PutLock(p) ==
  /\ pc[p] = "putlock"
  /\ lock' = TRUE
  /\ GoTo(p, "init")
  /\ UNCHANGED <<config, keyfile, files, fsys, run, bounds>>

(* Faulty: a mount that finds no file system makes one. *)
FindOrMake(p) ==
  /\ pc[p] = "init"
  /\ IF Found(run[p].prot)
     THEN UNCHANGED run /\ GoTo(p, IF run[p].mode = "create" THEN "unlock" ELSE "load")
     ELSE /\ run' = [run EXCEPT ![p].key = run[p].prot.config, ![p].rootKey = run[p].prot.config]
          /\ GoTo(p, "root")
  /\ UNCHANGED <<outside, files, fsys, bounds>>

(* The root is looked for; a new file system gets a new key. *)
FindFileSystem(p) ==
  /\ pc[p] = "init"
  /\ IF run[p].mode = "create" /\ ~Found(run[p].prot)
     THEN /\ run' = [run EXCEPT ![p].key = run[p].prot.config, ![p].rootKey = run[p].prot.config]
          /\ GoTo(p, "root")
     ELSE /\ GoTo(p, IF run[p].mode # "create" /\ Found(run[p].prot) THEN "load" ELSE "unlock")
          /\ UNCHANGED run
  /\ UNCHANGED <<outside, files, fsys, bounds>>

(* The bucket of the root is stored. So is the first bucket of the data,   *)
(* but it has counted no change yet, and nothing is written for it         *)
(* (fs.cpp:203-204, bucket.cpp:219).                                       *)
WriteRoot(p) ==
  /\ pc[p] = "root"
  /\ Write(FileName("meta", run[p].prot), Seal(run[p].prot, run[p].rootKey))
  /\ fsys' = [pass |-> run[p].pass, val |-> Empty]
  /\ GoTo(p, "load")
  /\ UNCHANGED <<outside, run, bounds>>

(* The key comes from the metadata of the root and opens the buckets. A    *)
(* run whose root was removed meanwhile (Faults) has no key and goes no    *)
(* further: its assertions fail (:221, :230).                              *)
Load(p) ==
  LET key == KeyOf(run[p].prot) IN
  /\ pc[p] = "load" /\ Found(run[p].prot)
  /\ run' = [run EXCEPT ![p].key = key, ![p].rootKey = key,
                        ![p].val = DataOf(run[p].prot, key)]
  /\ GoTo(p, CASE run[p].mode = "create" -> "store" [] run[p].mode = "mount" -> "up"
               [] OTHER -> "newpassword")
  /\ UNCHANGED <<outside, files, fsys, bounds>>

-----------------------------------------------------------------------------
(* A mounted file system.                                                  *)

Change(p, v) ==
  /\ pc[p] = "up" /\ v # run[p].val
  /\ run' = [run EXCEPT ![p].val = v]
  /\ UNCHANGED <<outside, files, fsys, pc, bounds>>

StoreAllData(p) ==
  /\ files' = With(FileName("meta", run[p].prot), Seal(run[p].prot, run[p].rootKey),
                   With(FileName("data", run[p].prot), Seal(run[p].key, run[p].val), files))
  /\ fsys' = [fsys EXCEPT !.val = run[p].val]

(* The writer thread stores. *)
Store(p) ==
  /\ pc[p] = "up" /\ StoreAllData(p)
  /\ UNCHANGED <<outside, pc, run, bounds>>

Stop(p) ==
  /\ pc[p] = "up" /\ GoTo(p, "store")
  /\ UNCHANGED <<outside, files, fsys, run, bounds>>

(* The services are stopped, the last first: fs stores, *)
StopFS(p) ==
  /\ pc[p] = "store" /\ StoreAllData(p)
  /\ GoTo(p, "unlock")
  /\ UNCHANGED <<outside, run, bounds>>

(* and storage removes the lock, whether this run has put it or not. *)
StopStorage(p) ==
  /\ pc[p] \in {"unlock", "exit"}
  /\ pc[p] = "exit" => Holding = {} \/ "failed" \in Faults
  /\ lock' = FALSE
  /\ GoTo(p, "off") /\ run' = [run EXCEPT ![p] = Idle]
  /\ UNCHANGED <<config, keyfile, files, fsys, bounds>>

Crash(p) ==
  /\ pc[p] # "off" /\ crashes < MaxCrashes
  /\ p \in HalfMigrated => "migration" \in Faults
  /\ crashes' = crashes + 1
  /\ GoTo(p, "off") /\ run' = [run EXCEPT ![p] = Idle]
  /\ UNCHANGED <<outside, files, fsys, gen, runs>>

(* "remove ._lock if you believe this to be in error" (storage.cpp:251) *)
UserRemovesLock ==
  /\ lock /\ Holding = {}
  /\ lock' = FALSE
  /\ UNCHANGED <<config, keyfile, files, fsys, pc, run, bounds>>

-----------------------------------------------------------------------------
(* Migration.                                                              *)

(* A new config and key file are made, in memory; or the passwords differ. *)
NewProtocol(p, pw) ==
  /\ pc[p] = "newpassword"
  /\ \/ /\ gen < MaxGen /\ gen' = gen + 1
        /\ run' = [run EXCEPT ![p].new = Protocol(gen', gen', pw)]
        /\ GoTo(p, "newkey")
     \/ GoTo(p, "store") /\ UNCHANGED <<run, gen>>
  /\ UNCHANGED <<outside, files, fsys, runs, crashes>>

(* Faulty: the new key is not put into the metadata of the root. *)
NewKeyUnstored(p) ==
  /\ pc[p] = "newkey"
  /\ run' = [run EXCEPT ![p].key = run[p].new.config]
  /\ GoTo(p, "newmeta")
  /\ UNCHANGED <<outside, files, fsys, bounds>>

NewKey(p) ==
  /\ pc[p] = "newkey"
  /\ run' = [run EXCEPT ![p].key = run[p].new.config, ![p].rootKey = run[p].new.config]
  /\ GoTo(p, "newmeta")
  /\ UNCHANGED <<outside, files, fsys, bounds>>

(* Each bucket is written under the new protocol, then the old one goes.   *)
WriteNew(p) ==
  /\ \/ /\ pc[p] = "newmeta" /\ GoTo(p, "oldmeta")
        /\ Write(FileName("meta", run[p].new), Seal(run[p].new, run[p].rootKey))
     \/ /\ pc[p] = "newdata" /\ GoTo(p, "olddata")
        /\ Write(FileName("data", run[p].new), Seal(run[p].key, run[p].val))
  /\ UNCHANGED <<outside, fsys, run, bounds>>

(* Faulty: the files of data buckets stay. *)
DeleteOldMeta(p) ==
  /\ \/ /\ pc[p] = "oldmeta" /\ GoTo(p, "newdata") /\ UNCHANGED run
        /\ Delete(FileName("meta", run[p].prot))
     \/ /\ pc[p] = "olddata" /\ GoTo(p, "newkeyfile") /\ UNCHANGED files
        /\ run' = [run EXCEPT ![p].prot = run[p].new, ![p].pass = run[p].new.pass]
  /\ UNCHANGED <<outside, fsys, bounds>>

DeleteOld(p) ==
  /\ \/ /\ pc[p] = "oldmeta" /\ GoTo(p, "newdata") /\ UNCHANGED run
        /\ Delete(FileName("meta", run[p].prot))
     \/ /\ pc[p] = "olddata" /\ GoTo(p, "newkeyfile")
        /\ Delete(FileName("data", run[p].prot))
        /\ run' = [run EXCEPT ![p].prot = run[p].new, ![p].pass = run[p].new.pass]
  /\ UNCHANGED <<outside, fsys, bounds>>

(* Then the key file and the config are replaced. *)
PutNewKeyfile(p) ==
  /\ pc[p] = "newkeyfile"
  /\ keyfile' = run[p].prot.keyfile
  /\ GoTo(p, "newconfig")
  /\ UNCHANGED <<config, lock, files, fsys, run, bounds>>

PutNewConfig(p) ==
  /\ pc[p] = "newconfig"
  /\ config' = run[p].prot.config
  /\ fsys' = [fsys EXCEPT !.pass = run[p].pass]
  /\ GoTo(p, "store")
  /\ UNCHANGED <<keyfile, lock, files, run, bounds>>

-----------------------------------------------------------------------------
Begin(p) == \E mode \in {"create", "mount", "migrate"}, pw \in Passwords : Start(p, mode, pw)
Main(p) ==
  NewConfig(p) \/ LoadConfig(p) \/ Abort(p) \/ PutKeyfile(p) \/ PutConfig(p) \/ EnterPassword(p)
InitFileSystem(p) ==
  \/ WaitForLock(p) \/ PutLock(p) \/ FindFileSystem(p)
  \/ WriteRoot(p) \/ Load(p)
Mounted(p) ==
  (\E v \in Contents : Change(p, v)) \/ Store(p) \/ Stop(p) \/ StopFS(p) \/ StopStorage(p)
Migrate(p) ==
  \/ \E pw \in Passwords : NewProtocol(p, pw)
  \/ NewKey(p) \/ WriteNew(p) \/ DeleteOld(p) \/ PutNewKeyfile(p) \/ PutNewConfig(p)

Next ==
  \/ \E p \in Procs : Begin(p) \/ Main(p) \/ InitFileSystem(p) \/ Mounted(p) \/ Migrate(p) \/ Crash(p)
  \/ UserRemovesLock

Spec == Init /\ [][Next]_vars

-----------------------------------------------------------------------------
(* Owner's view of the disk: what the config, the key file and the         *)
(* password of the owner open.                                             *)
OwnersProtocol == Protocol(config, keyfile, fsys.pass)

(* A file system that was created can be mounted with its password, after  *)
(* any sequence of mounts, whole migrations, failing runs, and crashes     *)
(* that are not inside a migration, and shows what was stored last         *)
(* (main.cpp:33-173, fs.cpp:162-259, :307-323).                            *)
Usable ==
  fsys # None /\ HalfMigrated = {} =>
    /\ Found(OwnersProtocol)
    /\ DataOf(OwnersProtocol, KeyOf(OwnersProtocol)) = fsys.val

(* A migration that runs to its end leaves nothing on disk that an older   *)
(* config, key file or password would open (storage.cpp:219-243,           *)
(* protocol.cpp:11-19).                                                    *)
OldKeyGone ==
  fsys # None /\ HalfMigrated = {} =>
    \A name \in DOMAIN files :
      /\ name.prot = OwnersProtocol
      /\ name.kind = "data" => files[name].key = KeyOf(OwnersProtocol)

(* Whoever is mounted stores under the protocol the next mount will have:  *)
(* a run that waited with a config.json that a migration has replaced, or  *)
(* that had a wrong password, is not mounted (fs.cpp:174, :206-211).       *)
StoresForOwner ==
  \A p \in Procs : pc[p] \in {"up", "store"} => run[p].prot = OwnersProtocol
=============================================================================
