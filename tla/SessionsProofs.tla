---------------------------- MODULE SessionsProofs ----------------------------
(***************************************************************************)
(* Whoever is mounted stores under the protocol the next mount will have,  *)
(* for any processes, passwords and bounds, when none of the three         *)
(* conditions of Sessions is broken. LockedInv says who may hold the lock: *)
(* one run, and whoever is about to put the lock is alone; it needs        *)
(* "failed" and "race" only.                                               *)
(*                                                                         *)
(* StoresForOwner is not inductive: StoredInv says what config.json, the   *)
(* key file and the bucket files are at every step of a creation, of a     *)
(* store and of a migration, and what the run that has the lock remembers  *)
(* of them.                                                                *)
(***************************************************************************)
EXTENDS Sessions, TLAPS

Labels ==
  NotMounted \cup {"init", "root", "load", "up", "store", "unlock", "newpassword",
                   "newkey", "newmeta", "oldmeta", "newdata", "olddata", "newkeyfile", "newconfig"}

Has(p) == pc[p] \notin NotMounted

LockedInv ==
  /\ pc \in [Procs -> Labels]
  /\ \A p \in Procs : Has(p) => lock
  /\ \A p, q \in Procs : Has(p) /\ Has(q) => p = q
  /\ \A p \in Procs : pc[p] = "putlock" => ~lock
  /\ \A p, q \in Procs : pc[p] = "putlock" /\ pc[q] = "putlock" => p = q

Isolated == Faults \cap {"failed", "race"} = {}

(* Nothing runs at first. *)
LEMMA InitLocked == Init => LockedInv
  BY DEF Init, LockedInv, Has, NotMounted, Labels

(* A process that stays outside, or stays a holder, disturbs nothing. *)
LEMMA Moves ==
  ASSUME LockedInv, NEW p \in Procs, NEW next \in Labels, GoTo(p, next), lock' = lock,
         next # "putlock", (next \notin NotMounted) => Has(p)
  PROVE  LockedInv'
  BY DEF LockedInv, Has, GoTo, NotMounted, Labels

LEMMA StepLocked ==
  ASSUME Isolated, LockedInv, [Next]_vars
  PROVE  LockedInv'
<1>1. CASE UNCHANGED vars
  BY <1>1 DEF LockedInv, Has, vars, outside
<1>2. CASE UserRemovesLock
  BY <1>2 DEF LockedInv, Has, UserRemovesLock, Holding
<1>3. ASSUME NEW p \in Procs, Begin(p) PROVE LockedInv'
  BY <1>3, Moves DEF Begin, Start, outside, NotMounted, Labels
<1>4. ASSUME NEW p \in Procs, Main(p) PROVE LockedInv'
  <2>1. CASE NewConfig(p)
    BY <2>1, Moves DEF NewConfig, outside, NotMounted, Labels
  <2>2. CASE LoadConfig(p)
    BY <2>2, Moves DEF LoadConfig, outside, NotMounted, Labels
  <2>3. CASE Abort(p)
    BY <2>3, Moves DEF Abort, outside, NotMounted, Labels
  <2>4. CASE PutKeyfile(p)
    BY <2>4, Moves DEF PutKeyfile, NotMounted, Labels
  <2>5. CASE PutConfig(p)
    BY <2>5, Moves DEF PutConfig, NotMounted, Labels
  <2>6. CASE EnterPassword(p)
    BY <2>6, Moves DEF EnterPassword, outside, NotMounted, Labels
  <2> QED BY <1>4, <2>1, <2>2, <2>3, <2>4, <2>5, <2>6 DEF Main
<1>5. ASSUME NEW p \in Procs, InitFileSystem(p) PROVE LockedInv'
  <2>1. CASE WaitForLock(p)
    BY <2>1 DEF WaitForLock, GoTo, outside, LockedInv, Has, NotMounted, Labels, Isolated
  <2>2. CASE PutLock(p)
    BY <2>2 DEF PutLock, GoTo, LockedInv, Has, NotMounted, Labels
  <2>3. CASE FindFileSystem(p)
    BY <2>3, Moves DEF FindFileSystem, outside, Has, NotMounted, Labels
  <2>4. CASE WriteRoot(p)
    BY <2>4, Moves DEF WriteRoot, outside, Has, NotMounted, Labels
  <2>5. CASE Load(p)
    BY <2>5, Moves DEF Load, outside, Has, NotMounted, Labels
  <2> QED BY <1>5, <2>1, <2>2, <2>3, <2>4, <2>5 DEF InitFileSystem
<1>6. ASSUME NEW p \in Procs, Mounted(p) PROVE LockedInv'
  <2>1. CASE (\E v \in Contents : Change(p, v)) \/ Store(p)
    BY <2>1 DEF Change, Store, outside, LockedInv, Has
  <2>2. CASE Stop(p)
    BY <2>2, Moves DEF Stop, outside, Has, NotMounted, Labels
  <2>3. CASE StopFS(p)
    BY <2>3, Moves DEF StopFS, outside, Has, NotMounted, Labels
  <2>4. CASE StopStorage(p)
    (* A holder is the only one; a run that failed ends when there is none. *)
    <3>1. \A q \in Procs : q # p => ~Has(q)
      BY <2>4 DEF StopStorage, Isolated, Holding, LockedInv, Has, NotMounted, Labels
    <3> QED BY <2>4, <3>1 DEF StopStorage, GoTo, LockedInv, Has, NotMounted, Labels
  <2> QED BY <1>6, <2>1, <2>2, <2>3, <2>4 DEF Mounted
<1>7. ASSUME NEW p \in Procs, Migrate(p) PROVE LockedInv'
  <2>1. CASE \E pw \in Passwords : NewProtocol(p, pw)
    BY <2>1, Moves DEF NewProtocol, outside, Has, NotMounted, Labels
  <2>2. CASE NewKey(p)
    BY <2>2, Moves DEF NewKey, outside, Has, NotMounted, Labels
  <2>3. CASE WriteNew(p)
    BY <2>3, Moves DEF WriteNew, outside, Has, NotMounted, Labels
  <2>4. CASE DeleteOld(p)
    BY <2>4, Moves DEF DeleteOld, outside, Has, NotMounted, Labels
  <2>5. CASE PutNewKeyfile(p)
    BY <2>5, Moves DEF PutNewKeyfile, Has, NotMounted, Labels
  <2>6. CASE PutNewConfig(p)
    BY <2>6, Moves DEF PutNewConfig, Has, NotMounted, Labels
  <2> QED BY <1>7, <2>1, <2>2, <2>3, <2>4, <2>5, <2>6 DEF Migrate
<1>8. ASSUME NEW p \in Procs, Crash(p) PROVE LockedInv'
  BY <1>8, Moves DEF Crash, outside, NotMounted, Labels
<1> QED BY <1>1, <1>2, <1>3, <1>4, <1>5, <1>6, <1>7, <1>8 DEF Next

-----------------------------------------------------------------------------
(* What is on disk. The owner's view (Usable, OldKeyGone) is not inductive *)
(* either: it says nothing while a migration is half way, nor what the     *)
(* runs in progress are about to write. StoredInv adds what each run has   *)
(* in memory at each place, and what files there are in the middle of a    *)
(* migration.                                                              *)

Made == DOMAIN files # {}

Meta(prot) == FileName("meta", prot)
Data(prot) == FileName("data", prot)

(* The buckets are those of prot, opened by key, and show val. *)
Holds(prot, key, val) ==
  /\ DOMAIN files \subseteq {Meta(prot), Data(prot)}
  /\ Meta(prot) \in DOMAIN files
  /\ files[Meta(prot)] = Seal(prot, key)
  /\ IF Data(prot) \in DOMAIN files THEN files[Data(prot)] = Seal(key, val) ELSE val = Empty

IsRun(r) ==
  r = [mode |-> r.mode, pass |-> r.pass, prot |-> r.prot, key |-> r.key,
       rootKey |-> r.rootKey, val |-> r.val, new |-> r.new]

Shapes ==
  /\ run = [p \in Procs |-> run[p]]
  /\ \A p \in Procs : IsRun(run[p]) /\ run[p].val \in Contents
  /\ gen \in 0 .. MaxGen
  /\ config \in (1 .. gen) \cup {None}
  /\ fsys # None => Made
  /\ Made => /\ config # None
             /\ fsys = [pass |-> fsys.pass, val |-> fsys.val]
             /\ fsys.val \in Contents

(* Whoever makes the file system is the only one, from its new config to   *)
(* the first file it writes.                                               *)
Fresh == {"putkeyfile", "putconfig"}
Ready == {"password", "lock", "putlock", "init", "root"}
Making(p) == run[p].mode = "create" /\ pc[p] \in Fresh \cup Ready

MakerInv(p) ==
  LET r == run[p] IN
  /\ pc[p] \in Fresh \cup {"root"} => r.mode = "create"
  /\ pc[p] \in Fresh => config = None /\ r.prot.config \in 1 .. gen
  /\ pc[p] = "putconfig" => keyfile = r.prot.config
  /\ r.mode = "create" /\ pc[p] \in Ready =>
       /\ ~Made /\ config # None
       /\ r.prot.config = config
       /\ pc[p] # "password" => r.prot = Protocol(config, keyfile, r.pass)
  /\ pc[p] = "root" => r.key = config /\ r.rootKey = config

MakingInv ==
  /\ \A p, q \in Procs : Making(p) /\ Making(q) => p = q
  /\ \A p \in Procs : MakerInv(p)

(* What a run that has the file system knows, and finds on disk. *)
Reading == {"load", "newpassword", "newkey", "newmeta"}
Leaving == {"oldmeta", "newdata", "olddata"}
Arriving == {"newkeyfile", "newconfig"}

HolderInv(p) ==
  LET r == run[p] IN
  /\ pc[p] \in Reading \cup {"up", "store"} => Made /\ r.prot = OwnersProtocol
  /\ pc[p] \in {"up", "store", "newpassword"} => r.key = r.rootKey
  /\ pc[p] \in {"newpassword", "newkey", "newmeta"} \cup Leaving \cup Arriving => r.val = fsys.val
  /\ pc[p] \in {"newkey", "newmeta"} \cup Leaving =>
       /\ r.new = Protocol(r.new.config, r.new.config, r.new.pass)
       /\ r.new.config \in 1 .. gen /\ r.new.config # r.prot.config
  /\ pc[p] \in {"newmeta"} \cup Leaving =>
       r.key = r.new.config /\ r.rootKey = r.new.config
  /\ pc[p] \in Leaving =>
       /\ r.prot = OwnersProtocol
       /\ Meta(r.new) \in DOMAIN files /\ files[Meta(r.new)] = Seal(r.new, r.key)
  /\ pc[p] = "oldmeta" => DOMAIN files \subseteq {Meta(r.prot), Data(r.prot), Meta(r.new)}
  /\ pc[p] = "newdata" => DOMAIN files \subseteq {Data(r.prot), Meta(r.new)}
  /\ pc[p] = "olddata" =>
       /\ DOMAIN files \subseteq {Data(r.prot), Meta(r.new), Data(r.new)}
       /\ Data(r.new) \in DOMAIN files /\ files[Data(r.new)] = Seal(r.key, r.val)
  /\ pc[p] \in Arriving =>
       /\ Holds(r.prot, r.key, r.val) /\ r.key = r.rootKey
       /\ r.prot = Protocol(r.prot.config, r.prot.config, r.pass)
       /\ r.prot.config \in 1 .. gen
  /\ pc[p] = "newconfig" => keyfile = r.prot.keyfile

Settled ==
  Made /\ HalfMigrated = {} =>
    \E key : Holds(OwnersProtocol, key, fsys.val)

StoredInv ==
  /\ Shapes /\ MakingInv /\ Settled
  /\ \A p \in Procs : HolderInv(p)

LEMMA WriteFile ==
  ASSUME NEW name, NEW sealed, Write(name, sealed)
  PROVE  /\ DOMAIN files' = DOMAIN files \cup {name}
         /\ files'[name] = sealed
         /\ \A n \in DOMAIN files : n # name => files'[n] = files[n]
  BY DEF Write, With

LEMMA DeleteFile ==
  ASSUME NEW name, Delete(name)
  PROVE  /\ DOMAIN files' = DOMAIN files \ {name}
         /\ \A n \in DOMAIN files : n # name => files'[n] = files[n]
  BY DEF Delete, Restrict

LEMMA Names ==
  ASSUME NEW prot, NEW other
  PROVE  /\ Meta(prot) # Data(other)
         /\ Meta(prot) = Meta(other) <=> prot = other
         /\ Data(prot) = Data(other) <=> prot = other
         /\ Meta(prot).kind = "meta" /\ Meta(prot).prot = prot
         /\ Data(prot).kind = "data" /\ Data(prot).prot = prot
  BY DEF Meta, Data, FileName

LEMMA InitStored == Init => StoredInv
<1> SUFFICES ASSUME Init PROVE StoredInv
  OBVIOUS
<1>1. ~Made
  BY DEF Init, Made
<1>2. \A p \in Procs : pc[p] = "off" /\ run[p] = Idle
  BY DEF Init
<1>3. Shapes
  BY <1>1, <1>2, SessionsAssumption DEF Init, Shapes, IsRun, Idle
<1>4. MakingInv
  BY <1>2 DEF MakingInv, MakerInv, Making, Fresh, Ready
<1>5. \A p \in Procs : HolderInv(p)
  BY <1>2 DEF HolderInv, Reading, Leaving, Arriving
<1> QED BY <1>1, <1>3, <1>4, <1>5 DEF StoredInv, Settled

(* A step of p that changes nothing on disk but the lock file.             *)
LEMMA Quiet ==
  ASSUME StoredInv, NEW p \in Procs, NEW next, NEW r,
         config' = config, keyfile' = keyfile, files' = files, fsys' = fsys,
         pc' = [pc EXCEPT ![p] = next], run' = [run EXCEPT ![p] = r],
         LockedInv,
         gen' \in gen .. MaxGen, IsRun(r), r.val \in Contents,
         next \in {"oldmeta", "newdata", "olddata", "newkeyfile", "newconfig"} =>
            p \in HalfMigrated,
         p \notin HalfMigrated,
         Making(p)' => \A q \in Procs \ {p} : ~Making(q),
         MakerInv(p)', HolderInv(p)'
  PROVE  StoredInv'
<1>1. \A q \in Procs \ {p} : pc'[q] = pc[q] /\ run'[q] = run[q]
  BY DEF LockedInv, StoredInv, Shapes
<1>2. pc'[p] = next /\ run'[p] = r
  BY DEF LockedInv, StoredInv, Shapes
<1>3. Made' = Made /\ OwnersProtocol' = OwnersProtocol
  BY DEF Made, OwnersProtocol
<1>4. Shapes'
  <2>1. run' = [q \in Procs |-> run'[q]]
    BY DEF StoredInv, Shapes
  <2>2. \A q \in Procs : IsRun(run'[q]) /\ run'[q].val \in Contents
    BY <1>1, <1>2 DEF StoredInv, Shapes
  <2>3. gen' \in 0 .. MaxGen /\ config' \in (1 .. gen') \cup {None}
    BY SessionsAssumption DEF StoredInv, Shapes
  <2> QED BY <1>3, <2>1, <2>2, <2>3 DEF StoredInv, Shapes, IsRun
<1>5. ASSUME NEW q \in Procs \ {p} PROVE MakerInv(q)' /\ HolderInv(q)' /\ Making(q)' = Making(q)
  <2>1. 1 .. gen \subseteq 1 .. gen'
    BY SessionsAssumption DEF StoredInv, Shapes
  <2>2. \A prot, key, val : Holds(prot, key, val)' <=> Holds(prot, key, val)
    BY DEF Holds
  <2>3. MakerInv(q)'
    BY <1>1, <1>3, <2>1 DEF StoredInv, MakingInv, MakerInv
  <2>4. HolderInv(q)'
    BY <1>1, <1>3, <2>1, <2>2 DEF StoredInv, HolderInv
  <2> QED BY <1>1, <2>3, <2>4 DEF Making
<1>6. MakingInv'
  BY <1>5 DEF StoredInv, MakingInv
<1>7. Settled'
  <2>1. HalfMigrated' = HalfMigrated
    BY <1>1, <1>2 DEF HalfMigrated
  <2>2. \A prot, key, val : Holds(prot, key, val)' <=> Holds(prot, key, val)
    BY DEF Holds
  <2> QED BY <1>3, <2>1, <2>2 DEF StoredInv, Settled
<1> QED BY <1>4, <1>5, <1>6, <1>7 DEF StoredInv

(* The places of a run that is half way through a migration.               *)
LEMMA HalfWay ==
  ASSUME NEW p \in Procs
  PROVE  p \in HalfMigrated <=>
           pc[p] \in {"oldmeta", "newdata", "olddata", "newkeyfile", "newconfig"}
  BY DEF HalfMigrated

(* The same, for a step to a place where a run holds nothing and makes     *)
(* nothing, or goes on making.                                             *)
LEMMA Outside ==
  ASSUME StoredInv, LockedInv, NEW p \in Procs, NEW next, NEW r,
         config' = config, keyfile' = keyfile, files' = files, fsys' = fsys,
         pc' = [pc EXCEPT ![p] = next], run' = [run EXCEPT ![p] = r],
         gen' = gen, IsRun(r), r.val \in Contents,
         p \notin HalfMigrated,
         next \in {"off", "config", "password", "lock", "putlock", "init", "unlock", "exit"},
         r.mode = "create" /\ next \in Ready =>
           /\ Making(p)
           /\ ~Made /\ config # None
           /\ r.prot.config = config
           /\ next # "password" => r.prot = Protocol(config, keyfile, r.pass)
  PROVE  StoredInv'
<1>1. pc'[p] = next /\ run'[p] = r
  BY DEF LockedInv, StoredInv, Shapes
<1>2. gen' \in gen .. MaxGen
  BY SessionsAssumption DEF StoredInv, Shapes
<1>3. HolderInv(p)'
  BY <1>1 DEF HolderInv, Reading, Leaving, Arriving
<1>4. MakerInv(p)'
  BY <1>1 DEF MakerInv, Fresh, Ready, Made
<1>5. Making(p)' => \A q \in Procs \ {p} : ~Making(q)
  BY <1>1 DEF Making, Fresh, Ready, StoredInv, MakingInv
<1> QED BY <1>2, <1>3, <1>4, <1>5, Quiet

LEMMA MainStored ==
  ASSUME StoredInv, LockedInv, Isolated, NEW p \in Procs,
         Begin(p) \/ NewConfig(p) \/ LoadConfig(p) \/ Abort(p) \/ EnterPassword(p)
         \/ WaitForLock(p) \/ PutLock(p)
  PROVE  StoredInv'
<1> USE DEF GoTo, outside, bounds
<1>1. IsRun(run[p]) /\ run[p].val \in Contents /\ run = [run EXCEPT ![p] = run[p]]
  BY DEF StoredInv, Shapes
<1>h. pc[p] \in {"off", "config", "password", "lock", "putlock"} => p \notin HalfMigrated
  BY HalfWay
<1>2. CASE Begin(p)
  <2>1. PICK mode \in {"create", "mount", "migrate"}, pw \in Passwords : Start(p, mode, pw)
    BY <1>2 DEF Begin
  <2> DEFINE r == [Idle EXCEPT !.mode = mode, !.pass = pw]
  <2> DEFINE i == [Idle EXCEPT !.mode = mode]
  <2>2. IsRun(Idle) /\ Idle.val \in Contents
    BY SessionsAssumption DEF Idle, IsRun
  <2>3. IsRun(i) /\ i.val \in Contents
    BY <2>2 DEF IsRun
  <2>4. run' = [run EXCEPT ![p] = r] /\ r = [i EXCEPT !.pass = pw]
    BY <2>1 DEF Start
  <2> HIDE DEF r, i
  <2>5. IsRun(r) /\ r.val \in Contents
    BY <2>3, <2>4 DEF IsRun
  <2> QED BY <1>h, <2>1, <2>4, <2>5, Outside DEF Start, Ready
<1>3. CASE NewConfig(p)
  <2> DEFINE r == [run[p] EXCEPT !.prot = Protocol(gen', None, None)]
  <2>1. /\ run' = [run EXCEPT ![p] = r] /\ pc' = [pc EXCEPT ![p] = "putkeyfile"]
        /\ pc[p] = "config" /\ gen' = gen + 1 /\ gen < MaxGen /\ config = None
        /\ run[p].mode = "create" 
        /\ config' = config /\ keyfile' = keyfile /\ files' = files /\ fsys' = fsys
    BY <1>3 DEF NewConfig
  <2>2. IsRun(r) /\ r.val \in Contents /\ r.mode = "create" /\ r.prot.config = gen'
    BY <1>1, <2>1 DEF IsRun, Protocol
  <2>3. gen' \in gen .. MaxGen /\ gen' \in 1 .. gen'
    BY <2>1, SessionsAssumption DEF StoredInv, Shapes
  <2>4. \A q \in Procs \ {p} : ~Making(q)
    <3>1. \A q \in Procs : pc[q] \notin Fresh
      BY <1>3 DEF NewConfig, Isolated, Fresh
    <3>2. \A q \in Procs : run[q].mode = "create" => pc[q] \notin Ready
      BY <2>1 DEF StoredInv, MakingInv, MakerInv
    <3> QED BY <3>1, <3>2 DEF Making
  <2> HIDE DEF r
  <2>5. pc'[p] = "putkeyfile" /\ run'[p] = r
    BY <2>1 DEF LockedInv, StoredInv, Shapes
  <2>6. HolderInv(p)'
    BY <2>5 DEF HolderInv, Reading, Leaving, Arriving
  <2>7. MakerInv(p)'
    BY <2>1, <2>2, <2>3, <2>5 DEF MakerInv, Fresh, Ready
  <2> QED BY <1>h, <2>1, <2>2, <2>3, <2>4, <2>6, <2>7, Quiet
<1>4. CASE LoadConfig(p)
  <2> DEFINE r == [run[p] EXCEPT !.prot = Protocol(config, None, None)]
  <2>1. /\ run' = [run EXCEPT ![p] = r] /\ pc' = [pc EXCEPT ![p] = "password"]
        /\ pc[p] = "config" /\ run[p].mode # "create"
    BY <1>4 DEF LoadConfig
  <2>2. IsRun(r) /\ r.val \in Contents /\ r.mode # "create"
    BY <1>1, <2>1 DEF IsRun
  <2> HIDE DEF r
  <2> QED BY <1>4, <1>h, <2>1, <2>2, Outside DEF LoadConfig
<1>5. CASE Abort(p)
  BY <1>1, <1>5, <1>h, Outside DEF Abort, Ready
<1>m. /\ run[p].mode = "create" /\ pc[p] \in Ready =>
           /\ Making(p)
           /\ ~Made /\ config # None
           /\ run[p].prot.config = config
           /\ pc[p] # "password" => run[p].prot = Protocol(config, keyfile, run[p].pass)
  BY DEF StoredInv, MakingInv, MakerInv, Making
<1>6. CASE EnterPassword(p) /\ pc' = [pc EXCEPT ![p] = "exit"] /\ run' = run
  BY <1>1, <1>6, <1>h, Outside DEF EnterPassword, Ready
<1>7. CASE EnterPassword(p) /\ ~(pc' = [pc EXCEPT ![p] = "exit"] /\ run' = run)
  <2> DEFINE r == [run[p] EXCEPT !.prot = Protocol(run[p].prot.config, keyfile, run[p].pass)]
  <2>1. /\ run' = [run EXCEPT ![p] = r] /\ pc' = [pc EXCEPT ![p] = "lock"]
        /\ pc[p] = "password"
        /\ config' = config /\ keyfile' = keyfile /\ files' = files /\ fsys' = fsys /\ gen' = gen
    BY <1>7 DEF EnterPassword
  <2>2. /\ IsRun(r) /\ r.val \in Contents /\ r.mode = run[p].mode
        /\ r.prot = Protocol(run[p].prot.config, keyfile, run[p].pass) /\ r.pass = run[p].pass
        /\ r.prot.config = run[p].prot.config
    BY <1>1, <2>1 DEF IsRun, Protocol
  <2> HIDE DEF r
  <2>3. r.mode = "create" =>
           /\ Making(p)
           /\ ~Made /\ config # None
           /\ r.prot.config = config
           /\ r.prot = Protocol(config, keyfile, r.pass)
    BY <1>m, <2>1, <2>2 DEF Ready
  <2> QED BY <1>h, <2>1, <2>2, <2>3, Outside
<1>8. CASE WaitForLock(p)
  BY <1>1, <1>8, <1>h, <1>m, Outside DEF WaitForLock, Ready
<1>9. CASE PutLock(p)
  BY <1>1, <1>9, <1>h, <1>m, Outside DEF PutLock, Ready
<1> QED BY <1>2, <1>3, <1>4, <1>5, <1>6, <1>7, <1>8, <1>9

(* What a protocol reads of its own buckets.                               *)
LEMMA Reads ==
  ASSUME NEW prot, NEW key, NEW val \in Contents, Holds(prot, key, val)
  PROVE  Found(prot) /\ KeyOf(prot) = key /\ DataOf(prot, key) = val
<1>1. Seal(prot, key).key = prot /\ Seal(prot, key).text = key
  BY DEF Seal
<1>2. Found(prot) /\ KeyOf(prot) = key
  BY <1>1 DEF Holds, Found, KeyOf, Open, Meta
<1>3. Seal(key, val).key = key /\ Seal(key, val).text = val
  BY DEF Seal
<1>4. CASE Data(prot) \in DOMAIN files
  BY <1>2, <1>3, <1>4, SessionsAssumption DEF Holds, DataOf, Open, Data
<1>5. CASE Data(prot) \notin DOMAIN files
  BY <1>2, <1>5 DEF Holds, DataOf, Data
<1> QED BY <1>2, <1>4, <1>5

(* Nobody else is half way while p has the file system.                    *)
LEMMA Alone ==
  ASSUME LockedInv, NEW p \in Procs, Has(p)
  PROVE  /\ \A q \in Procs \ {p} : pc[q] \in NotMounted
         /\ HalfMigrated \subseteq {p}
<1>1. \A q \in Procs \ {p} : pc[q] \in NotMounted
  BY DEF LockedInv, Has
<1> QED BY <1>1 DEF HalfMigrated, NotMounted

(* A change of some fields of a run leaves the others.                     *)
WithKeys(r, k) == [r EXCEPT !.key = k, !.rootKey = k]
WithVal(r, v) == [r EXCEPT !.val = v]
WithNew(r, prot) == [r EXCEPT !.new = prot]

LEMMA RunsKeep ==
  ASSUME NEW r, IsRun(r), NEW k
  PROVE  /\ LET s == WithKeys(r, k) IN
            /\ IsRun(s) /\ s.key = k /\ s.rootKey = k /\ s.val = r.val /\ s.mode = r.mode
            /\ s.pass = r.pass /\ s.prot = r.prot /\ s.new = r.new
         /\ LET s == WithVal(r, k) IN
            /\ IsRun(s) /\ s.key = r.key /\ s.rootKey = r.rootKey /\ s.val = k /\ s.mode = r.mode
            /\ s.pass = r.pass /\ s.prot = r.prot /\ s.new = r.new
         /\ LET s == WithNew(r, k) IN
            /\ IsRun(s) /\ s.key = r.key /\ s.rootKey = r.rootKey /\ s.val = r.val /\ s.mode = r.mode
            /\ s.pass = r.pass /\ s.prot = r.prot /\ s.new = k
<1> DEFINE a == [r EXCEPT !.key = k]
           s == [a EXCEPT !.rootKey = k]
<1>1. /\ IsRun(a) /\ a.key = k /\ a.rootKey = r.rootKey /\ a.val = r.val /\ a.mode = r.mode
      /\ a.pass = r.pass /\ a.prot = r.prot /\ a.new = r.new
  BY DEF IsRun
<1>2. WithKeys(r, k) = s
  BY DEF WithKeys
<1> HIDE DEF a
<1>3. /\ IsRun(s) /\ s.key = k /\ s.rootKey = k /\ s.val = r.val /\ s.mode = r.mode
      /\ s.pass = r.pass /\ s.prot = r.prot /\ s.new = r.new
  BY <1>1 DEF IsRun
<1> HIDE DEF s
<1>4. LET v == WithVal(r, k) IN
        /\ IsRun(v) /\ v.key = r.key /\ v.rootKey = r.rootKey /\ v.val = k /\ v.mode = r.mode
        /\ v.pass = r.pass /\ v.prot = r.prot /\ v.new = r.new
  BY DEF IsRun, WithVal
<1>5. LET n == WithNew(r, k) IN
        /\ IsRun(n) /\ n.key = r.key /\ n.rootKey = r.rootKey /\ n.val = r.val /\ n.mode = r.mode
        /\ n.pass = r.pass /\ n.prot = r.prot /\ n.new = k
  BY DEF IsRun, WithNew
<1> QED BY <1>2, <1>3, <1>4, <1>5

LEMMA InitFileSystemStored ==
  ASSUME StoredInv, LockedInv, NEW p \in Procs, FindFileSystem(p) \/ Load(p)
  PROVE  StoredInv'
<1> USE DEF GoTo, outside, bounds
<1>1. IsRun(run[p]) /\ run[p].val \in Contents /\ run = [run EXCEPT ![p] = run[p]]
  BY DEF StoredInv, Shapes
<1>2. /\ HalfMigrated = {} /\ p \notin HalfMigrated
      /\ config' = config /\ keyfile' = keyfile /\ files' = files /\ fsys' = fsys
  <2>1. pc[p] \in {"init", "load"} /\ Has(p)
    BY DEF FindFileSystem, Load, Has, NotMounted
  <2> QED BY <2>1, Alone, HalfWay DEF FindFileSystem, Load
<1>3. gen' \in gen .. MaxGen /\ gen' = gen
  BY SessionsAssumption DEF FindFileSystem, Load, StoredInv, Shapes
<1>4. Made => \E key : Holds(OwnersProtocol, key, fsys.val)
  BY <1>2 DEF StoredInv, Settled
<1>m. /\ run[p].mode = "create" /\ pc[p] = "init" =>
           /\ Making(p)
           /\ ~Made /\ config # None
           /\ run[p].prot = Protocol(config, keyfile, run[p].pass)
           /\ run[p].prot.config = config
  BY DEF StoredInv, MakingInv, MakerInv, Making, Ready
<1>5. CASE FindFileSystem(p) /\ pc' = [pc EXCEPT ![p] = "unlock"] /\ run' = run
  BY <1>1, <1>2, <1>3, <1>5, Outside DEF Ready
<1>6. CASE FindFileSystem(p) /\ run[p].mode = "create" /\ ~Found(run[p].prot)
  <2> DEFINE r == WithKeys(run[p], run[p].prot.config)
  <2>1. run' = [run EXCEPT ![p] = r] /\ pc' = [pc EXCEPT ![p] = "root"] /\ pc[p] = "init"
    BY <1>6 DEF FindFileSystem, WithKeys
  <2>2. /\ IsRun(r) /\ r.val \in Contents /\ r.mode = "create" /\ r.prot = run[p].prot
        /\ r.pass = run[p].pass /\ r.key = run[p].prot.config /\ r.rootKey = run[p].prot.config
    BY <1>1, <1>6, RunsKeep
  <2> HIDE DEF r
  <2>3. pc'[p] = "root" /\ run'[p] = r
    BY <2>1 DEF LockedInv, StoredInv, Shapes
  <2>4. HolderInv(p)'
    BY <2>3 DEF HolderInv, Reading, Leaving, Arriving
  <2>5. MakerInv(p)'
    BY <1>2, <1>6, <1>m, <2>1, <2>2, <2>3 DEF MakerInv, Fresh, Ready, Made
  <2>6. \A q \in Procs \ {p} : ~Making(q)
    BY <1>6, <1>m, <2>1 DEF StoredInv, MakingInv
  <2> QED BY <1>2, <1>3, <2>1, <2>2, <2>4, <2>5, <2>6, Quiet
<1>7. CASE FindFileSystem(p) /\ run[p].mode # "create" /\ Found(run[p].prot)
  <2>1. run' = run /\ pc' = [pc EXCEPT ![p] = "load"]
    BY <1>7 DEF FindFileSystem
  <2>2. pc'[p] = "load" /\ run'[p] = run[p]
    BY <2>1 DEF LockedInv
  <2>3. Made /\ run[p].prot = OwnersProtocol
    <3>1. Meta(run[p].prot) \in DOMAIN files
      BY <1>7 DEF Found, Meta
    <3>2. PICK key : Holds(OwnersProtocol, key, fsys.val)
      BY <1>4, <3>1 DEF Made
    <3>3. Meta(run[p].prot) \in {Meta(OwnersProtocol), Data(OwnersProtocol)}
      BY <3>1, <3>2 DEF Holds
    <3> QED BY <3>1, <3>3, Names DEF Made
  <2>4. HolderInv(p)'
    BY <1>2, <2>2, <2>3 DEF HolderInv, Reading, Leaving, Arriving, Made, OwnersProtocol
  <2>5. MakerInv(p)' /\ ~Making(p)'
    BY <1>7, <2>2 DEF MakerInv, Fresh, Ready, Making
  <2> QED BY <1>1, <1>2, <1>3, <2>1, <2>4, <2>5, Quiet
<1>8. CASE Load(p)
  <2> DEFINE key == KeyOf(run[p].prot)
             val == DataOf(run[p].prot, key)
             s == WithKeys(run[p], key)
             r == WithVal(s, val)
  <2>1. PICK next \in {"store", "up", "newpassword"} :
           run' = [run EXCEPT ![p] = r] /\ pc' = [pc EXCEPT ![p] = next] /\ pc[p] = "load"
    BY <1>8 DEF Load, WithKeys, WithVal
  <2>2. Made /\ run[p].prot = OwnersProtocol /\ fsys.val \in Contents
    BY <2>1 DEF StoredInv, Shapes, HolderInv, Reading
  <2>3. val = fsys.val
    <3>1. PICK k : Holds(OwnersProtocol, k, fsys.val)
      BY <1>4, <2>2
    <3> QED BY <2>2, <3>1, Reads
  <2> HIDE DEF key, val
  <2>4. /\ IsRun(r) /\ r.val = fsys.val /\ r.key = key /\ r.rootKey = key
        /\ r.prot = run[p].prot /\ r.val \in Contents
    <3>1. IsRun(s) /\ s.key = key /\ s.rootKey = key /\ s.prot = run[p].prot
      BY <1>1, RunsKeep
    <3> HIDE DEF s
    <3> QED BY <2>2, <2>3, <3>1, RunsKeep
  <2> HIDE DEF r
  <2>5. pc'[p] = next /\ run'[p] = r
    BY <2>1 DEF LockedInv, StoredInv, Shapes
  <2>6. HolderInv(p)'
    BY <1>2, <2>2, <2>4, <2>5 DEF HolderInv, Reading, Leaving, Arriving, Made, OwnersProtocol
  <2>7. MakerInv(p)' /\ ~Making(p)'
    BY <2>5 DEF MakerInv, Fresh, Ready, Making
  <2> QED BY <1>2, <1>3, <2>1, <2>4, <2>6, <2>7, Quiet
<1> QED
  <2>1. FindFileSystem(p) => \/ pc' = [pc EXCEPT ![p] = "unlock"] /\ run' = run
                             \/ run[p].mode = "create" /\ ~Found(run[p].prot)
                             \/ run[p].mode # "create" /\ Found(run[p].prot)
    BY DEF FindFileSystem
  <2> QED BY <1>5, <1>6, <1>7, <1>8, <2>1

LEMMA Still ==
  ASSUME StoredInv, UNCHANGED <<config, keyfile, files, fsys, pc, run, gen>>
  PROVE  StoredInv'
<1>1. Made' = Made /\ HalfMigrated' = HalfMigrated /\ OwnersProtocol' = OwnersProtocol
  BY DEF Made, HalfMigrated, OwnersProtocol
<1>2. \A prot, key, val : Holds(prot, key, val)' <=> Holds(prot, key, val)
  BY DEF Holds
<1>3. Shapes' /\ Settled'
  BY <1>1, <1>2 DEF StoredInv, Shapes, IsRun, Settled
<1>4. MakingInv'
  BY <1>1 DEF StoredInv, MakingInv, MakerInv, Making
<1>5. \A p \in Procs : HolderInv(p)'
  BY <1>1, <1>2 DEF StoredInv, HolderInv
<1> QED BY <1>3, <1>4, <1>5 DEF StoredInv

LEMMA QuietStored ==
  ASSUME StoredInv, LockedInv, "migration" \notin Faults, NEW p \in Procs,
         \/ \E v \in Contents : Change(p, v)
         \/ Stop(p) \/ StopStorage(p) \/ Crash(p) \/ NewKey(p)
         \/ \E pw \in Passwords : NewProtocol(p, pw)
  PROVE  StoredInv'
<1> USE DEF GoTo, outside, bounds
<1>1. /\ IsRun(run[p]) /\ run[p].val \in Contents /\ run = [run EXCEPT ![p] = run[p]]
      /\ pc = [pc EXCEPT ![p] = pc[p]]
  BY DEF StoredInv, Shapes, LockedInv
<1>2. gen \in gen .. MaxGen
  BY SessionsAssumption DEF StoredInv, Shapes
<1>3. CASE \E v \in Contents : Change(p, v)
  <2>1. PICK v \in Contents : Change(p, v)
    BY <1>3
  <2> DEFINE r == WithVal(run[p], v)
  <2>2. /\ run' = [run EXCEPT ![p] = r] /\ pc' = [pc EXCEPT ![p] = "up"] /\ pc[p] = "up"
        /\ UNCHANGED <<config, keyfile, files, fsys, gen>>
    BY <1>1, <2>1 DEF Change, WithVal
  <2>3. /\ IsRun(r) /\ r.val \in Contents /\ r.prot = run[p].prot /\ r.key = run[p].key
        /\ r.rootKey = run[p].rootKey
    BY <1>1, RunsKeep
  <2> HIDE DEF r
  <2>4. pc'[p] = "up" /\ run'[p] = r
    BY <2>2 DEF LockedInv, StoredInv, Shapes
  <2>5. MakerInv(p)' /\ ~Making(p)'
    BY <2>4 DEF MakerInv, Fresh, Ready, Making
  <2>6. HolderInv(p)'
    BY <2>2, <2>3, <2>4 DEF StoredInv, HolderInv, Reading, Leaving, Arriving, OwnersProtocol, Made
  <2> QED BY <1>2, <2>2, <2>3, <2>5, <2>6, HalfWay, Quiet
<1>4. CASE Stop(p)
  <2>1. pc'[p] = "store" /\ run'[p] = run[p] /\ pc[p] = "up" /\ UNCHANGED <<files, fsys, outside>>
    BY <1>4 DEF Stop, LockedInv
  <2>2. MakerInv(p)' /\ ~Making(p)'
    BY <2>1 DEF MakerInv, Fresh, Ready, Making
  <2>3. HolderInv(p)'
    BY <2>1 DEF StoredInv, HolderInv, Reading, Leaving, Arriving, OwnersProtocol, Made
  <2> QED BY <1>1, <1>2, <1>4, <2>2, <2>3, HalfWay, Quiet DEF Stop
<1>i. IsRun(Idle) /\ Idle.val \in Contents /\ Idle.mode = None
  BY SessionsAssumption DEF IsRun, Idle
<1>5. CASE StopStorage(p)
  BY <1>i, <1>5, HalfWay, Outside DEF StopStorage, Ready
<1>6. CASE Crash(p)
  BY <1>i, <1>6, HalfWay, Outside DEF Crash, Ready
<1>7. CASE NewKey(p)
  <2> DEFINE r == WithKeys(run[p], run[p].new.config)
  <2>1. /\ run' = [run EXCEPT ![p] = r] /\ pc' = [pc EXCEPT ![p] = "newmeta"] /\ pc[p] = "newkey"
        /\ UNCHANGED <<config, keyfile, files, fsys, gen>>
    BY <1>7 DEF NewKey, WithKeys
  <2>2. /\ IsRun(r) /\ r.val = run[p].val /\ r.prot = run[p].prot /\ r.key = run[p].new.config
        /\ r.rootKey = run[p].new.config /\ r.new = run[p].new
    BY <1>1, RunsKeep
  <2> HIDE DEF r
  <2>3. pc'[p] = "newmeta" /\ run'[p] = r
    BY <2>1 DEF LockedInv, StoredInv, Shapes
  <2>4. MakerInv(p)' /\ ~Making(p)'
    BY <2>3 DEF MakerInv, Fresh, Ready, Making
  <2>5. HolderInv(p)'
    BY <2>1, <2>2, <2>3 DEF StoredInv, HolderInv, Reading, Leaving, Arriving, OwnersProtocol, Made
  <2> QED BY <1>1, <1>2, <2>1, <2>2, <2>4, <2>5, HalfWay, Quiet
<1>8. CASE \E pw \in Passwords : NewProtocol(p, pw) /\ pc' = [pc EXCEPT ![p] = "store"] /\ run' = run
  <2>1. /\ pc'[p] = "store" /\ run'[p] = run[p] /\ pc[p] = "newpassword"
        /\ UNCHANGED <<config, keyfile, files, fsys>>
    BY <1>8 DEF NewProtocol, LockedInv
  <2>2. MakerInv(p)' /\ ~Making(p)'
    BY <2>1 DEF MakerInv, Fresh, Ready, Making
  <2>3. HolderInv(p)'
    BY <2>1 DEF StoredInv, HolderInv, Reading, Leaving, Arriving, OwnersProtocol, Made
  <2>4. gen' \in gen .. MaxGen
    BY <1>8, <1>2, SessionsAssumption DEF NewProtocol, StoredInv, Shapes
  <2> QED BY <1>1, <1>8, <2>1, <2>2, <2>3, <2>4, HalfWay, Quiet
<1>9. CASE \E pw \in Passwords :
              NewProtocol(p, pw) /\ ~(pc' = [pc EXCEPT ![p] = "store"] /\ run' = run)
  <2>1. PICK pw \in Passwords :
              NewProtocol(p, pw) /\ ~(pc' = [pc EXCEPT ![p] = "store"] /\ run' = run)
    BY <1>9
  <2> DEFINE r == WithNew(run[p], Protocol(gen', gen', pw))
  <2>2. /\ run' = [run EXCEPT ![p] = r] /\ pc' = [pc EXCEPT ![p] = "newkey"]
        /\ pc[p] = "newpassword" /\ gen < MaxGen /\ gen' = gen + 1
        /\ UNCHANGED <<config, keyfile, files, fsys>>
    BY <2>1 DEF NewProtocol, WithNew
  <2>3. /\ IsRun(r) /\ r.val = run[p].val /\ r.prot = run[p].prot
        /\ r.new = Protocol(gen', gen', pw)
    BY <1>1, RunsKeep
  <2>4. /\ r.new.config = gen' /\ r.new.pass = pw
    BY <2>3 DEF Protocol
  <2> HIDE DEF r
  <2>5. pc'[p] = "newkey" /\ run'[p] = r
    BY <2>2 DEF LockedInv, StoredInv, Shapes
  <2>6. MakerInv(p)' /\ ~Making(p)'
    BY <2>5 DEF MakerInv, Fresh, Ready, Making
  <2>7. gen' \in gen .. MaxGen /\ gen' \in 1 .. gen'
    BY <2>2, SessionsAssumption DEF StoredInv, Shapes
  <2>8. Made /\ run[p].prot = OwnersProtocol /\ run[p].val = fsys.val
    BY <2>2 DEF StoredInv, HolderInv, Reading
  <2>9. run[p].prot.config # gen'
    <3>1. run[p].prot.config = config
      BY <2>8 DEF OwnersProtocol, Protocol
    <3>2. config \in 1 .. gen
      BY <2>8 DEF StoredInv, Shapes
    <3> QED BY <2>2, <3>1, <3>2, SessionsAssumption DEF StoredInv, Shapes
  <2>10. HolderInv(p)'
    BY <2>2, <2>3, <2>4, <2>5, <2>7, <2>8, <2>9
       DEF HolderInv, Reading, Leaving, Arriving, OwnersProtocol, Made
  <2> QED BY <1>1, <2>2, <2>3, <2>6, <2>7, <2>10, HalfWay, Quiet
<1> QED BY <1>3, <1>4, <1>5, <1>6, <1>7, <1>8, <1>9

(* A run makes its config and key file while there are no buckets.         *)
LEMMA FreshStored ==
  ASSUME StoredInv, LockedInv, NEW p \in Procs, PutKeyfile(p) \/ PutConfig(p)
  PROVE  StoredInv'
<1> USE DEF GoTo, bounds
<1>1. PICK next \in {"putconfig", "password"} :
        /\ pc' = [pc EXCEPT ![p] = next] /\ run' = run /\ files' = files /\ fsys' = fsys
        /\ pc[p] \in Fresh /\ gen' = gen /\ pc'[p] = next
        /\ keyfile' = run[p].prot.config
        /\ config' = IF next = "password" THEN run[p].prot.config ELSE config
  <2>1. pc[p] = "putconfig" => keyfile = run[p].prot.config
    BY DEF StoredInv, MakingInv, MakerInv
  <2> QED BY <2>1 DEF PutKeyfile, PutConfig, Fresh, LockedInv
<1>2. /\ config = None /\ run[p].prot.config \in 1 .. gen /\ run[p].mode = "create"
      /\ Making(p)
  BY <1>1 DEF StoredInv, MakingInv, MakerInv, Making
<1>3. ~Made /\ ~Made'
  BY <1>1, <1>2 DEF StoredInv, Shapes, Made
<1>4. run[p].prot.config # None
  BY <1>2, SessionsAssumption DEF StoredInv, Shapes
<1>5. Shapes'
  BY <1>1, <1>2, <1>3 DEF StoredInv, Shapes, IsRun
<1>6. \A q \in Procs \ {p} : pc'[q] = pc[q] /\ run'[q] = run[q] /\ ~Making(q)
  BY <1>1, <1>2 DEF StoredInv, MakingInv, LockedInv
<1>7. \A q \in Procs : HolderInv(q)'
  <2>1. ASSUME NEW q \in Procs
        PROVE  pc'[q] \notin Reading \cup Leaving \cup Arriving \cup {"up", "store"}
    <3>1. CASE q = p
      BY <1>1, <3>1 DEF Reading, Leaving, Arriving
    <3>2. CASE q # p
      <4>1. ~(Meta(run[q].new) \in DOMAIN files)
        BY <1>3 DEF Made
      <4>2. ~Holds(run[q].prot, run[q].key, run[q].val)
        BY <1>3 DEF Made, Holds
      <4> QED BY <1>3, <1>6, <3>2, <4>1, <4>2 DEF StoredInv, HolderInv
    <3> QED BY <3>1, <3>2
  <2> QED BY <2>1 DEF HolderInv, Reading, Leaving, Arriving
<1>8. MakingInv'
  <2>1. MakerInv(p)'
    BY <1>1, <1>2, <1>3, <1>4 DEF MakerInv, Fresh, Ready
  <2>2. ASSUME NEW q \in Procs \ {p} PROVE MakerInv(q)' /\ ~Making(q)'
    <3>1. pc[q] \notin Fresh \cup {"root"}
          /\ ~(run[q].mode = "create" /\ pc[q] \in Ready)
      BY <1>6 DEF StoredInv, MakingInv, MakerInv, Making, Ready
    <3> QED BY <1>6, <3>1 DEF MakerInv, Making, Fresh
  <2> QED BY <2>1, <2>2 DEF MakingInv
<1> QED BY <1>3, <1>5, <1>7, <1>8 DEF StoredInv, Settled

(* A step of the run that has the file system, which may change the disk.  *)
LEMMA HolderStored ==
  ASSUME StoredInv, LockedInv, NEW p \in Procs, NEW next, NEW r, Has(p),
         Made \/ Making(p),
         pc' = [pc EXCEPT ![p] = next], run' = [run EXCEPT ![p] = r],
         next \notin Fresh \cup Ready,
         IsRun(r), r.val \in Contents, gen' = gen,
         config' \in 1 .. gen, Made',
         fsys' = [pass |-> fsys'.pass, val |-> fsys'.val], fsys'.val \in Contents,
         Settled', HolderInv(p)'
  PROVE  StoredInv'
<1>1. \A q \in Procs \ {p} : pc'[q] = pc[q] /\ run'[q] = run[q] /\ pc[q] \in NotMounted
  BY Alone DEF LockedInv, StoredInv, Shapes
<1>2. pc'[p] = next /\ run'[p] = r
  BY DEF LockedInv, StoredInv, Shapes
<1>3. ASSUME NEW q \in Procs \ {p} PROVE ~Making(q)
  <2>1. CASE Making(p)
    BY <2>1 DEF StoredInv, MakingInv
  <2>2. CASE Made
    <3>1. pc[q] \notin Fresh
      BY <2>2 DEF StoredInv, Shapes, MakingInv, MakerInv
    <3> QED BY <2>2, <3>1 DEF StoredInv, MakingInv, MakerInv, Making
  <2> QED BY <2>1, <2>2
<1>4. ASSUME NEW q \in Procs \ {p} PROVE MakerInv(q)' /\ HolderInv(q)' /\ ~Making(q)'
  <2>1. pc[q] \notin Fresh \cup {"root"} /\ ~(run[q].mode = "create" /\ pc[q] \in Ready)
    BY <1>1, <1>3 DEF StoredInv, MakingInv, MakerInv, Making, NotMounted
  <2>2. MakerInv(q)' /\ ~Making(q)'
    BY <1>1, <2>1 DEF MakerInv, Making, Fresh, Ready
  <2>3. HolderInv(q)'
    BY <1>1 DEF HolderInv, NotMounted, Reading, Leaving, Arriving
  <2> QED BY <2>2, <2>3
<1>5. MakingInv'
  <2>1. MakerInv(p)' /\ ~Making(p)'
    BY <1>2 DEF MakerInv, Making, Fresh, Ready
  <2> QED BY <1>4, <2>1 DEF MakingInv
<1>6. Shapes'
  <2>1. run' = [q \in Procs |-> run'[q]]
    BY DEF StoredInv, Shapes
  <2>2. \A q \in Procs : IsRun(run'[q]) /\ run'[q].val \in Contents
    BY <1>1, <1>2 DEF StoredInv, Shapes
  <2>3. config' # None
    BY SessionsAssumption DEF StoredInv, Shapes
  <2> QED BY <2>1, <2>2, <2>3 DEF StoredInv, Shapes, IsRun
<1> QED BY <1>4, <1>5, <1>6 DEF StoredInv

(* The first file of a file system.                                        *)
LEMMA RootStored ==
  ASSUME StoredInv, LockedInv, NEW p \in Procs, WriteRoot(p)
  PROVE  StoredInv'
<1> USE DEF GoTo, bounds, outside
<1> DEFINE prot == run[p].prot
<1>1. /\ IsRun(run[p]) /\ run[p].val \in Contents /\ run = [run EXCEPT ![p] = run[p]]
      /\ gen' = gen /\ Has(p) /\ run' = run
  BY DEF StoredInv, Shapes, WriteRoot, Has, NotMounted
<1>2. /\ pc' = [pc EXCEPT ![p] = "load"] /\ pc'[p] = "load" /\ pc[p] = "root"
      /\ config' = config /\ keyfile' = keyfile
      /\ fsys' = [pass |-> run[p].pass, val |-> Empty]
  BY DEF WriteRoot, LockedInv
<1>3. /\ run[p].mode = "create" /\ Making(p) /\ ~Made
      /\ prot = Protocol(config, keyfile, run[p].pass)
      /\ run[p].key = run[p].rootKey /\ config \in 1 .. gen
  BY <1>2 DEF StoredInv, Shapes, MakingInv, MakerInv, Making, Ready, Fresh
<1>4. prot = OwnersProtocol'
  BY <1>2, <1>3 DEF OwnersProtocol
<1>5. Holds(prot, run[p].key, Empty)' /\ Made'
  <2>1. DOMAIN files' = {Meta(prot)} /\ files'[Meta(prot)] = Seal(prot, run[p].key)
    BY <1>3, WriteFile DEF WriteRoot, Made, Meta
  <2> QED BY <1>1, <2>1, Names DEF Holds, Made
<1>6. fsys'.pass = run[p].pass /\ fsys'.val = Empty
  BY <1>2
<1>7. HolderInv(p)'
  BY <1>1, <1>2, <1>4, <1>5 DEF HolderInv, Reading, Leaving, Arriving
<1>8. Settled'
  <2>1. Holds(OwnersProtocol, run[p].key, fsys.val)'
    BY <1>1, <1>4, <1>5, <1>6
  <2> QED BY <2>1 DEF Settled
<1> QED BY <1>1, <1>2, <1>3, <1>5, <1>6, <1>7, <1>8, HolderStored, SessionsAssumption
           DEF Fresh, Ready

(* A mounted file system is stored.                                        *)
LEMMA StoreStored ==
  ASSUME StoredInv, LockedInv, NEW p \in Procs, Store(p) \/ StopFS(p)
  PROVE  StoredInv'
<1> USE DEF GoTo, bounds, outside
<1> DEFINE prot == run[p].prot
<1>1. /\ IsRun(run[p]) /\ run[p].val \in Contents /\ run = [run EXCEPT ![p] = run[p]]
      /\ gen' = gen /\ Has(p) /\ run' = run
      /\ config' = config /\ keyfile' = keyfile
      /\ fsys' = [fsys EXCEPT !.val = run[p].val]
  BY DEF StoredInv, Shapes, Store, StopFS, StoreAllData, Has, NotMounted
<1>2. PICK next \in {"up", "unlock"} : pc' = [pc EXCEPT ![p] = next] /\ pc'[p] = next
  BY DEF Store, StopFS, LockedInv
<1>3. pc[p] \in {"up", "store"}
  BY DEF Store, StopFS
<1>4. /\ Made /\ prot = OwnersProtocol /\ run[p].key = run[p].rootKey
      /\ config \in 1 .. gen
      /\ fsys = [pass |-> fsys.pass, val |-> fsys.val]
  BY <1>3 DEF StoredInv, Shapes, HolderInv
<1>5. fsys' = [pass |-> fsys'.pass, val |-> fsys'.val] /\ fsys'.val = run[p].val /\ fsys'.pass = fsys.pass
  BY <1>1, <1>4
<1>6. prot = OwnersProtocol'
  BY <1>1, <1>4, <1>5 DEF OwnersProtocol
<1>7. HalfMigrated = {}
  BY <1>1, <1>3, Alone, HalfWay
<1>8. PICK key : Holds(prot, key, fsys.val)
  BY <1>4, <1>7 DEF StoredInv, Settled
<1>9. Holds(prot, run[p].key, run[p].val)' /\ Made'
  <2> DEFINE data == With(Data(prot), Seal(run[p].key, run[p].val), files)
  <2>1. files' = With(Meta(prot), Seal(prot, run[p].key), data)
    BY <1>4 DEF Store, StopFS, StoreAllData, Meta, Data
  <2>2. DOMAIN data = DOMAIN files \cup {Data(prot)} /\ data[Data(prot)] = Seal(run[p].key, run[p].val)
    BY DEF With
  <2> HIDE DEF data
  <2>3. /\ DOMAIN files' = DOMAIN data \cup {Meta(prot)}
        /\ files'[Meta(prot)] = Seal(prot, run[p].key) /\ files'[Data(prot)] = data[Data(prot)]
    BY <2>1, <2>2, Names DEF With
  <2> QED BY <1>1, <1>8, <2>2, <2>3 DEF Holds, Made
<1>10. HolderInv(p)'
  BY <1>1, <1>2, <1>4, <1>6, <1>9 DEF HolderInv, Reading, Leaving, Arriving
<1>11. Settled'
  <2>1. Holds(OwnersProtocol, run[p].key, fsys.val)'
    BY <1>1, <1>5, <1>6, <1>9
  <2> QED BY <2>1 DEF Settled
<1> QED BY <1>1, <1>2, <1>4, <1>5, <1>9, <1>10, <1>11, HolderStored DEF Fresh, Ready

(* The buckets are rewritten one by one.                                   *)
LEMMA WriteNewStored ==
  ASSUME StoredInv, LockedInv, NEW p \in Procs, WriteNew(p)
  PROVE  StoredInv'
<1> USE DEF GoTo, bounds, outside
<1> DEFINE old == run[p].prot
           new == run[p].new
<1>1. /\ IsRun(run[p]) /\ run[p].val \in Contents /\ run = [run EXCEPT ![p] = run[p]]
      /\ gen' = gen /\ Has(p) /\ run' = run
      /\ config' = config /\ keyfile' = keyfile /\ fsys' = fsys
  BY DEF StoredInv, Shapes, WriteNew, Has, NotMounted
<1>2. /\ Made /\ old = OwnersProtocol /\ old = OwnersProtocol'
      /\ run[p].val = fsys.val
      /\ new = Protocol(new.config, new.config, new.pass)
      /\ new.config \in 1 .. gen /\ new.config # old.config
      /\ run[p].key = new.config /\ run[p].rootKey = new.config
  BY <1>1 DEF WriteNew, StoredInv, HolderInv, Reading, Leaving, Made, OwnersProtocol
<1>3. /\ config \in 1 .. gen
      /\ fsys = [pass |-> fsys.pass, val |-> fsys.val] /\ fsys.val \in Contents
      /\ old # new
  BY <1>2 DEF StoredInv, Shapes
<1>4. CASE pc[p] = "newmeta"
  <2>1. /\ pc' = [pc EXCEPT ![p] = "oldmeta"] /\ pc'[p] = "oldmeta"
        /\ Write(Meta(new), Seal(new, run[p].key))
    BY <1>2, <1>4 DEF WriteNew, LockedInv, Meta
  <2>2. HalfMigrated = {}
    BY <1>1, <1>4, Alone, HalfWay
  <2>3. PICK key : Holds(old, key, fsys.val)
    BY <1>2, <2>2 DEF StoredInv, Settled
  <2>4. /\ DOMAIN files' \subseteq {Meta(old), Data(old), Meta(new)}
        /\ Meta(new) \in DOMAIN files' /\ files'[Meta(new)] = Seal(new, run[p].key)
        /\ Made'
    <3>1. DOMAIN files \subseteq {Meta(old), Data(old)}
      BY <2>3 DEF Holds
    <3>2. /\ DOMAIN files' = DOMAIN files \cup {Meta(new)}
          /\ files'[Meta(new)] = Seal(new, run[p].key)
      BY <2>1, WriteFile
    <3> HIDE DEF old, new
    <3> QED BY <3>1, <3>2 DEF Made
  <2>5. HolderInv(p)'
    BY <1>1, <1>2, <2>1, <2>4 DEF HolderInv, Reading, Leaving, Arriving
  <2>6. Settled'
    BY <2>1 DEF Settled, HalfMigrated
  <2> QED BY <1>1, <1>3, <2>1, <2>4, <2>5, <2>6, HolderStored, <1>2 DEF Fresh, Ready
<1>5. CASE pc[p] = "newdata"
  <2>1. /\ pc' = [pc EXCEPT ![p] = "olddata"] /\ pc'[p] = "olddata"
        /\ Write(Data(new), Seal(run[p].key, run[p].val))
    BY <1>5 DEF WriteNew, LockedInv, Data
  <2>2. /\ DOMAIN files \subseteq {Data(old), Meta(new)}
        /\ Meta(new) \in DOMAIN files /\ files[Meta(new)] = Seal(new, run[p].key)
    BY <1>5 DEF StoredInv, HolderInv, Leaving
  <2>3. /\ DOMAIN files' \subseteq {Data(old), Meta(new), Data(new)}
        /\ Meta(new) \in DOMAIN files' /\ files'[Meta(new)] = Seal(new, run[p].key)
        /\ Data(new) \in DOMAIN files' /\ files'[Data(new)] = Seal(run[p].key, run[p].val)
        /\ Made'
    <3>1. Meta(new) # Data(new)
      BY Names
    <3> QED BY <2>1, <2>2, <3>1, WriteFile DEF Made
  <2>4. HolderInv(p)'
    BY <1>1, <1>2, <2>1, <2>3 DEF HolderInv, Reading, Leaving, Arriving
  <2>5. Settled'
    BY <2>1 DEF Settled, HalfMigrated
  <2> QED BY <1>1, <1>3, <2>1, <2>3, <2>4, <2>5, HolderStored, <1>2 DEF Fresh, Ready
<1> QED BY <1>4, <1>5 DEF WriteNew

Renewed(r) == [r EXCEPT !.prot = r.new, !.pass = r.new.pass]

LEMMA RenewedRun ==
  ASSUME NEW r, IsRun(r)
  PROVE  LET s == Renewed(r) IN
         /\ IsRun(s) /\ s.prot = r.new /\ s.pass = r.new.pass /\ s.key = r.key
         /\ s.rootKey = r.rootKey /\ s.val = r.val
<1> DEFINE a == [r EXCEPT !.prot = r.new]
           s == [a EXCEPT !.pass = r.new.pass]
<1>1. /\ IsRun(a) /\ a.prot = r.new /\ a.key = r.key /\ a.rootKey = r.rootKey /\ a.val = r.val
  BY DEF IsRun
<1>2. Renewed(r) = s
  BY DEF Renewed
<1> HIDE DEF a
<1>3. /\ IsRun(s) /\ s.prot = r.new /\ s.pass = r.new.pass /\ s.key = r.key
      /\ s.rootKey = r.rootKey /\ s.val = r.val
  BY <1>1 DEF IsRun
<1> QED BY <1>2, <1>3

LEMMA DeleteOldStored ==
  ASSUME StoredInv, LockedInv, NEW p \in Procs, DeleteOld(p)
  PROVE  StoredInv'
<1> USE DEF GoTo, bounds, outside
<1> DEFINE old == run[p].prot
           new == run[p].new
<1>1. /\ IsRun(run[p]) /\ run[p].val \in Contents /\ run = [run EXCEPT ![p] = run[p]]
      /\ gen' = gen /\ Has(p)
      /\ config' = config /\ keyfile' = keyfile /\ fsys' = fsys
  BY DEF StoredInv, Shapes, DeleteOld, Has, NotMounted
<1>2. /\ old = OwnersProtocol /\ old = OwnersProtocol'
      /\ run[p].val = fsys.val
      /\ new = Protocol(new.config, new.config, new.pass)
      /\ new.config \in 1 .. gen /\ new.config # old.config
      /\ run[p].key = new.config /\ run[p].rootKey = new.config
      /\ Meta(new) \in DOMAIN files /\ files[Meta(new)] = Seal(new, run[p].key)
  BY <1>1 DEF DeleteOld, StoredInv, HolderInv, Leaving, OwnersProtocol
<1>3. /\ Made /\ config \in 1 .. gen
      /\ fsys = [pass |-> fsys.pass, val |-> fsys.val] /\ fsys.val \in Contents
  BY <1>2 DEF StoredInv, Shapes, Made
<1>n. Meta(new) # Meta(old) /\ Meta(new) # Data(old) /\ Data(new) # Data(old) /\ Meta(new) # Data(new)
  <2>1. new # old
    BY <1>2
  <2> QED BY <2>1, Names
<1>4. CASE pc[p] = "oldmeta"
  <2>1. /\ pc' = [pc EXCEPT ![p] = "newdata"] /\ pc'[p] = "newdata" /\ run' = run
        /\ Delete(Meta(old))
    BY <1>4 DEF DeleteOld, LockedInv, Meta
  <2>2. DOMAIN files \subseteq {Meta(old), Data(old), Meta(new)}
    BY <1>4 DEF StoredInv, HolderInv
  <2>3. /\ DOMAIN files' \subseteq {Data(old), Meta(new)}
        /\ Meta(new) \in DOMAIN files' /\ files'[Meta(new)] = Seal(new, run[p].key)
        /\ Made'
    <3>1. /\ DOMAIN files' = DOMAIN files \ {Meta(old)}
          /\ \A n \in DOMAIN files : n # Meta(old) => files'[n] = files[n]
      BY <2>1, DeleteFile
    <3> QED BY <1>2, <1>n, <2>2, <3>1 DEF Made
  <2>4. HolderInv(p)'
    BY <1>1, <1>2, <2>1, <2>3 DEF HolderInv, Reading, Leaving, Arriving
  <2>5. Settled'
    BY <2>1 DEF Settled, HalfMigrated
  <2> QED BY <1>1, <1>3, <2>1, <2>3, <2>4, <2>5, HolderStored DEF Fresh, Ready
<1>5. CASE pc[p] = "olddata"
  <2> DEFINE r == Renewed(run[p])
  <2>1. /\ pc' = [pc EXCEPT ![p] = "newkeyfile"] /\ run' = [run EXCEPT ![p] = r]
        /\ Delete(Data(old))
    BY <1>5 DEF DeleteOld, Data, Renewed
  <2>2. /\ DOMAIN files \subseteq {Data(old), Meta(new), Data(new)}
        /\ Data(new) \in DOMAIN files /\ files[Data(new)] = Seal(run[p].key, run[p].val)
    BY <1>5 DEF StoredInv, HolderInv
  <2>c. PICK prot, key, val : prot = new /\ key = run[p].key /\ val = run[p].val
    OBVIOUS
  <2>3. Holds(prot, key, val)' /\ Made'
    <3>1. /\ DOMAIN files' = DOMAIN files \ {Data(old)}
          /\ \A n \in DOMAIN files : n # Data(old) => files'[n] = files[n]
      BY <2>1, DeleteFile
    <3>2. /\ DOMAIN files' = {Meta(prot), Data(prot)} /\ files'[Meta(prot)] = Seal(prot, key)
          /\ files'[Data(prot)] = Seal(key, val)
      BY <1>2, <1>n, <2>2, <2>c, <3>1
    <3> QED BY <3>2 DEF Holds, Made
  <2>4. /\ IsRun(r) /\ r.prot = new /\ r.pass = new.pass /\ r.key = run[p].key
        /\ r.rootKey = run[p].rootKey /\ r.val = run[p].val
    BY <1>1, RenewedRun
  <2> HIDE DEF r
  <2>5. pc'[p] = "newkeyfile" /\ run'[p] = r
    BY <2>1 DEF LockedInv, StoredInv, Shapes
  <2>6. HolderInv(p)'
    <3>1. run'[p].prot = prot /\ run'[p].key = key /\ run'[p].val = val
      BY <2>4, <2>5, <2>c
    <3>2. Holds(run[p].prot, run[p].key, run[p].val)'
      BY <2>3, <3>1
    <3>3. /\ run'[p].prot = Protocol(run'[p].prot.config, run'[p].prot.config, run'[p].pass)
          /\ run'[p].prot.config \in 1 .. gen' /\ run'[p].key = run'[p].rootKey
          /\ run'[p].val = fsys'.val
      BY <1>1, <1>2, <2>4, <2>5
    <3> QED BY <2>5, <3>2, <3>3 DEF HolderInv, Reading, Leaving, Arriving
  <2>7. Settled'
    BY <2>5 DEF Settled, HalfMigrated
  <2> QED BY <1>1, <1>3, <2>1, <2>3, <2>4, <2>6, <2>7, HolderStored DEF Fresh, Ready
<1> QED BY <1>4, <1>5 DEF DeleteOld

(* The key file and the config follow the buckets.                         *)
LEMMA NewFilesStored ==
  ASSUME StoredInv, LockedInv, NEW p \in Procs, PutNewKeyfile(p) \/ PutNewConfig(p)
  PROVE  StoredInv'
<1> USE DEF GoTo, bounds
<1> DEFINE prot == run[p].prot
<1>1. /\ IsRun(run[p]) /\ run[p].val \in Contents /\ run = [run EXCEPT ![p] = run[p]]
      /\ gen' = gen /\ Has(p) /\ run' = run /\ files' = files
      /\ pc[p] \in Arriving
  BY DEF StoredInv, Shapes, PutNewKeyfile, PutNewConfig, Has, NotMounted, Arriving
<1>2. /\ Holds(prot, run[p].key, run[p].val) /\ run[p].key = run[p].rootKey
      /\ prot = Protocol(prot.config, prot.config, run[p].pass)
      /\ prot.config \in 1 .. gen /\ run[p].val = fsys.val
  BY <1>1 DEF StoredInv, HolderInv
<1>3. Holds(prot, run[p].key, run[p].val)' /\ Made /\ Made'
  BY <1>1, <1>2 DEF Holds, Made
<1>4. /\ config \in 1 .. gen
      /\ fsys = [pass |-> fsys.pass, val |-> fsys.val] /\ fsys.val \in Contents
  BY <1>3 DEF StoredInv, Shapes
<1>5. CASE PutNewKeyfile(p)
  <2>1. /\ pc' = [pc EXCEPT ![p] = "newconfig"] /\ pc'[p] = "newconfig"
        /\ keyfile' = prot.keyfile /\ config' = config /\ fsys' = fsys
    BY <1>5 DEF PutNewKeyfile, LockedInv
  <2>2. HolderInv(p)'
    BY <1>1, <1>2, <1>3, <2>1 DEF HolderInv, Reading, Leaving, Arriving
  <2>3. Settled'
    BY <2>1 DEF Settled, HalfMigrated
  <2> QED BY <1>1, <1>3, <1>4, <2>1, <2>2, <2>3, HolderStored DEF Fresh, Ready
<1>6. CASE PutNewConfig(p)
  <2>1. /\ pc' = [pc EXCEPT ![p] = "store"] /\ pc'[p] = "store" /\ pc[p] = "newconfig"
        /\ config' = prot.config /\ keyfile' = keyfile
        /\ fsys' = [fsys EXCEPT !.pass = run[p].pass]
    BY <1>6 DEF PutNewConfig, LockedInv
  <2>2. keyfile = prot.config
    <3>1. keyfile = prot.keyfile
      BY <2>1 DEF StoredInv, HolderInv
    <3>2. prot.keyfile = prot.config
      BY <1>2 DEF Protocol
    <3> QED BY <3>1, <3>2
  <2>3. /\ fsys' = [pass |-> fsys'.pass, val |-> fsys'.val]
        /\ fsys'.pass = run[p].pass /\ fsys'.val = fsys.val
    BY <1>4, <2>1
  <2>4. prot = OwnersProtocol'
    BY <1>2, <2>1, <2>2, <2>3 DEF OwnersProtocol
  <2>5. HolderInv(p)'
    BY <1>1, <1>2, <1>3, <2>1, <2>4 DEF HolderInv, Reading, Leaving, Arriving
  <2>6. Settled'
    <3>1. Holds(OwnersProtocol, run[p].key, fsys.val)'
      BY <1>1, <1>2, <1>3, <2>3, <2>4
    <3> QED BY <3>1 DEF Settled
  <2> QED BY <1>1, <1>2, <1>3, <1>4, <2>1, <2>3, <2>5, <2>6, HolderStored DEF Fresh, Ready
<1> QED BY <1>5, <1>6

LEMMA StepStored ==
  ASSUME Faults = {}, LockedInv, StoredInv, [Next]_vars
  PROVE  StoredInv'
<1>i. Isolated /\ "migration" \notin Faults
  BY DEF Isolated
<1>1. CASE UNCHANGED vars
  BY <1>1, Still DEF vars, outside, bounds
<1>2. CASE UserRemovesLock
  BY <1>2, Still DEF UserRemovesLock, bounds
<1>3. ASSUME NEW p \in Procs, Begin(p) \/ Main(p) PROVE StoredInv'
  BY <1>3, <1>i, MainStored, FreshStored DEF Main
<1>4. ASSUME NEW p \in Procs, InitFileSystem(p) PROVE StoredInv'
  BY <1>4, <1>i, MainStored, InitFileSystemStored, RootStored DEF InitFileSystem
<1>5. ASSUME NEW p \in Procs, Mounted(p) \/ Crash(p) PROVE StoredInv'
  BY <1>5, <1>i, QuietStored, StoreStored DEF Mounted
<1>6. ASSUME NEW p \in Procs, Migrate(p) PROVE StoredInv'
  BY <1>6, <1>i, QuietStored, WriteNewStored, DeleteOldStored, NewFilesStored DEF Migrate
<1> QED BY <1>1, <1>2, <1>3, <1>4, <1>5, <1>6 DEF Next

LEMMA StoredAlways ==
  ASSUME Faults = {}
  PROVE  Spec => [](LockedInv /\ StoredInv)
<1>1. Init => LockedInv /\ StoredInv
  BY InitLocked, InitStored
<1>2. LockedInv /\ StoredInv /\ [Next]_vars => LockedInv' /\ StoredInv'
  <2>1. Isolated
    BY DEF Isolated
  <2> QED BY <2>1, StepLocked, StepStored
<1> QED BY <1>1, <1>2, PTL DEF Spec

(* A run that is mounted writes under the names and keys the next mount    *)
(* will look for: one that read an old config or key file, or had a wrong  *)
(* password, never got that far (fs.cpp:174, :206-211).                    *)
THEOREM WritesForOwner ==
  ASSUME Faults = {}
  PROVE  Spec => []StoresForOwner
<1>1. StoredInv => StoresForOwner
  BY DEF StoredInv, HolderInv, StoresForOwner
<1> QED BY <1>1, StoredAlways, PTL
=============================================================================
