------------------------------ MODULE Namespace ------------------------------
(***************************************************************************)
(* The name space of filesystem/fs.cpp as the callbacks of fuse_main.cpp   *)
(* use it: inodes and directories, the caches of paths and of file objects,*)
(* the table of open files, and who may do what.                           *)
(*                                                                         *)
(*   inode[i]            an inode record (type "NONE": its index is in the *)
(*                       pool of the metadata buckets)                     *)
(*   pathInodeCache[p]   the inode a path was found to be                  *)
(*   inodeFileCache[i]   NoFile, or pathPermissions of the file object: the*)
(*                       directories of the path it was first reached by   *)
(*   openHandles[h]      the file object of a handle; deleted is isDeleted *)
(*   kernelOpen          what the kernel has opened: file and handle       *)
(*                                                                         *)
(* One action is one call of the kernel, which locks the directories it    *)
(* changes. A call is made of operators on a world w, the first four       *)
(* variables as a record, because get() fills the caches wherever it is    *)
(* called. The mounts of do_test.sh set entry_timeout=0: before a call the *)
(* kernel asks for every component of its path (LookUp).                   *)
(*                                                                         *)
(* Two conditions, which the code does not ensure:                         *)
(*   Steady  a directory is renamed only while no path below it is cached; *)
(*   fresh   users other than root call only while pathPermissions are the *)
(*           directories above the file (a rename to another directory or  *)
(*           a second link makes them others, and then an unlink may stop  *)
(*           after it has counted down).                                   *)
(*                                                                         *)
(* Bounds: MaxDepth components in a path, MaxOpens open files, MaxCalls    *)
(* calls that change something.                                            *)
(***************************************************************************)
EXTENDS Access, FiniteSets

CONSTANTS Names, Inos, rootIndex, None, NoFile,
          Contexts,        \* the users and their groups
          Modes,           \* the modes calls use
          Trees,           \* what the directories may hold at the mount
          MaxDepth, maxOpenFiles, MaxOpens, MaxCalls, Steady

ASSUME NamespaceAssumption ==
  /\ rootIndex \in Inos /\ None \notin Inos /\ NoFile \notin Seq(Inos)
  /\ IsFiniteSet(Inos) /\ IsFiniteSet(Names)
  /\ MaxDepth \in Nat \ {0} /\ maxOpenFiles \in Nat \ {0} /\ MaxOpens \in Nat
  /\ MaxCalls \in Nat
  /\ Modes \subseteq ModeType
  /\ Steady \in BOOLEAN

VARIABLES inode, pathInodeCache, inodeFileCache, openHandles, kernelOpen, calls

vars == <<inode, pathInodeCache, inodeFileCache, openHandles, kernelOpen, calls>>

Paths == BoundedSeq(Names, MaxDepth) \ {<<>>}
RootPath == <<>>
Handles == 1 .. maxOpenFiles - 1
Opens == 1 .. MaxOpens
getParentPath(p) == Front(p)
getChildPath(p) == Last(p)

NoBits == [sticky |-> FALSE, user |-> {}, group |-> {}, other |-> {}]
AllBits == [sticky |-> FALSE, user |-> Bits, group |-> Bits, other |-> Bits]
Empty == [n \in Names |-> None]
NoNode == [type |-> "NONE", nlinks |-> 0, uid |-> superuser, gid |-> superuser,
           mode |-> NoBits, entries |-> Empty]
Super == [uid |-> superuser, gid |-> superuser]

(* setFileDefaults *)
NewNode(ctx, type, mode) ==
  [type |-> type, nlinks |-> 1, uid |-> ctx.uid, gid |-> ctx.gid, mode |-> mode,
   entries |-> Empty]

(* An empty file system. *)
EmptyTree == [i \in Inos |-> IF i = rootIndex THEN NewNode(Super, "DIR", AllBits)
                            ELSE NoNode]

NodeType ==
  [type : {"NONE", "DIR", "REG", "LNK"}, nlinks : 0 .. Cardinality(Inos \X Names),
   uid : {c.uid : c \in Contexts \cup {Super}}, gid : {c.gid : c \in Contexts \cup {Super}},
   mode : ModeType, entries : [Names -> Inos \cup {None}]]

NamesOf(node, i) == {dn \in Inos \X Names : node[dn[1]].entries[dn[2]] = i}

(* A file has as many names as it counts, a directory one, and a free inode *)
(* none.                                                                   *)
LinksMatch(node) ==
  \A i \in Inos \ {rootIndex} :
    Cardinality(NamesOf(node, i)) = CASE node[i].type = "NONE" -> 0
                                      [] node[i].type = "DIR" -> 1
                                      [] OTHER -> node[i].nlinks

(* What is on disk at a mount. *)
WellFormed(node) ==
  /\ node \in [Inos -> NodeType]
  /\ node[rootIndex].type = "DIR" /\ NamesOf(node, rootIndex) = {}
  /\ \A i \in Inos : /\ node[i].type # "DIR" => node[i].entries = Empty
                     /\ node[i].type \in {"REG", "LNK"} => node[i].nlinks # 0
  /\ LinksMatch(node)

ASSUME TreesAssumption == \A node \in Trees : WellFormed(node)

Closed == [ino |-> None, deleted |-> FALSE]

Init ==
  /\ inode \in Trees
  /\ pathInodeCache = [p \in Paths |-> None]
  /\ inodeFileCache = [i \in Inos |-> IF i = rootIndex THEN <<>> ELSE NoFile]
  /\ openHandles = [h \in Handles |-> Closed]
  /\ kernelOpen = [k \in Opens |-> [ino |-> None, fh |-> 0]]
  /\ calls = 0

World == [inode |-> inode, paths |-> pathInodeCache, files |-> inodeFileCache,
          handles |-> openHandles]

Becomes(w) ==
  /\ inode' = w.inode
  /\ pathInodeCache' = w.paths
  /\ inodeFileCache' = w.files
  /\ openHandles' = w.handles

-----------------------------------------------------------------------------
(* Finding files.                                                          *)

Allocated(w, i) == w.inode[i].type # "NONE"
IsDir(w, i) == w.inode[i].type = "DIR"

(* inodeToFile: the object in the cache, or a new one. *)
inodeToFile(w, i, perms) ==
  IF w.files[i] = NoFile THEN [w EXCEPT !.files[i] = perms] ELSE w

(* get of one component whose directory is parent. A cached path is used   *)
(* as long as its inode exists; otherwise the directory is read (hasNode). *)
GetChild(w, p, parent) ==
  LET cached == w.paths[p]
      found == IF IsDir(w, parent)
               THEN w.inode[parent].entries[getChildPath(p)] ELSE None
      erased == [w EXCEPT !.paths[p] = None] IN
  IF cached # None /\ Allocated(w, cached)
    THEN [w |-> inodeToFile(w, cached, <<>>), ino |-> cached]
  ELSE IF found = None THEN [w |-> erased, ino |-> None]
  ELSE [w |-> inodeToFile([w EXCEPT !.paths[p] = found], found,
                          Append(w.files[parent], parent)),
        ino |-> found]

(* get: the directories first, as far as they exist. *)
Get(w, path) ==
  LET upTo[k \in 0 .. Len(path)] ==
        IF k = 0 THEN [w |-> w, ino |-> rootIndex]
        ELSE LET g == upTo[k - 1] IN
             IF g.ino = None THEN g ELSE GetChild(g.w, SubSeq(path, 1, k), g.ino)
  IN upTo[Len(path)]

Perms(w, i) == [k \in DOMAIN w.files[i] |-> w.inode[w.files[i][k]]]

validate_access(w, i, ctx, da, dda, checkStickyOwner) ==
  ValidateAccess(ctx, Perms(w, i), w.inode[i], da, dda, checkStickyOwner)

(* The kernel asks for the attributes of every component: getattr_callback *)
(* answers when the directory of the file may be searched.                 *)
LookUp(w, ctx, path) ==
  LET upTo[k \in 0 .. Len(path)] ==
        IF k = 0 THEN [w |-> w, ino |-> rootIndex, answer |-> "ok"]
        ELSE LET g == upTo[k - 1]
                 n == GetChild(g.w, SubSeq(path, 1, k), g.ino) IN
             IF g.answer # "ok" THEN g
             ELSE IF n.ino = None THEN [w |-> n.w, ino |-> None, answer |-> "ENOENT"]
             ELSE IF ~validate_access(n.w, n.ino, ctx, {}, {"X"}, FALSE)
               THEN [w |-> n.w, ino |-> None, answer |-> "EACCES"]
             ELSE [w |-> n.w, ino |-> n.ino, answer |-> "ok"]
  IN upTo[Len(path)]

-----------------------------------------------------------------------------
(* Directories and inodes.                                                 *)

addNode(w, dir, name, i, ctx) ==
  IF ~validate_access(w, dir, ctx, {"W", "X"}, {}, FALSE)
    THEN [w |-> w, answer |-> "EACCES"]
  ELSE IF w.inode[dir].entries[name] # None THEN [w |-> w, answer |-> "exists"]
  ELSE [w |-> [w EXCEPT !.inode[dir].entries[name] = i], answer |-> "ok"]

removeNode(w, dir, name, ctx) ==
  IF ~validate_access(w, dir, ctx, {"W", "X"}, {}, FALSE)
    THEN [w |-> w, answer |-> "EACCES"]
  ELSE IF w.inode[dir].entries[name] = None THEN [w |-> w, answer |-> "ENOENT"]
  ELSE [w |-> [w EXCEPT !.inode[dir].entries[name] = None], answer |-> "ok"]

isFullDir(w, i) == IsDir(w, i) /\ w.inode[i].entries # Empty

(* setDeletedAndReturnAllUsedInodes, erase from the cache, clear and post. *)
Shred(w, i) ==
  [w EXCEPT !.inode[i] = NoNode,
            !.files[i] = NoFile,
            !.handles = [h \in Handles |->
                IF w.handles[h].ino = i THEN [w.handles[h] EXCEPT !.deleted = TRUE]
                ELSE w.handles[h]]]

(* Faulty: links are not counted down. *)
UnlinkUncounted(w, path, ctx) ==
  LET i == Get(w, path).ino
      r == removeNode(w, Get(w, getParentPath(path)).ino, getChildPath(path), ctx) IN
  IF isFullDir(w, i) THEN [w |-> w, answer |-> "not_empty"]
  ELSE IF r.answer = "ok"
    THEN [r EXCEPT !.w = [Shred(@, i) EXCEPT !.paths[path] = None]]
  ELSE r

unlinkinner(w, path, ctx) ==
  LET parent == Get(w, getParentPath(path))
      f == Get(parent.w, path)
      i == f.ino
      counted == IF IsDir(f.w, i) THEN f.w
                 ELSE [f.w EXCEPT !.inode[i].nlinks = @ - 1]
      gone == IsDir(f.w, i) \/ counted.inode[i].nlinks <= 0
      r == removeNode(counted, parent.ino, getChildPath(path), ctx) IN
  IF isFullDir(f.w, i) THEN [w |-> f.w, answer |-> "not_empty"]
  ELSE IF r.answer # "ok" THEN r
  ELSE [r EXCEPT !.w = [(IF gone THEN Shred(r.w, i) ELSE r.w)
                          EXCEPT !.paths[path] = None]]

unlink(w, path, ctx) ==
  LET f == Get(w, path) IN
  IF f.ino = None THEN [w |-> f.w, answer |-> "ENOENT"]
  ELSE IF ~validate_access(f.w, f.ino, ctx, {}, {"W"}, TRUE)
    THEN [w |-> f.w, answer |-> "EACCES"]
  ELSE unlinkinner(f.w, path, ctx)

(* Faulty: the cached path of the source stays. *)
RenameKeepingPath(w, source, dest, ctx) ==
  LET i == Get(w, source).ino
      toDir == Get(w, getParentPath(dest)).ino
      first == addNode(w, toDir, getChildPath(dest), i, ctx)
      second == IF first.answer = "exists"
                THEN addNode(unlink(first.w, dest, ctx).w, toDir, getChildPath(dest), i, ctx)
                ELSE first
      r == removeNode(second.w, Get(w, getParentPath(source)).ino,
                      getChildPath(source), ctx) IN
  IF second.answer # "ok" THEN second ELSE [r EXCEPT !.w.paths[dest] = None]

(* Faulty: the target that exists is not taken away first. *)
RenameOverwriting(w, source, dest, ctx) ==
  LET i == Get(w, source).ino
      toDir == Get(w, getParentPath(dest)).ino
      r == removeNode([w EXCEPT !.inode[toDir].entries[getChildPath(dest)] = i],
                      Get(w, getParentPath(source)).ino, getChildPath(source), ctx) IN
  [r EXCEPT !.w.paths[source] = None, !.w.paths[dest] = None]

renamemoveinner(w, source, dest, ctx) ==
  LET i == Get(w, source).ino
      toDir == Get(w, getParentPath(dest)).ino
      first == addNode(w, toDir, getChildPath(dest), i, ctx)
      second == IF first.answer = "exists"
                THEN addNode(unlink(first.w, dest, ctx).w, toDir,
                             getChildPath(dest), i, ctx)
                ELSE first
      r == removeNode(second.w, Get(w, getParentPath(source)).ino,
                      getChildPath(source), ctx) IN
  IF second.answer # "ok" THEN second
  ELSE IF r.answer # "ok" THEN r
  ELSE [r EXCEPT !.w.paths[source] = None, !.w.paths[dest] = None]

renamemove(w, source, dest, ctx) ==
  LET f == Get(w, source)
      t == Get(f.w, dest)
      denied(g) == ~validate_access(t.w, g.ino, ctx, {}, {"W", "X"}, TRUE) IN
  IF f.ino = None THEN [w |-> t.w, answer |-> "ENOENT"]
  ELSE IF denied(f) \/ (t.ino # None /\ denied(t))
    THEN [w |-> t.w, answer |-> "EACCES"]
  ELSE IF t.ino # None /\ isFullDir(t.w, t.ino)
    THEN [w |-> t.w, answer |-> "not_empty"]
  ELSE renamemoveinner(t.w, source, dest, ctx)

(* mkobject: the inode is stored only when its name could be added; if not, *)
(* the index i goes back to the pool. mknod and the kernel ask for it next. *)
mkobject(w, path, ctx, type, mode, i) ==
  LET parent == Get(w, getParentPath(path))
      r == addNode(parent.w, parent.ino, getChildPath(path), i, ctx) IN
  IF r.answer = "ok"
    THEN [r EXCEPT !.w = Get([@ EXCEPT !.inode[i] = NewNode(ctx, type, mode)], path).w]
  ELSE r

hardlink(w, target, path, ctx) ==
  LET t == Get(w, target)
      parent == Get(t.w, getParentPath(path))
      r == addNode(parent.w, parent.ino, getChildPath(path), t.ino, ctx) IN
  IF r.answer = "ok" THEN [r EXCEPT !.w.inode[t.ino].nlinks = @ + 1] ELSE r

-----------------------------------------------------------------------------
(* The tree as the directories have it, and the caches against it.         *)

Trail(node, path) ==
  LET upTo[k \in 0 .. Len(path)] ==
        IF k = 0 THEN <<rootIndex>>
        ELSE LET t == upTo[k - 1] IN
             IF Last(t) = None THEN t ELSE Append(t, node[Last(t)].entries[path[k]])
  IN upTo[Len(path)]

Resolve(path) == Last(Trail(inode, path))

PermsFresh ==
  \A p \in Paths :
    LET i == Resolve(p) IN
    i # None => inodeFileCache[i] \in {NoFile, Front(Trail(inode, p))}

MayCall(ctx) == ctx.uid = superuser \/ PermsFresh

Callers == IF calls < MaxCalls THEN {ctx \in Contexts : MayCall(ctx)} ELSE {}
Counted == calls' = calls + 1

-----------------------------------------------------------------------------
(* The calls.                                                              *)

Getattr(ctx, p) ==
  /\ Becomes(LookUp(World, ctx, p).w)
  /\ UNCHANGED <<kernelOpen, calls>>

(* The kernel has found the directory of p, and no p in it. *)
Absent(w, ctx, p) ==
  LET d == LookUp(w, ctx, getParentPath(p)) IN
  /\ d.answer = "ok" /\ IsDir(d.w, d.ino)
  /\ LookUp(d.w, ctx, p).answer = "ENOENT"

Make(ctx, p, type, mode) ==
  /\ Absent(World, ctx, p)
  /\ \E i \in Inos :
       /\ ~Allocated(World, i)
       /\ Becomes(mkobject(LookUp(World, ctx, p).w, p, ctx, type, mode, i).w)
  /\ Counted /\ UNCHANGED kernelOpen

Mkdir(ctx, p, mode) == Make(ctx, p, "DIR", mode)
Mknod(ctx, p, mode) == Make(ctx, p, "REG", mode)
Softlink(ctx, p) == Make(ctx, p, "LNK", AllBits)

Hardlink(ctx, target, p) ==
  LET t == LookUp(World, ctx, target)
      r == hardlink(LookUp(t.w, ctx, p).w, target, p, ctx) IN
  /\ t.answer = "ok" /\ ~IsDir(t.w, t.ino)
  /\ Absent(t.w, ctx, p)
  /\ Becomes(IF r.answer = "ok" THEN Get(r.w, p).w ELSE r.w)
  /\ Counted /\ UNCHANGED kernelOpen

Unlink(ctx, p) ==
  LET f == LookUp(World, ctx, p) IN
  /\ f.answer = "ok"
  /\ Becomes(unlink(f.w, p, ctx).w)
  /\ Counted /\ UNCHANGED kernelOpen

(* The kernel renames neither into nor over a directory of the path, and   *)
(* over a file of the same kind only; the same file is left alone.         *)
Rename(ctx, source, dest) ==
  LET f == LookUp(World, ctx, source)
      t == LookUp(f.w, ctx, dest) IN
  /\ f.answer = "ok"
  /\ ~IsPrefix(source, dest) /\ ~IsPrefix(dest, source)
  /\ \/ Absent(f.w, ctx, dest)
     \/ t.answer = "ok" /\ t.ino # f.ino /\ (IsDir(t.w, t.ino) <=> IsDir(t.w, f.ino))
  /\ isFullDir(f.w, f.ino) => Len(dest) = Len(source)
  /\ Steady => \A p \in Paths : IsStrictPrefix(source, p) => pathInodeCache[p] = None
  /\ Becomes(renamemove(t.w, source, dest, ctx).w)
  /\ Counted /\ UNCHANGED kernelOpen

Chmod(ctx, p, mode) ==
  LET f == LookUp(World, ctx, p)
      node == f.w.inode[f.ino]
      may == \/ ctx.uid = node.uid
             \/ /\ validate_access(f.w, f.ino, ctx, {"W"}, {}, FALSE)
                /\ ValidateOwnership(ctx, node, mode) IN
  /\ f.answer = "ok"
  /\ Becomes(IF may THEN [f.w EXCEPT !.inode[f.ino].mode = mode] ELSE f.w)
  /\ Counted /\ UNCHANGED kernelOpen

Chown(ctx, p, uid, gid) ==
  LET f == LookUp(World, ctx, p)
      node == f.w.inode[f.ino]
      may == /\ validate_access(f.w, f.ino, ctx, {}, {}, FALSE)
             /\ \/ ctx.uid = superuser
                \/ uid = node.uid /\ node.uid = ctx.uid /\ gid = ctx.gid IN
  /\ f.answer = "ok"
  /\ Becomes(IF may THEN [f.w EXCEPT !.inode[f.ino].uid = uid, !.inode[f.ino].gid = gid]
             ELSE f.w)
  /\ Counted /\ UNCHANGED kernelOpen

Least(S) == CHOOSE n \in S : \A m \in S : n <= m

(* Faulty: the search for a place does not look whether it is taken. *)
FirstHandle(w) == IF Handles = {} THEN 0 ELSE 1

(* fs::open: the first place that is empty, or 0. *)
FreeHandle(w) ==
  LET places == {h \in Handles : w.handles[h] = Closed} IN
  IF places = {} THEN 0 ELSE Least(places)

Open(ctx, p, want, k) ==
  LET f == LookUp(World, ctx, p)
      h == FreeHandle(f.w) IN
  /\ kernelOpen[k].ino = None
  /\ f.answer = "ok" /\ f.w.inode[f.ino].type = "REG"
  /\ validate_access(f.w, f.ino, ctx, want, {}, FALSE)
  /\ Becomes(IF h = 0 THEN f.w
             ELSE [f.w EXCEPT !.handles[h] = [ino |-> f.ino, deleted |-> FALSE]])
  /\ kernelOpen' = [kernelOpen EXCEPT ![k] = [ino |-> f.ino, fh |-> h]]
  /\ Counted

(* A file that was deleted meanwhile is not valid: release answers ENOENT  *)
(* and leaves the handle.                                                  *)
Release(k) ==
  LET h == kernelOpen[k].fh IN
  /\ kernelOpen[k].ino # None
  /\ openHandles' = IF h # 0 /\ ~openHandles[h].deleted
                    THEN [openHandles EXCEPT ![h] = Closed] ELSE openHandles
  /\ kernelOpen' = [kernelOpen EXCEPT ![k] = [ino |-> None, fh |-> 0]]
  /\ UNCHANGED <<inode, pathInodeCache, inodeFileCache, calls>>

(* A clean unmount, with no file open, and a mount. *)
Remount ==
  /\ Callers # {} /\ Counted
  /\ \A k \in Opens : kernelOpen[k].ino = None
  /\ pathInodeCache' = [p \in Paths |-> None]
  /\ inodeFileCache' = [i \in Inos |-> IF i = rootIndex THEN <<>> ELSE NoFile]
  /\ openHandles' = [h \in Handles |-> Closed]
  /\ UNCHANGED <<inode, kernelOpen>>

Next ==
  \/ \E ctx \in Contexts, p \in Paths : MayCall(ctx) /\ Getattr(ctx, p)
  \/ \E ctx \in Callers, p \in Paths, m \in Modes : Mkdir(ctx, p, m)
  \/ \E ctx \in Callers, p \in Paths, m \in Modes : Mknod(ctx, p, m)
  \/ \E ctx \in Callers, p \in Paths : Softlink(ctx, p)
  \/ \E ctx \in Callers, t, p \in Paths : Hardlink(ctx, t, p)
  \/ \E ctx \in Callers, p \in Paths : Unlink(ctx, p)
  \/ \E ctx \in Callers, s, d \in Paths : Rename(ctx, s, d)
  \/ \E ctx \in Callers, p \in Paths, m \in Modes : Chmod(ctx, p, m)
  \/ \E ctx \in Callers, owner \in Contexts, p \in Paths : Chown(ctx, p, owner.uid, owner.gid)
  \/ \E ctx \in Callers, p \in Paths, k \in Opens, a \in {{"R"}, {"W"}, {"R", "W"}} :
       Open(ctx, p, a, k)
  \/ \E k \in Opens : Release(k)
  \/ Remount

Spec == Init /\ [][Next]_vars

-----------------------------------------------------------------------------
(* Records, caches and handles have their types; the free indexes are those *)
(* of type "NONE", the root stays (fs.h, inode.h).                         *)
TypeOK ==
  /\ inode \in [Inos -> NodeType]
  /\ pathInodeCache \in [Paths -> Inos \cup {None}]
  /\ \A i \in Inos : inodeFileCache[i] = NoFile \/ inodeFileCache[i] \in Seq(Inos)
  /\ openHandles \in [Handles -> [ino : Inos \cup {None}, deleted : BOOLEAN]]
  /\ kernelOpen \in [Opens -> [ino : Inos \cup {None}, fh : Handles \cup {0}]]
  /\ inode[rootIndex].type = "DIR"

(* The link count of a file is the number of its names, a directory has    *)
(* one name, and a name leads to an inode that exists: unlink, hardlink and *)
(* renamemove change these one after the other (fs.cpp:671-720, :785-800,  *)
(* :903-911).                                                              *)
LinksMatchNames == LinksMatch(inode)

(* get finds under a path what the directories have there, whatever was    *)
(* cached before the name went or came (fs.cpp:451-515, :801-806), and no  *)
(* object is cached for an inode that was deleted (:671-718).              *)
PathsResolve ==
  /\ \A p \in Paths : LookUp(World, Super, p).ino = Resolve(p)
  /\ \A i \in Inos : inodeFileCache[i] # NoFile => inode[i].type # "NONE"

(* A handle leads to the file that was opened with it and to no other, and *)
(* a place is taken as long as the kernel has the file open (fs.cpp:558-577, *)
(* fuse_main.cpp:200-211). The place of a file that was deleted while open *)
(* may stay taken.                                                         *)
HandlesMatch ==
  /\ \A k \in Opens : kernelOpen[k].fh # 0 =>
       openHandles[kernelOpen[k].fh].ino = kernelOpen[k].ino
  /\ \A k, l \in Opens : k # l /\ kernelOpen[k].fh # 0 => kernelOpen[k].fh # kernelOpen[l].fh
  /\ \A h \in Handles : openHandles[h].ino # None /\ ~openHandles[h].deleted =>
       \E k \in Opens : kernelOpen[k].fh = h

(* Every call is a step of the tree, or changes nothing in it. *)
Kind(node) == [i \in Inos |-> IF node[i].type \in {"REG", "LNK"} THEN "FILE" ELSE node[i].type]
Ents(node) == [i \in Inos |-> node[i].entries]

Tree == INSTANCE FileTree WITH kind <- Kind(inode), entries <- Ents(inode)

TreeSpec == Tree!TreeSpec
=============================================================================
