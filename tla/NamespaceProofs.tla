---------------------------- MODULE NamespaceProofs ----------------------------
(***************************************************************************)
(* Names, links, handles and caches of the name space agree, whatever calls*)
(* users make, when directories are renamed while no path below them is    *)
(* cached (Steady). NameInv says that the tree is one (WellFormed), that a *)
(* cached path is where the directories lead, to a file with an object     *)
(* (Cached), and whose handles are whose (Handled).                        *)
(***************************************************************************)
EXTENDS Namespace, FiniteSetTheorems, SequenceTheorems, WellFoundedInduction, TLAPS

AllPaths == Paths \cup {RootPath}
Res(node, p) == Last(Trail(node, p))

Worlds ==
  [inode : [Inos -> NodeType], paths : [Paths -> Inos \cup {None}],
   files : [Inos -> Seq(Inos) \cup {NoFile}],
   handles : [Handles -> [ino : Inos \cup {None}, deleted : BOOLEAN]]]

Cached(w) ==
  /\ \A p \in Paths : w.paths[p] # None =>
       w.paths[p] = Res(w.inode, p) /\ w.files[w.paths[p]] # NoFile
  /\ w.files[rootIndex] = <<>>
  /\ \A i \in Inos : w.files[i] # NoFile => w.inode[i].type # "NONE"

Good(w) == w \in Worlds /\ WellFormed(w.inode) /\ Cached(w)

Handled ==
  /\ \A k \in Opens : kernelOpen[k].fh # 0 =>
       /\ kernelOpen[k].fh \in Handles /\ kernelOpen[k].ino \in Inos
       /\ openHandles[kernelOpen[k].fh].ino = kernelOpen[k].ino
  /\ \A k, l \in Opens : k # l /\ kernelOpen[k].fh # 0 => kernelOpen[k].fh # kernelOpen[l].fh
  /\ \A h \in Handles : openHandles[h].ino # None /\ ~openHandles[h].deleted =>
       \E k \in Opens : kernelOpen[k].fh = h
  /\ kernelOpen \in [Opens -> [ino : Inos \cup {None}, fh : Handles \cup {0}]]

NameInv == Good(World) /\ Handled

-----------------------------------------------------------------------------
(* Counting up to n, for what is defined along a path.                     *)
LEMMA LeastOf ==
  ASSUME NEW S \in SUBSET Nat, S # {}
  PROVE  \E x \in S : \A y \in S : x <= y
<1>1. PICK x \in S : \A y \in S : ~ (<<y, x>> \in OpToRel(<, Nat))
  BY NatLessThanWellFounded, WFMin
<1>2. ASSUME NEW y \in S PROVE x <= y
  <2>1. <<y, x>> \in Nat \X Nat /\ x \in Nat /\ y \in Nat
    OBVIOUS
  <2>2. <<y, x>>[1] < <<y, x>>[2] => <<y, x>> \in OpToRel(<, Nat)
    BY <2>1 DEF OpToRel
  <2>3. ~ (y < x)
    BY <1>1, <2>2
  <2> QED BY <2>1, <2>3
<1> QED BY <1>2

LEMMA UpTo ==
  ASSUME NEW n \in Nat, NEW S, 0 \in S, \A k \in 1 .. n : k - 1 \in S => k \in S
  PROVE  \A k \in 0 .. n : k \in S
<1> DEFINE B == (0 .. n) \ S
<1> SUFFICES ASSUME B # {} PROVE FALSE
  OBVIOUS
<1>1. B \in SUBSET Nat
  OBVIOUS
<1>2. PICK x \in B : \A y \in B : x <= y
  <2> HIDE DEF B
  <2> QED BY <1>1, LeastOf
<1>3. x \in 1 .. n /\ x - 1 \in 0 .. n /\ x - 1 \notin B
  <2>1. x \in 0 .. n /\ x # 0 /\ x \in Nat
    OBVIOUS
  <2>2. ~(x <= x - 1)
    BY <2>1
  <2> QED BY <1>2, <2>1, <2>2
<1> QED BY <1>2, <1>3

(* A step for each k makes a function.                                     *)
Steps(n, V) == [(1 .. n) \X V -> V]

LEMMA Recursion ==
  ASSUME NEW n \in Nat, NEW V, NEW init \in V, NEW step \in Steps(n, V)
  PROVE  \E f \in [0 .. n -> V] : f[0] = init /\ \A k \in 1 .. n : f[k] = step[<<k, f[k - 1]>>]
<1> USE DEF Steps
<1> DEFINE Is(f, m) == f \in [0 .. m -> V] /\ f[0] = init /\ \A k \in 1 .. m : f[k] = step[<<k, f[k - 1]>>]
           S == {m \in 0 .. n : \E f : Is(f, m)}
<1>1. 0 \in S
  <2> DEFINE f == [k \in 0 .. 0 |-> init]
  <2>1. Is(f, 0)
    OBVIOUS
  <2> HIDE DEF Is
  <2> QED BY <2>1
<1>2. ASSUME NEW m \in 1 .. n, m - 1 \in S PROVE m \in S
  <2>1. PICK f : Is(f, m - 1)
    BY <1>2
  <2> DEFINE g == [k \in 0 .. m |-> IF k = m THEN step[<<m, f[m - 1]>>] ELSE f[k]]
  <2>2. m - 1 \in 0 .. m - 1 /\ f[m - 1] \in V /\ step[<<m, f[m - 1]>>] \in V
    BY <2>1
  <2>3. g \in [0 .. m -> V] /\ g[0] = init
    BY <2>1, <2>2
  <2>4. ASSUME NEW k \in 1 .. m PROVE g[k] = step[<<k, g[k - 1]>>]
    <3>1. k - 1 \in 0 .. m /\ k - 1 # m /\ g[k - 1] = f[k - 1]
      OBVIOUS
    <3>2. CASE k = m
      BY <3>1, <3>2
    <3>3. CASE k # m
      <4>1. k \in 1 .. m - 1 /\ g[k] = f[k]
        BY <3>3
      <4> HIDE DEF g
      <4> QED BY <2>1, <3>1, <4>1
    <3> QED BY <3>2, <3>3
  <2>5. Is(g, m)
    BY <2>3, <2>4
  <2> HIDE DEF Is
  <2> QED BY <2>5
<1>3. n \in S
  <2> HIDE DEF S
  <2>1. \A k \in 0 .. n : k \in S
    BY <1>1, <1>2, UpTo
  <2> QED BY <2>1
<1> QED BY <1>3

-----------------------------------------------------------------------------
(* Paths.                                                                  *)
LEMMA PathFacts ==
  ASSUME NEW p \in Paths
  PROVE  /\ p \in Seq(Names) /\ Len(p) \in 1 .. MaxDepth /\ Len(p) \in Nat /\ p # <<>>
         /\ Front(p) \in AllPaths /\ Last(p) \in Names
         /\ Len(Front(p)) = Len(p) - 1 /\ \A k \in 1 .. Len(p) - 1 : Front(p)[k] = p[k]
         /\ \A k \in 1 .. Len(p) : p[k] \in Names
<1>1. PICK m \in 0 .. MaxDepth : p \in [1 .. m -> Names]
  BY DEF Paths, BoundedSeq, SeqOf
<1>2. p # <<>> /\ MaxDepth \in Nat
  BY NamespaceAssumption DEF Paths
<1>3. p \in Seq(Names) /\ Len(p) = m /\ m # 0
  BY <1>1, <1>2
<1>4. Front(p) \in [1 .. m - 1 -> Names] /\ Len(Front(p)) = m - 1
      /\ \A k \in 1 .. m - 1 : Front(p)[k] = p[k]
  <2> DEFINE q == SubSeq(p, 1, m - 1)
  <2>1. q \in Seq(Names) /\ Len(q) = m - 1 /\ \A k \in 1 .. m - 1 : q[k] = p[k]
    BY <1>3, SubSeqProperties
  <2>2. Front(p) = q
    BY <1>3 DEF Front
  <2> HIDE DEF q
  <2>3. q \in [1 .. m - 1 -> Names]
    BY <1>3, <2>1
  <2> QED BY <2>1, <2>2, <2>3
<1>5. Front(p) \in AllPaths
  <2>1. Front(p) \in BoundedSeq(Names, MaxDepth)
    BY <1>2, <1>3, <1>4 DEF BoundedSeq, SeqOf
  <2> QED BY <2>1 DEF AllPaths, Paths, RootPath
<1>6. Len(p) \in 1 .. MaxDepth /\ Len(p) \in Nat /\ Last(p) \in Names
  BY <1>1, <1>2, <1>3 DEF Last
<1>7. \A k \in 1 .. Len(p) : p[k] \in Names
  BY <1>1, <1>3
<1> QED BY <1>2, <1>3, <1>4, <1>5, <1>6, <1>7

LEMMA AnyPath ==
  ASSUME NEW p \in AllPaths
  PROVE  /\ p \in Seq(Names) /\ Len(p) \in 0 .. MaxDepth /\ Len(p) \in Nat
         /\ \A k \in 1 .. Len(p) : p[k] \in Names
<1>1. MaxDepth \in Nat
  BY NamespaceAssumption
<1>2. CASE p \in Paths
  <2>1. p \in Seq(Names) /\ Len(p) \in 1 .. MaxDepth /\ \A k \in 1 .. Len(p) : p[k] \in Names
    BY <1>2, PathFacts
  <2> QED BY <1>1, <2>1
<1>3. CASE p = <<>>
  BY <1>1, <1>3
<1> QED BY <1>2, <1>3 DEF AllPaths, RootPath

LEMMA PathsEqual ==
  ASSUME NEW p \in Paths, NEW q \in Paths, Front(p) = Front(q), Last(p) = Last(q)
  PROVE  p = q
<1>1. p \in Seq(Names) /\ q \in Seq(Names) /\ Len(p) = Len(q) /\ Len(p) \in Nat
  BY PathFacts
<1>2. \A k \in 1 .. Len(p) - 1 : p[k] = q[k]
  BY <1>1, PathFacts
<1>3. p[Len(p)] = q[Len(p)]
  BY <1>1 DEF Last
<1>4. \A k \in 1 .. Len(p) : p[k] = q[k]
  BY <1>1, <1>2, <1>3
<1> QED BY <1>1, <1>4, SeqEqual

(* The part of a path up to its component k.                               *)
Part(p, k) == SubSeq(p, 1, k)

LEMMA PartFacts ==
  ASSUME NEW p \in AllPaths, NEW k \in 0 .. Len(p)
  PROVE  /\ Part(p, k) \in AllPaths /\ Len(Part(p, k)) = k
         /\ \A j \in 1 .. k : Part(p, k)[j] = p[j]
         /\ k = 0 => Part(p, k) = RootPath
         /\ k = Len(p) => Part(p, k) = p
         /\ k # 0 => Part(p, k) \in Paths /\ Front(Part(p, k)) = Part(p, k - 1) /\ Last(Part(p, k)) = p[k]
<1>1. p \in Seq(Names) /\ Len(p) \in 0 .. MaxDepth /\ MaxDepth \in Nat
      /\ \A j \in 1 .. Len(p) : p[j] \in Names
  BY AnyPath, NamespaceAssumption
<1>2. ASSUME NEW n \in 0 .. Len(p)
      PROVE  /\ Part(p, n) \in [1 .. n -> Names] /\ Part(p, n) \in Seq(Names) /\ Len(Part(p, n)) = n
             /\ \A j \in 1 .. n : Part(p, n)[j] = p[j]
             /\ Part(p, n) \in AllPaths
  <2> DEFINE q == SubSeq(p, 1, n)
  <2>1. q \in Seq(Names) /\ Len(q) = n /\ \A j \in 1 .. n : q[j] = p[j]
    BY <1>1, SubSeqProperties
  <2> HIDE DEF q
  <2>2. q \in [1 .. n -> Names] /\ n \in 0 .. MaxDepth
    BY <1>1, <2>1
  <2>3. q \in AllPaths
    BY <2>2 DEF AllPaths, Paths, BoundedSeq, SeqOf, RootPath
  <2> QED BY <2>1, <2>2, <2>3 DEF q, Part
<1>3. k = 0 => Part(p, k) = RootPath
  BY <1>2 DEF RootPath
<1>4. k = Len(p) => Part(p, k) = p
  BY <1>1, <1>2, SeqEqual
<1>5. ASSUME k # 0
      PROVE  Part(p, k) \in Paths /\ Front(Part(p, k)) = Part(p, k - 1) /\ Last(Part(p, k)) = p[k]
  <2> DEFINE q == Part(p, k)
             r == Part(p, k - 1)
  <2>1. k \in 1 .. Len(p) /\ k - 1 \in 0 .. Len(p)
    BY <1>1, <1>5
  <2>2. q \in AllPaths /\ Len(q) = k /\ \A j \in 1 .. k : q[j] = p[j]
    BY <1>2
  <2>3. r \in Seq(Names) /\ Len(r) = k - 1 /\ \A j \in 1 .. k - 1 : r[j] = p[j]
    BY <1>2, <2>1
  <2> HIDE DEF q, r
  <2>4. q \in Paths
    BY <1>5, <2>2 DEF AllPaths, RootPath
  <2>5. Front(q) \in Seq(Names) /\ Len(Front(q)) = k - 1 /\ \A j \in 1 .. k - 1 : Front(q)[j] = q[j]
    <3>1. Front(q) \in AllPaths /\ Len(Front(q)) = Len(q) - 1 /\ \A j \in 1 .. Len(q) - 1 : Front(q)[j] = q[j]
      BY <2>4, PathFacts
    <3>2. Front(q) \in Seq(Names)
      BY <3>1, AnyPath
    <3> QED BY <2>2, <3>1, <3>2
  <2>6. Front(q) = r
    <3>1. \A j \in 1 .. Len(r) : Front(q)[j] = r[j]
      BY <2>1, <2>2, <2>3, <2>5
    <3> QED BY <2>3, <2>5, <3>1, SeqEqual
  <2>7. Last(q) = p[k]
    BY <2>1, <2>2 DEF Last
  <2> QED BY <2>4, <2>6, <2>7 DEF q, r
<1> QED BY <1>2, <1>3, <1>4, <1>5

LEMMA PathInduction ==
  ASSUME NEW S, RootPath \in S, \A p \in Paths : Front(p) \in S => p \in S
  PROVE  \A p \in AllPaths : p \in S
<1> SUFFICES ASSUME NEW p \in AllPaths PROVE p \in S
  OBVIOUS
<1> DEFINE T == {k \in 0 .. Len(p) : Part(p, k) \in S}
<1>1. Len(p) \in Nat
  BY AnyPath
<1>2. 0 \in T
  BY <1>1, PartFacts
<1>3. ASSUME NEW k \in 1 .. Len(p), k - 1 \in T PROVE k \in T
  <2>1. k \in 0 .. Len(p) /\ k # 0
    BY <1>1
  <2>2. Part(p, k) \in Paths /\ Front(Part(p, k)) = Part(p, k - 1)
    BY <2>1, PartFacts
  <2> QED BY <1>3, <2>1, <2>2
<1>4. Len(p) \in T
  <2> HIDE DEF T
  <2>1. \A k \in 0 .. Len(p) : k \in T
    BY <1>1, <1>2, <1>3, UpTo
  <2> QED BY <1>1, <2>1
<1>5. Part(p, Len(p)) = p
  BY <1>1, PartFacts
<1> QED BY <1>4, <1>5

-----------------------------------------------------------------------------
(* The tree along a path.                                                  *)
TrailTo(node, path) ==
  CHOOSE up : up = [k \in 0 .. Len(path) |->
    IF k = 0 THEN <<rootIndex>>
    ELSE LET t == up[k - 1] IN
         IF Last(t) = None THEN t ELSE Append(t, node[Last(t)].entries[path[k]])]

Nodes == [Inos -> NodeType]
Trails == Seq(Inos \cup {None}) \ {<<>>}

LEMMA TrailsFacts ==
  ASSUME NEW t \in Trails
  PROVE  /\ Last(t) \in Inos \cup {None}
         /\ \A e \in Inos \cup {None} : Append(t, e) \in Trails /\ Last(Append(t, e)) = e /\ Front(Append(t, e)) = t
<1>1. Len(t) \in Nat \ {0} /\ t \in Seq(Inos \cup {None})
  BY DEF Trails
<1>2. Last(t) \in Inos \cup {None}
  BY <1>1 DEF Last
<1>3. ASSUME NEW e \in Inos \cup {None} PROVE Append(t, e) \in Trails /\ Last(Append(t, e)) = e /\ Front(Append(t, e)) = t
  <2>1. Append(t, e) \in Seq(Inos \cup {None}) /\ Len(Append(t, e)) = Len(t) + 1
        /\ Append(t, e)[Len(t) + 1] = e /\ \A j \in 1 .. Len(t) : Append(t, e)[j] = t[j]
    BY <1>1
  <2> DEFINE u == Append(t, e)
  <2> HIDE DEF u
  <2>2. u \in Seq(Inos \cup {None}) /\ Len(u) = Len(t) + 1 /\ u[Len(t) + 1] = e /\ \A j \in 1 .. Len(t) : u[j] = t[j]
    BY <2>1 DEF u
  <2>3. u # <<>> /\ Last(u) = e
    BY <1>1, <2>2 DEF Last
  <2>4. Front(u) = SubSeq(u, 1, Len(t))
    BY <1>1, <2>2 DEF Front
  <2>5. SubSeq(u, 1, Len(t)) \in Seq(Inos \cup {None}) /\ Len(SubSeq(u, 1, Len(t))) = Len(t)
        /\ \A j \in 1 .. Len(t) : SubSeq(u, 1, Len(t))[j] = u[j]
    BY <1>1, <2>2, SubSeqProperties
  <2>6. SubSeq(u, 1, Len(t)) = t
    BY <1>1, <2>2, <2>5, SeqEqual
  <2> QED BY <2>2, <2>3, <2>4, <2>6 DEF u, Trails
<1> QED BY <1>2, <1>3

LEMMA TrailAlong ==
  ASSUME NEW node \in Nodes, NEW p \in AllPaths
  PROVE  /\ TrailTo(node, p) \in [0 .. Len(p) -> Trails]
         /\ TrailTo(node, p)[0] = <<rootIndex>>
         /\ \A k \in 1 .. Len(p) : TrailTo(node, p)[k] =
              LET t == TrailTo(node, p)[k - 1] IN
              IF Last(t) = None THEN t ELSE Append(t, node[Last(t)].entries[p[k]])
<1> DEFINE n == Len(p)
           Next1(t, k) == IF Last(t) = None THEN t ELSE Append(t, node[Last(t)].entries[p[k]])
           Body(f) == [k \in 0 .. n |-> IF k = 0 THEN <<rootIndex>> ELSE Next1(f[k - 1], k)]
           step == [c \in (1 .. n) \X Trails |-> Next1(c[2], c[1])]
<1>1. n \in Nat /\ \A k \in 1 .. n : p[k] \in Names
  BY AnyPath
<1>2. ASSUME NEW t \in Trails, NEW k \in 1 .. n PROVE Next1(t, k) \in Trails
  <2>1. Last(t) \in Inos \cup {None}
    BY TrailsFacts
  <2>2. CASE Last(t) = None
    BY <2>2
  <2>3. CASE Last(t) \in Inos
    <3>1. node[Last(t)].entries[p[k]] \in Inos \cup {None}
      BY <1>1, <2>3 DEF Nodes, NodeType
    <3>2. Append(t, node[Last(t)].entries[p[k]]) \in Trails
      BY <3>1, TrailsFacts
    <3> QED BY <3>2
  <2> QED BY <2>1, <2>2, <2>3
<1>3. <<rootIndex>> \in Trails
  BY NamespaceAssumption DEF Trails
<1>4. step \in Steps(n, Trails)
  <2> HIDE DEF Next1
  <2> QED BY <1>2 DEF Steps
<1>5. PICK g \in [0 .. n -> Trails] : g[0] = <<rootIndex>> /\ \A k \in 1 .. n : g[k] = step[<<k, g[k - 1]>>]
  <2> DEFINE init == <<rootIndex>>
  <2>1. init \in Trails
    BY <1>3
  <2>3. n \in Nat
    BY <1>1
  <2> HIDE DEF step, n, init, Next1, Body
  <2>2. \E g \in [0 .. n -> Trails] : g[0] = init /\ \A k \in 1 .. n : g[k] = step[<<k, g[k - 1]>>]
    BY <2>3, <1>4, <2>1, Recursion
  <2> QED BY <2>2 DEF init
<1>6. g = Body(g)
  <2> HIDE DEF Next1
  <2>1. ASSUME NEW k \in 1 .. n PROVE g[k] = Next1(g[k - 1], k)
    <3>1. k - 1 \in 0 .. n /\ g[k - 1] \in Trails
      BY <1>1, <1>5
    <3>2. step[<<k, g[k - 1]>>] = Next1(g[k - 1], k)
      BY <3>1
    <3> QED BY <1>5, <3>2
  <2>2. ASSUME NEW k \in 0 .. n PROVE g[k] = Body(g)[k]
    <3>1. CASE k = 0
      BY <1>5, <3>1
    <3>2. CASE k # 0
      <4>1. k \in 1 .. n
        BY <1>1, <3>2
      <4>2. Body(g)[k] = Next1(g[k - 1], k)
        BY <3>2
      <4> HIDE DEF Body
      <4> QED BY <2>1, <4>1, <4>2
    <3> QED BY <3>1, <3>2
  <2> QED BY <1>5, <2>2
<1> DEFINE f == TrailTo(node, p)
<1>7. f = Body(f)
  <2>1. f = CHOOSE up : up = Body(up)
    BY DEF TrailTo
  <2> HIDE DEF Body, f
  <2> QED BY <1>6, <2>1
<1> HIDE DEF f
<1>8. f[0] = <<rootIndex>> /\ DOMAIN f = 0 .. n /\ \A k \in 1 .. n : f[k] = Next1(f[k - 1], k)
  <2> HIDE DEF Next1, n
  <2>1. 0 \in 0 .. n /\ \A k \in 1 .. n : k \in 0 .. n /\ k # 0
    BY <1>1
  <2>2. DOMAIN Body(f) = 0 .. n /\ Body(f)[0] = <<rootIndex>> /\ \A k \in 1 .. n : Body(f)[k] = Next1(f[k - 1], k)
    BY <2>1
  <2> HIDE DEF Body
  <2> QED BY <1>7, <2>2
<1>9. \A k \in 0 .. n : f[k] \in Trails
  <2> DEFINE S == {k \in 0 .. n : f[k] \in Trails}
  <2>1. 0 \in S
    BY <1>1, <1>3, <1>8
  <2>2. ASSUME NEW k \in 1 .. n, k - 1 \in S PROVE k \in S
    <3> HIDE DEF Next1
    <3>1. f[k] \in Trails
      BY <1>2, <1>8, <2>2
    <3> QED BY <3>1
  <2> HIDE DEF S, n
  <2>3. \A k \in 0 .. n : k \in S
    BY <1>1, <2>1, <2>2, UpTo
  <2> QED BY <2>3 DEF S
<1>10. f = Body(f) /\ f \in [0 .. n -> Trails]
  <2> HIDE DEF Next1
  <2> QED BY <1>7, <1>8, <1>9
<1> QED BY <1>8, <1>10 DEF f

(* One component more.                                                     *)
LEMMA TrailStep ==
  ASSUME NEW node \in Nodes
  PROVE  /\ Trail(node, RootPath) = <<rootIndex>>
         /\ \A p \in AllPaths : Trail(node, p) \in Trails
         /\ \A p \in Paths : Trail(node, p) =
              LET t == Trail(node, Front(p)) IN
              IF Last(t) = None THEN t ELSE Append(t, node[Last(t)].entries[Last(p)])
<1>1. ASSUME NEW p \in AllPaths PROVE Trail(node, p) = TrailTo(node, p)[Len(p)]
  BY DEF Trail, TrailTo
<1>2. RootPath \in AllPaths /\ Len(RootPath) = 0
  BY DEF AllPaths, RootPath
<1>3. Trail(node, RootPath) = <<rootIndex>>
  BY <1>1, <1>2, TrailAlong
<1>4. ASSUME NEW p \in AllPaths PROVE Trail(node, p) \in Trails
  <2>1. Len(p) \in 0 .. Len(p)
    BY AnyPath
  <2>2. TrailTo(node, p) \in [0 .. Len(p) -> Trails]
    BY TrailAlong
  <2> QED BY <1>1, <2>1, <2>2
<1>5. ASSUME NEW p \in Paths
      PROVE  Trail(node, p) =
              LET t == Trail(node, Front(p)) IN
              IF Last(t) = None THEN t ELSE Append(t, node[Last(t)].entries[Last(p)])
  <2> DEFINE q == Front(p)
             f == TrailTo(node, p)
             g == TrailTo(node, q)
             n == Len(q)
  <2>1. p \in AllPaths /\ q \in AllPaths /\ n \in Nat /\ Len(p) = n + 1 /\ \A k \in 1 .. n : q[k] = p[k]
    BY PathFacts DEF AllPaths
  <2>2. f[0] = g[0] /\ f[0] = <<rootIndex>>
    BY <2>1, TrailAlong
  <2>3. /\ \A k \in 1 .. Len(p) : f[k] = LET t == f[k - 1] IN
              IF Last(t) = None THEN t ELSE Append(t, node[Last(t)].entries[p[k]])
        /\ \A k \in 1 .. n : g[k] = LET t == g[k - 1] IN
              IF Last(t) = None THEN t ELSE Append(t, node[Last(t)].entries[q[k]])
    BY <2>1, TrailAlong
  <2> DEFINE S == {k \in 0 .. n : f[k] = g[k]}
  <2> HIDE DEF f, g, q, n
  <2>4. 0 \in S
    <3>1. n \in Nat
      BY <2>1
    <3>2. 0 \in 0 .. n
      BY <3>1
    <3> QED BY <3>2, <2>2
  <2>5. ASSUME NEW k \in 1 .. n, k - 1 \in S PROVE k \in S
    <3>1. k \in 1 .. Len(p) /\ q[k] = p[k] /\ f[k - 1] = g[k - 1]
      BY <2>1, <2>5
    <3>2. f[k] = g[k]
      BY <2>3, <3>1
    <3> QED BY <2>1, <3>2
  <2>6. n \in S
    <3> HIDE DEF S
    <3>1. \A k \in 0 .. n : k \in S
      BY <2>1, <2>4, <2>5, UpTo
    <3> QED BY <2>1, <3>1
  <2>7. f[n] = g[n] /\ Trail(node, p) = f[n + 1] /\ Trail(node, q) = g[n]
    BY <1>1, <2>1, <2>6 DEF f, g, n
  <2>8. n + 1 \in 1 .. Len(p) /\ Last(p) = p[n + 1]
    BY <2>1 DEF Last
  <2>9. f[n + 1] = LET t == f[(n + 1) - 1] IN
              IF Last(t) = None THEN t ELSE Append(t, node[Last(t)].entries[p[n + 1]])
    BY <2>3, <2>8
  <2>10. (n + 1) - 1 = n
    BY <2>1
  <2> QED BY <2>7, <2>8, <2>9, <2>10 DEF q
<1> QED BY <1>3, <1>4, <1>5

LEMMA ResStep ==
  ASSUME NEW node \in Nodes
  PROVE  /\ Res(node, RootPath) = rootIndex
         /\ \A p \in AllPaths : Res(node, p) \in Inos \cup {None}
         /\ \A p \in Paths :
              /\ Res(node, Front(p)) = None => Res(node, p) = None
              /\ Res(node, Front(p)) # None =>
                   /\ Res(node, p) = node[Res(node, Front(p))].entries[Last(p)]
                   /\ Front(Trail(node, p)) = Trail(node, Front(p))
<1>1. Res(node, RootPath) = rootIndex
  BY TrailStep DEF Res, Last
<1>2. ASSUME NEW p \in AllPaths PROVE Res(node, p) \in Inos \cup {None}
  <2>1. Trail(node, p) \in Trails
    BY TrailStep
  <2> QED BY <2>1, TrailsFacts DEF Res
<1>3. ASSUME NEW p \in Paths
      PROVE  /\ Res(node, Front(p)) = None => Res(node, p) = None
             /\ Res(node, Front(p)) # None =>
                   /\ Res(node, p) = node[Res(node, Front(p))].entries[Last(p)]
                   /\ Front(Trail(node, p)) = Trail(node, Front(p))
  <2> DEFINE t == Trail(node, Front(p))
  <2>1. Front(p) \in AllPaths /\ Last(p) \in Names
    BY PathFacts
  <2>2. t \in Trails /\ Res(node, Front(p)) = Last(t) /\ Last(t) \in Inos \cup {None}
    BY <1>2, <2>1, TrailStep DEF Res
  <2>3. Trail(node, p) = IF Last(t) = None THEN t ELSE Append(t, node[Last(t)].entries[Last(p)])
    BY TrailStep
  <2> HIDE DEF t
  <2>4. CASE Last(t) = None
    BY <2>2, <2>3, <2>4 DEF Res
  <2>5. CASE Last(t) # None
    <3>1. node[Last(t)].entries[Last(p)] \in Inos \cup {None}
      BY <2>1, <2>2, <2>5 DEF Nodes, NodeType
    <3>2. Last(Append(t, node[Last(t)].entries[Last(p)])) = node[Last(t)].entries[Last(p)]
          /\ Front(Append(t, node[Last(t)].entries[Last(p)])) = t
      BY <2>2, <3>1, TrailsFacts
    <3> QED BY <2>2, <2>3, <2>5, <3>2 DEF Res, t
  <2> QED BY <2>4, <2>5
<1> QED BY <1>1, <1>2, <1>3

-----------------------------------------------------------------------------
(* The beginnings of a path.                                               *)
Leading(p) == {q \in AllPaths : IsPrefix(q, p)}
FrontClosed(S) == S \subseteq AllPaths /\ \A p \in S \cap Paths : Front(p) \in S

LEMMA PrefixIsPart ==
  ASSUME NEW p \in AllPaths, NEW q \in AllPaths
  PROVE  IsPrefix(q, p) <=> Len(q) \in 0 .. Len(p) /\ q = Part(p, Len(q))
<1>1. Len(q) \in Nat /\ Len(p) \in Nat /\ q \in Seq(Names)
  BY AnyPath
<1>2. Part(q, Len(q)) = q
  BY <1>1, PartFacts
<1> QED BY <1>1, <1>2 DEF IsPrefix, Part

LEMMA PrefixFacts ==
  ASSUME NEW p \in AllPaths
  PROVE  /\ RootPath \in Leading(p) /\ p \in Leading(p) /\ FrontClosed(Leading(p))
         /\ \A q \in AllPaths : IsPrefix(q, RootPath) => q = RootPath
         /\ p \in Paths => \A q \in AllPaths : IsPrefix(q, p) <=> q = p \/ IsPrefix(q, Front(p))
<1>1. Len(p) \in Nat /\ RootPath \in AllPaths /\ Len(RootPath) = 0
  BY AnyPath DEF AllPaths, RootPath
<1>2. RootPath \in Leading(p)
  BY <1>1, PartFacts, PrefixIsPart DEF Leading
<1>3. p \in Leading(p)
  BY <1>1, PartFacts, PrefixIsPart DEF Leading
<1>4. ASSUME NEW q \in Leading(p) \cap Paths PROVE Front(q) \in Leading(p)
  <2>1. q \in AllPaths /\ Len(q) \in 0 .. Len(p) /\ q = Part(p, Len(q)) /\ Len(q) \in 1 .. MaxDepth
    BY PrefixIsPart, PathFacts DEF Leading
  <2>2. Front(q) = Part(p, Len(q) - 1) /\ Len(q) - 1 \in 0 .. Len(p) /\ Front(q) \in AllPaths
        /\ Len(Front(q)) = Len(q) - 1
    <3>1. Len(q) # 0 /\ Len(q) - 1 \in 0 .. Len(p)
      BY <1>1, <2>1
    <3>2. Front(Part(p, Len(q))) = Part(p, Len(q) - 1)
      BY <2>1, <3>1, PartFacts
    <3> QED BY <2>1, <3>1, <3>2, PathFacts
  <2> QED BY <2>2, PrefixIsPart DEF Leading
<1>5. ASSUME NEW q \in AllPaths, IsPrefix(q, RootPath) PROVE q = RootPath
  <2>1. Len(q) \in 0 .. 0 /\ q = Part(RootPath, Len(q))
    BY <1>1, <1>5, PrefixIsPart
  <2>2. Len(q) = 0
    BY <2>1
  <2> QED BY <1>1, <2>1, <2>2, PartFacts
<1>6. ASSUME p \in Paths, NEW q \in AllPaths
      PROVE  IsPrefix(q, p) <=> q = p \/ IsPrefix(q, Front(p))
  <2> DEFINE r == Front(p)
  <2>1. r \in AllPaths /\ Len(r) = Len(p) - 1 /\ Len(p) \in 1 .. MaxDepth /\ Len(q) \in Nat /\ Len(p) \in Nat
    BY <1>6, PathFacts, AnyPath
  <2>2. ASSUME NEW k \in 0 .. Len(r) PROVE Part(r, k) = Part(p, k)
    <3>1. k \in 0 .. Len(p)
      BY <2>1
    <3>2. Part(r, k) \in Seq(Names) /\ Part(p, k) \in Seq(Names) /\ Len(Part(r, k)) = k /\ Len(Part(p, k)) = k
          /\ (\A j \in 1 .. k : Part(r, k)[j] = r[j]) /\ \A j \in 1 .. k : Part(p, k)[j] = p[j]
      BY <2>1, <3>1, PartFacts, AnyPath
    <3>3. \A j \in 1 .. Len(p) - 1 : r[j] = p[j]
      BY <1>6, PathFacts
    <3>4. \A j \in 1 .. k : Part(r, k)[j] = Part(p, k)[j]
      BY <2>1, <3>2, <3>3
    <3> QED BY <3>2, <3>4, SeqEqual
  <2>3. IsPrefix(q, p) <=> Len(q) \in 0 .. Len(p) /\ q = Part(p, Len(q))
    BY PrefixIsPart
  <2>4. IsPrefix(q, r) <=> Len(q) \in 0 .. Len(r) /\ q = Part(r, Len(q))
    BY <2>1, PrefixIsPart
  <2>5. Part(p, Len(p)) = p
    BY <2>1, PartFacts
  <2> HIDE DEF r
  <2>6. CASE Len(q) = Len(p)
    BY <2>1, <2>3, <2>4, <2>5, <2>6 DEF r
  <2>7. CASE Len(q) # Len(p)
    <3>1. Len(q) \in 0 .. Len(p) <=> Len(q) \in 0 .. Len(r)
      BY <2>1, <2>7
    <3> QED BY <2>2, <2>3, <2>4, <2>7, <3>1 DEF r
  <2> QED BY <2>6, <2>7
<1> QED BY <1>2, <1>3, <1>4, <1>5, <1>6 DEF FrontClosed, Leading

-----------------------------------------------------------------------------
(* A tree.                                                                 *)
LEMMA Shape ==
  ASSUME NEW node, WellFormed(node)
  PROVE  /\ node \in Nodes
         /\ rootIndex \in Inos /\ node[rootIndex].type = "DIR"
         /\ \A i \in Inos : IsFiniteSet(NamesOf(node, i))
         /\ \A i \in Inos : /\ node[i].nlinks \in Nat /\ node[i].entries \in [Names -> Inos \cup {None}]
                            /\ node[i].type \in {"NONE", "DIR", "REG", "LNK"}
         /\ \A d \in Inos, n \in Names :
              LET i == node[d].entries[n] IN
              /\ i \in Inos \cup {None}
              /\ i # None => /\ i \in Inos \ {rootIndex} /\ <<d, n>> \in NamesOf(node, i)
                             /\ node[d].type = "DIR" /\ node[i].type # "NONE"
         /\ \A i \in Inos : node[i].type = "DIR" => \A a, b \in NamesOf(node, i) : a = b
<1>1. node \in Nodes /\ rootIndex \in Inos /\ node[rootIndex].type = "DIR"
      /\ NamesOf(node, rootIndex) = {} /\ LinksMatch(node)
      /\ \A i \in Inos : node[i].type # "DIR" => node[i].entries = Empty
  BY NamespaceAssumption DEF WellFormed, Nodes
<1>2. \A i \in Inos : /\ node[i].nlinks \in Nat /\ node[i].entries \in [Names -> Inos \cup {None}]
                      /\ node[i].type \in {"NONE", "DIR", "REG", "LNK"}
  <2>1. Cardinality(Inos \X Names) \in Nat
    BY NamespaceAssumption, FS_Product, FS_CardinalityType
  <2> QED BY <1>1, <2>1 DEF Nodes, NodeType
<1>3. ASSUME NEW i \in Inos PROVE IsFiniteSet(NamesOf(node, i))
  <2>1. IsFiniteSet(Inos \X Names)
    BY NamespaceAssumption, FS_Product
  <2>2. NamesOf(node, i) \in SUBSET (Inos \X Names)
    BY DEF NamesOf
  <2> QED BY <2>1, <2>2, FS_Subset
<1>4. ASSUME NEW d \in Inos, NEW n \in Names, NEW i, i = node[d].entries[n]
      PROVE  /\ i \in Inos \cup {None}
             /\ i # None => /\ i \in Inos \ {rootIndex} /\ <<d, n>> \in NamesOf(node, i)
                            /\ node[d].type = "DIR" /\ node[i].type # "NONE"
  <2>1. i \in Inos \cup {None}
    BY <1>2, <1>4
  <2> SUFFICES ASSUME i # None
               PROVE  i \in Inos \ {rootIndex} /\ <<d, n>> \in NamesOf(node, i)
                            /\ node[d].type = "DIR" /\ node[i].type # "NONE"
    BY <2>1
  <2>2. <<d, n>> \in NamesOf(node, i)
    BY <1>4 DEF NamesOf
  <2>3. i \in Inos \ {rootIndex}
    BY <1>1, <2>1, <2>2
  <2>4. node[d].type = "DIR"
    <3>1. node[d].entries # Empty
      BY <1>4 DEF Empty
    <3> QED BY <1>1, <3>1
  <2>5. node[i].type # "NONE"
    <3> SUFFICES ASSUME node[i].type = "NONE" PROVE FALSE
      OBVIOUS
    <3>1. Cardinality(NamesOf(node, i)) = 0
      BY <1>1, <2>3 DEF LinksMatch
    <3>2. NamesOf(node, i) = {}
      BY <1>3, <2>3, <3>1, FS_EmptySet
    <3> QED BY <2>2, <3>2
  <2> QED BY <2>2, <2>3, <2>4, <2>5
<1>5. ASSUME NEW i \in Inos, node[i].type = "DIR", NEW a \in NamesOf(node, i), NEW b \in NamesOf(node, i)
      PROVE  a = b
  <2>1. i # rootIndex
    BY <1>1
  <2>2. Cardinality(NamesOf(node, i)) = 1
    BY <1>1, <1>5, <2>1 DEF LinksMatch
  <2>3. \E x : NamesOf(node, i) = {x}
    BY <1>3, <2>2, FS_Singleton
  <2> QED BY <2>3
<1> QED BY <1>1, <1>2, <1>3, <1>4, <1>5

(* A directory is reached by one path.                                     *)
LEMMA Unique ==
  ASSUME NEW node, WellFormed(node), NEW p \in AllPaths, NEW q \in AllPaths,
         Res(node, p) = Res(node, q), Res(node, p) # None, node[Res(node, p)].type = "DIR"
  PROVE  p = q
<1> DEFINE S == {x \in AllPaths : \A y \in AllPaths :
                   Res(node, x) = Res(node, y) /\ Res(node, x) # None /\ node[Res(node, x)].type = "DIR" => x = y}
<1>1. node \in Nodes /\ RootPath \in AllPaths
  BY Shape DEF AllPaths
<1>2. ASSUME NEW x \in Paths PROVE Res(node, x) # rootIndex
  <2> SUFFICES ASSUME Res(node, x) = rootIndex PROVE FALSE
    OBVIOUS
  <2>1. Front(x) \in AllPaths /\ Last(x) \in Names
    BY PathFacts
  <2>2. Res(node, Front(x)) \in Inos \cup {None} /\ rootIndex # None
    BY <1>1, <2>1, ResStep, NamespaceAssumption
  <2>3. Res(node, Front(x)) \in Inos /\ rootIndex = node[Res(node, Front(x))].entries[Last(x)]
    BY <1>1, <2>2, ResStep
  <2>4. ASSUME NEW d \in Inos, NEW n \in Names PROVE rootIndex # node[d].entries[n]
    <3>1. node[d].entries[n] # None => node[d].entries[n] \in Inos \ {rootIndex}
      BY Shape
    <3> QED BY <2>2, <3>1
  <2> QED BY <2>1, <2>3, <2>4
<1>3. RootPath \in S
  <2>1. Res(node, RootPath) = rootIndex
    BY <1>1, ResStep
  <2>2. ASSUME NEW y \in AllPaths, Res(node, y) = rootIndex PROVE RootPath = y
    BY <1>2, <2>2 DEF AllPaths
  <2> QED BY <1>1, <2>1, <2>2
<1>4. ASSUME NEW x \in Paths, Front(x) \in S PROVE x \in S
  <2> SUFFICES ASSUME NEW y \in AllPaths, NEW i, i = Res(node, x), i = Res(node, y), i # None, node[i].type = "DIR"
               PROVE  x = y
    BY DEF AllPaths
  <2>1. y \in Paths /\ x \in AllPaths
    <3>1. Res(node, RootPath) = rootIndex
      BY <1>1, ResStep
    <3> QED BY <1>2, <3>1 DEF AllPaths
  <2> DEFINE d == Res(node, Front(x))
             e == Res(node, Front(y))
  <2>2. d \in Inos \cup {None} /\ e \in Inos \cup {None} /\ Last(x) \in Names /\ Last(y) \in Names
        /\ Front(x) \in AllPaths /\ Front(y) \in AllPaths /\ i \in Inos
    BY <1>1, <2>1, ResStep, PathFacts
  <2>3. d # None /\ i = node[d].entries[Last(x)]
    BY <1>1, ResStep
  <2>4. e # None /\ i = node[e].entries[Last(y)]
    BY <1>1, <2>1, ResStep
  <2>5. d \in Inos /\ e \in Inos
    BY <2>2, <2>3, <2>4
  <2> HIDE DEF d, e
  <2>6. <<d, Last(x)>> \in NamesOf(node, i) /\ <<e, Last(y)>> \in NamesOf(node, i) /\ node[d].type = "DIR"
    <3>1. <<d, Last(x)>> \in NamesOf(node, i) /\ node[d].type = "DIR"
      BY <2>2, <2>3, <2>5, Shape
    <3>2. <<e, Last(y)>> \in NamesOf(node, i)
      BY <2>2, <2>4, <2>5, Shape
    <3> QED BY <3>1, <3>2
  <2>7. <<d, Last(x)>> = <<e, Last(y)>>
    BY <2>2, <2>6, Shape
  <2>8. d = e /\ Last(x) = Last(y)
    BY <2>7
  <2>9. Front(x) = Front(y)
    BY <1>4, <2>2, <2>3, <2>6, <2>8 DEF d, e
  <2> QED BY <2>1, <2>8, <2>9, PathsEqual
<1>5. \A x \in AllPaths : x \in S
  <2> HIDE DEF S
  <2> QED BY <1>3, <1>4, PathInduction
<1> QED BY <1>5

(* What is at the end of a path has the name there, in a directory.        *)
LEMMA NameOf ==
  ASSUME NEW node, WellFormed(node), NEW p \in Paths, Res(node, p) # None
  PROVE  /\ Res(node, Front(p)) \in Inos /\ node[Res(node, Front(p))].type = "DIR"
         /\ Res(node, p) \in Inos \ {rootIndex} /\ node[Res(node, p)].type # "NONE"
         /\ Res(node, p) = node[Res(node, Front(p))].entries[Last(p)]
         /\ <<Res(node, Front(p)), Last(p)>> \in NamesOf(node, Res(node, p))
<1> DEFINE d == Res(node, Front(p))
<1>1. node \in Nodes /\ Front(p) \in AllPaths /\ Last(p) \in Names
  BY Shape, PathFacts
<1>2. d \in Inos /\ Res(node, p) = node[d].entries[Last(p)]
  <2>1. d \in Inos \cup {None}
    BY <1>1, ResStep
  <2> QED BY <1>1, <2>1, ResStep
<1> HIDE DEF d
<1>3. /\ Res(node, p) \in Inos \ {rootIndex} /\ <<d, Last(p)>> \in NamesOf(node, Res(node, p))
      /\ node[d].type = "DIR" /\ node[Res(node, p)].type # "NONE"
  BY <1>1, <1>2, Shape
<1> QED BY <1>2, <1>3 DEF d

(* Two paths that end in the same name are the same path.                  *)
LEMMA SameName ==
  ASSUME NEW node, WellFormed(node), NEW p \in Paths, NEW q \in Paths,
         Res(node, Front(p)) = Res(node, Front(q)), Last(p) = Last(q),
         Res(node, Front(p)) # None, node[Res(node, Front(p))].type = "DIR"
  PROVE  p = q
<1>1. Front(p) \in AllPaths /\ Front(q) \in AllPaths
  BY PathFacts
<1>2. Front(p) = Front(q)
  BY <1>1, Unique
<1> QED BY <1>2, PathsEqual

(* Nothing is found below what is not there.                               *)
LEMMA NoneBelow ==
  ASSUME NEW node \in Nodes, NEW p \in AllPaths, NEW q \in AllPaths, IsPrefix(q, p), Res(node, q) = None
  PROVE  Res(node, p) = None
<1> DEFINE S == {x \in AllPaths : IsPrefix(q, x) => Res(node, x) = None}
<1>1. RootPath \in S
  <2>1. RootPath \in AllPaths
    BY DEF AllPaths
  <2> QED BY <2>1, PrefixFacts
<1>2. ASSUME NEW x \in Paths, Front(x) \in S PROVE x \in S
  <2>1. x \in AllPaths
    BY DEF AllPaths
  <2>2. IsPrefix(q, x) => q = x \/ IsPrefix(q, Front(x))
    BY <2>1, PrefixFacts
  <2>3. Res(node, Front(x)) = None => Res(node, x) = None
    BY ResStep
  <2> QED BY <1>2, <2>1, <2>2, <2>3
<1>3. \A x \in AllPaths : x \in S
  <2> HIDE DEF S
  <2> QED BY <1>1, <1>2, PathInduction
<1> QED BY <1>3

(* Nothing is found below a file, or in a directory that is empty.         *)
LEMMA LeafBelow ==
  ASSUME NEW node \in Nodes, NEW p \in AllPaths, NEW q \in AllPaths, IsPrefix(q, p), q # p,
         Res(node, q) # None, node[Res(node, q)].entries = Empty
  PROVE  Res(node, p) = None
<1> DEFINE S == {x \in AllPaths : IsPrefix(q, x) /\ q # x => Res(node, x) = None}
<1>1. RootPath \in S
  <2>1. RootPath \in AllPaths
    BY DEF AllPaths
  <2> QED BY <2>1, PrefixFacts
<1>2. ASSUME NEW x \in Paths, Front(x) \in S PROVE x \in S
  <2>1. x \in AllPaths /\ Last(x) \in Names
    BY PathFacts DEF AllPaths
  <2>2. IsPrefix(q, x) => q = x \/ IsPrefix(q, Front(x))
    BY <2>1, PrefixFacts
  <2>3. Res(node, Front(x)) = None => Res(node, x) = None
    BY ResStep
  <2>4. q = Front(x) => Res(node, x) = None
    <3> SUFFICES ASSUME q = Front(x) PROVE Res(node, x) = None
      OBVIOUS
    <3>1. Res(node, x) = node[Res(node, q)].entries[Last(x)]
      BY ResStep
    <3> QED BY <2>1, <3>1 DEF Empty
  <2> QED BY <1>2, <2>1, <2>2, <2>3, <2>4
<1>3. \A x \in AllPaths : x \in S
  <2> HIDE DEF S
  <2> QED BY <1>1, <1>2, PathInduction
<1> QED BY <1>3

(* A change of the names X changes no path without them.                   *)
LEMMA TreeKept ==
  ASSUME NEW node, WellFormed(node), NEW node2 \in Nodes, NEW X \in SUBSET Paths,
         \A x \in X : Res(node, Front(x)) # None /\ node[Res(node, Front(x))].type = "DIR",
         \A d \in Inos, n \in Names :
           node2[d].entries[n] # node[d].entries[n] => \E x \in X : d = Res(node, Front(x)) /\ n = Last(x)
  PROVE  \A p \in AllPaths : (\A x \in X : ~IsPrefix(x, p)) => Trail(node2, p) = Trail(node, p) /\ Res(node2, p) = Res(node, p)
<1> DEFINE S == {p \in AllPaths : (\A x \in X : ~IsPrefix(x, p)) => Trail(node2, p) = Trail(node, p)}
<1>1. node \in Nodes
  BY Shape
<1>2. RootPath \in S
  <2>1. RootPath \in AllPaths
    BY DEF AllPaths
  <2> QED BY <1>1, <2>1, TrailStep
<1>3. ASSUME NEW p \in Paths, Front(p) \in S PROVE p \in S
  <2>1. p \in AllPaths /\ Front(p) \in AllPaths /\ Last(p) \in Names /\ \A x \in X : x \in AllPaths
    BY PathFacts DEF AllPaths
  <2> SUFFICES ASSUME \A x \in X : ~IsPrefix(x, p) PROVE Trail(node2, p) = Trail(node, p)
    BY <2>1
  <2>2. \A x \in X : p # x /\ ~IsPrefix(x, Front(p))
    BY <2>1, PrefixFacts
  <2> DEFINE t == Trail(node, Front(p))
  <2>3. Trail(node2, Front(p)) = t
    BY <1>3, <2>2
  <2>4. Trail(node, p) = IF Last(t) = None THEN t ELSE Append(t, node[Last(t)].entries[Last(p)])
    BY <1>1, TrailStep
  <2>5. Trail(node2, p) = IF Last(t) = None THEN t ELSE Append(t, node2[Last(t)].entries[Last(p)])
    BY <2>3, TrailStep
  <2>6. Last(t) = Res(node, Front(p)) /\ Last(t) \in Inos \cup {None}
    BY <1>1, <2>1, ResStep DEF Res
  <2> HIDE DEF t
  <2>7. ASSUME Last(t) # None PROVE node2[Last(t)].entries[Last(p)] = node[Last(t)].entries[Last(p)]
    <3> SUFFICES ASSUME NEW x \in X, Last(t) = Res(node, Front(x)), Last(p) = Last(x)
                 PROVE  FALSE
      BY <2>1, <2>6, <2>7
    <3>1. x \in Paths /\ Res(node, Front(x)) = Res(node, Front(p)) /\ Res(node, Front(p)) # None
          /\ node[Res(node, Front(p))].type = "DIR"
      BY <2>6, <2>7
    <3>2. p = x
      BY <3>1, SameName
    <3> QED BY <2>2, <3>2
  <2> QED BY <2>4, <2>5, <2>7
<1>4. \A p \in AllPaths : p \in S
  <2> HIDE DEF S
  <2> QED BY <1>2, <1>3, PathInduction
<1> QED BY <1>4 DEF Res

(* Of the beginnings of a path no two lead to the same inode.              *)
LEMMA LeadingDiffer ==
  ASSUME NEW node, WellFormed(node), NEW p \in AllPaths, NEW q \in Leading(p), NEW r \in Leading(p),
         Res(node, q) = Res(node, r), Res(node, q) # None
  PROVE  q = r
<1>1. node \in Nodes /\ p \in AllPaths /\ q \in AllPaths /\ r \in AllPaths
  BY Shape DEF Leading
<1>2. ASSUME NEW x \in Leading(p), NEW y \in Leading(p), Len(x) < Len(y), Res(node, x) # None, Res(node, y) = Res(node, x)
      PROVE  x = y
  <2>1. x \in AllPaths /\ y \in AllPaths /\ Len(x) \in 0 .. Len(p) /\ Len(y) \in 0 .. Len(p)
        /\ x = Part(p, Len(x)) /\ y = Part(p, Len(y))
    BY PrefixIsPart DEF Leading
  <2>2. y \in Paths /\ Front(y) = Part(p, Len(y) - 1)
    <3>1. Len(x) \in Nat /\ Len(y) \in Nat /\ Len(y) # 0
      BY <1>2, <2>1, AnyPath
    <3> QED BY <2>1, <3>1, PartFacts
  <2>3. Res(node, y) # None /\ node[Res(node, Front(y))].type = "DIR" /\ Res(node, Front(y)) \in Inos
    BY <1>2, <2>2, NameOf
  <2>4. CASE node[Res(node, x)].type = "DIR"
    BY <1>2, <2>1, <2>4, Unique
  <2>5. CASE node[Res(node, x)].type # "DIR"
    <3>1. Res(node, x) \in Inos
      BY <1>1, <1>2, <2>1, ResStep
    <3>2. node[Res(node, x)].entries = Empty
      BY <2>5, <3>1 DEF WellFormed
    <3>3. Len(x) \in 0 .. Len(y) /\ x = Part(y, Len(x))
      <4>1. Len(x) \in Nat /\ Len(y) \in Nat /\ Len(p) \in Nat /\ p \in Seq(Names)
        BY <1>1, <2>1, AnyPath
      <4>2. Len(x) \in 0 .. Len(y)
        BY <1>2, <4>1
      <4>3. /\ x \in Seq(Names) /\ Part(y, Len(x)) \in Seq(Names) /\ Len(Part(y, Len(x))) = Len(x)
            /\ \A j \in 1 .. Len(x) : Part(y, Len(x))[j] = y[j]
        <5>1. y \in AllPaths
          BY <2>1
        <5>2. /\ Part(y, Len(x)) \in AllPaths /\ Len(Part(y, Len(x))) = Len(x)
              /\ \A j \in 1 .. Len(x) : Part(y, Len(x))[j] = y[j]
          BY <4>2, <5>1, PartFacts
        <5>3. x \in Seq(Names) /\ Part(y, Len(x)) \in Seq(Names)
          BY <2>1, <5>2, AnyPath
        <5> QED BY <5>2, <5>3
      <4>4. (\A j \in 1 .. Len(x) : x[j] = p[j]) /\ \A j \in 1 .. Len(y) : y[j] = p[j]
        BY <1>1, <2>1, PartFacts
      <4>5. ASSUME NEW j \in 1 .. Len(x) PROVE x[j] = Part(y, Len(x))[j]
        <5>1. j \in 1 .. Len(y)
          BY <4>1, <4>2
        <5>2. x[j] = p[j] /\ y[j] = p[j]
          BY <4>4, <5>1
        <5>3. Part(y, Len(x))[j] = y[j]
          BY <4>3
        <5> QED BY <5>2, <5>3
      <4> QED BY <4>2, <4>3, <4>5, SeqEqual
    <3>4. IsPrefix(x, y) /\ x # y
      <4>1. Len(x) # Len(y)
        BY <1>2, <2>1
      <4> QED BY <2>1, <3>3, <4>1, PrefixIsPart
    <3>5. Res(node, y) = None
      BY <1>1, <1>2, <2>1, <3>2, <3>4, LeafBelow
    <3> QED BY <2>3, <3>5
  <2> QED BY <2>4, <2>5
<1>3. Len(q) \in Nat /\ Len(r) \in Nat
  BY <1>1, AnyPath
<1>4. CASE Len(q) = Len(r)
  BY <1>1, <1>4, PrefixIsPart DEF Leading
<1>5. CASE Len(q) < Len(r)
  BY <1>2, <1>5
<1>6. CASE Len(r) < Len(q)
  BY <1>2, <1>6
<1> QED BY <1>3, <1>4, <1>5, <1>6

-----------------------------------------------------------------------------
(* What calls make of a tree: name n of directory d comes, goes or moves.  *)
LEMMA Fields ==
  ASSUME NEW T, NEW N, NEW U, NEW G, NEW M, NEW E,
         NEW r \in [type : T, nlinks : N, uid : U, gid : G, mode : M, entries : E]
  PROVE  /\ r.type \in T /\ r.nlinks \in N /\ r.uid \in U /\ r.gid \in G /\ r.mode \in M /\ r.entries \in E
         /\ \A x \in E : [r EXCEPT !.entries = x] \in [type : T, nlinks : N, uid : U, gid : G, mode : M, entries : E]
         /\ \A x \in N : [r EXCEPT !.nlinks = x] \in [type : T, nlinks : N, uid : U, gid : G, mode : M, entries : E]
         /\ \A x \in M : [r EXCEPT !.mode = x] \in [type : T, nlinks : N, uid : U, gid : G, mode : M, entries : E]
         /\ \A x \in U, y \in G : [r EXCEPT !.uid = x, !.gid = y]
                                    \in [type : T, nlinks : N, uid : U, gid : G, mode : M, entries : E]
OBVIOUS

LEMMA NodeFields ==
  ASSUME NEW r \in NodeType
  PROVE  /\ r.type \in {"NONE", "DIR", "REG", "LNK"} /\ r.nlinks \in 0 .. Cardinality(Inos \X Names) /\ r.mode \in ModeType
         /\ r.entries \in [Names -> Inos \cup {None}]
         /\ r.uid \in {c.uid : c \in Contexts \cup {Super}} /\ r.gid \in {c.gid : c \in Contexts \cup {Super}}
         /\ \A x \in [Names -> Inos \cup {None}] : [r EXCEPT !.entries = x] \in NodeType
         /\ \A x \in 0 .. Cardinality(Inos \X Names) : [r EXCEPT !.nlinks = x] \in NodeType
         /\ \A x \in ModeType : [r EXCEPT !.mode = x] \in NodeType
         /\ \A x \in {c.uid : c \in Contexts \cup {Super}}, y \in {c.gid : c \in Contexts \cup {Super}} :
              [r EXCEPT !.uid = x, !.gid = y] \in NodeType
<1> DEFINE T == {"NONE", "DIR", "REG", "LNK"}
           N == 0 .. Cardinality(Inos \X Names)
           U == {c.uid : c \in Contexts \cup {Super}}
           G == {c.gid : c \in Contexts \cup {Super}}
           E == [Names -> Inos \cup {None}]
<1>1. NodeType = [type : T, nlinks : N, uid : U, gid : G, mode : ModeType, entries : E]
  BY DEF NodeType
<1> HIDE DEF T, N, U, G, E
<1>2. /\ r.type \in T /\ r.nlinks \in N /\ r.uid \in U /\ r.gid \in G /\ r.mode \in ModeType /\ r.entries \in E
      /\ \A x \in E : [r EXCEPT !.entries = x] \in NodeType
      /\ \A x \in N : [r EXCEPT !.nlinks = x] \in NodeType
      /\ \A x \in ModeType : [r EXCEPT !.mode = x] \in NodeType
      /\ \A x \in U, y \in G : [r EXCEPT !.uid = x, !.gid = y] \in NodeType
  BY <1>1, Fields
<1> QED BY <1>2 DEF T, N, U, G, E

RawNodes ==
  [Inos -> [type : {"NONE", "DIR", "REG", "LNK"}, nlinks : Nat,
            uid : {c.uid : c \in Contexts \cup {Super}}, gid : {c.gid : c \in Contexts \cup {Super}},
            mode : ModeType, entries : [Names -> Inos \cup {None}]]]

Puts(node, node2, d, n, i) ==
  \A e \in Inos, m \in Names :
    node2[e].entries[m] = IF e = d /\ m = n THEN i ELSE node[e].entries[m]

KeepsBut(node, node2, J) ==
  \A e \in Inos \ J : node2[e].type = node[e].type /\ node2[e].nlinks = node[e].nlinks

Created(node, node2, d, n, i) ==
  /\ d \in Inos /\ n \in Names /\ i \in Inos /\ node2 \in RawNodes
  /\ node[d].type = "DIR" /\ node[d].entries[n] = None /\ node[i].type = "NONE"
  /\ Puts(node, node2, d, n, i) /\ KeepsBut(node, node2, {i})
  /\ node2[i].type # "NONE" /\ node2[i].nlinks = 1

Linked(node, node2, d, n, i) ==
  /\ d \in Inos /\ n \in Names /\ i \in Inos /\ node2 \in RawNodes
  /\ node[d].type = "DIR" /\ node[d].entries[n] = None /\ node[i].type \in {"REG", "LNK"}
  /\ Puts(node, node2, d, n, i) /\ KeepsBut(node, node2, {i})
  /\ node2[i].type = node[i].type /\ node2[i].nlinks = node[i].nlinks + 1

Removed(node, node2, d, n, i) ==
  /\ d \in Inos /\ n \in Names /\ i \in Inos /\ node2 \in RawNodes
  /\ node[d].entries[n] = i /\ node[i].entries = Empty
  /\ Puts(node, node2, d, n, None) /\ KeepsBut(node, node2, {i})
  /\ IF node[i].type = "DIR" \/ node[i].nlinks = 1
       THEN node2[i].type = "NONE" /\ node2[i].nlinks = 0
       ELSE node2[i].type = node[i].type /\ node2[i].nlinks = node[i].nlinks - 1

Moved(node, node2, d, n, e, m, i) ==
  /\ d \in Inos /\ n \in Names /\ e \in Inos /\ m \in Names /\ i \in Inos /\ node2 \in RawNodes
  /\ node[d].entries[n] = i /\ node[e].type = "DIR" /\ node[e].entries[m] = None
  /\ \A f \in Inos, k \in Names :
       node2[f].entries[k] = IF f = d /\ k = n THEN None
                             ELSE IF f = e /\ k = m THEN i ELSE node[f].entries[k]
  /\ KeepsBut(node, node2, {})

LEMMA NamesPut ==
  ASSUME NEW node, NEW node2, NEW d \in Inos, NEW n \in Names, NEW i, Puts(node, node2, d, n, i), NEW j \in Inos
  PROVE  NamesOf(node2, j) = IF j = i THEN NamesOf(node, j) \cup {<<d, n>>} ELSE NamesOf(node, j) \ {<<d, n>>}
<1>1. ASSUME NEW e \in Inos, NEW m \in Names
      PROVE  <<e, m>> \in NamesOf(node2, j) <=>
               <<e, m>> \in IF j = i THEN NamesOf(node, j) \cup {<<d, n>>} ELSE NamesOf(node, j) \ {<<d, n>>}
  <2>1. <<e, m>> \in NamesOf(node2, j) <=> node2[e].entries[m] = j
    BY DEF NamesOf
  <2>2. <<e, m>> \in NamesOf(node, j) <=> node[e].entries[m] = j
    BY DEF NamesOf
  <2>3. <<e, m>> = <<d, n>> <=> e = d /\ m = n
    OBVIOUS
  <2> QED BY <2>1, <2>2, <2>3 DEF Puts
<1>2. NamesOf(node2, j) \subseteq Inos \X Names /\ NamesOf(node, j) \subseteq Inos \X Names /\ <<d, n>> \in Inos \X Names
  BY DEF NamesOf
<1>3. \A s \in Inos \X Names : s = <<s[1], s[2]>> /\ s[1] \in Inos /\ s[2] \in Names
  OBVIOUS
<1> DEFINE A == NamesOf(node2, j)
           B == IF j = i THEN NamesOf(node, j) \cup {<<d, n>>} ELSE NamesOf(node, j) \ {<<d, n>>}
<1>4. \A s \in Inos \X Names : s \in A <=> s \in B
  BY <1>1, <1>3
<1>5. B \subseteq Inos \X Names
  BY <1>2
<1> HIDE DEF A, B
<1>6. A = B
  BY <1>2, <1>4, <1>5 DEF A
<1> QED BY <1>6 DEF A, B

LEMMA EntriesPut ==
  ASSUME NEW node \in Nodes, NEW d \in Inos, NEW n \in Names, NEW v \in Inos \cup {None},
         NEW node2, node2 = [node EXCEPT ![d].entries[n] = v]
  PROVE  /\ node2 \in Nodes /\ Puts(node, node2, d, n, v)
         /\ \A f \in Inos : /\ node2[f].type = node[f].type /\ node2[f].nlinks = node[f].nlinks
                            /\ node2[f].uid = node[f].uid /\ node2[f].gid = node[f].gid /\ node2[f].mode = node[f].mode
<1>1. ASSUME NEW f \in Inos PROVE node[f] \in NodeType /\ node[f].entries \in [Names -> Inos \cup {None}]
  <2>1. node[f] \in NodeType
    BY DEF Nodes
  <2> QED BY <2>1, NodeFields
<1> DEFINE x == [node[d].entries EXCEPT ![n] = v]
           r == [node[d] EXCEPT !.entries = x]
<1>2. x \in [Names -> Inos \cup {None}] /\ \A k \in Names : x[k] = IF k = n THEN v ELSE node[d].entries[k]
  BY <1>1
<1>3. node2 = [node EXCEPT ![d] = r]
  OBVIOUS
<1> HIDE DEF x
<1>4. r \in NodeType
  BY <1>1, <1>2, NodeFields
<1>5. r.entries = x /\ r.type = node[d].type /\ r.nlinks = node[d].nlinks /\ r.uid = node[d].uid /\ r.gid = node[d].gid
      /\ r.mode = node[d].mode
  BY <1>1 DEF NodeType
<1> HIDE DEF r
<1>6. node2 \in Nodes /\ \A f \in Inos : node2[f] = IF f = d THEN r ELSE node[f]
  BY <1>3, <1>4 DEF Nodes
<1>7. Puts(node, node2, d, n, v)
  <2>1. ASSUME NEW e \in Inos, NEW m \in Names
        PROVE  node2[e].entries[m] = IF e = d /\ m = n THEN v ELSE node[e].entries[m]
    <3>1. CASE e = d
      <4>1. node2[e].entries = x
        BY <1>5, <1>6, <3>1
      <4> QED BY <1>2, <3>1, <4>1
    <3>2. CASE e # d
      <4>1. node2[e] = node[e]
        BY <1>6, <3>2
      <4> QED BY <3>2, <4>1
    <3> QED BY <3>1, <3>2
  <2> QED BY <2>1 DEF Puts
<1> QED BY <1>5, <1>6, <1>7

(* What makes a tree again.                                                *)
LEMMA Again ==
  ASSUME NEW node, WellFormed(node), NEW node2 \in RawNodes, NEW J \in SUBSET (Inos \ {rootIndex}),
         KeepsBut(node, node2, J),
         NamesOf(node2, rootIndex) = {},
         \A i \in Inos : node2[i].type # "DIR" => node2[i].entries = Empty,
         \A i \in Inos \ (J \cup {rootIndex}) : Cardinality(NamesOf(node2, i)) = Cardinality(NamesOf(node, i)),
         \A i \in J : /\ node2[i].type \in {"REG", "LNK"} => node2[i].nlinks # 0
                      /\ node2[i].nlinks <= Cardinality(Inos \X Names)
                      /\ Cardinality(NamesOf(node2, i)) = CASE node2[i].type = "NONE" -> 0
                                                            [] node2[i].type = "DIR" -> 1
                                                            [] OTHER -> node2[i].nlinks
  PROVE  WellFormed(node2)
<1>1. /\ node \in Nodes /\ rootIndex \in Inos /\ node[rootIndex].type = "DIR" /\ LinksMatch(node)
      /\ \A i \in Inos : node[i].type \in {"REG", "LNK"} => node[i].nlinks # 0
  BY NamespaceAssumption DEF WellFormed, Nodes
<1>2. Cardinality(Inos \X Names) \in Nat
  BY NamespaceAssumption, FS_Product, FS_CardinalityType
<1>3. ASSUME NEW i \in Inos PROVE node2[i].nlinks \in 0 .. Cardinality(Inos \X Names)
  <2>1. node2[i].nlinks \in Nat
    BY DEF RawNodes
  <2>2. CASE i \in J
    <3> DEFINE k == node2[i].nlinks
               c == Cardinality(Inos \X Names)
    <3>1. k \in Nat /\ c \in Nat
      BY <1>2, <2>1
    <3>2. k <= c
      BY <2>2
    <3> HIDE DEF k, c
    <3>3. k \in 0 .. c
      BY <3>1, <3>2
    <3> QED BY <3>3 DEF k, c
  <2>3. CASE i \notin J
    <3>1. node2[i].nlinks = node[i].nlinks
      BY <2>3 DEF KeepsBut
    <3>2. node[i].nlinks \in 0 .. Cardinality(Inos \X Names)
      BY <1>1 DEF Nodes, NodeType
    <3> QED BY <3>1, <3>2
  <2> QED BY <2>2, <2>3
<1>4. node2 \in [Inos -> NodeType]
  <2>1. ASSUME NEW i \in Inos PROVE node2[i] \in NodeType
    BY <1>3 DEF RawNodes, NodeType
  <2> QED BY <2>1 DEF RawNodes
<1>5. node2[rootIndex].type = "DIR"
  BY <1>1 DEF KeepsBut
<1>6. ASSUME NEW i \in Inos PROVE node2[i].type \in {"REG", "LNK"} => node2[i].nlinks # 0
  BY <1>1 DEF KeepsBut
<1>7. ASSUME NEW i \in Inos \ {rootIndex}
      PROVE  Cardinality(NamesOf(node2, i)) = CASE node2[i].type = "NONE" -> 0
                                                [] node2[i].type = "DIR" -> 1
                                                [] OTHER -> node2[i].nlinks
  <2>1. CASE i \in J
    BY <2>1
  <2>2. CASE i \notin J
    <3>1. node2[i].type = node[i].type /\ node2[i].nlinks = node[i].nlinks
          /\ Cardinality(NamesOf(node2, i)) = Cardinality(NamesOf(node, i))
      BY <2>2 DEF KeepsBut
    <3>2. Cardinality(NamesOf(node, i)) = CASE node[i].type = "NONE" -> 0
                                            [] node[i].type = "DIR" -> 1
                                            [] OTHER -> node[i].nlinks
      BY <1>1 DEF LinksMatch
    <3> QED BY <3>1, <3>2
  <2> QED BY <2>1, <2>2
<1> QED BY <1>4, <1>5, <1>6, <1>7 DEF WellFormed, LinksMatch

LEMMA EntriesSame ==
  ASSUME NEW node, NEW node2 \in RawNodes, NEW i \in Inos, node[i].entries = Empty,
         \A m \in Names : node2[i].entries[m] = node[i].entries[m]
  PROVE  node2[i].entries = Empty
<1>1. node2[i].entries \in [Names -> Inos \cup {None}]
  BY DEF RawNodes
<1>2. \A m \in Names : node2[i].entries[m] = None
  BY DEF Empty
<1> DEFINE e == node2[i].entries
<1>3. e \in [Names -> Inos \cup {None}] /\ \A m \in Names : e[m] = None
  BY <1>1, <1>2
<1> HIDE DEF e
<1>4. e = Empty
  BY <1>3 DEF Empty
<1> QED BY <1>4 DEF e

LEMMA CountNames ==
  ASSUME NEW node \in Nodes, NEW i \in Inos
  PROVE  /\ IsFiniteSet(NamesOf(node, i)) /\ Cardinality(NamesOf(node, i)) \in Nat
         /\ \A s \in Inos \X Names :
              /\ s \notin NamesOf(node, i) => Cardinality(NamesOf(node, i) \cup {s}) = Cardinality(NamesOf(node, i)) + 1
                                              /\ Cardinality(NamesOf(node, i) \cup {s}) <= Cardinality(Inos \X Names)
              /\ s \in NamesOf(node, i) => Cardinality(NamesOf(node, i) \ {s}) = Cardinality(NamesOf(node, i)) - 1
<1>1. IsFiniteSet(Inos \X Names) /\ NamesOf(node, i) \in SUBSET (Inos \X Names)
  BY NamespaceAssumption, FS_Product DEF NamesOf
<1>2. IsFiniteSet(NamesOf(node, i))
  BY <1>1, FS_Subset
<1> DEFINE A == NamesOf(node, i)
<1> HIDE DEF A
<1>3. IsFiniteSet(A) /\ Cardinality(A) \in Nat
  BY <1>2, FS_CardinalityType DEF A
<1>4. ASSUME NEW s \in Inos \X Names
      PROVE  /\ s \notin A => Cardinality(A \cup {s}) = Cardinality(A) + 1 /\ Cardinality(A \cup {s}) <= Cardinality(Inos \X Names)
             /\ s \in A => Cardinality(A \ {s}) = Cardinality(A) - 1
  <2>1. A \cup {s} \in SUBSET (Inos \X Names)
    BY <1>1 DEF A
  <2>2. Cardinality(A \cup {s}) <= Cardinality(Inos \X Names)
    BY <1>1, <2>1, FS_Subset
  <2>3. s \notin A => Cardinality(A \cup {s}) = Cardinality(A) + 1
    BY <1>3, FS_AddElement
  <2>4. s \in A => Cardinality(A \ {s}) = Cardinality(A) - 1
    BY <1>3, FS_RemoveElement
  <2> QED BY <2>2, <2>3, <2>4
<1> QED BY <1>3, <1>4 DEF A

LEMMA CreatedTree ==
  ASSUME NEW node, WellFormed(node), NEW node2, NEW d, NEW n, NEW i, Created(node, node2, d, n, i)
  PROVE  WellFormed(node2)
<1>1. /\ d \in Inos /\ n \in Names /\ i \in Inos /\ node2 \in RawNodes /\ node \in Nodes
      /\ node[d].type = "DIR" /\ node[d].entries[n] = None /\ node[i].type = "NONE"
      /\ Puts(node, node2, d, n, i) /\ KeepsBut(node, node2, {i})
      /\ node2[i].type # "NONE" /\ node2[i].nlinks = 1
  BY Shape DEF Created
<1>2. i # rootIndex /\ i # d /\ None \notin Inos
  BY <1>1, NamespaceAssumption DEF WellFormed
<1>3. NamesOf(node, i) = {}
  <2>1. Cardinality(NamesOf(node, i)) = 0
    BY <1>1, <1>2 DEF WellFormed, LinksMatch
  <2>2. IsFiniteSet(NamesOf(node, i))
    BY <1>1, CountNames
  <2> QED BY <2>1, <2>2, FS_EmptySet
<1>4. \A j \in Inos : <<d, n>> \notin NamesOf(node, j)
  BY <1>1, <1>2 DEF NamesOf
<1>5. ASSUME NEW j \in Inos, j # i PROVE NamesOf(node2, j) = NamesOf(node, j)
  <2>1. NamesOf(node2, j) = NamesOf(node, j) \ {<<d, n>>}
    BY <1>1, <1>5, NamesPut
  <2> QED BY <1>4, <2>1
<1>6. NamesOf(node2, i) = {<<d, n>>}
  <2>1. NamesOf(node2, i) = NamesOf(node, i) \cup {<<d, n>>}
    BY <1>1, NamesPut
  <2> QED BY <1>3, <2>1
<1>7. Cardinality(NamesOf(node2, i)) = 1 /\ 1 <= Cardinality(Inos \X Names)
  <2>1. Cardinality(NamesOf(node2, i)) = 1
    BY <1>6, FS_Singleton
  <2>2. <<d, n>> \in Inos \X Names
    BY <1>1
  <2>3. Cardinality(NamesOf(node, i) \cup {<<d, n>>}) <= Cardinality(Inos \X Names)
    BY <1>1, <1>4, <2>2, CountNames
  <2>4. NamesOf(node, i) \cup {<<d, n>>} = NamesOf(node2, i)
    BY <1>3, <1>6
  <2> QED BY <2>1, <2>3, <2>4
<1>8. ASSUME NEW j \in Inos, node2[j].type # "DIR" PROVE node2[j].entries = Empty
  <2>1. j # d /\ node[j].entries = Empty
    <3>1. CASE j = i
      BY <1>1, <1>2, <3>1 DEF WellFormed
    <3>2. CASE j # i
      <4>1. node[j].type # "DIR"
        BY <1>1, <1>8, <3>2 DEF KeepsBut
      <4> QED BY <1>1, <4>1 DEF WellFormed
    <3> QED BY <3>1, <3>2
  <2>2. \A m \in Names : node2[j].entries[m] = node[j].entries[m]
    BY <1>1, <2>1 DEF Puts
  <2> QED BY <1>1, <2>1, <2>2, EntriesSame
<1>9. NamesOf(node2, rootIndex) = {}
  BY <1>2, <1>5, NamespaceAssumption DEF WellFormed
<1> DEFINE J == {i}
<1>10. J \in SUBSET (Inos \ {rootIndex}) /\ KeepsBut(node, node2, J)
  BY <1>1, <1>2
<1>11. \A j \in Inos \ (J \cup {rootIndex}) : Cardinality(NamesOf(node2, j)) = Cardinality(NamesOf(node, j))
  BY <1>5
<1>12. \A j \in J : /\ node2[j].type \in {"REG", "LNK"} => node2[j].nlinks # 0
                    /\ node2[j].nlinks <= Cardinality(Inos \X Names)
                    /\ Cardinality(NamesOf(node2, j)) = CASE node2[j].type = "NONE" -> 0
                                                          [] node2[j].type = "DIR" -> 1
                                                          [] OTHER -> node2[j].nlinks
  BY <1>1, <1>7
<1> HIDE DEF J
<1> QED BY <1>1, <1>8, <1>9, <1>10, <1>11, <1>12, Again

LEMMA LinkedTree ==
  ASSUME NEW node, WellFormed(node), NEW node2, NEW d, NEW n, NEW i, Linked(node, node2, d, n, i)
  PROVE  WellFormed(node2)
<1>1. /\ d \in Inos /\ n \in Names /\ i \in Inos /\ node2 \in RawNodes /\ node \in Nodes
      /\ node[d].type = "DIR" /\ node[d].entries[n] = None /\ node[i].type \in {"REG", "LNK"}
      /\ Puts(node, node2, d, n, i) /\ KeepsBut(node, node2, {i})
      /\ node2[i].type = node[i].type /\ node2[i].nlinks = node[i].nlinks + 1
  BY Shape DEF Linked
<1>2. i # rootIndex /\ i # d /\ None \notin Inos
  BY <1>1, NamespaceAssumption DEF WellFormed
<1>3. node[i].nlinks \in Nat /\ Cardinality(NamesOf(node, i)) = node[i].nlinks
  <2>1. Cardinality(NamesOf(node, i)) = node[i].nlinks
    BY <1>1, <1>2 DEF WellFormed, LinksMatch
  <2> QED BY <1>1, <2>1, CountNames
<1>4. \A j \in Inos : <<d, n>> \notin NamesOf(node, j)
  BY <1>1, <1>2 DEF NamesOf
<1>5. ASSUME NEW j \in Inos, j # i PROVE NamesOf(node2, j) = NamesOf(node, j)
  <2>1. NamesOf(node2, j) = NamesOf(node, j) \ {<<d, n>>}
    BY <1>1, <1>5, NamesPut
  <2> QED BY <1>4, <2>1
<1>6. NamesOf(node2, i) = NamesOf(node, i) \cup {<<d, n>>}
  BY <1>1, NamesPut
<1>7. Cardinality(NamesOf(node2, i)) = node2[i].nlinks /\ node2[i].nlinks <= Cardinality(Inos \X Names)
  <2>1. <<d, n>> \in Inos \X Names
    BY <1>1
  <2>2. /\ Cardinality(NamesOf(node, i) \cup {<<d, n>>}) = Cardinality(NamesOf(node, i)) + 1
        /\ Cardinality(NamesOf(node, i) \cup {<<d, n>>}) <= Cardinality(Inos \X Names)
    BY <1>1, <1>4, <2>1, CountNames
  <2> QED BY <1>1, <1>3, <1>6, <2>2
<1>8. ASSUME NEW j \in Inos, node2[j].type # "DIR" PROVE node2[j].entries = Empty
  <2>1. node[j].type # "DIR"
    BY <1>1, <1>8 DEF KeepsBut
  <2>2. j # d /\ node[j].entries = Empty
    BY <1>1, <2>1 DEF WellFormed
  <2>3. \A m \in Names : node2[j].entries[m] = node[j].entries[m]
    BY <1>1, <2>2 DEF Puts
  <2> QED BY <1>1, <2>2, <2>3, EntriesSame
<1>9. NamesOf(node2, rootIndex) = {}
  BY <1>2, <1>5, NamespaceAssumption DEF WellFormed
<1> DEFINE J == {i}
<1>10. J \in SUBSET (Inos \ {rootIndex}) /\ KeepsBut(node, node2, J)
  BY <1>1, <1>2
<1>11. \A j \in Inos \ (J \cup {rootIndex}) : Cardinality(NamesOf(node2, j)) = Cardinality(NamesOf(node, j))
  BY <1>5
<1>12. \A j \in J : /\ node2[j].type \in {"REG", "LNK"} => node2[j].nlinks # 0
                    /\ node2[j].nlinks <= Cardinality(Inos \X Names)
                    /\ Cardinality(NamesOf(node2, j)) = CASE node2[j].type = "NONE" -> 0
                                                          [] node2[j].type = "DIR" -> 1
                                                          [] OTHER -> node2[j].nlinks
  <2>1. node2[i].nlinks # 0
    BY <1>1, <1>3
  <2>2. node2[i].type # "NONE" /\ node2[i].type # "DIR"
    BY <1>1
  <2> QED BY <1>7, <2>1, <2>2
<1> HIDE DEF J
<1> QED BY <1>1, <1>8, <1>9, <1>10, <1>11, <1>12, Again

LEMMA RemovedTree ==
  ASSUME NEW node, WellFormed(node), NEW node2, NEW d, NEW n, NEW i, Removed(node, node2, d, n, i)
  PROVE  /\ WellFormed(node2)
         /\ node2[i].type = "NONE" => NamesOf(node, i) = {<<d, n>>}
<1>1. /\ d \in Inos /\ n \in Names /\ i \in Inos /\ node2 \in RawNodes /\ node \in Nodes
      /\ node[d].entries[n] = i /\ node[i].entries = Empty
      /\ Puts(node, node2, d, n, None) /\ KeepsBut(node, node2, {i})
      /\ IF node[i].type = "DIR" \/ node[i].nlinks = 1
           THEN node2[i].type = "NONE" /\ node2[i].nlinks = 0
           ELSE node2[i].type = node[i].type /\ node2[i].nlinks = node[i].nlinks - 1
  BY Shape DEF Removed
<1>2. i # rootIndex /\ None \notin Inos /\ <<d, n>> \in NamesOf(node, i) /\ node[i].type # "NONE" /\ node[i].nlinks \in Nat
      /\ node[i].type \in {"NONE", "DIR", "REG", "LNK"}
  <2>1. i # None /\ None \notin Inos
    BY <1>1, NamespaceAssumption
  <2>2. node[d].entries[n] \in Inos \ {rootIndex} /\ <<d, n>> \in NamesOf(node, node[d].entries[n])
        /\ node[node[d].entries[n]].type # "NONE"
    BY <1>1, <2>1, Shape
  <2> QED BY <1>1, <2>1, <2>2, Shape
<1>3. Cardinality(NamesOf(node, i)) = IF node[i].type = "DIR" THEN 1 ELSE node[i].nlinks
  BY <1>1, <1>2 DEF WellFormed, LinksMatch
<1>4. node[i].type # "DIR" => node[i].nlinks # 0
  BY <1>1, <1>2 DEF WellFormed
<1>5. ASSUME NEW j \in Inos, j # i PROVE NamesOf(node2, j) = NamesOf(node, j)
  <2>1. NamesOf(node2, j) = NamesOf(node, j) \ {<<d, n>>}
    BY <1>1, <1>2, NamesPut
  <2>2. <<d, n>> \notin NamesOf(node, j)
    BY <1>1, <1>5 DEF NamesOf
  <2> QED BY <2>1, <2>2
<1>6. Cardinality(NamesOf(node2, i)) = Cardinality(NamesOf(node, i)) - 1
  <2>1. NamesOf(node2, i) = NamesOf(node, i) \ {<<d, n>>}
    BY <1>1, <1>2, NamesPut
  <2>2. <<d, n>> \in Inos \X Names
    BY <1>1
  <2>3. Cardinality(NamesOf(node, i) \ {<<d, n>>}) = Cardinality(NamesOf(node, i)) - 1
    BY <1>1, <1>2, <2>2, CountNames
  <2> QED BY <2>1, <2>3
<1>7. ASSUME NEW j \in Inos, node2[j].type # "DIR" PROVE node2[j].entries = Empty
  <2>1. node[j].entries = Empty
    <3>1. CASE j = i
      BY <1>1, <3>1
    <3>2. CASE j # i
      <4>1. node[j].type # "DIR"
        BY <1>1, <1>7, <3>2 DEF KeepsBut
      <4> QED BY <4>1 DEF WellFormed
    <3> QED BY <3>1, <3>2
  <2>2. j # d
    <3>1. node[d].entries # Empty
      BY <1>1, <1>2 DEF Empty
    <3> QED BY <2>1, <3>1
  <2>3. \A m \in Names : node2[j].entries[m] = node[j].entries[m]
    BY <1>1, <2>2 DEF Puts
  <2> QED BY <1>1, <2>1, <2>3, EntriesSame
<1>8. NamesOf(node2, rootIndex) = {}
  BY <1>2, <1>5, NamespaceAssumption DEF WellFormed
<1> DEFINE J == {i}
<1>9. J \in SUBSET (Inos \ {rootIndex}) /\ KeepsBut(node, node2, J)
  BY <1>1, <1>2
<1>10. \A j \in Inos \ (J \cup {rootIndex}) : Cardinality(NamesOf(node2, j)) = Cardinality(NamesOf(node, j))
  BY <1>5
<1>11. /\ node2[i].type \in {"REG", "LNK"} => node2[i].nlinks # 0
       /\ node2[i].nlinks <= Cardinality(Inos \X Names)
       /\ Cardinality(NamesOf(node2, i)) = CASE node2[i].type = "NONE" -> 0
                                             [] node2[i].type = "DIR" -> 1
                                             [] OTHER -> node2[i].nlinks
  <2>1. Cardinality(Inos \X Names) \in Nat
    BY NamespaceAssumption, FS_Product, FS_CardinalityType
  <2>2. node[i].nlinks <= Cardinality(Inos \X Names)
    <3>1. node[i] \in NodeType
      BY <1>1 DEF Nodes
    <3>2. node[i].nlinks \in 0 .. Cardinality(Inos \X Names)
      BY <3>1, NodeFields
    <3> QED BY <2>1, <3>2
  <2> DEFINE c == Cardinality(Inos \X Names)
             c2 == Cardinality(NamesOf(node2, i))
             c1 == Cardinality(NamesOf(node, i))
             l == node[i].nlinks
             l2 == node2[i].nlinks
  <2>3. c \in Nat /\ l <= c /\ l \in Nat /\ c2 = c1 - 1 /\ (c1 = IF node[i].type = "DIR" THEN 1 ELSE l)
        /\ (node[i].type # "DIR" => l # 0)
        /\ IF node[i].type = "DIR" \/ l = 1 THEN node2[i].type = "NONE" /\ l2 = 0
           ELSE node2[i].type = node[i].type /\ l2 = l - 1
    BY <1>1, <1>2, <1>3, <1>4, <1>6, <2>1, <2>2
  <2> HIDE DEF c, c1, c2, l, l2
  <2>4. CASE node[i].type = "DIR" \/ l = 1
    <3>1. node2[i].type = "NONE" /\ l2 = 0 /\ c2 = 0 /\ l2 <= c
      BY <2>3, <2>4
    <3> QED BY <3>1 DEF c2, l2, c
  <2>5. CASE ~(node[i].type = "DIR" \/ l = 1)
    <3>1. node2[i].type # "NONE" /\ node2[i].type # "DIR" /\ l2 # 0 /\ c2 = l2 /\ l2 <= c
      BY <1>2, <2>3, <2>5
    <3> QED BY <3>1 DEF c2, l2, c
  <2> QED BY <2>4, <2>5
<1>12. WellFormed(node2)
  <2>1. \A j \in J : /\ node2[j].type \in {"REG", "LNK"} => node2[j].nlinks # 0
                     /\ node2[j].nlinks <= Cardinality(Inos \X Names)
                     /\ Cardinality(NamesOf(node2, j)) = CASE node2[j].type = "NONE" -> 0
                                                          [] node2[j].type = "DIR" -> 1
                                                          [] OTHER -> node2[j].nlinks
    BY <1>11
  <2> HIDE DEF J
  <2> QED BY <1>1, <1>7, <1>8, <1>9, <1>10, <2>1, Again
<1>13. ASSUME node2[i].type = "NONE" PROVE NamesOf(node, i) = {<<d, n>>}
  <2>1. Cardinality(NamesOf(node, i)) = 1
    BY <1>1, <1>2, <1>3, <1>13
  <2>2. \E x : NamesOf(node, i) = {x}
    BY <1>1, <2>1, CountNames, FS_Singleton
  <2> QED BY <1>2, <2>2
<1> QED BY <1>12, <1>13

LEMMA MovedTree ==
  ASSUME NEW node, WellFormed(node), NEW node2, NEW d, NEW n, NEW e, NEW m, NEW i, Moved(node, node2, d, n, e, m, i)
  PROVE  WellFormed(node2)
<1>1. /\ d \in Inos /\ n \in Names /\ e \in Inos /\ m \in Names /\ i \in Inos /\ node2 \in RawNodes /\ node \in Nodes
      /\ node[d].entries[n] = i /\ node[e].type = "DIR" /\ node[e].entries[m] = None
      /\ \A f \in Inos, k \in Names :
           node2[f].entries[k] = IF f = d /\ k = n THEN None
                                 ELSE IF f = e /\ k = m THEN i ELSE node[f].entries[k]
      /\ KeepsBut(node, node2, {})
  BY Shape DEF Moved
<1>2. None \notin Inos
  BY NamespaceAssumption
<1> DEFINE mid == [node EXCEPT ![d].entries[n] = None]
<1>3. Puts(node, mid, d, n, None) /\ Puts(mid, node2, e, m, i) /\ mid \in Nodes
  <2>1. Puts(node, mid, d, n, None) /\ mid \in Nodes
    <3>1. None \in Inos \cup {None}
      OBVIOUS
    <3> QED BY <1>1, <3>1, EntriesPut
  <2> HIDE DEF mid
  <2>2. ASSUME NEW f \in Inos, NEW k \in Names
        PROVE  mid[f].entries[k] = IF f = d /\ k = n THEN None ELSE node[f].entries[k]
    BY <2>1 DEF Puts
  <2>3. Puts(mid, node2, e, m, i)
    BY <1>1, <1>2, <2>2 DEF Puts
  <2> QED BY <2>1, <2>3
<1> HIDE DEF mid
<1>4. \A j \in Inos : NamesOf(mid, j) = NamesOf(node, j) \ {<<d, n>>}
  BY <1>1, <1>2, <1>3, NamesPut
<1>5. \A j \in Inos : <<e, m>> \notin NamesOf(node, j)
  BY <1>1, <1>2 DEF NamesOf
<1>6. ASSUME NEW j \in Inos, j # i PROVE NamesOf(node2, j) = NamesOf(node, j)
  <2>1. NamesOf(node2, j) = NamesOf(mid, j) \ {<<e, m>>}
    BY <1>1, <1>3, <1>6, NamesPut
  <2>2. <<d, n>> \notin NamesOf(node, j)
    BY <1>1, <1>6 DEF NamesOf
  <2> QED BY <1>4, <1>5, <2>1, <2>2
<1>7. Cardinality(NamesOf(node2, i)) = Cardinality(NamesOf(node, i))
  <2>1. NamesOf(node2, i) = NamesOf(mid, i) \cup {<<e, m>>}
    BY <1>1, <1>3, NamesPut
  <2>2. <<d, n>> \in NamesOf(node, i) /\ <<d, n>> \in Inos \X Names /\ <<e, m>> \in Inos \X Names
    BY <1>1 DEF NamesOf
  <2>3. NamesOf(mid, i) = NamesOf(node, i) \ {<<d, n>>} /\ <<e, m>> \notin NamesOf(mid, i)
    BY <1>1, <1>4, <1>5
  <2>8. node \in Nodes /\ mid \in Nodes /\ i \in Inos
    BY <1>1, <1>3
  <2>10. ASSUME NEW x \in Nodes, NEW s \in Inos \X Names
         PROVE  /\ Cardinality(NamesOf(x, i)) \in Nat
                /\ s \notin NamesOf(x, i) => Cardinality(NamesOf(x, i) \cup {s}) = Cardinality(NamesOf(x, i)) + 1
                /\ s \in NamesOf(x, i) => Cardinality(NamesOf(x, i) \ {s}) = Cardinality(NamesOf(x, i)) - 1
    BY <2>8, CountNames
  <2>11. /\ Cardinality(NamesOf(node, i)) \in Nat
         /\ Cardinality(NamesOf(node, i) \ {<<d, n>>}) = Cardinality(NamesOf(node, i)) - 1
    BY <2>2, <2>8, <2>10
  <2>4. Cardinality(NamesOf(mid, i)) = Cardinality(NamesOf(node, i)) - 1 /\ Cardinality(NamesOf(node, i)) \in Nat
    BY <2>3, <2>11
  <2>9. <<e, m>> \in Inos \X Names /\ <<e, m>> \notin NamesOf(mid, i)
    BY <2>2, <2>3
  <2>5. Cardinality(NamesOf(mid, i) \cup {<<e, m>>}) = Cardinality(NamesOf(mid, i)) + 1
    BY <2>8, <2>9, <2>10
  <2>6. Cardinality(NamesOf(node2, i)) = Cardinality(NamesOf(mid, i)) + 1
    BY <2>1, <2>5
  <2>7. ASSUME NEW x, NEW y, NEW z \in Nat, x = z - 1, y = x + 1 PROVE y = z
    BY <2>7
  <2> QED BY <2>4, <2>6, <2>7
<1>8. i # rootIndex
  <2>1. node[d].entries[n] # None
    BY <1>1, <1>2
  <2>2. node[d].entries[n] \in Inos \ {rootIndex}
    BY <1>1, <2>1, Shape
  <2> QED BY <1>1, <2>2
<1>9. ASSUME NEW j \in Inos, node2[j].type # "DIR" PROVE node2[j].entries = Empty
  <2>1. node[j].type # "DIR"
    BY <1>1, <1>9 DEF KeepsBut
  <2>2. node[j].entries = Empty
    BY <2>1 DEF WellFormed
  <2>3. j # d /\ j # e
    <3>1. node[d].entries # Empty
      BY <1>1, <1>2 DEF Empty
    <3> QED BY <1>1, <2>1, <2>2, <3>1
  <2>4. \A k \in Names : node2[j].entries[k] = node[j].entries[k]
    BY <1>1, <2>3
  <2> QED BY <1>1, <2>2, <2>4, EntriesSame
<1>10. NamesOf(node2, rootIndex) = {}
  BY <1>6, <1>8, NamespaceAssumption DEF WellFormed
<1> DEFINE J == {}
<1>11. J \in SUBSET (Inos \ {rootIndex}) /\ KeepsBut(node, node2, J)
  BY <1>1
<1>12. \A j \in Inos \ (J \cup {rootIndex}) : Cardinality(NamesOf(node2, j)) = Cardinality(NamesOf(node, j))
  BY <1>6, <1>7
<1>13. \A j \in J : /\ node2[j].type \in {"REG", "LNK"} => node2[j].nlinks # 0
                    /\ node2[j].nlinks <= Cardinality(Inos \X Names)
                    /\ Cardinality(NamesOf(node2, j)) = CASE node2[j].type = "NONE" -> 0
                                                          [] node2[j].type = "DIR" -> 1
                                                          [] OTHER -> node2[j].nlinks
  OBVIOUS
<1> HIDE DEF J
<1> QED BY <1>1, <1>9, <1>10, <1>11, <1>12, <1>13, Again

-----------------------------------------------------------------------------
(* Worlds, and how asking for files warms the caches.                      *)
LEMMA WorldFields ==
  ASSUME NEW w \in Worlds
  PROVE  /\ w.inode \in Nodes /\ w.paths \in [Paths -> Inos \cup {None}] /\ w.files \in [Inos -> Seq(Inos) \cup {NoFile}]
         /\ w.handles \in [Handles -> [ino : Inos \cup {None}, deleted : BOOLEAN]]
BY DEF Worlds, Nodes

LEMMA Record4 ==
  ASSUME NEW A, NEW B, NEW C, NEW D, NEW w \in [inode : A, paths : B, files : C, handles : D]
  PROVE  /\ \A x : LET v == [w EXCEPT !.inode = x] IN
              /\ v.inode = x /\ v.paths = w.paths /\ v.files = w.files /\ v.handles = w.handles
              /\ x \in A => v \in [inode : A, paths : B, files : C, handles : D]
         /\ \A x : LET v == [w EXCEPT !.paths = x] IN
              /\ v.inode = w.inode /\ v.paths = x /\ v.files = w.files /\ v.handles = w.handles
              /\ x \in B => v \in [inode : A, paths : B, files : C, handles : D]
         /\ \A x : LET v == [w EXCEPT !.files = x] IN
              /\ v.inode = w.inode /\ v.paths = w.paths /\ v.files = x /\ v.handles = w.handles
              /\ x \in C => v \in [inode : A, paths : B, files : C, handles : D]
         /\ \A x : LET v == [w EXCEPT !.handles = x] IN
              /\ v.inode = w.inode /\ v.paths = w.paths /\ v.files = w.files /\ v.handles = x
              /\ x \in D => v \in [inode : A, paths : B, files : C, handles : D]
OBVIOUS

Comps == [inode |-> [Inos -> NodeType], paths |-> [Paths -> Inos \cup {None}],
          files |-> [Inos -> Seq(Inos) \cup {NoFile}],
          handles |-> [Handles -> [ino : Inos \cup {None}, deleted : BOOLEAN]]]

SetPath(w, p, x) == [w EXCEPT !.paths[p] = x]

LEMMA WorldPath ==
  ASSUME NEW w \in Worlds, NEW p \in Paths, NEW x \in Inos \cup {None}, NEW v, v = SetPath(w, p, x)
  PROVE  /\ v \in Worlds
         /\ v.inode = w.inode /\ v.files = w.files /\ v.handles = w.handles
         /\ \A k \in Paths : v.paths[k] = IF k = p THEN x ELSE w.paths[k]
<1> DEFINE A == Comps.inode
           B == Comps.paths
           C == Comps.files
           D == Comps.handles
           f == [w.paths EXCEPT ![p] = x]
<1>1. Worlds = [inode : A, paths : B, files : C, handles : D]
  BY DEF Worlds, Comps
<1>2. f \in B /\ \A k \in Paths : f[k] = IF k = p THEN x ELSE w.paths[k]
  BY WorldFields DEF Comps
<1>3. v = [w EXCEPT !.paths = f]
  BY DEF SetPath
<1> HIDE DEF A, B, C, D, f
<1>4. v \in Worlds /\ v.inode = w.inode /\ v.files = w.files /\ v.handles = w.handles /\ v.paths = f
  BY <1>1, <1>2, <1>3, Record4
<1> QED BY <1>2, <1>4

SetFile(w, i, x) == [w EXCEPT !.files[i] = x]

LEMMA WorldFile ==
  ASSUME NEW w \in Worlds, NEW i \in Inos, NEW x \in Seq(Inos) \cup {NoFile}, NEW v, v = SetFile(w, i, x)
  PROVE  /\ v \in Worlds
         /\ v.inode = w.inode /\ v.paths = w.paths /\ v.handles = w.handles
         /\ \A k \in Inos : v.files[k] = IF k = i THEN x ELSE w.files[k]
<1> DEFINE A == Comps.inode
           B == Comps.paths
           C == Comps.files
           D == Comps.handles
           f == [w.files EXCEPT ![i] = x]
<1>1. Worlds = [inode : A, paths : B, files : C, handles : D]
  BY DEF Worlds, Comps
<1>2. f \in C /\ \A k \in Inos : f[k] = IF k = i THEN x ELSE w.files[k]
  BY WorldFields DEF Comps
<1>3. v = [w EXCEPT !.files = f]
  BY DEF SetFile
<1> HIDE DEF A, B, C, D, f
<1>4. v \in Worlds /\ v.inode = w.inode /\ v.paths = w.paths /\ v.handles = w.handles /\ v.files = f
  BY <1>1, <1>2, <1>3, Record4
<1> QED BY <1>2, <1>4

Opened(w, v, p, i) ==
  LET d == Res(w.inode, Front(p)) IN
  /\ Res(w.inode, p) = i /\ d \in Inos
  /\ v.files[d] # NoFile /\ v.files[i] = Append(v.files[d], d)

Warms(w, v, P) ==
  /\ v.inode = w.inode /\ v.handles = w.handles /\ Good(v)
  /\ \A p \in Paths \ P : v.paths[p] = w.paths[p]
  /\ \A i \in Inos : \/ v.files[i] = w.files[i]
                     \/ w.files[i] = NoFile /\ \E p \in P \cap Paths : Opened(w, v, p, i)

LEMMA WarmsKeep ==
  ASSUME NEW w, NEW v, NEW P, Warms(w, v, P), NEW i \in Inos, w.files[i] # NoFile
  PROVE  v.files[i] = w.files[i]
BY DEF Warms

LEMMA WarmsBoth ==
  ASSUME NEW w, NEW v, NEW u, NEW P, NEW Q, NEW R, Warms(w, v, P), Warms(v, u, Q), P \cup Q \subseteq R
  PROVE  Warms(w, u, R)
<1>1. u.inode = w.inode /\ u.handles = w.handles /\ Good(u) /\ v.inode = w.inode
  BY DEF Warms
<1>2. \A p \in Paths \ R : u.paths[p] = w.paths[p]
  BY DEF Warms
<1>3. ASSUME NEW i \in Inos
      PROVE  u.files[i] = w.files[i] \/ (w.files[i] = NoFile /\ \E p \in R \cap Paths : Opened(w, u, p, i))
  <2>1. CASE u.files[i] = v.files[i] /\ v.files[i] # w.files[i]
    <3>1. w.files[i] = NoFile
      BY <2>1 DEF Warms
    <3>2. PICK p \in P \cap Paths : Opened(w, v, p, i)
      BY <2>1 DEF Warms
    <3>3. Res(w.inode, Front(p)) \in Inos /\ v.files[Res(w.inode, Front(p))] # NoFile
      BY <3>2 DEF Opened
    <3>4. u.files[Res(w.inode, Front(p))] = v.files[Res(w.inode, Front(p))]
      BY <3>3, WarmsKeep
    <3>5. Opened(w, u, p, i)
      BY <2>1, <3>2, <3>4 DEF Opened
    <3> QED BY <3>1, <3>2, <3>5
  <2>2. CASE u.files[i] # v.files[i]
    <3>1. v.files[i] = NoFile /\ w.files[i] = NoFile
      BY <2>2, WarmsKeep DEF Warms
    <3>2. PICK p \in Q \cap Paths : Opened(v, u, p, i)
      BY <2>2 DEF Warms
    <3>3. Opened(w, u, p, i)
      BY <1>1, <3>2 DEF Opened
    <3> QED BY <3>1, <3>2, <3>3
  <2> QED BY <2>1, <2>2
<1> QED BY <1>1, <1>2, <1>3 DEF Warms

LEMMA WarmsSelf ==
  ASSUME NEW w, Good(w), NEW P
  PROVE  Warms(w, w, P)
BY DEF Warms

LEMMA GoodCache ==
  ASSUME NEW w, Good(w), NEW v \in Worlds, v.inode = w.inode, v.files[rootIndex] = <<>>,
         \A p \in Paths : v.paths[p] # None =>
           v.paths[p] \in {w.paths[p], Res(w.inode, p)} /\ v.files[v.paths[p]] # NoFile,
         \A i \in Inos : v.files[i] # NoFile => w.files[i] # NoFile \/ w.inode[i].type # "NONE"
  PROVE  Good(v)
<1>1. Cached(v)
  BY DEF Good, Cached
<1> QED BY <1>1 DEF Good

(* get of one component.                                                   *)
LEMMA ChildIs ==
  ASSUME NEW w, Good(w), NEW p \in Paths, NEW d \in Inos, d = Res(w.inode, Front(p)), w.files[d] # NoFile,
         NEW P, p \in P, NEW g, g = GetChild(w, p, d)
  PROVE  /\ g.ino = Res(w.inode, p) /\ Warms(w, g.w, P)
         /\ g.ino # None => g.w.files[g.ino] # NoFile
<1>1. /\ w \in Worlds /\ WellFormed(w.inode) /\ Cached(w) /\ w.inode \in Nodes
      /\ w.paths \in [Paths -> Inos \cup {None}] /\ w.files \in [Inos -> Seq(Inos) \cup {NoFile}]
  BY WorldFields DEF Good
<1>2. None \notin Inos /\ rootIndex \in Inos /\ NoFile \notin Seq(Inos)
  BY NamespaceAssumption
<1>3. Last(p) \in Names /\ p \in AllPaths
  BY PathFacts DEF AllPaths
<1> DEFINE cached == w.paths[p]
           found == IF IsDir(w, d) THEN w.inode[d].entries[getChildPath(p)] ELSE None
           erased == [w EXCEPT !.paths[p] = None]
           v == [w EXCEPT !.paths[p] = found]
           perms == Append(w.files[d], d)
<1>4. g = IF cached # None /\ Allocated(w, cached)
            THEN [w |-> inodeToFile(w, cached, <<>>), ino |-> cached]
          ELSE IF found = None THEN [w |-> erased, ino |-> None]
          ELSE [w |-> inodeToFile(v, found, perms), ino |-> found]
  BY DEF GetChild
<1>5. found = Res(w.inode, p) /\ found \in Inos \cup {None}
  <2>1. Res(w.inode, p) = w.inode[d].entries[Last(p)] /\ Res(w.inode, p) \in Inos \cup {None}
    BY <1>1, <1>2, <1>3, ResStep
  <2>2. w.inode[d].type # "DIR" => w.inode[d].entries[Last(p)] = None
    BY <1>1, <1>3 DEF WellFormed, Empty
  <2> QED BY <2>1, <2>2 DEF IsDir, getChildPath
<1>6. cached # None => cached = Res(w.inode, p) /\ w.files[cached] # NoFile /\ Allocated(w, cached) /\ cached \in Inos
  <2>1. cached \in Inos \cup {None}
    BY <1>1
  <2>2. cached # None => cached = Res(w.inode, p) /\ w.files[cached] # NoFile
    BY <1>1 DEF Cached
  <2>3. ASSUME NEW i \in Inos, w.files[i] # NoFile PROVE Allocated(w, i)
    BY <1>1, <2>3 DEF Cached, Allocated
  <2> HIDE DEF cached
  <2> QED BY <2>1, <2>2, <2>3
<1>7. perms \in Seq(Inos) /\ perms # NoFile
  <2>1. w.files[d] \in Seq(Inos)
    BY <1>1
  <2>2. ASSUME NEW s \in Seq(Inos) PROVE Append(s, d) \in Seq(Inos)
    OBVIOUS
  <2>3. perms \in Seq(Inos)
    BY <2>1, <2>2
  <2> HIDE DEF perms
  <2> QED BY <1>2, <2>3
<1> HIDE DEF cached, found, erased, v, perms
<1>8. CASE cached # None
  <2>1. g = [w |-> w, ino |-> cached]
    BY <1>4, <1>6, <1>8 DEF inodeToFile
  <2> QED BY <1>6, <1>8, <2>1, WarmsSelf
<1>9. CASE cached = None /\ found = None
  <2>1. g = [w |-> erased, ino |-> None]
    BY <1>4, <1>9
  <2>2. erased \in Worlds /\ erased.inode = w.inode /\ erased.files = w.files /\ erased.handles = w.handles
        /\ \A q \in Paths : erased.paths[q] = IF q = p THEN None ELSE w.paths[q]
    <3>1. erased = SetPath(w, p, None) /\ None \in Inos \cup {None}
      BY DEF erased, SetPath
    <3> QED BY <1>1, <3>1, WorldPath
  <2>3. \A q \in Paths : erased.paths[q] = w.paths[q]
    BY <1>1, <1>9, <2>2 DEF cached
  <2>4. Good(erased)
    BY <1>1, <2>2, <2>3 DEF Good, Cached
  <2>5. Warms(w, erased, P)
    BY <2>2, <2>3, <2>4 DEF Warms
  <2> QED BY <1>5, <1>9, <2>1, <2>5
<1>10. CASE cached = None /\ found # None
  <2> DEFINE u == inodeToFile(v, found, perms)
  <2>1. g = [w |-> u, ino |-> found]
    BY <1>4, <1>10
  <2>2. v \in Worlds /\ v.inode = w.inode /\ v.files = w.files /\ v.handles = w.handles
        /\ \A q \in Paths : v.paths[q] = IF q = p THEN found ELSE w.paths[q]
    <3>1. v = SetPath(w, p, found)
      BY DEF v, SetPath
    <3> HIDE DEF u
    <3>2. w \in Worlds
      BY <1>1
    <3>3. found \in Inos \cup {None}
      BY <1>5
    <3> QED BY <3>1, <3>2, <3>3, WorldPath
  <2>3. found \in Inos \ {rootIndex} /\ w.inode[found].type # "NONE"
    BY <1>1, <1>5, <1>10, NameOf
  <2>4. /\ u \in Worlds /\ u.inode = w.inode /\ u.handles = w.handles /\ \A q \in Paths : u.paths[q] = IF q = p THEN found ELSE w.paths[q]
        /\ \A i \in Inos : u.files[i] = IF i = found /\ w.files[i] = NoFile THEN perms ELSE w.files[i]
    <3>1. CASE v.files[found] = NoFile
      <4>1. u = SetFile(v, found, perms)
        BY <3>1 DEF inodeToFile, SetFile
      <4>2. u \in Worlds /\ u.inode = v.inode /\ u.handles = v.handles /\ u.paths = v.paths
            /\ \A k \in Inos : u.files[k] = IF k = found THEN perms ELSE v.files[k]
        <5>1. v \in Worlds /\ found \in Inos /\ perms \in Seq(Inos) \cup {NoFile}
          BY <1>7, <2>2, <2>3
        <5> HIDE DEF u
        <5> QED BY <4>1, <5>1, WorldFile
      <4> HIDE DEF u
      <4> QED BY <1>1, <2>2, <2>3, <3>1, <4>2
    <3>2. CASE v.files[found] # NoFile
      <4>1. u = v
        BY <3>2 DEF inodeToFile
      <4> HIDE DEF u
      <4> QED BY <1>1, <2>2, <2>3, <3>2, <4>1
    <3> QED BY <3>1, <3>2
  <2> HIDE DEF u
  <2>5. u.files[found] # NoFile
    BY <1>7, <2>3, <2>4
  <2>6. Good(u)
    <3>1. \A q \in Paths : u.paths[q] = IF q = p THEN found ELSE w.paths[q]
      BY <2>4
    <3>2. u.files[rootIndex] = <<>>
      BY <1>1, <1>2, <2>3, <2>4 DEF Cached
    <3>3. ASSUME NEW q \in Paths, u.paths[q] # None
          PROVE  u.paths[q] \in {w.paths[q], Res(w.inode, q)} /\ u.files[u.paths[q]] # NoFile
      <4>1. CASE q = p
        BY <1>5, <2>5, <3>1, <4>1
      <4>2. CASE q # p
        <5>1. u.paths[q] = w.paths[q] /\ w.files[w.paths[q]] # NoFile /\ w.paths[q] \in Inos
          BY <1>1, <3>1, <3>3, <4>2 DEF Cached
        <5> QED BY <2>4, <5>1
      <4> QED BY <4>1, <4>2
    <3>4. \A i \in Inos : u.files[i] # NoFile => w.files[i] # NoFile \/ w.inode[i].type # "NONE"
      BY <2>3, <2>4
    <3> QED BY <2>4, <3>2, <3>3, <3>4, GoodCache
  <2>7. \A q \in Paths \ P : u.paths[q] = w.paths[q]
    BY <1>1, <2>4
  <2>8. ASSUME NEW i \in Inos, u.files[i] # w.files[i]
        PROVE  w.files[i] = NoFile /\ \E q \in P \cap Paths : Opened(w, u, q, i)
    <3>1. i = found /\ w.files[i] = NoFile /\ u.files[i] = perms
      BY <2>4, <2>8
    <3>2. u.files[d] = w.files[d]
      BY <2>4
    <3>3. Opened(w, u, p, i)
      BY <1>5, <3>1, <3>2 DEF Opened, perms
    <3> QED BY <3>1, <3>3
  <2>9. Warms(w, u, P)
    BY <2>4, <2>6, <2>7, <2>8 DEF Warms
  <2> QED BY <1>5, <2>1, <2>5, <2>9
<1> QED BY <1>8, <1>9, <1>10

(* What has been found of a path.                                          *)
Open1(w, v, path, k) ==
  \A j \in 0 .. k : Res(w.inode, Part(path, j)) # None => v.files[Res(w.inode, Part(path, j))] # NoFile

FoundTo(w, path, k, x) ==
  /\ x.ino = Res(w.inode, Part(path, k)) /\ Warms(w, x.w, Leading(path))
  /\ Open1(w, x.w, path, k)

LEMMA FoundStep ==
  ASSUME NEW w, Good(w), NEW path \in AllPaths, NEW k \in 1 .. Len(path),
         NEW x, Warms(w, x.w, Leading(path)), Open1(w, x.w, path, k - 1),
         x.ino = Res(w.inode, Part(path, k - 1)), x.ino # None,
         NEW g, g = GetChild(x.w, SubSeq(path, 1, k), x.ino)
  PROVE  /\ g.ino = Res(w.inode, Part(path, k)) /\ Warms(w, g.w, Leading(path)) /\ Open1(w, g.w, path, k)
         /\ g.w \in Worlds /\ g.ino \in Inos \cup {None}
<1> DEFINE p == Part(path, k)
<1>1. Len(path) \in Nat /\ k \in 0 .. Len(path) /\ k # 0 /\ k - 1 \in 0 .. Len(path)
  BY AnyPath
<1>2. p \in Paths /\ Front(p) = Part(path, k - 1) /\ p \in AllPaths /\ Len(p) = k /\ p = SubSeq(path, 1, k)
  BY <1>1, PartFacts DEF Part
<1> HIDE DEF p
<1>3. p \in Leading(path)
  BY <1>1, <1>2, PrefixIsPart DEF Leading, p
<1>4. Good(x.w) /\ x.w.inode = w.inode /\ w.inode \in Nodes
  BY WorldFields DEF Warms, Good
<1>5. x.ino \in Inos /\ x.ino = Res(w.inode, Front(p)) /\ x.w.files[x.ino] # NoFile
  <2>1. Part(path, k - 1) \in AllPaths
    BY <1>1, PartFacts
  <2>2. x.ino \in Inos
    BY <1>4, <2>1, ResStep
  <2>3. k - 1 \in 0 .. k - 1
    BY <1>1
  <2> QED BY <1>2, <2>2, <2>3 DEF Open1
<1> DEFINE v == x.w
           d == x.ino
<1>6. /\ Good(v) /\ d \in Inos /\ d = Res(v.inode, Front(p)) /\ v.files[d] # NoFile /\ v.inode = w.inode
      /\ g = GetChild(v, p, d)
  BY <1>2, <1>4, <1>5
<1> HIDE DEF v, d
<1>7. g.ino = Res(v.inode, p) /\ Warms(v, g.w, Leading(path)) /\ (g.ino # None => g.w.files[g.ino] # NoFile)
  BY <1>2, <1>3, <1>6, ChildIs
<1>8. Warms(w, g.w, Leading(path))
  BY <1>7, WarmsBoth DEF v
<1>9. Open1(w, g.w, path, k)
  <2> SUFFICES ASSUME NEW j \in 0 .. k, NEW i, i = Res(w.inode, Part(path, j)), i # None
               PROVE  g.w.files[i] # NoFile
    BY DEF Open1
  <2>1. CASE j = k
    BY <1>6, <1>7, <2>1 DEF p
  <2>2. CASE j # k
    <3>1. j \in 0 .. k - 1 /\ j \in 0 .. Len(path)
      BY <1>1, <2>2
    <3>2. v.files[i] # NoFile
      BY <3>1 DEF Open1, v
    <3>3. i \in Inos
      <4>1. Part(path, j) \in AllPaths
        BY <3>1, PartFacts
      <4> QED BY <1>4, <4>1, ResStep
    <3>4. g.w.files[i] = v.files[i]
      BY <1>7, <3>2, <3>3, WarmsKeep
    <3> QED BY <3>2, <3>4
  <2> QED BY <2>1, <2>2
<1>10. g.w \in Worlds
  BY <1>8 DEF Warms, Good
<1>11. g.ino \in Inos \cup {None}
  BY <1>2, <1>4, <1>6, <1>7, ResStep
<1> QED BY <1>6, <1>7, <1>8, <1>9, <1>10, <1>11 DEF p

LEMMA Found0 ==
  ASSUME NEW w, Good(w), NEW path \in AllPaths
  PROVE  rootIndex = Res(w.inode, Part(path, 0)) /\ Warms(w, w, Leading(path)) /\ Open1(w, w, path, 0)
         /\ rootIndex \in Inos /\ w \in Worlds /\ None \notin Inos
<1>1. w.inode \in Nodes /\ Cached(w) /\ w \in Worlds /\ rootIndex \in Inos /\ NoFile \notin Seq(Inos) /\ None \notin Inos
  BY WorldFields, NamespaceAssumption DEF Good
<1>2. Part(path, 0) = RootPath
  <2>1. 0 \in 0 .. Len(path)
    BY AnyPath
  <2> QED BY <2>1, PartFacts
<1>3. Res(w.inode, Part(path, 0)) = rootIndex
  BY <1>1, <1>2, ResStep
<1>4. w.files[rootIndex] # NoFile
  <2>1. <<>> \in Seq(Inos) /\ w.files[rootIndex] = <<>>
    BY <1>1 DEF Cached
  <2> QED BY <1>1, <2>1
<1> QED BY <1>1, <1>3, <1>4, WarmsSelf DEF Open1

GetTo(w, path) ==
  CHOOSE upTo : upTo = [k \in 0 .. Len(path) |->
        IF k = 0 THEN [w |-> w, ino |-> rootIndex]
        ELSE LET g == upTo[k - 1] IN
             IF g.ino = None THEN g ELSE GetChild(g.w, SubSeq(path, 1, k), g.ino)]

LEMMA FoundNone ==
  ASSUME NEW w, Good(w), NEW path \in AllPaths, NEW k \in 1 .. Len(path),
         NEW v, Open1(w, v, path, k - 1), Res(w.inode, Part(path, k - 1)) = None
  PROVE  Res(w.inode, Part(path, k)) = None /\ Open1(w, v, path, k)
<1>1. Len(path) \in Nat /\ k \in 0 .. Len(path) /\ k # 0 /\ w.inode \in Nodes
  BY AnyPath, WorldFields DEF Good
<1>2. Part(path, k) \in Paths /\ Front(Part(path, k)) = Part(path, k - 1)
  BY <1>1, PartFacts
<1>3. Res(w.inode, Part(path, k)) = None
  BY <1>1, <1>2, ResStep
<1>4. \A j \in 0 .. k : j = k \/ j \in 0 .. k - 1
  BY <1>1
<1> QED BY <1>3, <1>4 DEF Open1

(* get finds what is there.                                                *)
LEMMA GetIs ==
  ASSUME NEW w, Good(w), NEW path \in AllPaths, NEW g, g = Get(w, path)
  PROVE  /\ g.ino = Res(w.inode, path) /\ Warms(w, g.w, Leading(path))
         /\ \A q \in Leading(path) : Res(w.inode, q) # None => g.w.files[Res(w.inode, q)] # NoFile
<1> DEFINE n == Len(path)
           V == [w : Worlds, ino : Inos \cup {None}]
           Next1(x, k) == IF x.ino = None THEN x ELSE GetChild(x.w, SubSeq(path, 1, k), x.ino)
           Init1 == [w |-> w, ino |-> rootIndex]
           Body(f) == [k \in 0 .. n |-> IF k = 0 THEN Init1 ELSE Next1(f[k - 1], k)]
           step == [c \in (1 .. n) \X V |->
                      IF FoundTo(w, path, c[1] - 1, c[2]) THEN
                        [w |-> Next1(c[2], c[1]).w, ino |-> Next1(c[2], c[1]).ino] ELSE c[2]]
<1>1. n \in Nat
  BY AnyPath
<1>2. FoundTo(w, path, 0, Init1) /\ Init1 \in V
  BY Found0 DEF FoundTo
<1>3. ASSUME NEW k \in 1 .. n, NEW x \in V, FoundTo(w, path, k - 1, x)
      PROVE  /\ FoundTo(w, path, k, Next1(x, k))
             /\ Next1(x, k).w \in Worlds /\ Next1(x, k).ino \in Inos \cup {None}
             /\ Next1(x, k) = [w |-> Next1(x, k).w, ino |-> Next1(x, k).ino]
  <2>1. CASE x.ino = None
    <3>1. Next1(x, k) = x
      BY <2>1
    <3>2. FoundTo(w, path, k, x)
      BY <1>3, <2>1, FoundNone DEF FoundTo
    <3>3. x.w \in Worlds /\ x.ino \in Inos \cup {None} /\ x = [w |-> x.w, ino |-> x.ino]
      OBVIOUS
    <3> HIDE DEF Next1
    <3> QED BY <3>1, <3>2, <3>3
  <2>2. CASE x.ino # None
    <3> DEFINE y == GetChild(x.w, SubSeq(path, 1, k), x.ino)
    <3>1. Next1(x, k) = y
      BY <2>2
    <3>2. y = [w |-> y.w, ino |-> y.ino]
      BY DEF GetChild
    <3>3. /\ y.ino = Res(w.inode, Part(path, k)) /\ Warms(w, y.w, Leading(path)) /\ Open1(w, y.w, path, k)
          /\ y.w \in Worlds /\ y.ino \in Inos \cup {None}
      BY <1>3, <2>2, FoundStep DEF FoundTo
    <3> HIDE DEF y, Next1
    <3> QED BY <3>1, <3>2, <3>3 DEF FoundTo
  <2> QED BY <2>1, <2>2
<1>4. step \in Steps(n, V)
  <2> HIDE DEF Next1, Init1
  <2>1. ASSUME NEW k \in 1 .. n, NEW x \in V
        PROVE  (IF FoundTo(w, path, k - 1, x) THEN [w |-> Next1(x, k).w, ino |-> Next1(x, k).ino] ELSE x) \in V
    BY <1>3
  <2> QED BY <2>1 DEF Steps
<1>5. PICK h \in [0 .. n -> V] : h[0] = Init1 /\ \A k \in 1 .. n : h[k] = step[<<k, h[k - 1]>>]
  <2> HIDE DEF step, n, Init1, Next1, Body, V
  <2> QED BY <1>1, <1>2, <1>4, Recursion
<1> HIDE DEF Next1, Init1
<1>6. \A k \in 0 .. n : FoundTo(w, path, k, h[k]) /\ (k # 0 => h[k] = Next1(h[k - 1], k))
  <2> DEFINE S == {k \in 0 .. n : FoundTo(w, path, k, h[k]) /\ (k # 0 => h[k] = Next1(h[k - 1], k))}
  <2>1. 0 \in S
    BY <1>1, <1>2, <1>5
  <2>2. ASSUME NEW k \in 1 .. n, k - 1 \in S PROVE k \in S
    <3>1. k - 1 \in 0 .. n /\ k \in 0 .. n /\ h[k - 1] \in V /\ FoundTo(w, path, k - 1, h[k - 1])
      BY <1>1, <1>5, <2>2
    <3> DEFINE x == h[k - 1]
    <3>2. x \in V /\ FoundTo(w, path, k - 1, x)
      BY <3>1
    <3> HIDE DEF x
    <3>3. step[<<k, x>>] = [w |-> Next1(x, k).w, ino |-> Next1(x, k).ino]
      BY <3>2
    <3>4. h[k] = step[<<k, x>>]
      BY <1>5 DEF x
    <3>5. h[k] = Next1(x, k) /\ FoundTo(w, path, k, Next1(x, k))
      <4> HIDE DEF step, V
      <4> QED BY <1>3, <3>2, <3>3, <3>4
    <3> QED BY <3>1, <3>5 DEF x
  <2> HIDE DEF S, n
  <2>3. \A k \in 0 .. n : k \in S
    BY <1>1, <2>1, <2>2, UpTo
  <2> QED BY <2>3 DEF S
<1>7. h = Body(h)
  <2> HIDE DEF step, V
  <2>1. ASSUME NEW k \in 0 .. n PROVE h[k] = Body(h)[k]
    BY <1>5, <1>6
  <2> QED BY <1>5, <2>1
<1> DEFINE f == GetTo(w, path)
<1>8. f = Body(f)
  <2>1. f = CHOOSE up : up = Body(up)
    BY DEF GetTo, Next1, Init1
  <2> HIDE DEF Body, f
  <2> QED BY <1>7, <2>1
<1>9. g = f[n]
  BY DEF Get, GetTo
<1> HIDE DEF f
<1>10. f[0] = Init1 /\ \A k \in 1 .. n : f[k] = Next1(f[k - 1], k)
  <2> HIDE DEF n
  <2>1. 0 \in 0 .. n /\ \A k \in 1 .. n : k \in 0 .. n /\ k # 0
    BY <1>1
  <2>2. Body(f)[0] = Init1 /\ \A k \in 1 .. n : Body(f)[k] = Next1(f[k - 1], k)
    BY <2>1
  <2> HIDE DEF Body
  <2> QED BY <1>8, <2>2
<1>11. f[n] = h[n]
  <2> DEFINE S == {k \in 0 .. n : f[k] = h[k]}
  <2>1. 0 \in S
    BY <1>1, <1>5, <1>10
  <2>2. ASSUME NEW k \in 1 .. n, k - 1 \in S PROVE k \in S
    <3>1. k \in 0 .. n /\ k # 0
      BY <1>1
    <3> QED BY <1>6, <1>10, <2>2, <3>1
  <2> HIDE DEF S, n
  <2>3. \A k \in 0 .. n : k \in S
    BY <1>1, <2>1, <2>2, UpTo
  <2> QED BY <1>1, <2>3 DEF S
<1>12. FoundTo(w, path, n, g) /\ Part(path, n) = path
  <2>1. n \in 0 .. n
    BY <1>1
  <2> QED BY <1>6, <1>9, <1>11, <2>1, PartFacts
<1>13. ASSUME NEW q \in Leading(path), Res(w.inode, q) # None PROVE g.w.files[Res(w.inode, q)] # NoFile
  <2>1. Len(q) \in 0 .. n /\ q = Part(path, Len(q))
    BY PrefixIsPart DEF Leading
  <2> QED BY <1>12, <1>13, <2>1 DEF FoundTo, Open1
<1> QED BY <1>12, <1>13 DEF FoundTo

(* The kernel finds what is there, as far as it may search.                *)
LookTo(w, ctx, path) ==
  CHOOSE upTo : upTo = [k \in 0 .. Len(path) |->
        IF k = 0 THEN [w |-> w, ino |-> rootIndex, answer |-> "ok"]
        ELSE LET g == upTo[k - 1]
                 n == GetChild(g.w, SubSeq(path, 1, k), g.ino) IN
             IF g.answer # "ok" THEN g
             ELSE IF n.ino = None THEN [w |-> n.w, ino |-> None, answer |-> "ENOENT"]
             ELSE IF ~validate_access(n.w, n.ino, ctx, {}, {"X"}, FALSE)
               THEN [w |-> n.w, ino |-> None, answer |-> "EACCES"]
             ELSE [w |-> n.w, ino |-> n.ino, answer |-> "ok"]]

LookedTo(w, ctx, path, k, x) ==
  /\ Warms(w, x.w, Leading(path))
  /\ x.answer = "ok" => x.ino = Res(w.inode, Part(path, k)) /\ x.ino # None /\ Open1(w, x.w, path, k)
  /\ x.answer # "ok" => x.ino = None
  /\ x.answer = "ENOENT" => Res(w.inode, Part(path, k)) = None
  /\ x.answer = "EACCES" => ctx.uid # superuser

LEMMA LookUpIs ==
  ASSUME NEW w, Good(w), NEW ctx, NEW path \in AllPaths, NEW g, g = LookUp(w, ctx, path)
  PROVE  /\ Warms(w, g.w, Leading(path)) /\ g.answer \in {"ok", "ENOENT", "EACCES"}
         /\ g.answer = "ok" => /\ g.ino = Res(w.inode, path) /\ g.ino # None
                               /\ \A q \in Leading(path) : Res(w.inode, q) # None => g.w.files[Res(w.inode, q)] # NoFile
         /\ g.answer # "ok" => g.ino = None
         /\ g.answer = "ENOENT" => Res(w.inode, path) = None
         /\ g.answer = "EACCES" => ctx.uid # superuser
<1> DEFINE n == Len(path)
           V == [w : Worlds, ino : Inos \cup {None}, answer : {"ok", "ENOENT", "EACCES"}]
           Seen(y) == IF y.ino = None THEN [w |-> y.w, ino |-> None, answer |-> "ENOENT"]
                      ELSE IF ~validate_access(y.w, y.ino, ctx, {}, {"X"}, FALSE)
                        THEN [w |-> y.w, ino |-> None, answer |-> "EACCES"]
                      ELSE [w |-> y.w, ino |-> y.ino, answer |-> "ok"]
           Next1(x, k) == IF x.answer # "ok" THEN x ELSE Seen(GetChild(x.w, SubSeq(path, 1, k), x.ino))
           Init1 == [w |-> w, ino |-> rootIndex, answer |-> "ok"]
           Body(f) == [k \in 0 .. n |-> IF k = 0 THEN Init1 ELSE Next1(f[k - 1], k)]
           step == [c \in (1 .. n) \X V |->
                      IF LookedTo(w, ctx, path, c[1] - 1, c[2]) THEN Next1(c[2], c[1]) ELSE c[2]]
<1>1. n \in Nat
  BY AnyPath
<1>2. LookedTo(w, ctx, path, 0, Init1) /\ Init1 \in V
  BY Found0 DEF LookedTo
<1>3. ASSUME NEW k \in 1 .. n, NEW x \in V, LookedTo(w, ctx, path, k - 1, x)
      PROVE  LookedTo(w, ctx, path, k, Next1(x, k)) /\ Next1(x, k) \in V
  <2>1. CASE x.answer # "ok"
    <3>1. Next1(x, k) = x
      BY <2>1
    <3>2. Res(w.inode, Part(path, k - 1)) = None => Res(w.inode, Part(path, k)) = None
      <4>1. Len(path) \in Nat /\ k \in 0 .. Len(path) /\ k # 0 /\ w.inode \in Nodes
        BY AnyPath, WorldFields DEF Good
      <4>2. Part(path, k) \in Paths /\ Front(Part(path, k)) = Part(path, k - 1)
        BY <4>1, PartFacts
      <4> QED BY <4>1, <4>2, ResStep
    <3>3. LookedTo(w, ctx, path, k, x)
      BY <1>3, <2>1, <3>2 DEF LookedTo
    <3> HIDE DEF Next1
    <3> QED BY <3>1, <3>3
  <2>2. CASE x.answer = "ok"
    <3> DEFINE y == GetChild(x.w, SubSeq(path, 1, k), x.ino)
    <3>1. Next1(x, k) = Seen(y)
      BY <2>2
    <3>2. /\ y.ino = Res(w.inode, Part(path, k)) /\ Warms(w, y.w, Leading(path)) /\ Open1(w, y.w, path, k)
          /\ y.w \in Worlds /\ y.ino \in Inos \cup {None}
      BY <1>3, <2>2, FoundStep DEF LookedTo
    <3>3. ctx.uid = superuser => validate_access(y.w, y.ino, ctx, {}, {"X"}, FALSE)
      BY DEF validate_access, ValidateAccess
    <3> HIDE DEF y, Next1
    <3>4. CASE y.ino = None
      <4>1. Seen(y) = [w |-> y.w, ino |-> None, answer |-> "ENOENT"]
        BY <3>4
      <4> HIDE DEF Seen
      <4> QED BY <3>1, <3>2, <3>4, <4>1 DEF LookedTo
    <3>5. CASE y.ino # None /\ ~validate_access(y.w, y.ino, ctx, {}, {"X"}, FALSE)
      <4>1. Seen(y) = [w |-> y.w, ino |-> None, answer |-> "EACCES"]
        BY <3>5
      <4>2. ctx.uid # superuser
        BY <3>3, <3>5
      <4> HIDE DEF Seen
      <4> QED BY <3>1, <3>2, <4>1, <4>2 DEF LookedTo
    <3>6. CASE y.ino # None /\ validate_access(y.w, y.ino, ctx, {}, {"X"}, FALSE)
      <4>1. Seen(y) = [w |-> y.w, ino |-> y.ino, answer |-> "ok"]
        BY <3>6
      <4> HIDE DEF Seen
      <4> QED BY <3>1, <3>2, <3>6, <4>1 DEF LookedTo
    <3> QED BY <3>4, <3>5, <3>6
  <2> QED BY <2>1, <2>2
<1> HIDE DEF Next1, Init1, Seen
<1>4. step \in Steps(n, V)
  <2>1. ASSUME NEW k \in 1 .. n, NEW x \in V
        PROVE  (IF LookedTo(w, ctx, path, k - 1, x) THEN Next1(x, k) ELSE x) \in V
    BY <1>3
  <2> QED BY <2>1 DEF Steps
<1>5. PICK h \in [0 .. n -> V] : h[0] = Init1 /\ \A k \in 1 .. n : h[k] = step[<<k, h[k - 1]>>]
  <2> HIDE DEF step, n, Body, V
  <2> QED BY <1>1, <1>2, <1>4, Recursion
<1>6. \A k \in 0 .. n : LookedTo(w, ctx, path, k, h[k]) /\ (k # 0 => h[k] = Next1(h[k - 1], k))
  <2> DEFINE S == {k \in 0 .. n : LookedTo(w, ctx, path, k, h[k]) /\ (k # 0 => h[k] = Next1(h[k - 1], k))}
  <2>1. 0 \in S
    BY <1>1, <1>2, <1>5
  <2>2. ASSUME NEW k \in 1 .. n, k - 1 \in S PROVE k \in S
    <3>1. k - 1 \in 0 .. n /\ k \in 0 .. n /\ h[k - 1] \in V /\ LookedTo(w, ctx, path, k - 1, h[k - 1])
      BY <1>1, <1>5, <2>2
    <3> DEFINE x == h[k - 1]
    <3>2. x \in V /\ LookedTo(w, ctx, path, k - 1, x)
      BY <3>1
    <3> HIDE DEF x
    <3>3. step[<<k, x>>] = Next1(x, k)
      BY <3>2
    <3>4. h[k] = step[<<k, x>>]
      BY <1>5 DEF x
    <3>5. h[k] = Next1(x, k) /\ LookedTo(w, ctx, path, k, Next1(x, k))
      <4> HIDE DEF step, V
      <4> QED BY <1>3, <3>2, <3>3, <3>4
    <3> QED BY <3>1, <3>5 DEF x
  <2> HIDE DEF S, n
  <2>3. \A k \in 0 .. n : k \in S
    BY <1>1, <2>1, <2>2, UpTo
  <2> QED BY <2>3 DEF S
<1>7. h = Body(h)
  <2> HIDE DEF step, V
  <2>1. ASSUME NEW k \in 0 .. n PROVE h[k] = Body(h)[k]
    BY <1>5, <1>6
  <2> QED BY <1>5, <2>1
<1> DEFINE f == LookTo(w, ctx, path)
<1>8. f = Body(f)
  <2>1. f = CHOOSE up : up = Body(up)
    BY DEF LookTo, Next1, Init1, Seen
  <2> HIDE DEF Body, f
  <2> QED BY <1>7, <2>1
<1>9. g = f[n]
  BY DEF LookUp, LookTo
<1> HIDE DEF f
<1>10. f[0] = Init1 /\ \A k \in 1 .. n : f[k] = Next1(f[k - 1], k)
  <2> HIDE DEF n
  <2>1. 0 \in 0 .. n /\ \A k \in 1 .. n : k \in 0 .. n /\ k # 0
    BY <1>1
  <2>2. Body(f)[0] = Init1 /\ \A k \in 1 .. n : Body(f)[k] = Next1(f[k - 1], k)
    BY <2>1
  <2> HIDE DEF Body
  <2> QED BY <1>8, <2>2
<1>11. f[n] = h[n]
  <2> DEFINE S == {k \in 0 .. n : f[k] = h[k]}
  <2>1. 0 \in S
    BY <1>1, <1>5, <1>10
  <2>2. ASSUME NEW k \in 1 .. n, k - 1 \in S PROVE k \in S
    <3>1. k \in 0 .. n /\ k # 0
      BY <1>1
    <3> QED BY <1>6, <1>10, <2>2, <3>1
  <2> HIDE DEF S, n
  <2>3. \A k \in 0 .. n : k \in S
    BY <1>1, <2>1, <2>2, UpTo
  <2> QED BY <1>1, <2>3 DEF S
<1>12. LookedTo(w, ctx, path, n, g) /\ Part(path, n) = path /\ g \in V
  <2>1. n \in 0 .. n
    BY <1>1
  <2>2. h[n] \in V
    <3> HIDE DEF V
    <3> QED BY <1>5, <2>1
  <2> HIDE DEF V
  <2> QED BY <1>6, <1>9, <1>11, <2>1, <2>2, PartFacts
<1>13. g.answer = "ok" => \A q \in Leading(path) : Res(w.inode, q) # None => g.w.files[Res(w.inode, q)] # NoFile
  <2> SUFFICES ASSUME g.answer = "ok", NEW q \in Leading(path), Res(w.inode, q) # None
               PROVE  g.w.files[Res(w.inode, q)] # NoFile
    OBVIOUS
  <2>1. Len(q) \in 0 .. n /\ q = Part(path, Len(q))
    BY PrefixIsPart DEF Leading
  <2>2. Open1(w, g.w, path, n)
    BY <1>12 DEF LookedTo
  <2> QED BY <2>1, <2>2 DEF Open1
<1>14. g.answer \in {"ok", "ENOENT", "EACCES"}
  BY <1>12
<1> HIDE DEF V
<1> QED BY <1>12, <1>13, <1>14 DEF LookedTo

-----------------------------------------------------------------------------
(* pathPermissions and access.                                             *)
FreshIn(w) ==
  \A p \in Paths : LET i == Res(w.inode, p) IN
    i # None => w.files[i] \in {NoFile, Front(Trail(w.inode, p))}

LEMMA TrailParts ==
  ASSUME NEW t \in Trails
  PROVE  t = Append(Front(t), Last(t))
<1>1. Len(t) \in Nat \ {0} /\ t \in Seq(Inos \cup {None})
  BY DEF Trails
<1> DEFINE f == SubSeq(t, 1, Len(t) - 1)
<1>2. f \in Seq(Inos \cup {None}) /\ Len(f) = Len(t) - 1 /\ \A j \in 1 .. Len(t) - 1 : f[j] = t[j]
  BY <1>1, SubSeqProperties
<1>3. Front(t) = f /\ Last(t) = t[Len(t)]
  BY DEF Front, Last
<1> HIDE DEF f
<1>4. t[Len(t)] \in Inos \cup {None}
  BY <1>1
<1> DEFINE u == Append(f, t[Len(t)])
<1>5. u \in Seq(Inos \cup {None}) /\ Len(u) = Len(t) /\ \A j \in 1 .. Len(t) : u[j] = t[j]
  <2>1. u \in Seq(Inos \cup {None}) /\ Len(u) = Len(f) + 1 /\ u[Len(f) + 1] = t[Len(t)] /\ \A j \in 1 .. Len(f) : u[j] = f[j]
    BY <1>2, <1>4
  <2> HIDE DEF u
  <2>2. Len(u) = Len(t)
    BY <1>1, <1>2, <2>1
  <2>3. ASSUME NEW j \in 1 .. Len(t) PROVE u[j] = t[j]
    <3>1. CASE j = Len(t)
      <4>1. Len(f) + 1 = Len(t)
        BY <1>1, <1>2
      <4> QED BY <2>1, <3>1, <4>1
    <3>2. CASE j # Len(t)
      <4>1. j \in 1 .. Len(t) - 1 /\ j \in 1 .. Len(f)
        BY <1>1, <1>2, <3>2
      <4> QED BY <1>2, <2>1, <4>1
    <3> QED BY <3>1, <3>2
  <2> QED BY <2>1, <2>2, <2>3
<1> HIDE DEF u
<1>6. u = t
  BY <1>1, <1>5, SeqEqual
<1> QED BY <1>3, <1>6 DEF u

(* What is opened along paths that lead to different files is listed right.*)
LEMMA FreshAlong ==
  ASSUME NEW w, Good(w), FreshIn(w), NEW P, FrontClosed(P), NEW v, Warms(w, v, P),
         \A q, r \in P : Res(w.inode, q) = Res(w.inode, r) /\ Res(w.inode, q) # None => q = r,
         \A q \in P : Res(w.inode, q) # None => v.files[Res(w.inode, q)] # NoFile
  PROVE  /\ \A q \in P : Res(w.inode, q) # None => v.files[Res(w.inode, q)] = Front(Trail(w.inode, q))
         /\ \A q \in P \cap Paths : Res(w.inode, q) # None =>
              v.files[Res(w.inode, q)] = Append(v.files[Res(w.inode, Front(q))], Res(w.inode, Front(q)))
<1> DEFINE node == w.inode
           S == {q \in AllPaths : q \in P /\ Res(node, q) # None => v.files[Res(node, q)] = Front(Trail(node, q))}
<1>1. node \in Nodes /\ WellFormed(node) /\ P \subseteq AllPaths /\ Good(v) /\ v.files[rootIndex] = <<>>
  BY WorldFields DEF Good, FrontClosed, Warms, Cached
<1> HIDE DEF node
<1>2. ASSUME NEW q \in P \cap Paths, Res(node, q) # None
      PROVE  Front(Trail(node, q)) = Append(Front(Trail(node, Front(q))), Res(node, Front(q)))
             /\ Res(node, Front(q)) # None /\ Front(q) \in P
  <2>1. Front(q) \in P /\ Front(q) \in AllPaths
    BY PathFacts DEF FrontClosed
  <2>2. Res(node, Front(q)) # None /\ Front(Trail(node, q)) = Trail(node, Front(q))
    BY <1>1, <1>2, ResStep
  <2>3. Trail(node, Front(q)) \in Trails
    BY <1>1, <2>1, TrailStep
  <2>4. Trail(node, Front(q)) = Append(Front(Trail(node, Front(q))), Res(node, Front(q)))
    BY <2>3, TrailParts DEF Res
  <2> QED BY <2>1, <2>2, <2>4
<1>3. RootPath \in S
  <2>1. Res(node, RootPath) = rootIndex /\ Trail(node, RootPath) = <<rootIndex>> /\ RootPath \in AllPaths
    BY <1>1, ResStep, TrailStep DEF AllPaths
  <2>2. Front(<<rootIndex>>) = <<>>
    <3>1. Len(<<rootIndex>>) = 1
      OBVIOUS
    <3>2. Front(<<rootIndex>>) = SubSeq(<<rootIndex>>, 1, 0)
      BY <3>1 DEF Front
    <3>3. <<rootIndex>> \in Seq(Inos)
      BY NamespaceAssumption
    <3>4. SubSeq(<<rootIndex>>, 1, 0) = <<>>
      BY <3>3, SubSeqProperties
    <3> QED BY <3>2, <3>4
  <2> QED BY <1>1, <2>1, <2>2
<1>4. ASSUME NEW q \in Paths, Front(q) \in S PROVE q \in S
  <2> SUFFICES ASSUME q \in P, NEW i, i = Res(node, q), i # None PROVE v.files[i] = Front(Trail(node, q))
    BY DEF AllPaths
  <2>1. q \in AllPaths /\ i \in Inos /\ v.files[i] # NoFile
    <3>1. q \in AllPaths
      BY DEF AllPaths
    <3> QED BY <1>1, <3>1, ResStep DEF node
  <2>2. CASE v.files[i] = w.files[i]
    <3>1. w.files[i] \in {NoFile, Front(Trail(node, q))}
      BY DEF FreshIn, node
    <3> QED BY <2>1, <2>2, <3>1
  <2>3. CASE v.files[i] # w.files[i]
    <3>1. PICK r \in P \cap Paths : Opened(w, v, r, i)
      BY <2>1, <2>3 DEF Warms
    <3>2. Res(node, r) = i /\ v.files[i] = Append(v.files[Res(node, Front(r))], Res(node, Front(r)))
      BY <3>1 DEF Opened, node
    <3>3. q = r
      BY <3>1, <3>2 DEF node
    <3>4. v.files[Res(node, Front(q))] = Front(Trail(node, Front(q)))
      BY <1>2, <1>4
    <3> QED BY <1>2, <3>2, <3>3, <3>4
  <2> QED BY <2>2, <2>3
<1>5. \A q \in AllPaths : q \in S
  <2> HIDE DEF S
  <2> QED BY <1>3, <1>4, PathInduction
<1>6. \A q \in P : Res(node, q) # None => v.files[Res(node, q)] = Front(Trail(node, q))
  BY <1>1, <1>5
<1>7. \A q \in P \cap Paths : Res(node, q) # None =>
        v.files[Res(node, q)] = Append(v.files[Res(node, Front(q))], Res(node, Front(q)))
  BY <1>2, <1>6
<1> QED BY <1>6, <1>7 DEF node

SameRights(a, b) == a.uid = b.uid /\ a.gid = b.gid /\ a.mode = b.mode

LEMMA GrantsSame ==
  ASSUME NEW a, NEW b, SameRights(a, b), NEW ctx, NEW want, Grants(a, ctx, want)
  PROVE  Grants(b, ctx, want)
BY DEF SameRights, Grants, ClassOf

(* Who may change the name of a file may change its directory.             *)
LEMMA MayInDir ==
  ASSUME NEW w \in Worlds, NEW v \in Worlds, NEW i \in Inos, NEW d \in Inos, NEW ctx, NEW D, "W" \in D, NEW s,
         w.files[d] \in Seq(Inos), w.files[i] = Append(w.files[d], d),
         validate_access(w, i, ctx, {}, D, s),
         v.files[d] = w.files[d], SameRights(w.inode[d], v.inode[d]),
         \A k \in DOMAIN w.files[d] : SameRights(w.inode[w.files[d][k]], v.inode[w.files[d][k]])
  PROVE  validate_access(v, d, ctx, {"W", "X"}, {}, FALSE)
<1> DEFINE l == w.files[d]
           n == Len(l)
           P == Perms(w, i)
           Q == Perms(v, d)
<1>1. n \in Nat /\ DOMAIN l = 1 .. n /\ l \in Seq(Inos)
  OBVIOUS
<1>2. /\ DOMAIN w.files[i] = 1 .. n + 1 /\ w.files[i][n + 1] = d
      /\ \A k \in 1 .. n : w.files[i][k] = l[k]
  BY <1>1
<1> HIDE DEF l, n
<1>3. /\ DOMAIN P = 1 .. n + 1 /\ P[n + 1] = w.inode[d]
      /\ \A k \in 1 .. n : P[k] = w.inode[l[k]]
  <2>1. P = [k \in 1 .. n + 1 |-> w.inode[w.files[i][k]]]
    BY <1>2 DEF Perms
  <2>2. n + 1 \in 1 .. n + 1 /\ \A k \in 1 .. n : k \in 1 .. n + 1
    BY <1>1
  <2> HIDE DEF P
  <2> QED BY <1>2, <2>1, <2>2
<1>4. DOMAIN Q = 1 .. n /\ \A k \in 1 .. n : Q[k] = v.inode[l[k]]
  <2>1. Q = [k \in 1 .. n |-> v.inode[l[k]]]
    BY <1>1 DEF Perms, l
  <2> HIDE DEF Q
  <2> QED BY <2>1
<1>5. P # <<>> /\ Len(P) = n + 1 /\ Last(P) = w.inode[d]
  <2>1. P = [k \in 1 .. n + 1 |-> w.inode[w.files[i][k]]]
    BY <1>2 DEF Perms
  <2>2. Len(P) = n + 1
    <3> HIDE DEF P
    <3>1. n + 1 \in Nat
      BY <1>1
    <3> QED BY <2>1, <3>1
  <2> HIDE DEF P
  <2>3. P # <<>>
    BY <1>1, <2>2
  <2> QED BY <1>3, <2>2, <2>3 DEF Last
<1>6. \/ ctx.uid = superuser
      \/ /\ \A k \in DOMAIN P : Grants(P[k], ctx, {"X"})
         /\ P # <<>> => Grants(Last(P), ctx, D)
  BY DEF validate_access, ValidateAccess
<1> SUFFICES ASSUME /\ \A k \in DOMAIN P : Grants(P[k], ctx, {"X"})
                    /\ P # <<>> => Grants(Last(P), ctx, D)
             PROVE  validate_access(v, d, ctx, {"W", "X"}, {}, FALSE)
  BY <1>6 DEF validate_access, ValidateAccess
<1> HIDE DEF P, Q
<1>7. ASSUME NEW k \in DOMAIN Q PROVE Grants(Q[k], ctx, {"X"})
  <2>1. k \in 1 .. n /\ k \in 1 .. n + 1
    BY <1>1, <1>4
  <2>2. Grants(w.inode[l[k]], ctx, {"X"})
    BY <1>3, <2>1
  <2>3. SameRights(w.inode[l[k]], v.inode[l[k]])
    BY <1>1, <2>1 DEF l
  <2>4. Grants(v.inode[l[k]], ctx, {"X"})
    BY <2>2, <2>3, GrantsSame
  <2> QED BY <1>4, <2>1, <2>4
<1>8. Grants(v.inode[d], ctx, {"W", "X"})
  <2>1. n + 1 \in 1 .. n + 1
    BY <1>1
  <2>2. Grants(w.inode[d], ctx, {"X"}) /\ Grants(w.inode[d], ctx, D)
    BY <1>3, <1>5, <2>1
  <2>3. Grants(w.inode[d], ctx, {"W", "X"})
    BY <2>2 DEF Grants
  <2> QED BY <2>3, GrantsSame
<1>9. Q # <<>> => Grants(Last(Q), ctx, {})
  BY DEF Grants
<1> QED BY <1>7, <1>8, <1>9 DEF validate_access, ValidateAccess, Q

-----------------------------------------------------------------------------
(* Calls that give a name.                                                 *)
SetInode(w, x) == [w EXCEPT !.inode = x]
PutEntry(node, d, n, i) == [node EXCEPT ![d].entries[n] = i]

LEMMA WorldInode ==
  ASSUME NEW w \in Worlds, NEW x, NEW v, v = SetInode(w, x)
  PROVE  /\ v.inode = x /\ v.paths = w.paths /\ v.files = w.files /\ v.handles = w.handles
         /\ x \in Nodes => v \in Worlds
<1> DEFINE A == Comps.inode
           B == Comps.paths
           C == Comps.files
           D == Comps.handles
<1>1. Worlds = [inode : A, paths : B, files : C, handles : D] /\ A = Nodes
  BY DEF Worlds, Comps, Nodes
<1>2. v = [w EXCEPT !.inode = x]
  BY DEF SetInode
<1> HIDE DEF A, B, C, D
<1>3. /\ v.inode = x /\ v.paths = w.paths /\ v.files = w.files /\ v.handles = w.handles
      /\ x \in A => v \in Worlds
  BY <1>1, <1>2, Record4
<1> QED BY <1>1, <1>3

LEMMA RawNodesMore ==
  ASSUME NEW node \in Nodes
  PROVE  node \in RawNodes
<1>1. Cardinality(Inos \X Names) \in Nat
  BY NamespaceAssumption, FS_Product, FS_CardinalityType
<1> DEFINE T == {"NONE", "DIR", "REG", "LNK"}
           N == 0 .. Cardinality(Inos \X Names)
           U == {c.uid : c \in Contexts \cup {Super}}
           G == {c.gid : c \in Contexts \cup {Super}}
           E == [Names -> Inos \cup {None}]
<1>2. NodeType = [type : T, nlinks : N, uid : U, gid : G, mode : ModeType, entries : E]
  BY DEF NodeType
<1>3. RawNodes = [Inos -> [type : T, nlinks : Nat, uid : U, gid : G, mode : ModeType, entries : E]]
  BY DEF RawNodes
<1>4. N \subseteq Nat
  BY <1>1
<1> HIDE DEF T, N, U, G, E
<1>5. NodeType \subseteq [type : T, nlinks : Nat, uid : U, gid : G, mode : ModeType, entries : E]
  BY <1>2, <1>4
<1> QED BY <1>3, <1>5 DEF Nodes

LEMMA RawFields ==
  ASSUME NEW r, r \in [type : {"NONE", "DIR", "REG", "LNK"}, nlinks : Nat,
            uid : {c.uid : c \in Contexts \cup {Super}}, gid : {c.gid : c \in Contexts \cup {Super}},
            mode : ModeType, entries : [Names -> Inos \cup {None}]]
  PROVE  /\ r.nlinks \in Nat
         /\ \A k \in Nat : [r EXCEPT !.nlinks = k] \in
              [type : {"NONE", "DIR", "REG", "LNK"}, nlinks : Nat,
               uid : {c.uid : c \in Contexts \cup {Super}}, gid : {c.gid : c \in Contexts \cup {Super}},
               mode : ModeType, entries : [Names -> Inos \cup {None}]]
         /\ \A k : LET x == [r EXCEPT !.nlinks = k] IN
              x.nlinks = k /\ x.type = r.type /\ x.entries = r.entries /\ SameRights(r, x)
<1> DEFINE T == {"NONE", "DIR", "REG", "LNK"}
           U == {c.uid : c \in Contexts \cup {Super}}
           G == {c.gid : c \in Contexts \cup {Super}}
           E == [Names -> Inos \cup {None}]
<1>1. r \in [type : T, nlinks : Nat, uid : U, gid : G, mode : ModeType, entries : E]
  OBVIOUS
<1> HIDE DEF T, U, G, E
<1>2. /\ r.nlinks \in Nat
      /\ \A k \in Nat : [r EXCEPT !.nlinks = k] \in [type : T, nlinks : Nat, uid : U, gid : G, mode : ModeType, entries : E]
  BY <1>1, Fields
<1>3. \A k : LET x == [r EXCEPT !.nlinks = k] IN
        x.nlinks = k /\ x.type = r.type /\ x.entries = r.entries /\ SameRights(r, x)
  BY <1>1 DEF SameRights
<1> QED BY <1>2, <1>3 DEF T, U, G, E

LEMMA CountIs ==
  ASSUME NEW node \in RawNodes, NEW i \in Inos, NEW k \in Nat, NEW node2, node2 = [node EXCEPT ![i].nlinks = k]
  PROVE  /\ node2 \in RawNodes /\ node2[i].nlinks = k
         /\ \A f \in Inos : /\ node2[f].type = node[f].type /\ node2[f].entries = node[f].entries /\ SameRights(node[f], node2[f])
                            /\ f # i => node2[f] = node[f]
<1> DEFINE R == [type : {"NONE", "DIR", "REG", "LNK"}, nlinks : Nat,
            uid : {c.uid : c \in Contexts \cup {Super}}, gid : {c.gid : c \in Contexts \cup {Super}},
            mode : ModeType, entries : [Names -> Inos \cup {None}]]
           x == [node[i] EXCEPT !.nlinks = k]
<1>1. RawNodes = [Inos -> R]
  BY DEF RawNodes
<1>2. node[i] \in R
  BY DEF RawNodes
<1>3. x \in R /\ x.nlinks = k /\ x.type = node[i].type /\ x.entries = node[i].entries /\ SameRights(node[i], x)
  BY <1>2, RawFields
<1>4. node2 = [node EXCEPT ![i] = x]
  OBVIOUS
<1> HIDE DEF R, x
<1>5. node2 \in RawNodes /\ \A f \in Inos : node2[f] = IF f = i THEN x ELSE node[f]
  BY <1>1, <1>3, <1>4
<1> QED BY <1>3, <1>5 DEF SameRights

LEMMA AddIs ==
  ASSUME NEW w \in Worlds, NEW d \in Inos, NEW n \in Names, NEW i \in Inos, NEW ctx, NEW a, a = addNode(w, d, n, i, ctx)
  PROVE  /\ a = [w |-> a.w, answer |-> a.answer]
         /\ a.answer \in {"ok", "exists", "EACCES"}
         /\ a.answer = "ok" => w.inode[d].entries[n] = None /\ a.w = SetInode(w, PutEntry(w.inode, d, n, i))
         /\ a.answer # "ok" => a.w = w
         /\ a.answer = "exists" => w.inode[d].entries[n] # None
<1>1. CASE ~validate_access(w, d, ctx, {"W", "X"}, {}, FALSE)
  <2>1. a = [w |-> w, answer |-> "EACCES"]
    BY <1>1 DEF addNode
  <2> QED BY <2>1
<1>2. CASE validate_access(w, d, ctx, {"W", "X"}, {}, FALSE) /\ w.inode[d].entries[n] # None
  <2>1. a = [w |-> w, answer |-> "exists"]
    BY <1>2 DEF addNode
  <2> QED BY <1>2, <2>1
<1>3. CASE validate_access(w, d, ctx, {"W", "X"}, {}, FALSE) /\ w.inode[d].entries[n] = None
  <2>1. a = [w |-> [w EXCEPT !.inode[d].entries[n] = i], answer |-> "ok"]
    BY <1>3 DEF addNode
  <2>2. [w EXCEPT !.inode[d].entries[n] = i] = SetInode(w, PutEntry(w.inode, d, n, i))
    BY DEF SetInode, PutEntry
  <2> QED BY <1>3, <2>1, <2>2
<1> QED BY <1>1, <1>2, <1>3

(* A change of the names X keeps what is cached, when nothing is at or     *)
(* below them in the cache.                                                *)
LEMMA TreeGood ==
  ASSUME NEW w, Good(w), NEW v \in Worlds, WellFormed(v.inode), NEW X \in SUBSET Paths,
         \A x \in X : Res(w.inode, Front(x)) # None /\ w.inode[Res(w.inode, Front(x))].type = "DIR",
         \A d \in Inos, n \in Names :
           v.inode[d].entries[n] # w.inode[d].entries[n] => \E x \in X : d = Res(w.inode, Front(x)) /\ n = Last(x),
         \A q \in Paths : v.paths[q] # None =>
           v.paths[q] = w.paths[q] /\ (\A x \in X : ~IsPrefix(x, q)) /\ v.files[v.paths[q]] # NoFile,
         v.files[rootIndex] = <<>>,
         \A i \in Inos : v.files[i] # NoFile => v.inode[i].type # "NONE"
  PROVE  Good(v)
<1>1. WellFormed(w.inode) /\ Cached(w) /\ v.inode \in Nodes
  BY WorldFields DEF Good
<1>2. \A p \in AllPaths : (\A x \in X : ~IsPrefix(x, p)) => Res(v.inode, p) = Res(w.inode, p)
  BY <1>1, TreeKept
<1>3. ASSUME NEW q \in Paths, v.paths[q] # None PROVE v.paths[q] = Res(v.inode, q) /\ v.files[v.paths[q]] # NoFile
  <2>1. q \in AllPaths
    BY DEF AllPaths
  <2>2. Res(v.inode, q) = Res(w.inode, q) /\ v.paths[q] = w.paths[q]
    BY <1>2, <1>3, <2>1
  <2>3. w.paths[q] = Res(w.inode, q)
    BY <1>1, <1>3, <2>2 DEF Cached
  <2> QED BY <1>3, <2>2, <2>3
<1> QED BY <1>3 DEF Good, Cached

(* A new name where nothing was.                                           *)
LEMMA NamedGood ==
  ASSUME NEW w, Good(w), NEW p \in Paths, NEW d, d = Res(w.inode, Front(p)), d \in Inos, w.inode[d].type = "DIR",
         Res(w.inode, p) = None, NEW i, NEW v \in Worlds, WellFormed(v.inode), Puts(w.inode, v.inode, d, Last(p), i),
         v.paths = w.paths, v.files = w.files, \A e \in Inos : w.inode[e].type # "NONE" => v.inode[e].type # "NONE"
  PROVE  Good(v)
<1>1. WellFormed(w.inode) /\ Cached(w) /\ w.inode \in Nodes /\ p \in AllPaths
  BY WorldFields DEF Good, AllPaths
<1> DEFINE X == {p}
<1>2. X \in SUBSET Paths /\ \A x \in X : Res(w.inode, Front(x)) # None /\ w.inode[Res(w.inode, Front(x))].type = "DIR"
  BY NamespaceAssumption
<1>3. \A e \in Inos, n \in Names :
        v.inode[e].entries[n] # w.inode[e].entries[n] => \E x \in X : e = Res(w.inode, Front(x)) /\ n = Last(x)
  BY DEF Puts
<1>4. ASSUME NEW q \in Paths, v.paths[q] # None
      PROVE  v.paths[q] = w.paths[q] /\ (\A x \in X : ~IsPrefix(x, q)) /\ v.files[v.paths[q]] # NoFile
  <2>1. w.paths[q] = Res(w.inode, q) /\ w.files[w.paths[q]] # NoFile /\ w.paths[q] # None /\ q \in AllPaths
    BY <1>1, <1>4 DEF Cached, AllPaths
  <2>2. ~IsPrefix(p, q)
    BY <1>1, <2>1, NoneBelow
  <2> QED BY <2>1, <2>2
<1>5. v.files[rootIndex] = <<>>
  BY <1>1 DEF Cached
<1>6. \A e \in Inos : v.files[e] # NoFile => v.inode[e].type # "NONE"
  BY <1>1 DEF Cached
<1> HIDE DEF X
<1> QED BY <1>2, <1>3, <1>4, <1>5, <1>6, TreeGood

LEMMA NewNodeType ==
  ASSUME NEW ctx \in Contexts \cup {Super}, NEW type \in {"DIR", "REG", "LNK"}, NEW mode \in ModeType, NEW r, r = NewNode(ctx, type, mode)
  PROVE  /\ r \in [type : {"NONE", "DIR", "REG", "LNK"}, nlinks : Nat,
                   uid : {c.uid : c \in Contexts \cup {Super}}, gid : {c.gid : c \in Contexts \cup {Super}},
                   mode : ModeType, entries : [Names -> Inos \cup {None}]]
         /\ r.type = type /\ r.nlinks = 1 /\ r.entries = Empty
<1> DEFINE T == {"NONE", "DIR", "REG", "LNK"}
           U == {c.uid : c \in Contexts \cup {Super}}
           G == {c.gid : c \in Contexts \cup {Super}}
           E == [Names -> Inos \cup {None}]
<1>1. type \in T /\ ctx.uid \in U /\ ctx.gid \in G /\ Empty \in E
  BY DEF Empty
<1>2. r = [type |-> type, nlinks |-> 1, uid |-> ctx.uid, gid |-> ctx.gid, mode |-> mode, entries |-> Empty]
  BY DEF NewNode
<1> HIDE DEF T, U, G, E
<1>3. r \in [type : T, nlinks : Nat, uid : U, gid : G, mode : ModeType, entries : E]
  BY <1>1, <1>2
<1> QED BY <1>2, <1>3 DEF T, U, G, E

(* mkobject creates the file, or changes nothing in the tree.              *)
LEMMA MakeIs ==
  ASSUME NEW w, Good(w), NEW p \in Paths, NEW d, d = Res(w.inode, Front(p)), d \in Inos, w.inode[d].type = "DIR",
         Res(w.inode, p) = None, NEW i \in Inos, w.inode[i].type = "NONE",
         NEW ctx \in Contexts \cup {Super}, NEW type \in {"DIR", "REG", "LNK"}, NEW mode \in ModeType,
         NEW r, r = mkobject(w, p, ctx, type, mode, i)
  PROVE  /\ Good(r.w) /\ r.w.handles = w.handles
         /\ r.w.inode = w.inode \/ Created(w.inode, r.w.inode, d, Last(p), i)
<1> DEFINE g == Get(w, getParentPath(p))
           n == Last(p)
           a == addNode(g.w, g.ino, getChildPath(p), i, ctx)
           u == [a.w EXCEPT !.inode[i] = NewNode(ctx, type, mode)]
<1>1. Front(p) \in AllPaths /\ n \in Names /\ p \in AllPaths
  BY PathFacts DEF AllPaths
<1>2. g.ino = d /\ Warms(w, g.w, Leading(Front(p)))
  <2>1. g = Get(w, Front(p))
    BY DEF getParentPath
  <2> HIDE DEF g
  <2> QED BY <1>1, <2>1, GetIs
<1>3. Good(g.w) /\ g.w.inode = w.inode /\ g.w.handles = w.handles /\ g.w \in Worlds /\ WellFormed(w.inode) /\ w.inode \in Nodes
  BY <1>2, WorldFields DEF Warms, Good
<1>4. r = IF a.answer = "ok" THEN [a EXCEPT !.w = Get([@ EXCEPT !.inode[i] = NewNode(ctx, type, mode)], p).w] ELSE a
  BY DEF mkobject
<1> DEFINE gw == g.w
<1>5. a = addNode(gw, d, n, i, ctx)
  BY <1>2 DEF getChildPath
<1>6. gw \in Worlds /\ Good(gw) /\ gw.inode = w.inode /\ gw.handles = w.handles
  BY <1>3
<1> HIDE DEF g, gw, a, n
<1>7. /\ a = [w |-> a.w, answer |-> a.answer]
      /\ a.answer = "ok" => w.inode[d].entries[n] = None /\ a.w = SetInode(gw, PutEntry(w.inode, d, n, i))
      /\ a.answer # "ok" => a.w = gw
  BY <1>1, <1>5, <1>6, AddIs
<1>8. CASE a.answer # "ok"
  BY <1>4, <1>6, <1>7, <1>8
<1>9. CASE a.answer = "ok"
  <2> DEFINE m == PutEntry(w.inode, d, n, i)
             nn == NewNode(ctx, type, mode)
             m2 == [m EXCEPT ![i] = nn]
  <2>1. r.w = Get(u, p).w
    <3>1. r = [a EXCEPT !.w = Get(u, p).w]
      BY <1>4, <1>9
    <3> HIDE DEF u
    <3> QED BY <1>7, <3>1
  <2>2. m \in Nodes /\ Puts(w.inode, m, d, n, i) /\ \A f \in Inos : m[f].type = w.inode[f].type /\ m[f].nlinks = w.inode[f].nlinks
    BY <1>1, <1>3, EntriesPut DEF PutEntry
  <2>3. i # d
    OBVIOUS
  <2>4. /\ nn \in [type : {"NONE", "DIR", "REG", "LNK"}, nlinks : Nat,
                   uid : {c.uid : c \in Contexts \cup {Super}}, gid : {c.gid : c \in Contexts \cup {Super}},
                   mode : ModeType, entries : [Names -> Inos \cup {None}]]
        /\ nn.type = type /\ nn.nlinks = 1 /\ nn.entries = Empty
    BY NewNodeType
  <2>5. a.w = SetInode(gw, m) /\ a.w.inode = m /\ a.w \in Worlds
    <3> HIDE DEF m
    <3>1. a.w = SetInode(gw, m)
      BY <1>7, <1>9 DEF m
    <3> QED BY <1>6, <2>2, <3>1, WorldInode
  <2>6. u = SetInode(a.w, m2)
    BY <2>5 DEF SetInode
  <2>7. u.inode = m2 /\ u.paths = gw.paths /\ u.files = gw.files /\ u.handles = gw.handles /\ (m2 \in Nodes => u \in Worlds)
    <3> DEFINE aw == a.w
    <3>1. aw = SetInode(gw, m) /\ u = SetInode(aw, m2) /\ aw \in Worlds
      BY <2>5, <2>6
    <3> HIDE DEF aw, u, m, m2
    <3>2. aw.paths = gw.paths /\ aw.files = gw.files /\ aw.handles = gw.handles
      BY <1>6, <3>1, WorldInode
    <3> QED BY <3>1, <3>2, WorldInode
  <2> HIDE DEF u, m, nn
  <2>8. m \in RawNodes
    BY <2>2, RawNodesMore
  <2>9. m2 \in RawNodes /\ \A f \in Inos : m2[f] = IF f = i THEN nn ELSE m[f]
    BY <2>4, <2>8 DEF RawNodes
  <2> HIDE DEF m2
  <2>10. w.inode[i].entries = Empty
    BY <1>3 DEF WellFormed
  <2>11. Puts(w.inode, m2, d, n, i)
    <3>1. ASSUME NEW e \in Inos, NEW k \in Names
          PROVE  m2[e].entries[k] = IF e = d /\ k = n THEN i ELSE w.inode[e].entries[k]
      <4>1. CASE e = i
        BY <2>3, <2>4, <2>9, <2>10, <4>1
      <4>2. CASE e # i
        <5>1. m2[e] = m[e]
          BY <2>9, <4>2
        <5> QED BY <2>2, <5>1 DEF Puts
      <4> QED BY <4>1, <4>2
    <3> QED BY <3>1 DEF Puts
  <2>12. Created(w.inode, m2, d, n, i)
    <3>1. KeepsBut(w.inode, m2, {i})
      BY <2>2, <2>9 DEF KeepsBut
    <3>2. m2[i].type # "NONE" /\ m2[i].nlinks = 1
      BY <2>4, <2>9
    <3>3. w.inode[d].entries[n] = None
      BY <1>7, <1>9
    <3> QED BY <1>1, <2>9, <2>11, <3>1, <3>2, <3>3 DEF Created
  <2>13. WellFormed(m2)
    BY <1>3, <2>12, CreatedTree
  <2>14. u \in Worlds
    BY <2>7, <2>13 DEF WellFormed, Nodes
  <2>15. Good(u)
    <3>1. \A e \in Inos : w.inode[e].type # "NONE" => m2[e].type # "NONE"
      BY <2>2, <2>4, <2>9
    <3>2. /\ d = Res(gw.inode, Front(p)) /\ gw.inode[d].type = "DIR" /\ Res(gw.inode, p) = None
          /\ WellFormed(u.inode) /\ Puts(gw.inode, u.inode, d, Last(p), i)
          /\ \A e \in Inos : gw.inode[e].type # "NONE" => u.inode[e].type # "NONE"
      BY <1>6, <2>7, <2>11, <2>13, <3>1 DEF n
    <3> QED BY <1>6, <2>7, <2>14, <3>2, NamedGood
  <2>16. Good(r.w) /\ r.w.inode = m2 /\ r.w.handles = w.handles
    <3> DEFINE h == Get(u, p)
    <3>1. Warms(u, h.w, Leading(p))
      BY <1>1, <2>15, GetIs
    <3>2. Good(h.w) /\ h.w.inode = u.inode /\ h.w.handles = u.handles
      BY <3>1 DEF Warms
    <3> HIDE DEF h
    <3> QED BY <1>6, <2>1, <2>7, <3>2 DEF h
  <2> QED BY <2>12, <2>16 DEF n
<1> QED BY <1>8, <1>9

(* hardlink gives a file another name and counts it, or changes nothing.   *)
LEMMA LinkIs ==
  ASSUME NEW w, Good(w), NEW t \in AllPaths, NEW i, i = Res(w.inode, t), i \in Inos, w.inode[i].type \in {"REG", "LNK"},
         NEW p \in Paths, NEW d, d = Res(w.inode, Front(p)), d \in Inos, w.inode[d].type = "DIR",
         Res(w.inode, p) = None, NEW ctx, NEW r, r = hardlink(w, t, p, ctx)
  PROVE  /\ Good(r.w) /\ r.w.handles = w.handles
         /\ r.answer = "ok" => Linked(w.inode, r.w.inode, d, Last(p), i)
         /\ r.answer # "ok" => r.w.inode = w.inode
<1> DEFINE f == Get(w, t)
           fw == f.w
           g == Get(fw, getParentPath(p))
           gw == g.w
           n == Last(p)
           a == addNode(gw, g.ino, getChildPath(p), f.ino, ctx)
           aw == a.w
<1>1. Front(p) \in AllPaths /\ n \in Names /\ p \in AllPaths
  BY PathFacts DEF AllPaths
<1>2. f.ino = i /\ Warms(w, f.w, Leading(t))
  <2> HIDE DEF f
  <2> QED BY GetIs DEF f
<1>3. Good(fw) /\ fw.inode = w.inode /\ fw.handles = w.handles
  BY <1>2 DEF Warms
<1>4. g.ino = d /\ Warms(fw, g.w, Leading(Front(p)))
  <2>1. g = Get(fw, Front(p))
    BY DEF getParentPath
  <2> HIDE DEF g, fw
  <2> QED BY <1>1, <1>3, <2>1, GetIs
<1>5. Good(gw) /\ gw.inode = w.inode /\ gw.handles = w.handles
  BY <1>3, <1>4 DEF Warms
<1>6. gw \in Worlds /\ WellFormed(w.inode) /\ w.inode \in Nodes
  BY <1>5, WorldFields DEF Good
<1>7. r = IF a.answer = "ok" THEN [a EXCEPT !.w.inode[f.ino].nlinks = @ + 1] ELSE a
  BY DEF hardlink
<1>8. a = addNode(gw, d, n, i, ctx)
  BY <1>2, <1>4 DEF getChildPath
<1>9. r = IF a.answer = "ok" THEN [a EXCEPT !.w.inode[i].nlinks = @ + 1] ELSE a
  BY <1>2, <1>7
<1> HIDE DEF f, fw, g, gw, a, n
<1>10. /\ a = [w |-> a.w, answer |-> a.answer]
       /\ a.answer = "ok" => w.inode[d].entries[n] = None /\ a.w = SetInode(gw, PutEntry(w.inode, d, n, i))
       /\ a.answer # "ok" => a.w = gw
  BY <1>1, <1>5, <1>6, <1>8, AddIs
<1>11. CASE a.answer # "ok"
  BY <1>5, <1>9, <1>10, <1>11
<1>12. CASE a.answer = "ok"
  <2> DEFINE m == PutEntry(w.inode, d, n, i)
             k == m[i].nlinks + 1
             m2 == [m EXCEPT ![i].nlinks = k]
             u == SetInode(aw, m2)
  <2>1. m \in Nodes /\ Puts(w.inode, m, d, n, i) /\ \A e \in Inos : m[e].type = w.inode[e].type /\ m[e].nlinks = w.inode[e].nlinks
    BY <1>1, <1>6, EntriesPut DEF PutEntry
  <2>2. aw = SetInode(gw, m) /\ aw.inode = m /\ aw \in Worlds /\ aw.paths = gw.paths /\ aw.files = gw.files /\ aw.handles = gw.handles
    <3> HIDE DEF m
    <3>1. aw = SetInode(gw, m)
      BY <1>10, <1>12 DEF m
    <3> HIDE DEF aw
    <3> QED BY <1>6, <2>1, <3>1, WorldInode
  <2>3. r.w = u /\ r.answer = "ok"
    <3>1. r = [a EXCEPT !.w = [aw EXCEPT !.inode[i].nlinks = aw.inode[i].nlinks + 1]]
      BY <1>9, <1>12
    <3>2. [aw EXCEPT !.inode[i].nlinks = aw.inode[i].nlinks + 1] = [aw EXCEPT !.inode = [aw.inode EXCEPT ![i].nlinks = aw.inode[i].nlinks + 1]]
      OBVIOUS
    <3>3. [aw EXCEPT !.inode = [aw.inode EXCEPT ![i].nlinks = aw.inode[i].nlinks + 1]] = u
      BY <2>2 DEF SetInode
    <3> HIDE DEF u, aw
    <3>4. r = [a EXCEPT !.w = u]
      BY <3>1, <3>2, <3>3
    <3>5. r.w = u /\ r.answer = a.answer
      BY <1>10, <3>4
    <3> QED BY <1>12, <3>5
  <2> HIDE DEF m
  <2>4. m \in RawNodes /\ m[i].nlinks \in Nat
    <3>1. m[i].nlinks \in Nat
      BY <1>6, <2>1, Shape
    <3> QED BY <2>1, <3>1, RawNodesMore
  <2>5. k \in Nat /\ k = w.inode[i].nlinks + 1
    BY <2>1, <2>4
  <2> HIDE DEF k
  <2>6. /\ m2 \in RawNodes /\ m2[i].nlinks = k
        /\ \A e \in Inos : /\ m2[e].type = m[e].type /\ m2[e].entries = m[e].entries
                           /\ e # i => m2[e] = m[e]
    <3> HIDE DEF m2
    <3> QED BY <2>4, <2>5, CountIs DEF m2
  <2> HIDE DEF m2
  <2>7. Puts(w.inode, m2, d, n, i)
    BY <2>1, <2>6 DEF Puts
  <2>8. Linked(w.inode, m2, d, n, i)
    <3>1. KeepsBut(w.inode, m2, {i})
      BY <2>1, <2>6 DEF KeepsBut
    <3>2. m2[i].type = w.inode[i].type /\ m2[i].nlinks = w.inode[i].nlinks + 1
      BY <2>1, <2>5, <2>6
    <3>3. w.inode[d].entries[n] = None
      BY <1>10, <1>12
    <3> QED BY <1>1, <2>6, <2>7, <3>1, <3>2, <3>3 DEF Linked
  <2>9. WellFormed(m2)
    BY <1>6, <2>8, LinkedTree
  <2>10. m2 \in Nodes
    BY <2>9 DEF WellFormed, Nodes
  <2>11. u \in Worlds /\ u.inode = m2 /\ u.paths = gw.paths /\ u.files = gw.files /\ u.handles = gw.handles
    <3> HIDE DEF u, aw
    <3> QED BY <2>2, <2>10, WorldInode DEF u
  <2> HIDE DEF u
  <2>12. Good(u)
    <3>1. \A e \in Inos : w.inode[e].type # "NONE" => m2[e].type # "NONE"
      BY <2>1, <2>6
    <3>2. /\ d = Res(gw.inode, Front(p)) /\ gw.inode[d].type = "DIR" /\ Res(gw.inode, p) = None
          /\ WellFormed(u.inode) /\ Puts(gw.inode, u.inode, d, Last(p), i)
          /\ \A e \in Inos : gw.inode[e].type # "NONE" => u.inode[e].type # "NONE"
      BY <1>5, <2>7, <2>9, <2>11, <3>1 DEF n
    <3> QED BY <1>5, <2>11, <3>2, NamedGood
  <2> QED BY <1>5, <2>3, <2>8, <2>11, <2>12 DEF n
<1> QED BY <1>11, <1>12

-----------------------------------------------------------------------------
(* A name goes.                                                            *)
RemAnswers(w, d, n, ctx, a) ==
  /\ a = [w |-> a.w, answer |-> a.answer]
  /\ a.answer \in {"ok", "ENOENT", "EACCES"}
  /\ a.answer = "ok" => w.inode[d].entries[n] # None /\ a.w = SetInode(w, PutEntry(w.inode, d, n, None))
  /\ a.answer # "ok" => a.w = w
  /\ a.answer = "ENOENT" => w.inode[d].entries[n] = None
  /\ a.answer = "EACCES" => ~validate_access(w, d, ctx, {"W", "X"}, {}, FALSE)

LEMMA RemIs ==
  ASSUME NEW w \in Worlds, NEW d \in Inos, NEW n \in Names, NEW ctx, NEW a, a = removeNode(w, d, n, ctx)
  PROVE  RemAnswers(w, d, n, ctx, a)
<1> SUFFICES /\ a = [w |-> a.w, answer |-> a.answer]
             /\ a.answer \in {"ok", "ENOENT", "EACCES"}
             /\ a.answer = "ok" => w.inode[d].entries[n] # None /\ a.w = SetInode(w, PutEntry(w.inode, d, n, None))
             /\ a.answer # "ok" => a.w = w
             /\ a.answer = "ENOENT" => w.inode[d].entries[n] = None
             /\ a.answer = "EACCES" => ~validate_access(w, d, ctx, {"W", "X"}, {}, FALSE)
  BY Zenon DEF RemAnswers
<1>1. CASE ~validate_access(w, d, ctx, {"W", "X"}, {}, FALSE)
  <2>1. a = [w |-> w, answer |-> "EACCES"]
    BY <1>1 DEF removeNode
  <2>2. a = [w |-> a.w, answer |-> a.answer] /\ a.answer = "EACCES" /\ a.w = w
    BY <2>1
  <2>3. a.answer # "ok" /\ a.answer # "ENOENT" /\ a.answer \in {"ok", "ENOENT", "EACCES"}
    BY <2>2
  <2> QED BY <1>1, <2>2, <2>3, Zenon
<1>2. CASE validate_access(w, d, ctx, {"W", "X"}, {}, FALSE) /\ w.inode[d].entries[n] = None
  <2>1. a = [w |-> w, answer |-> "ENOENT"]
    BY <1>2 DEF removeNode
  <2> QED BY <1>2, <2>1
<1>3. CASE validate_access(w, d, ctx, {"W", "X"}, {}, FALSE) /\ w.inode[d].entries[n] # None
  <2>1. a = [w |-> [w EXCEPT !.inode[d].entries[n] = None], answer |-> "ok"]
    BY <1>3 DEF removeNode
  <2>2. [w EXCEPT !.inode[d].entries[n] = None] = SetInode(w, PutEntry(w.inode, d, n, None))
    BY DEF SetInode, PutEntry
  <2> QED BY <1>3, <2>1, <2>2
<1> QED BY <1>1, <1>2, <1>3

SetHandles(w, x) == [w EXCEPT !.handles = x]

LEMMA WorldHandles ==
  ASSUME NEW w \in Worlds, NEW x, NEW v, v = SetHandles(w, x)
  PROVE  /\ v.inode = w.inode /\ v.paths = w.paths /\ v.files = w.files /\ v.handles = x
         /\ x \in [Handles -> [ino : Inos \cup {None}, deleted : BOOLEAN]] => v \in Worlds
<1> DEFINE A == Comps.inode
           B == Comps.paths
           C == Comps.files
           D == Comps.handles
<1>1. Worlds = [inode : A, paths : B, files : C, handles : D] /\ D = [Handles -> [ino : Inos \cup {None}, deleted : BOOLEAN]]
  BY DEF Worlds, Comps
<1>2. v = [w EXCEPT !.handles = x]
  BY DEF SetHandles
<1> HIDE DEF A, B, C, D
<1>3. /\ v.inode = w.inode /\ v.paths = w.paths /\ v.files = w.files /\ v.handles = x
      /\ x \in D => v \in Worlds
  BY <1>1, <1>2, Record4
<1> QED BY <1>1, <1>3

LEMMA NoNodeType == NoNode \in NodeType /\ NoNode.type = "NONE" /\ NoNode.nlinks = 0 /\ NoNode.entries = Empty
<1> DEFINE T == {"NONE", "DIR", "REG", "LNK"}
           N == 0 .. Cardinality(Inos \X Names)
           U == {c.uid : c \in Contexts \cup {Super}}
           G == {c.gid : c \in Contexts \cup {Super}}
           E == [Names -> Inos \cup {None}]
<1>1. NodeType = [type : T, nlinks : N, uid : U, gid : G, mode : ModeType, entries : E]
  BY DEF NodeType
<1>2. Cardinality(Inos \X Names) \in Nat
  BY NamespaceAssumption, FS_Product, FS_CardinalityType
<1>3. superuser \in U /\ superuser \in G
  <2>1. Super.uid = superuser /\ Super.gid = superuser
    BY DEF Super
  <2> QED BY <2>1
<1>4. NoBits \in ModeType
  BY DEF NoBits, ModeType
<1>5. Empty \in E /\ "NONE" \in T /\ 0 \in N
  BY <1>2 DEF Empty
<1> HIDE DEF T, N, U, G, E
<1> QED BY <1>1, <1>3, <1>4, <1>5 DEF NoNode

KeptHandles(w, v) ==
  \A h \in Handles : /\ v.handles[h].ino = w.handles[h].ino
                     /\ ~v.handles[h].deleted => ~w.handles[h].deleted

(* The file is deleted: its inode, its object and its handles.             *)
Shredded(w, v, i) ==
  /\ v \in Worlds /\ v.paths = w.paths /\ KeptHandles(w, v)
  /\ v.inode[i] = NoNode /\ v.files[i] = NoFile
  /\ \A e \in Inos : e # i => v.inode[e] = w.inode[e] /\ v.files[e] = w.files[e]

LEMMA ShredIs ==
  ASSUME NEW w \in Worlds, NEW i \in Inos
  PROVE  Shredded(w, Shred(w, i), i)
<1> DEFINE node == [w.inode EXCEPT ![i] = NoNode]
           hs == [h \in Handles |->
                    IF w.handles[h].ino = i THEN [w.handles[h] EXCEPT !.deleted = TRUE] ELSE w.handles[h]]
           v1 == SetInode(w, node)
           v2 == SetFile(v1, i, NoFile)
           v == Shred(w, i)
<1>1. w.inode \in Nodes /\ w.handles \in [Handles -> [ino : Inos \cup {None}, deleted : BOOLEAN]]
  BY WorldFields
<1>2. node \in Nodes /\ \A e \in Inos : node[e] = IF e = i THEN NoNode ELSE w.inode[e]
  BY <1>1, NoNodeType DEF Nodes
<1>3. /\ hs \in [Handles -> [ino : Inos \cup {None}, deleted : BOOLEAN]]
      /\ \A h \in Handles : hs[h].ino = w.handles[h].ino /\ (~hs[h].deleted => ~w.handles[h].deleted)
  BY <1>1
<1>4. v = SetHandles(v2, hs)
  BY DEF Shred, SetHandles, SetFile, SetInode
<1> HIDE DEF node, hs, v1, v2, v
<1>5. v1 \in Worlds /\ v1.inode = node /\ v1.paths = w.paths /\ v1.files = w.files
  BY <1>2, WorldInode DEF v1
<1>6. v2 \in Worlds /\ v2.inode = node /\ v2.paths = w.paths /\ \A e \in Inos : v2.files[e] = IF e = i THEN NoFile ELSE w.files[e]
  BY <1>5, WorldFile DEF v2
<1>7. v \in Worlds /\ v.inode = node /\ v.paths = w.paths /\ v.files = v2.files /\ v.handles = hs
  BY <1>3, <1>4, <1>6, WorldHandles
<1>8. Shredded(w, v, i)
  BY <1>2, <1>3, <1>6, <1>7 DEF KeptHandles, Shredded
<1> QED BY <1>8 DEF v

CountLess(node, i) == [node EXCEPT ![i].nlinks = node[i].nlinks - 1]

LEMMA CountDown ==
  ASSUME NEW node, WellFormed(node), NEW i \in Inos, node[i].type \in {"REG", "LNK"}, NEW node2, node2 = CountLess(node, i)
  PROVE  /\ node2 \in Nodes /\ node[i].nlinks \in Nat \ {0} /\ node2[i].nlinks = node[i].nlinks - 1
         /\ \A f \in Inos : /\ node2[f].type = node[f].type /\ node2[f].entries = node[f].entries /\ SameRights(node[f], node2[f])
                            /\ f # i => node2[f] = node[f]
<1> DEFINE k == node[i].nlinks - 1
           x == [node[i] EXCEPT !.nlinks = k]
           C == Cardinality(Inos \X Names)
<1>1. node \in Nodes /\ node[i] \in NodeType /\ node \in RawNodes
  BY RawNodesMore DEF WellFormed, Nodes
<1>2. C \in Nat
  BY NamespaceAssumption, FS_Product, FS_CardinalityType
<1>3. node[i].nlinks \in 0 .. C /\ node[i].nlinks # 0
  BY <1>1, NodeFields DEF WellFormed
<1> HIDE DEF C
<1>4. k \in 0 .. C /\ k \in Nat /\ node[i].nlinks \in Nat \ {0}
  BY <1>2, <1>3
<1>5. x \in NodeType
  BY <1>1, <1>4, NodeFields DEF C
<1>6. node2 = [node EXCEPT ![i] = x]
  BY DEF CountLess
<1> HIDE DEF x
<1>7. node2 \in Nodes
  BY <1>1, <1>5, <1>6 DEF Nodes
<1>8. node2 = [node EXCEPT ![i].nlinks = k]
  BY DEF CountLess
<1> HIDE DEF k
<1>9. /\ node2[i].nlinks = k
      /\ \A f \in Inos : /\ node2[f].type = node[f].type /\ node2[f].entries = node[f].entries /\ SameRights(node[f], node2[f])
                         /\ f # i => node2[f] = node[f]
  BY <1>1, <1>4, <1>8, CountIs
<1> QED BY <1>4, <1>7, <1>9 DEF k

(* What is cached stays right when a name goes, with the file when it has  *)
(* no other.                                                               *)
LEMMA RemovedGood ==
  ASSUME NEW w, Good(w), NEW p \in Paths, NEW d, d = Res(w.inode, Front(p)), NEW i, i = Res(w.inode, p), i # None,
         NEW v \in Worlds, Removed(w.inode, v.inode, d, Last(p), i),
         \A q \in Paths : v.paths[q] = IF q = p THEN None ELSE w.paths[q],
         \A e \in Inos : v.files[e] = IF e = i /\ v.inode[i].type = "NONE" THEN NoFile ELSE w.files[e]
  PROVE  Good(v)
<1>1. WellFormed(w.inode) /\ Cached(w) /\ w.inode \in Nodes /\ p \in AllPaths
  BY WorldFields DEF Good, AllPaths
<1>2. d \in Inos /\ w.inode[d].type = "DIR" /\ i \in Inos \ {rootIndex} /\ i = w.inode[d].entries[Last(p)]
  BY <1>1, NameOf
<1>3. d # None /\ rootIndex \in Inos /\ None \notin Inos
  BY <1>2, NamespaceAssumption
<1>4. WellFormed(v.inode) /\ (v.inode[i].type = "NONE" => NamesOf(w.inode, i) = {<<d, Last(p)>>})
  BY <1>1, RemovedTree
<1>5. w.inode[i].entries = Empty /\ Puts(w.inode, v.inode, d, Last(p), None)
  BY DEF Removed
<1> DEFINE X == {p}
<1>6. X \in SUBSET Paths /\ \A x \in X : Res(w.inode, Front(x)) # None /\ w.inode[Res(w.inode, Front(x))].type = "DIR"
  BY <1>2, <1>3
<1>7. \A e \in Inos, n \in Names :
        v.inode[e].entries[n] # w.inode[e].entries[n] => \E x \in X : e = Res(w.inode, Front(x)) /\ n = Last(x)
  BY <1>5 DEF Puts
<1>8. ASSUME NEW q \in Paths, v.paths[q] # None
      PROVE  v.paths[q] = w.paths[q] /\ (\A x \in X : ~IsPrefix(x, q)) /\ v.files[v.paths[q]] # NoFile
  <2>1. q # p /\ v.paths[q] = w.paths[q]
    BY <1>8
  <2>2. w.paths[q] = Res(w.inode, q) /\ w.files[w.paths[q]] # NoFile /\ w.paths[q] # None /\ q \in AllPaths
    BY <1>1, <1>8, <2>1 DEF Cached, AllPaths
  <2>3. ~IsPrefix(p, q)
    BY <1>1, <1>5, <2>1, <2>2, LeafBelow
  <2>4. Res(w.inode, q) \in Inos /\ <<Res(w.inode, Front(q)), Last(q)>> \in NamesOf(w.inode, Res(w.inode, q))
    BY <1>1, <2>2, NameOf
  <2>5. ASSUME v.inode[i].type = "NONE", w.paths[q] = i PROVE FALSE
    <3>1. <<Res(w.inode, Front(q)), Last(q)>> = <<d, Last(p)>>
      BY <1>4, <2>2, <2>4, <2>5
    <3>2. Res(w.inode, Front(q)) = d /\ Last(q) = Last(p)
      BY <3>1
    <3>3. p = q
      BY <1>1, <1>2, <1>3, <3>2, SameName
    <3> QED BY <2>1, <3>3
  <2> QED BY <2>1, <2>2, <2>3, <2>4, <2>5
<1>9. v.files[rootIndex] = <<>>
  BY <1>1, <1>2, <1>3 DEF Cached
<1>10. ASSUME NEW e \in Inos, v.files[e] # NoFile PROVE v.inode[e].type # "NONE"
  <2>1. CASE e = i
    BY <1>10, <2>1
  <2>2. CASE e # i
    <3>1. v.inode[e].type = w.inode[e].type
      BY <2>2 DEF Removed, KeepsBut
    <3> QED BY <1>1, <1>10, <2>2, <3>1 DEF Cached
  <2> QED BY <2>1, <2>2
<1> HIDE DEF X
<1> QED BY <1>4, <1>6, <1>7, <1>8, <1>9, <1>10, TreeGood

(* unlinkinner counts a name less, of a file that is not a directory.      *)
Fewer(node, i) ==
  IF node[i].type = "DIR" THEN node ELSE CountLess(node, i)

LEMMA FewerIs ==
  ASSUME NEW node, WellFormed(node), NEW i \in Inos, node[i].type \in {"DIR", "REG", "LNK"}, NEW node2, node2 = Fewer(node, i)
  PROVE  /\ node2 \in Nodes
         /\ \A e \in Inos : /\ node2[e].type = node[e].type /\ node2[e].entries = node[e].entries
                            /\ SameRights(node[e], node2[e])
                            /\ e # i => node2[e].nlinks = node[e].nlinks
         /\ node[i].type # "DIR" => node[i].nlinks \in Nat \ {0} /\ node2[i].nlinks = node[i].nlinks - 1
<1>1. CASE node[i].type = "DIR"
  <2>1. node2 = node
    BY <1>1 DEF Fewer
  <2> QED BY <1>1, <2>1 DEF SameRights, WellFormed, Nodes
<1>2. CASE node[i].type # "DIR"
  <2>1. node2 = CountLess(node, i)
    BY <1>2 DEF Fewer
  <2>2. /\ node2 \in Nodes /\ node[i].nlinks \in Nat \ {0} /\ node2[i].nlinks = node[i].nlinks - 1
        /\ \A f \in Inos : /\ node2[f].type = node[f].type /\ node2[f].entries = node[f].entries /\ SameRights(node[f], node2[f])
                           /\ f # i => node2[f] = node[f]
    BY <1>2, <2>1, CountDown
  <2> QED BY <2>2
<1> QED BY <1>1, <1>2

PutDone(node, node2, d, n, v) ==
  /\ node2 \in Nodes /\ Puts(node, node2, d, n, v)
  /\ \A f \in Inos : node2[f].type = node[f].type /\ node2[f].nlinks = node[f].nlinks /\ SameRights(node[f], node2[f])

LEMMA PutIs ==
  ASSUME NEW node \in Nodes, NEW d \in Inos, NEW n \in Names, NEW v \in Inos \cup {None}
  PROVE  PutDone(node, PutEntry(node, d, n, v), d, n, v)
<1> DEFINE m == PutEntry(node, d, n, v)
<1>1. /\ m \in Nodes /\ Puts(node, m, d, n, v)
      /\ \A f \in Inos : /\ m[f].type = node[f].type /\ m[f].nlinks = node[f].nlinks
                         /\ m[f].uid = node[f].uid /\ m[f].gid = node[f].gid /\ m[f].mode = node[f].mode
  BY EntriesPut DEF PutEntry
<1> HIDE DEF m
<1>2. PutDone(node, m, d, n, v)
  BY <1>1 DEF SameRights, PutDone
<1> QED BY <1>2 DEF m

(* A file that is not a directory with something in it is gone from a      *)
(* directory: the steps of unlinkinner that change the tree.               *)
LEMMA TakenAway ==
  ASSUME NEW w, Good(w), NEW d \in Inos, NEW n \in Names, NEW i \in Inos, w.inode[d].entries[n] = i, ~isFullDir(w, i),
         NEW c \in Worlds, c.paths = w.paths, c.files = w.files, c.handles = w.handles, c.inode = Fewer(w.inode, i),
         NEW a, a = SetInode(c, PutEntry(c.inode, d, n, None)),
         NEW gone \in BOOLEAN, gone <=> w.inode[i].type = "DIR" \/ c.inode[i].nlinks <= 0,
         NEW v, v = IF gone THEN Shred(a, i) ELSE a
  PROVE  /\ v \in Worlds /\ Removed(w.inode, v.inode, d, n, i) /\ v.paths = w.paths /\ KeptHandles(w, v)
         /\ \A e \in Inos : v.files[e] = IF e = i /\ v.inode[i].type = "NONE" THEN NoFile ELSE w.files[e]
         /\ \A e \in Inos : e # i => SameRights(w.inode[e], v.inode[e])
<1> DEFINE node == w.inode
           node2 == c.inode
           m == PutEntry(node2, d, n, None)
<1>1. WellFormed(node) /\ node \in Nodes /\ node[i].type \in {"DIR", "REG", "LNK"} /\ node[i].entries = Empty
  <2>1. WellFormed(node) /\ node \in Nodes
    BY WorldFields DEF Good
  <2>2. i # None /\ node[d].entries[n] = i
    BY NamespaceAssumption
  <2>3. node[i].type = "DIR" => node[i].entries = Empty
    BY DEF isFullDir, IsDir
  <2> HIDE DEF node, node2
  <2>4. node[i].type \in {"NONE", "DIR", "REG", "LNK"} /\ node[i].type # "NONE"
    BY <2>1, <2>2, Shape
  <2>5. node[i].entries = Empty
    BY <2>1, <2>3 DEF WellFormed
  <2> QED BY <2>1, <2>4, <2>5
<1>2. d # i
  <2>1. Empty[n] = None
    BY DEF Empty
  <2> QED BY <1>1, <2>1, NamespaceAssumption
<1> HIDE DEF node, node2, m
<1>3. /\ node2 \in Nodes
      /\ \A e \in Inos : /\ node2[e].type = node[e].type /\ node2[e].entries = node[e].entries
                         /\ SameRights(node[e], node2[e])
                         /\ e # i => node2[e].nlinks = node[e].nlinks
      /\ node[i].type # "DIR" => node[i].nlinks \in Nat \ {0} /\ node2[i].nlinks = node[i].nlinks - 1
  <2>1. node2 = Fewer(node, i)
    BY DEF node, node2
  <2> QED BY <1>1, <2>1, FewerIs
<1>4. /\ m \in Nodes /\ Puts(node2, m, d, n, None)
      /\ \A e \in Inos : m[e].type = node2[e].type /\ m[e].nlinks = node2[e].nlinks /\ SameRights(node2[e], m[e])
  <2>1. PutDone(node2, m, d, n, None)
    BY <1>3, PutIs DEF m
  <2> QED BY <2>1 DEF PutDone
<1>5. a \in Worlds /\ a.inode = m /\ a.paths = w.paths /\ a.files = w.files /\ a.handles = w.handles
  <2>1. a = SetInode(c, m)
    BY DEF m, node2
  <2> QED BY <1>4, <2>1, WorldInode
<1>6. \A e \in Inos : m[e].type = node[e].type /\ SameRights(node[e], m[e]) /\ (e # i => m[e].nlinks = node[e].nlinks)
  BY <1>3, <1>4 DEF SameRights
<1>7. \A e \in Inos, k \in Names : m[e].entries[k] = IF e = d /\ k = n THEN None ELSE node[e].entries[k]
  BY <1>3, <1>4 DEF Puts
<1>8. node[d].entries[n] = i /\ (gone <=> node[i].type = "DIR" \/ node2[i].nlinks <= 0)
  BY DEF node, node2
<1>9. CASE gone
  <2>1. v = Shred(a, i) /\ a \in Worlds
    BY <1>5, <1>9
  <2>2. /\ v \in Worlds /\ v.paths = a.paths /\ KeptHandles(a, v)
        /\ v.inode[i] = NoNode /\ v.files[i] = NoFile
        /\ \A e \in Inos : e # i => v.inode[e] = a.inode[e] /\ v.files[e] = a.files[e]
    <3>1. Shredded(a, v, i)
      BY <2>1, ShredIs
    <3> QED BY <3>1 DEF Shredded
  <2>3. v.inode[i].type = "NONE" /\ v.inode[i].nlinks = 0 /\ v.inode[i].entries = Empty
    BY <2>2, NoNodeType
  <2>4. \A e \in Inos : e # i => v.inode[e] = m[e]
    BY <1>5, <2>2
  <2>5. Puts(node, v.inode, d, n, None)
    <3>1. ASSUME NEW e \in Inos, NEW k \in Names
          PROVE  v.inode[e].entries[k] = IF e = d /\ k = n THEN None ELSE node[e].entries[k]
      <4>1. CASE e = i
        BY <1>1, <1>2, <2>3, <4>1
      <4>2. CASE e # i
        BY <1>7, <2>4, <4>2
      <4> QED BY <4>1, <4>2
    <3> QED BY <3>1 DEF Puts
  <2>6. KeepsBut(node, v.inode, {i})
    BY <1>6, <2>4 DEF KeepsBut
  <2>7. node[i].type = "DIR" \/ node[i].nlinks = 1
    BY <1>3, <1>8, <1>9
  <2>8. Removed(node, v.inode, d, n, i)
    <3>1. v.inode \in RawNodes
      BY <2>2, WorldFields, RawNodesMore
    <3> QED BY <1>1, <1>8, <2>3, <2>5, <2>6, <2>7, <3>1 DEF Removed
  <2>9. \A e \in Inos : e # i => SameRights(node[e], v.inode[e])
    BY <1>6, <2>4
  <2>10. KeptHandles(w, v)
    BY <1>5, <2>2 DEF KeptHandles
  <2>11. \A e \in Inos : v.files[e] = IF e = i /\ v.inode[i].type = "NONE" THEN NoFile ELSE w.files[e]
    BY <1>5, <2>2, <2>3
  <2> QED BY <1>5, <2>2, <2>8, <2>9, <2>10, <2>11 DEF node
<1>10. CASE ~gone
  <2>1. v = a
    BY <1>10
  <2>2. node[i].nlinks # 1 /\ m[i].nlinks = node[i].nlinks - 1 /\ node[i].type # "DIR"
    BY <1>3, <1>4, <1>8, <1>10
  <2>3. Puts(node, m, d, n, None) /\ KeepsBut(node, m, {i})
    BY <1>6, <1>7 DEF Puts, KeepsBut
  <2>4. Removed(node, v.inode, d, n, i)
    <3>1. v.inode \in RawNodes /\ v.inode = m
      BY <1>4, <1>5, <2>1, RawNodesMore
    <3> QED BY <1>1, <1>6, <1>8, <2>2, <2>3, <3>1 DEF Removed
  <2>5. KeptHandles(w, v)
    BY <1>5, <2>1 DEF KeptHandles
  <2>6. v.inode = m /\ v.inode[i].type # "NONE"
    BY <1>1, <1>5, <1>6, <2>1
  <2> QED BY <1>5, <1>6, <2>1, <2>4, <2>5, <2>6 DEF node
<1> QED BY <1>9, <1>10

Unlinked(w, v, p, d, i) ==
  /\ Good(v) /\ KeptHandles(w, v)
  /\ v.inode = w.inode \/ Removed(w.inode, v.inode, d, Last(p), i)
  /\ \A e \in Inos : e # i => SameRights(w.inode[e], v.inode[e]) /\ (w.files[e] # NoFile => v.files[e] = w.files[e])
  /\ \A q \in Paths : q \notin Leading(p) => v.paths[q] = w.paths[q]

LEMMA LeadingFront ==
  ASSUME NEW p \in Paths
  PROVE  Leading(Front(p)) \subseteq Leading(p) /\ p \in Leading(p) /\ Front(p) \in Leading(p) /\ p \in AllPaths /\ Front(p) \in AllPaths
<1>1. p \in AllPaths /\ Front(p) \in AllPaths
  BY PathFacts DEF AllPaths
<1>2. \A q \in AllPaths : IsPrefix(q, p) <=> q = p \/ IsPrefix(q, Front(p))
  BY <1>1, PrefixFacts
<1>3. p \in Leading(p) /\ Front(p) \in Leading(Front(p))
  BY <1>1, PrefixFacts
<1> QED BY <1>1, <1>2, <1>3 DEF Leading

(* Warm caches are no change.                                              *)
LEMMA WarmsUnlinked ==
  ASSUME NEW w, NEW v, NEW p \in Paths, NEW d, NEW i, Warms(w, v, Leading(p))
  PROVE  Unlinked(w, v, p, d, i)
<1>1. Good(v) /\ KeptHandles(w, v) /\ v.inode = w.inode
  BY DEF Warms, KeptHandles
<1>2. \A e \in Inos : SameRights(w.inode[e], v.inode[e]) /\ (w.files[e] # NoFile => v.files[e] = w.files[e])
  BY <1>1, WarmsKeep DEF SameRights
<1> QED BY <1>1, <1>2 DEF Unlinked, Warms

(* What unlinkinner counts, and what it leaves.                            *)
LessOne(w, i) == IF IsDir(w, i) THEN w ELSE [w EXCEPT !.inode[i].nlinks = @ - 1]
Left(w, c, v, i, p) ==
  [(IF IsDir(w, i) \/ c.inode[i].nlinks <= 0 THEN Shred(v, i) ELSE v) EXCEPT !.paths[p] = None]

LEMMA LessOneIs ==
  ASSUME NEW w, Good(w), NEW i \in Inos, w.inode[i].type \in {"DIR", "REG", "LNK"}, NEW c, c = LessOne(w, i)
  PROVE  /\ c \in Worlds /\ c.inode = Fewer(w.inode, i) /\ c.paths = w.paths /\ c.files = w.files /\ c.handles = w.handles
         /\ \A e \in Inos : c.inode[e].entries = w.inode[e].entries /\ SameRights(w.inode[e], c.inode[e])
<1>1. WellFormed(w.inode) /\ w.inode \in Nodes /\ w \in Worlds
  BY WorldFields DEF Good
<1> DEFINE x == Fewer(w.inode, i)
<1>2. x \in Nodes /\ \A e \in Inos : x[e].entries = w.inode[e].entries /\ SameRights(w.inode[e], x[e])
  BY <1>1, FewerIs
<1>3. CASE IsDir(w, i)
  <2>1. c = w /\ x = w.inode
    BY <1>3 DEF IsDir, LessOne, Fewer
  <2> QED BY <1>1, <1>2, <2>1
<1>4. CASE ~IsDir(w, i)
  <2>1. c = [w EXCEPT !.inode[i].nlinks = w.inode[i].nlinks - 1]
    BY <1>4 DEF LessOne
  <2>2. [w EXCEPT !.inode[i].nlinks = w.inode[i].nlinks - 1] = SetInode(w, CountLess(w.inode, i))
    BY DEF SetInode, CountLess
  <2>3. c = SetInode(w, x)
    BY <1>4, <2>1, <2>2 DEF IsDir, Fewer
  <2> HIDE DEF x
  <2>4. c.inode = x /\ c.paths = w.paths /\ c.files = w.files /\ c.handles = w.handles /\ c \in Worlds
    BY <1>1, <1>2, <2>3, WorldInode
  <2> QED BY <1>2, <2>4 DEF x
<1> QED BY <1>3, <1>4

(* unlinkinner, when the directory may be written to: the name goes, with  *)
(* the file when it has no other. The worlds are those between its calls.  *)
Removing(w, p, i, d, ctx) == removeNode(LessOne(w, i), d, Last(p), ctx)
Leaving(w, p, i, d, ctx) == Left(w, LessOne(w, i), Removing(w, p, i, d, ctx).w, i, p)

Removable(w, p, i, d, ctx) ==
  /\ Good(w) /\ p \in Paths /\ i = Res(w.inode, p) /\ i # None /\ d = Res(w.inode, Front(p)) /\ ~isFullDir(w, i)
  /\ validate_access(LessOne(w, i), d, ctx, {"W", "X"}, {}, FALSE)

Removes(w, p, i, d, ctx) ==
  /\ Removing(w, p, i, d, ctx).answer = "ok"
  /\ Removing(w, p, i, d, ctx) = [w |-> Removing(w, p, i, d, ctx).w, answer |-> "ok"]
  /\ Unlinked(w, Leaving(w, p, i, d, ctx), p, d, i)

LEMMA InnerIs ==
  ASSUME NEW w, NEW p, NEW i, NEW d, NEW ctx, Removable(w, p, i, d, ctx)
  PROVE  Removes(w, p, i, d, ctx)
<1> DEFINE c == LessOne(w, i)
           b == Removing(w, p, i, d, ctx)
           v == Leaving(w, p, i, d, ctx)
<1>18. /\ Good(w) /\ p \in Paths /\ i = Res(w.inode, p) /\ i # None /\ d = Res(w.inode, Front(p)) /\ ~isFullDir(w, i)
       /\ validate_access(c, d, ctx, {"W", "X"}, {}, FALSE)
  BY DEF Removable
<1>19. c = LessOne(w, i) /\ b = removeNode(c, d, Last(p), ctx) /\ v = Left(w, c, b.w, i, p)
  BY DEF Removing, Leaving
<1> HIDE DEF c, b, v
<1> USE <1>18, <1>19
<1>1. WellFormed(w.inode) /\ w.inode \in Nodes /\ w \in Worlds
  BY WorldFields DEF Good
<1>2. /\ d \in Inos /\ i \in Inos /\ w.inode[d].entries[Last(p)] = i /\ Last(p) \in Names
      /\ w.inode[i].type \in {"DIR", "REG", "LNK"}
  <2>1. /\ d \in Inos /\ i \in Inos \ {rootIndex} /\ i = w.inode[d].entries[Last(p)] /\ w.inode[i].type # "NONE"
    BY <1>1, NameOf
  <2>2. w.inode[i].type \in {"NONE", "DIR", "REG", "LNK"}
    BY <1>1, <2>1, Shape
  <2> QED BY <2>1, <2>2, PathFacts
<1>4. /\ c \in Worlds /\ c.inode = Fewer(w.inode, i) /\ c.paths = w.paths /\ c.files = w.files /\ c.handles = w.handles
      /\ \A e \in Inos : c.inode[e].entries = w.inode[e].entries
  BY <1>2, LessOneIs
<1>5. c.inode[d].entries[Last(p)] # None
  BY <1>2, <1>4
<1> DEFINE n == Last(p)
<1>6. /\ b = [w |-> b.w, answer |-> b.answer]
      /\ b.answer \in {"ok", "ENOENT", "EACCES"}
      /\ b.answer = "ok" => b.w = SetInode(c, PutEntry(c.inode, d, n, None))
      /\ b.answer = "ENOENT" => c.inode[d].entries[n] = None
      /\ b.answer = "EACCES" => ~validate_access(c, d, ctx, {"W", "X"}, {}, FALSE)
  <2>1. b = removeNode(c, d, n, ctx) /\ n \in Names
    BY <1>2
  <2> HIDE DEF n
  <2>2. RemAnswers(c, d, n, ctx, b)
    BY <1>2, <1>4, <2>1, RemIs
  <2> QED BY <2>2, Zenon DEF RemAnswers
<1>7. b.answer = "ok" /\ b.w = SetInode(c, PutEntry(c.inode, d, n, None))
  BY <1>4, <1>5, <1>6
<1> DEFINE a == b.w
           gone == IsDir(w, i) \/ c.inode[i].nlinks <= 0
           u == IF gone THEN Shred(a, i) ELSE a
<1>8. v = SetPath(u, p, None)
  BY DEF SetPath, Left
<1>9. a = SetInode(c, PutEntry(c.inode, d, n, None)) /\ (gone <=> w.inode[i].type = "DIR" \/ c.inode[i].nlinks <= 0)
  BY <1>7 DEF IsDir
<1>10. n \in Names /\ w.inode[d].entries[n] = i
  BY <1>2
<1>11. u = IF gone THEN Shred(a, i) ELSE a
  OBVIOUS
<1>16. gone \in BOOLEAN
  OBVIOUS
<1> HIDE DEF n, a, u, gone
<1>12. /\ u \in Worlds /\ Removed(w.inode, u.inode, d, n, i) /\ u.paths = w.paths /\ KeptHandles(w, u)
       /\ \A e \in Inos : u.files[e] = IF e = i /\ u.inode[i].type = "NONE" THEN NoFile ELSE w.files[e]
       /\ \A e \in Inos : e # i => SameRights(w.inode[e], u.inode[e])
  <2>1. n \in Names /\ d \in Inos /\ i \in Inos /\ w.inode[d].entries[n] = i /\ ~isFullDir(w, i)
    BY <1>2, <1>10
  <2>2. c \in Worlds /\ c.paths = w.paths /\ c.files = w.files /\ c.handles = w.handles /\ c.inode = Fewer(w.inode, i)
    BY <1>4
  <2> HIDE DEF c
  <2> QED BY <1>9, <1>11, <1>16, <2>1, <2>2, TakenAway
<1>13. /\ v \in Worlds /\ v.inode = u.inode /\ v.files = u.files /\ v.handles = u.handles
       /\ \A q \in Paths : v.paths[q] = IF q = p THEN None ELSE u.paths[q]
  BY <1>8, <1>12, WorldPath
<1>14. /\ Removed(w.inode, v.inode, d, n, i) /\ KeptHandles(w, v)
       /\ \A e \in Inos : v.files[e] = IF e = i /\ v.inode[i].type = "NONE" THEN NoFile ELSE w.files[e]
       /\ \A e \in Inos : e # i => SameRights(w.inode[e], v.inode[e])
       /\ \A q \in Paths : v.paths[q] = IF q = p THEN None ELSE w.paths[q]
  BY <1>12, <1>13 DEF KeptHandles
<1>15. Good(v)
  <2>1. Removed(w.inode, v.inode, d, Last(p), i)
    BY <1>14 DEF n
  <2> QED BY <1>13, <1>14, <2>1, RemovedGood
<1>17. p \in Leading(p)
  BY LeadingFront
<1>20. b.answer = "ok" /\ b = [w |-> b.w, answer |-> "ok"] /\ Unlinked(w, v, p, d, i)
  BY <1>6, <1>7, <1>14, <1>15, <1>17 DEF Unlinked, n
<1> QED BY <1>20 DEF Removes, b, v

(* unlink, by who may or by root: what it is allowed to the file's         *)
(* directory must be allowed when the name is removed, after the count.    *)
LEMMA UnlinkIs ==
  ASSUME NEW w, Good(w), NEW p \in Paths, NEW i, i = Res(w.inode, p), i # None, NEW d, d = Res(w.inode, Front(p)),
         w.files[i] # NoFile, w.files[d] # NoFile, NEW ctx, ctx.uid = superuser \/ w.files[i] = Append(w.files[d], d),
         NEW r, r = unlink(w, p, ctx)
  PROVE  Unlinked(w, r.w, p, d, i)
<1> DEFINE f == Get(w, p)
           fw == f.w
           g == Get(fw, getParentPath(p))
           gw == g.w
           h == Get(gw, p)
           hw == h.w
           c == LessOne(hw, i)
           b == removeNode(c, d, Last(p), ctx)
           v == Left(hw, c, b.w, i, p)
<1>1. p \in AllPaths /\ Front(p) \in AllPaths /\ Leading(Front(p)) \subseteq Leading(p) /\ getParentPath(p) = Front(p)
  BY LeadingFront DEF getParentPath
<1>2. f.ino = i /\ Warms(w, fw, Leading(p))
  <2> HIDE DEF f
  <2> QED BY <1>1, GetIs DEF f
<1>3. Good(fw) /\ fw.inode = w.inode /\ fw.handles = w.handles
  BY <1>2 DEF Warms
<1>4. g.ino = d /\ Warms(fw, gw, Leading(Front(p)))
  <2>1. g = Get(fw, Front(p))
    BY <1>1
  <2> HIDE DEF g, fw
  <2> QED BY <1>1, <1>3, <2>1, GetIs
<1>5. Good(gw) /\ gw.inode = w.inode /\ gw.handles = w.handles
  BY <1>3, <1>4 DEF Warms
<1>6. h.ino = i /\ Warms(gw, hw, Leading(p))
  <2> HIDE DEF h, gw
  <2> QED BY <1>1, <1>5, GetIs DEF h
<1>7. Good(hw) /\ hw.inode = w.inode /\ hw.handles = w.handles
  BY <1>5, <1>6 DEF Warms
<1>8. r = IF f.ino = None THEN [w |-> fw, answer |-> "ENOENT"]
          ELSE IF ~validate_access(fw, f.ino, ctx, {}, {"W"}, TRUE) THEN [w |-> fw, answer |-> "EACCES"]
          ELSE unlinkinner(fw, p, ctx)
  BY DEF unlink
<1>9. unlinkinner(fw, p, ctx) = IF isFullDir(hw, i) THEN [w |-> hw, answer |-> "not_empty"]
                                ELSE IF b.answer # "ok" THEN b ELSE [b EXCEPT !.w = v]
  <2>1. /\ LessOne(hw, h.ino) = c
        /\ removeNode(c, g.ino, getChildPath(p), ctx) = b
    BY <1>4, <1>6 DEF getChildPath
  <2>2. unlinkinner(fw, p, ctx) = IF isFullDir(hw, h.ino) THEN [w |-> hw, answer |-> "not_empty"]
                                  ELSE IF b.answer # "ok" THEN b ELSE [b EXCEPT !.w = Left(hw, c, b.w, h.ino, p)]
    <3> DEFINE c1 == LessOne(hw, h.ino)
               b1 == removeNode(c1, g.ino, getChildPath(p), ctx)
    <3>1. unlinkinner(fw, p, ctx) = IF isFullDir(hw, h.ino) THEN [w |-> hw, answer |-> "not_empty"]
                                    ELSE IF b1.answer # "ok" THEN b1 ELSE [b1 EXCEPT !.w = Left(hw, c1, b1.w, h.ino, p)]
      BY DEF unlinkinner, LessOne, Left
    <3>2. c1 = c /\ b1 = b
      BY <2>1
    <3> HIDE DEF c1, b1, c, b, g, h
    <3> QED BY <3>1, <3>2
  <2> HIDE DEF f, fw, g, gw, h, hw, c, b
  <2> QED BY <1>6, <2>2
<1> HIDE DEF f, fw, g, gw, h, hw
<1>10. Warms(w, gw, Leading(p))
  BY <1>1, <1>2, <1>4, WarmsBoth
<1>11. Warms(w, hw, Leading(p))
  BY <1>6, <1>10, WarmsBoth
<1>12. CASE ~validate_access(fw, i, ctx, {}, {"W"}, TRUE)
  <2>1. r = [w |-> fw, answer |-> "EACCES"]
    BY <1>2, <1>8, <1>12
  <2>2. r.w = fw
    BY <2>1
  <2> QED BY <1>2, <2>2, WarmsUnlinked
<1>13. CASE isFullDir(hw, i) /\ validate_access(fw, i, ctx, {}, {"W"}, TRUE)
  <2>1. r = [w |-> hw, answer |-> "not_empty"]
    BY <1>2, <1>8, <1>9, <1>13
  <2>2. r.w = hw
    BY <2>1
  <2> QED BY <1>11, <2>2, WarmsUnlinked
<1>14. CASE ~isFullDir(hw, i) /\ validate_access(fw, i, ctx, {}, {"W"}, TRUE)
  <2>1. r = IF b.answer # "ok" THEN b ELSE [b EXCEPT !.w = v]
    BY <1>2, <1>8, <1>9, <1>14
  <2>2. d \in Inos /\ i \in Inos /\ i \in Inos \ {rootIndex} /\ w.inode[i].type \in {"DIR", "REG", "LNK"}
    <3>1. WellFormed(w.inode)
      BY DEF Good
    <3>2. d \in Inos /\ i \in Inos \ {rootIndex} /\ w.inode[i].type # "NONE"
      BY <3>1, NameOf
    <3> QED BY <3>1, <3>2, Shape
  <2>3. /\ c \in Worlds /\ c.files = hw.files
        /\ \A e \in Inos : SameRights(hw.inode[e], c.inode[e])
    <3> HIDE DEF c
    <3>1. hw.inode[i].type \in {"DIR", "REG", "LNK"} /\ c = LessOne(hw, i)
      BY <1>7, <2>2 DEF c
    <3> QED BY <1>7, <2>2, <3>1, LessOneIs
  <2>4. validate_access(c, d, ctx, {"W", "X"}, {}, FALSE)
    <3> HIDE DEF c, b, v
    <3>1. CASE ctx.uid = superuser
      BY <3>1 DEF validate_access, ValidateAccess
    <3>2. CASE w.files[i] = Append(w.files[d], d)
      <4>1. fw.files[i] = w.files[i] /\ fw.files[d] = w.files[d] /\ hw.files[d] = w.files[d]
        BY <1>2, <1>11, <2>2, WarmsKeep
      <4>2. fw \in Worlds /\ w \in Worlds
        BY <1>3 DEF Good
      <4>3. fw.files[d] \in Seq(Inos) /\ fw.files[i] = Append(fw.files[d], d) /\ c.files[d] = fw.files[d]
        BY <2>2, <2>3, <3>2, <4>1, <4>2, WorldFields
      <4>4. \A e \in Inos : SameRights(fw.inode[e], c.inode[e])
        BY <1>3, <1>7, <2>3
      <4>5. \A k \in DOMAIN fw.files[d] : fw.files[d][k] \in Inos
        BY <4>3
      <4>6. /\ SameRights(fw.inode[d], c.inode[d])
            /\ \A k \in DOMAIN fw.files[d] : SameRights(fw.inode[fw.files[d][k]], c.inode[fw.files[d][k]])
        BY <2>2, <4>4, <4>5
      <4>7. validate_access(fw, i, ctx, {}, {"W"}, TRUE) /\ "W" \in {"W"}
        BY <1>14
      <4> QED BY <2>2, <2>3, <4>2, <4>3, <4>6, <4>7, MayInDir
    <3> QED BY <3>1, <3>2
  <2>5. b.answer = "ok" /\ b = [w |-> b.w, answer |-> "ok"] /\ Unlinked(hw, v, p, d, i)
    <3>1. i = Res(hw.inode, p) /\ i # None /\ d = Res(hw.inode, Front(p)) /\ ~isFullDir(hw, i) /\ p \in Paths
      BY <1>7, <1>14
    <3>2. validate_access(LessOne(hw, i), d, ctx, {"W", "X"}, {}, FALSE)
      BY <2>4
    <3>3. Removable(hw, p, i, d, ctx)
      BY <1>7, <3>1, <3>2, Zenon DEF Removable
    <3>4. Removes(hw, p, i, d, ctx)
      BY <3>3, InnerIs
    <3>5. b = Removing(hw, p, i, d, ctx) /\ v = Leaving(hw, p, i, d, ctx)
      BY DEF Removing, Leaving
    <3> HIDE DEF c, b, v
    <3> QED BY <3>4, <3>5 DEF Removes
  <2> HIDE DEF b, v, c
  <2>6. r.w = v
    BY <2>1, <2>5
  <2>7. Unlinked(w, v, p, d, i)
    <3>1. Good(v) /\ KeptHandles(hw, v) /\ (v.inode = hw.inode \/ Removed(hw.inode, v.inode, d, Last(p), i))
      BY <2>5 DEF Unlinked
    <3>2. Good(v) /\ KeptHandles(w, v) /\ (v.inode = w.inode \/ Removed(w.inode, v.inode, d, Last(p), i))
      BY <1>7, <3>1 DEF KeptHandles
    <3>3. ASSUME NEW e \in Inos, e # i
          PROVE  SameRights(w.inode[e], v.inode[e]) /\ (w.files[e] # NoFile => v.files[e] = w.files[e])
      <4>1. SameRights(hw.inode[e], v.inode[e]) /\ (hw.files[e] # NoFile => v.files[e] = hw.files[e])
        BY <2>5, <3>3 DEF Unlinked
      <4>2. w.files[e] # NoFile => hw.files[e] = w.files[e]
        BY <1>11, WarmsKeep
      <4> QED BY <1>7, <4>1, <4>2
    <3>4. ASSUME NEW q \in Paths, q \notin Leading(p) PROVE v.paths[q] = w.paths[q]
      <4>1. v.paths[q] = hw.paths[q]
        BY <2>5, <3>4 DEF Unlinked
      <4>2. hw.paths[q] = w.paths[q]
        BY <1>11, <3>4 DEF Warms
      <4> QED BY <4>1, <4>2
    <3> QED BY <3>2, <3>3, <3>4 DEF Unlinked
  <2> QED BY <2>6, <2>7
<1> QED BY <1>12, <1>13, <1>14

-----------------------------------------------------------------------------
(* A name moves.                                                           *)
LEMMA PrefixTrans ==
  ASSUME NEW p \in AllPaths, NEW q \in AllPaths, NEW r \in AllPaths, IsPrefix(p, q), IsPrefix(q, r)
  PROVE  IsPrefix(p, r)
<1>1. /\ Len(p) \in 0 .. Len(q) /\ p = Part(q, Len(p)) /\ Len(q) \in 0 .. Len(r) /\ q = Part(r, Len(q))
      /\ Len(p) \in Nat /\ Len(q) \in Nat /\ Len(r) \in Nat
  BY PrefixIsPart, AnyPath
<1>2. Len(p) \in 0 .. Len(r)
  BY <1>1
<1>3. (\A j \in 1 .. Len(p) : Part(q, Len(p))[j] = q[j]) /\ \A j \in 1 .. Len(q) : Part(r, Len(q))[j] = r[j]
  BY <1>1, PartFacts
<1>4. Part(r, Len(p)) \in AllPaths /\ Len(Part(r, Len(p))) = Len(p) /\ \A j \in 1 .. Len(p) : Part(r, Len(p))[j] = r[j]
  BY <1>2, PartFacts
<1>5. \A j \in 1 .. Len(p) : p[j] = q[j]
  BY <1>1, <1>3
<1>6. \A j \in 1 .. Len(p) : q[j] = r[j]
  <2>1. \A j \in 1 .. Len(q) : q[j] = r[j]
    BY <1>1, <1>3
  <2> QED BY <1>1, <2>1
<1>7. p = Part(r, Len(p))
  <2> DEFINE s == Part(r, Len(p))
  <2>1. s \in Seq(Names) /\ p \in Seq(Names) /\ Len(s) = Len(p) /\ \A j \in 1 .. Len(p) : s[j] = p[j]
    BY <1>4, <1>5, <1>6, AnyPath
  <2> HIDE DEF s
  <2>2. s = p
    BY <1>1, <2>1, SeqEqual
  <2> QED BY <2>2 DEF s
<1> QED BY <1>2, <1>7, PrefixIsPart

(* What is cached stays right when a name moves, when no path below the    *)
(* source is cached.                                                       *)
Away(w, source, dest, d, e, i) ==
  /\ Good(w) /\ source \in Paths /\ dest \in Paths /\ ~IsPrefix(source, dest) /\ ~IsPrefix(dest, source)
  /\ d = Res(w.inode, Front(source)) /\ i = Res(w.inode, source) /\ i # None
  /\ e = Res(w.inode, Front(dest)) /\ e \in Inos /\ w.inode[e].type = "DIR" /\ Res(w.inode, dest) = None
  /\ \A q \in Paths : IsStrictPrefix(source, q) => w.paths[q] = None

LEMMA MovedGood ==
  ASSUME NEW w, NEW source, NEW dest, NEW d, NEW e, NEW i, Away(w, source, dest, d, e, i),
         NEW v \in Worlds, Moved(w.inode, v.inode, d, Last(source), e, Last(dest), i),
         \A q \in Paths : v.paths[q] = IF q \in {source, dest} THEN None ELSE w.paths[q],
         v.files = w.files
  PROVE  Good(v)
<1>1. /\ Good(w) /\ source \in Paths /\ dest \in Paths
      /\ d = Res(w.inode, Front(source)) /\ i = Res(w.inode, source) /\ i # None
      /\ e = Res(w.inode, Front(dest)) /\ e \in Inos /\ w.inode[e].type = "DIR" /\ Res(w.inode, dest) = None
      /\ \A q \in Paths : IsStrictPrefix(source, q) => w.paths[q] = None
  BY DEF Away
<1>2. WellFormed(w.inode) /\ Cached(w) /\ w.inode \in Nodes /\ dest \in AllPaths
  BY <1>1, WorldFields DEF Good, AllPaths
<1>3. d \in Inos /\ w.inode[d].type = "DIR" /\ d # None /\ e # None
  BY <1>1, <1>2, NameOf, NamespaceAssumption
<1>4. WellFormed(v.inode)
  BY <1>2, MovedTree
<1> DEFINE X == {source, dest}
<1>5. X \in SUBSET Paths /\ \A x \in X : Res(w.inode, Front(x)) # None /\ w.inode[Res(w.inode, Front(x))].type = "DIR"
  BY <1>1, <1>3
<1>6. ASSUME NEW f \in Inos, NEW n \in Names, v.inode[f].entries[n] # w.inode[f].entries[n]
      PROVE  \E x \in X : f = Res(w.inode, Front(x)) /\ n = Last(x)
  <2>1. v.inode[f].entries[n] = IF f = d /\ n = Last(source) THEN None
                                ELSE IF f = e /\ n = Last(dest) THEN i ELSE w.inode[f].entries[n]
    BY DEF Moved
  <2>2. (f = d /\ n = Last(source)) \/ (f = e /\ n = Last(dest))
    BY <1>6, <2>1
  <2> QED BY <1>1, <2>2
<1>7. ASSUME NEW q \in Paths, v.paths[q] # None
      PROVE  v.paths[q] = w.paths[q] /\ (\A x \in X : ~IsPrefix(x, q)) /\ v.files[v.paths[q]] # NoFile
  <2>1. q # source /\ q # dest /\ v.paths[q] = w.paths[q]
    BY <1>7
  <2>2. w.paths[q] = Res(w.inode, q) /\ w.files[w.paths[q]] # NoFile /\ q \in AllPaths
    BY <1>2, <1>7, <2>1 DEF Cached, AllPaths
  <2>3. ~IsPrefix(dest, q)
    BY <1>1, <1>2, <1>7, <2>1, <2>2, NoneBelow
  <2>4. ~IsPrefix(source, q)
    BY <1>1, <1>7, <2>1 DEF IsStrictPrefix
  <2> QED BY <2>1, <2>2, <2>3, <2>4
<1>8. v.files[rootIndex] = <<>>
  BY <1>2 DEF Cached
<1>9. \A f \in Inos : v.files[f] # NoFile => v.inode[f].type # "NONE"
  <2>1. \A f \in Inos : v.inode[f].type = w.inode[f].type
    BY DEF Moved, KeepsBut
  <2> QED BY <1>2, <2>1 DEF Cached
<1>10. Good(w)
  BY <1>1
<1> HIDE DEF X
<1> QED BY <1>4, <1>5, <1>6, <1>7, <1>8, <1>9, <1>10, TreeGood

(* The end of renamemoveinner: the new name has been added.                *)
Added(w, e, dest, i) == SetInode(w, PutEntry(w.inode, e, Last(dest), i))
Ending(w, source, dest, d, e, i, ctx) == removeNode(Added(w, e, dest, i), d, Last(source), ctx)
Renamed(r, source, dest) == [r EXCEPT !.w.paths[source] = None, !.w.paths[dest] = None]

Ends(w, r, source, dest, d, e, i) ==
  /\ r.answer = "ok"
  /\ Good(Renamed(r, source, dest).w) /\ Renamed(r, source, dest).w.handles = w.handles
  /\ Moved(w.inode, Renamed(r, source, dest).w.inode, d, Last(source), e, Last(dest), i)

LEMMA AddedIs ==
  ASSUME NEW w, NEW source, NEW dest, NEW d, NEW e, NEW i, Away(w, source, dest, d, e, i)
  PROVE  /\ Added(w, e, dest, i) \in Worlds /\ Added(w, e, dest, i).files = w.files
         /\ Added(w, e, dest, i).paths = w.paths /\ Added(w, e, dest, i).handles = w.handles
         /\ Puts(w.inode, Added(w, e, dest, i).inode, e, Last(dest), i)
         /\ \A f \in Inos : /\ Added(w, e, dest, i).inode[f].type = w.inode[f].type
                            /\ Added(w, e, dest, i).inode[f].nlinks = w.inode[f].nlinks
                            /\ SameRights(w.inode[f], Added(w, e, dest, i).inode[f])
         /\ d \in Inos /\ e \in Inos /\ i \in Inos /\ w.inode[d].entries[Last(source)] = i
         /\ w.inode[e].entries[Last(dest)] = None /\ w.inode[d].type = "DIR" /\ Last(source) \in Names /\ Last(dest) \in Names
<1>1. /\ Good(w) /\ source \in Paths /\ dest \in Paths
      /\ d = Res(w.inode, Front(source)) /\ i = Res(w.inode, source) /\ i # None
      /\ e = Res(w.inode, Front(dest)) /\ e \in Inos /\ Res(w.inode, dest) = None
  BY DEF Away
<1>2. WellFormed(w.inode) /\ w.inode \in Nodes /\ w \in Worlds
  BY <1>1, WorldFields DEF Good
<1>3. d \in Inos /\ i \in Inos /\ w.inode[d].type = "DIR" /\ w.inode[d].entries[Last(source)] = i
      /\ Last(source) \in Names /\ Last(dest) \in Names
  BY <1>1, <1>2, NameOf, PathFacts
<1>4. e # None
  BY <1>1, NamespaceAssumption
<1>5. w.inode[e].entries[Last(dest)] = None
  BY <1>1, <1>2, <1>4, ResStep
<1> DEFINE m == PutEntry(w.inode, e, Last(dest), i)
           c == Added(w, e, dest, i)
<1>6. /\ m \in Nodes /\ Puts(w.inode, m, e, Last(dest), i)
      /\ \A f \in Inos : m[f].type = w.inode[f].type /\ m[f].nlinks = w.inode[f].nlinks /\ SameRights(w.inode[f], m[f])
  <2> DEFINE node == w.inode
             k == Last(dest)
  <2>1. node \in Nodes /\ e \in Inos /\ k \in Names /\ i \in Inos \cup {None} /\ m = PutEntry(node, e, k, i)
    BY <1>1, <1>2, <1>3
  <2> HIDE DEF node, k, m
  <2>2. PutDone(node, m, e, k, i)
    BY <2>1, PutIs
  <2> QED BY <2>2 DEF PutDone, node, k
<1>7. c = SetInode(w, m)
  BY DEF Added
<1> HIDE DEF m, c
<1>8. c \in Worlds /\ c.inode = m /\ c.paths = w.paths /\ c.files = w.files /\ c.handles = w.handles
  BY <1>2, <1>6, <1>7, WorldInode
<1> QED BY <1>1, <1>3, <1>5, <1>6, <1>8 DEF c

LEMMA EndingIs ==
  ASSUME NEW w, NEW source, NEW dest, NEW d, NEW e, NEW i, Away(w, source, dest, d, e, i),
         NEW ctx, validate_access(Added(w, e, dest, i), d, ctx, {"W", "X"}, {}, FALSE)
  PROVE  Ends(w, Ending(w, source, dest, d, e, i, ctx), source, dest, d, e, i)
<1> DEFINE c == Added(w, e, dest, i)
           n == Last(source)
           m == Last(dest)
           r == Ending(w, source, dest, d, e, i, ctx)
           u == r.w
           u1 == SetPath(u, source, None)
           v == Renamed(r, source, dest).w
<1>1. /\ c \in Worlds /\ c.files = w.files /\ c.paths = w.paths /\ c.handles = w.handles
      /\ Puts(w.inode, c.inode, e, m, i)
      /\ \A f \in Inos : c.inode[f].type = w.inode[f].type /\ c.inode[f].nlinks = w.inode[f].nlinks
      /\ d \in Inos /\ e \in Inos /\ i \in Inos /\ w.inode[d].entries[n] = i
      /\ w.inode[e].entries[m] = None /\ n \in Names /\ m \in Names
  BY AddedIs
<1>2. i # None /\ source \in Paths /\ dest \in Paths /\ w.inode[e].type = "DIR"
  BY DEF Away
<1>3. r = removeNode(c, d, n, ctx) /\ validate_access(c, d, ctx, {"W", "X"}, {}, FALSE)
  BY DEF Ending
<1> HIDE DEF c, r, n, m
<1>4. RemAnswers(c, d, n, ctx, r)
  BY <1>1, <1>3, RemIs
<1>5. c.inode[d].entries[n] = i
  BY <1>1, <1>2 DEF Puts
<1>6. r.answer = "ok" /\ r = [w |-> r.w, answer |-> r.answer] /\ u = SetInode(c, PutEntry(c.inode, d, n, None))
  <2>1. r.answer # "EACCES"
    BY <1>3, <1>4, Zenon DEF RemAnswers
  <2>2. r.answer # "ENOENT"
    BY <1>2, <1>4, <1>5, Zenon DEF RemAnswers
  <2>3. r.answer = "ok"
    BY <1>4, <2>1, <2>2 DEF RemAnswers
  <2> QED BY <1>4, <2>3, Zenon DEF RemAnswers
<1> DEFINE q == PutEntry(c.inode, d, n, None)
<1>7. /\ q \in Nodes /\ Puts(c.inode, q, d, n, None)
      /\ \A f \in Inos : q[f].type = c.inode[f].type /\ q[f].nlinks = c.inode[f].nlinks
  <2> DEFINE node == c.inode
  <2>1. node \in Nodes /\ q = PutEntry(node, d, n, None)
    BY <1>1, WorldFields
  <2> HIDE DEF node, q
  <2>2. PutDone(node, q, d, n, None)
    BY <1>1, <2>1, PutIs
  <2> QED BY <2>2 DEF PutDone, node
<1>8. u = SetInode(c, q)
  BY <1>6
<1>9. v = SetPath(u1, dest, None)
  <2>1. Renamed(r, source, dest) = [r EXCEPT !.w = [[r.w EXCEPT !.paths[source] = None] EXCEPT !.paths[dest] = None]]
    BY DEF Renamed
  <2>2. Renamed(r, source, dest).w = [[r.w EXCEPT !.paths[source] = None] EXCEPT !.paths[dest] = None]
    BY <1>6, <2>1
  <2> QED BY <2>2 DEF SetPath
<1> HIDE DEF q, u, u1, v
<1>10. u \in Worlds /\ u.inode = q /\ u.paths = w.paths /\ u.files = w.files /\ u.handles = w.handles
  BY <1>1, <1>7, <1>8, WorldInode
<1>11. /\ u1 \in Worlds /\ u1.inode = q /\ u1.files = w.files /\ u1.handles = w.handles
       /\ \A k \in Paths : u1.paths[k] = IF k = source THEN None ELSE w.paths[k]
  BY <1>2, <1>10, WorldPath DEF u1
<1>12. /\ v \in Worlds /\ v.inode = q /\ v.files = w.files /\ v.handles = w.handles
       /\ \A k \in Paths : v.paths[k] = IF k = dest THEN None ELSE u1.paths[k]
  BY <1>2, <1>9, <1>11, WorldPath
<1>13. \A k \in Paths : v.paths[k] = IF k \in {source, dest} THEN None ELSE w.paths[k]
  BY <1>11, <1>12
<1>14. Moved(w.inode, v.inode, d, n, e, m, i)
  <2>1. \A f \in Inos, k \in Names :
          q[f].entries[k] = IF f = d /\ k = n THEN None ELSE IF f = e /\ k = m THEN i ELSE w.inode[f].entries[k]
    BY <1>1, <1>7 DEF Puts
  <2>2. KeepsBut(w.inode, q, {})
    BY <1>1, <1>7 DEF KeepsBut
  <2>3. q \in RawNodes
    BY <1>7, RawNodesMore
  <2> QED BY <1>1, <1>2, <1>12, <2>1, <2>2, <2>3 DEF Moved
<1>15. Good(v)
  <2>1. Moved(w.inode, v.inode, d, Last(source), e, Last(dest), i)
    BY <1>14 DEF n, m
  <2> QED BY <1>12, <1>13, <2>1, MovedGood
<1> QED BY <1>6, <1>12, <1>14, <1>15 DEF Ends, v, n, m, r

(* When the file at dest is taken away, the source is still where it was.  *)
LEMMA AwayAfter ==
  ASSUME NEW w, Good(w), NEW source \in Paths, NEW dest \in Paths, ~IsPrefix(source, dest), ~IsPrefix(dest, source),
         NEW d, d = Res(w.inode, Front(source)), NEW i, i = Res(w.inode, source), i # None,
         NEW e, e = Res(w.inode, Front(dest)), NEW j, j = Res(w.inode, dest), j # None,
         \A q \in Paths : IsStrictPrefix(source, q) => w.paths[q] = None,
         NEW v, Unlinked(w, v, dest, e, j), Removed(w.inode, v.inode, e, Last(dest), j)
  PROVE  Away(v, source, dest, d, e, i)
<1>1. WellFormed(w.inode) /\ w.inode \in Nodes
  BY WorldFields DEF Good
<1>2. e \in Inos /\ w.inode[e].type = "DIR" /\ e # None /\ w.inode[e].entries[Last(dest)] = j /\ Last(dest) \in Names
  <2>1. e \in Inos /\ w.inode[e].type = "DIR" /\ w.inode[e].entries[Last(dest)] = j
    BY <1>1, NameOf
  <2> QED BY <2>1, NamespaceAssumption, PathFacts
<1>3. Good(v) /\ v.inode \in Nodes
  BY WorldFields DEF Unlinked, Good
<1>4. Puts(w.inode, v.inode, e, Last(dest), None) /\ KeepsBut(w.inode, v.inode, {j}) /\ w.inode[j].entries = Empty
  BY DEF Removed
<1>5. e # j
  <2>1. Empty[Last(dest)] = None
    BY <1>2 DEF Empty
  <2> QED BY <1>2, <1>4, <2>1
<1> DEFINE X == {dest}
<1>6. X \in SUBSET Paths /\ \A x \in X : Res(w.inode, Front(x)) # None /\ w.inode[Res(w.inode, Front(x))].type = "DIR"
  BY <1>2
<1>7. \A f \in Inos, n \in Names :
        v.inode[f].entries[n] # w.inode[f].entries[n] => \E x \in X : f = Res(w.inode, Front(x)) /\ n = Last(x)
  BY <1>4 DEF Puts
<1>8. \A p \in AllPaths : ~IsPrefix(dest, p) => Res(v.inode, p) = Res(w.inode, p)
  <2>1. \A p \in AllPaths : (\A x \in X : ~IsPrefix(x, p)) => Res(v.inode, p) = Res(w.inode, p)
    <3> HIDE DEF X
    <3> QED BY <1>1, <1>3, <1>6, <1>7, TreeKept
  <2> QED BY <2>1
<1>9. source \in AllPaths /\ dest \in AllPaths /\ Front(source) \in AllPaths /\ Front(dest) \in AllPaths
  BY LeadingFront
<1>10. ~IsPrefix(dest, Front(source))
  BY <1>9, PrefixFacts
<1>11. ~IsPrefix(dest, Front(dest))
  <2>1. Len(Front(dest)) = Len(dest) - 1 /\ Len(dest) \in Nat
    BY PathFacts
  <2> QED BY <2>1 DEF IsPrefix
<1>12. Res(v.inode, Front(source)) = d /\ Res(v.inode, source) = i /\ Res(v.inode, Front(dest)) = e
  BY <1>8, <1>9, <1>10, <1>11
<1>13. Res(v.inode, dest) = None
  <2>1. v.inode[e].entries[Last(dest)] = None
    BY <1>2, <1>4 DEF Puts
  <2> QED BY <1>2, <1>3, <1>12, <2>1, ResStep
<1>14. v.inode[e].type = "DIR"
  BY <1>2, <1>4, <1>5 DEF KeepsBut
<1>15. ASSUME NEW q \in Paths, IsStrictPrefix(source, q) PROVE v.paths[q] = None
  <2>1. q \notin Leading(dest)
    <3> SUFFICES ASSUME q \in AllPaths, IsPrefix(q, dest) PROVE FALSE
      BY DEF Leading
    <3>1. IsPrefix(source, q)
      BY <1>15 DEF IsStrictPrefix
    <3> QED BY <1>9, <3>1, PrefixTrans
  <2>2. v.paths[q] = w.paths[q]
    BY <2>1 DEF Unlinked
  <2> QED BY <1>15, <2>2
<1> QED BY <1>2, <1>3, <1>12, <1>13, <1>14, <1>15 DEF Away

(* Who may rename the source may take its name out of its directory.       *)
MayTake(w, c, i, d, j, ctx) ==
  /\ w \in Worlds /\ c \in Worlds /\ i \in Inos /\ d \in Inos /\ d # j /\ w.files[d] # NoFile
  /\ \/ ctx.uid = superuser
     \/ w.files[i] = Append(w.files[d], d) /\ \A k \in DOMAIN w.files[d] : w.files[d][k] # j
  /\ validate_access(w, i, ctx, {}, {"W", "X"}, TRUE)
  /\ c.files[d] = w.files[d] /\ \A f \in Inos : f # j => SameRights(w.inode[f], c.inode[f])

LEMMA MayEnd ==
  ASSUME NEW w, NEW c, NEW i, NEW d, NEW j, NEW ctx, MayTake(w, c, i, d, j, ctx)
  PROVE  validate_access(c, d, ctx, {"W", "X"}, {}, FALSE)
<1>3. /\ w \in Worlds /\ c \in Worlds /\ i \in Inos /\ d \in Inos /\ d # j /\ w.files[d] # NoFile
      /\ \/ ctx.uid = superuser
         \/ w.files[i] = Append(w.files[d], d) /\ \A k \in DOMAIN w.files[d] : w.files[d][k] # j
      /\ validate_access(w, i, ctx, {}, {"W", "X"}, TRUE)
      /\ c.files[d] = w.files[d] /\ \A f \in Inos : f # j => SameRights(w.inode[f], c.inode[f])
  BY DEF MayTake
<1> USE <1>3
<1>1. CASE ctx.uid = superuser
  BY <1>1 DEF validate_access, ValidateAccess
<1>2. CASE w.files[i] = Append(w.files[d], d) /\ \A k \in DOMAIN w.files[d] : w.files[d][k] # j
  <2>1. w.files[d] \in Seq(Inos)
    BY WorldFields
  <2>2. \A k \in DOMAIN w.files[d] : w.files[d][k] \in Inos
    BY <2>1
  <2>3. /\ SameRights(w.inode[d], c.inode[d])
        /\ \A k \in DOMAIN w.files[d] : SameRights(w.inode[w.files[d][k]], c.inode[w.files[d][k]])
    BY <1>2, <2>2
  <2>4. "W" \in {"W", "X"}
    OBVIOUS
  <2> QED BY <1>2, <2>1, <2>3, <2>4, MayInDir
<1> QED BY <1>1, <1>2

(* What renamemove finds before it changes anything.                       *)
Renamable(w, source, dest, ctx, d, e, i, j) ==
  /\ Good(w) /\ source \in Paths /\ dest \in Paths /\ ~IsPrefix(source, dest) /\ ~IsPrefix(dest, source)
  /\ d = Res(w.inode, Front(source)) /\ i = Res(w.inode, source) /\ i # None
  /\ e = Res(w.inode, Front(dest)) /\ e \in Inos /\ w.inode[e].type = "DIR"
  /\ j = Res(w.inode, dest) /\ j # i
  /\ \A q \in Paths : IsStrictPrefix(source, q) => w.paths[q] = None
  /\ w.files[d] # NoFile /\ (j # None => w.files[j] # NoFile /\ w.files[e] # NoFile)
  /\ \/ ctx.uid = superuser
     \/ /\ w.files[i] = Append(w.files[d], d)
        /\ j # None => w.files[j] = Append(w.files[e], e)
        /\ \A k \in DOMAIN w.files[d] : w.files[d][k] # j

(* What it leaves: the tree as it was, the target gone, or the file moved. *)
MovedNode(node, node2, source, dest, d, e, i, j) ==
  \/ node2 = node
  \/ Moved(node, node2, d, Last(source), e, Last(dest), i)
  \/ j # None /\ Removed(node, node2, e, Last(dest), j)
  \/ j # None /\ \E mid : /\ Removed(node, mid, e, Last(dest), j)
                          /\ Moved(mid, node2, d, Last(source), e, Last(dest), i)

RenameDone(w, v, source, dest, d, e, i, j) ==
  Good(v) /\ KeptHandles(w, v) /\ MovedNode(w.inode, v.inode, source, dest, d, e, i, j)

LEMMA RenameInner ==
  ASSUME NEW w, NEW source, NEW dest, NEW ctx, NEW d, NEW e, NEW i, NEW j, Renamable(w, source, dest, ctx, d, e, i, j),
         validate_access(w, i, ctx, {}, {"W", "X"}, TRUE), NEW r, r = renamemoveinner(w, source, dest, ctx)
  PROVE  RenameDone(w, r.w, source, dest, d, e, i, j)
<1> DEFINE m == Last(dest)
           first == addNode(w, e, m, i, ctx)
           u == unlink(first.w, dest, ctx)
           uw == u.w
           again == addNode(uw, e, m, i, ctx)
           second == IF first.answer = "exists" THEN again ELSE first
           b == removeNode(second.w, d, Last(source), ctx)
<1>1. /\ Good(w) /\ source \in Paths /\ dest \in Paths /\ ~IsPrefix(source, dest) /\ ~IsPrefix(dest, source)
      /\ d = Res(w.inode, Front(source)) /\ i = Res(w.inode, source) /\ i # None
      /\ e = Res(w.inode, Front(dest)) /\ e \in Inos /\ w.inode[e].type = "DIR"
      /\ j = Res(w.inode, dest) /\ j # i
      /\ \A q \in Paths : IsStrictPrefix(source, q) => w.paths[q] = None
      /\ w.files[d] # NoFile /\ (j # None => w.files[j] # NoFile /\ w.files[e] # NoFile)
  BY DEF Renamable
<1>2. /\ ctx.uid = superuser \/ (j # None => w.files[j] = Append(w.files[e], e))
      /\ ctx.uid = superuser \/ (/\ w.files[i] = Append(w.files[d], d)
                                 /\ \A k \in DOMAIN w.files[d] : w.files[d][k] # j)
  BY DEF Renamable
<1>3. WellFormed(w.inode) /\ w.inode \in Nodes /\ w \in Worlds /\ None \notin Inos
  BY <1>1, WorldFields, NamespaceAssumption DEF Good
<1>4. source \in AllPaths /\ dest \in AllPaths /\ Front(source) \in AllPaths /\ Front(dest) \in AllPaths /\ m \in Names
  BY <1>1, LeadingFront, PathFacts
<1>5. d \in Inos /\ i \in Inos /\ w.inode[d].type = "DIR" /\ w.inode[d].entries[Last(source)] = i
  BY <1>1, <1>3, NameOf
<1>6. d # j
  <2> SUFFICES ASSUME d = j PROVE FALSE
    OBVIOUS
  <2>1. Front(source) = dest
    BY <1>1, <1>3, <1>4, <1>5, Unique
  <2>2. IsPrefix(dest, Front(source))
    BY <1>4, <2>1, PrefixFacts DEF Leading
  <2>3. IsPrefix(dest, source)
    BY <1>1, <1>4, <2>2, PrefixFacts
  <2> QED BY <1>1, <2>3
<1>7. r = IF second.answer # "ok" THEN second ELSE IF b.answer # "ok" THEN b ELSE Renamed(b, source, dest)
  <2>1. Get(w, source).ino = i /\ Get(w, Front(dest)).ino = e /\ Get(w, Front(source)).ino = d
    BY <1>1, <1>4, GetIs
  <2> QED BY <2>1 DEF renamemoveinner, getParentPath, getChildPath, Renamed
<1>8. w.inode[e].entries[m] = j
  BY <1>1, <1>3, ResStep
<1> HIDE DEF first, m
<1>9. /\ first = [w |-> first.w, answer |-> first.answer]
      /\ first.answer \in {"ok", "exists", "EACCES"}
      /\ first.answer = "ok" => w.inode[e].entries[m] = None /\ first.w = SetInode(w, PutEntry(w.inode, e, m, i))
      /\ first.answer # "ok" => first.w = w
      /\ first.answer = "exists" => w.inode[e].entries[m] # None
  BY <1>1, <1>3, <1>4, <1>5, AddIs DEF first
<1>10. CASE first.answer = "EACCES"
  <2>1. r = first /\ first.w = w
    BY <1>7, <1>9, <1>10
  <2>2. KeptHandles(w, w)
    BY DEF KeptHandles
  <2> QED BY <1>1, <2>1, <2>2 DEF RenameDone, MovedNode
<1>11. CASE first.answer = "ok"
  <2>1. second = first /\ first.w = Added(w, e, dest, i)
    BY <1>9, <1>11 DEF Added, m
  <2>2. Away(w, source, dest, d, e, i)
    BY <1>1, <1>8, <1>9, <1>11 DEF Away
  <2>3. b = Ending(w, source, dest, d, e, i, ctx)
    BY <2>1 DEF Ending
  <2>4. validate_access(Added(w, e, dest, i), d, ctx, {"W", "X"}, {}, FALSE)
    <3> DEFINE c == Added(w, e, dest, i)
    <3>1. c \in Worlds /\ c.files = w.files /\ \A f \in Inos : SameRights(w.inode[f], c.inode[f])
      BY <2>2, AddedIs
    <3> HIDE DEF c
    <3>2. validate_access(c, d, ctx, {"W", "X"}, {}, FALSE)
      <4>1. MayTake(w, c, i, d, j, ctx)
        <5>1. c.files[d] = w.files[d] /\ \A f \in Inos : f # j => SameRights(w.inode[f], c.inode[f])
          BY <3>1
        <5> QED BY <1>1, <1>2, <1>3, <1>5, <1>6, <3>1, <5>1, Zenon DEF MayTake
      <4> QED BY <4>1, MayEnd
    <3> QED BY <3>2 DEF c
  <2>5. Ends(w, b, source, dest, d, e, i)
    BY <2>2, <2>3, <2>4, EndingIs
  <2> HIDE DEF b
  <2>6. r = Renamed(b, source, dest)
    BY <1>7, <1>11, <2>1, <2>5 DEF Ends
  <2>7. Good(r.w) /\ KeptHandles(w, r.w) /\ Moved(w.inode, r.w.inode, d, Last(source), e, Last(dest), i)
    BY <2>5, <2>6 DEF Ends, KeptHandles
  <2> QED BY <2>7 DEF RenameDone, MovedNode
<1>12. CASE first.answer = "exists"
  <2>1. second = again /\ first.w = w /\ j # None /\ u = unlink(w, dest, ctx)
    BY <1>8, <1>9, <1>12
  <2> HIDE DEF u
  <2>2. Unlinked(w, uw, dest, e, j)
    BY <1>1, <1>2, <2>1, UnlinkIs
  <2> HIDE DEF uw
  <2>3. Good(uw) /\ KeptHandles(w, uw) /\ uw \in Worlds /\ uw.inode \in Nodes
    BY <2>2, WorldFields DEF Unlinked, Good
  <2> HIDE DEF again
  <2>4. /\ again = [w |-> again.w, answer |-> again.answer]
        /\ again.answer \in {"ok", "exists", "EACCES"}
        /\ again.answer = "ok" => uw.inode[e].entries[m] = None /\ again.w = SetInode(uw, PutEntry(uw.inode, e, m, i))
        /\ again.answer # "ok" => again.w = uw
    BY <1>1, <1>4, <1>5, <2>3, AddIs DEF again
  <2>5. uw.inode = w.inode \/ Removed(w.inode, uw.inode, e, Last(dest), j)
    BY <2>2 DEF Unlinked
  <2>6. CASE again.answer # "ok"
    <3>1. r.w = uw
      BY <1>7, <2>1, <2>4, <2>6
    <3> QED BY <2>1, <2>3, <2>5, <3>1 DEF RenameDone, MovedNode
  <2>7. CASE again.answer = "ok"
    <3>1. Removed(w.inode, uw.inode, e, Last(dest), j)
      BY <1>8, <2>1, <2>4, <2>5, <2>7
    <3>2. Away(uw, source, dest, d, e, i)
      BY <1>1, <2>1, <2>2, <3>1, AwayAfter
    <3>3. second.w = Added(uw, e, dest, i)
      BY <2>1, <2>4, <2>7 DEF Added, m
    <3>4. b = Ending(uw, source, dest, d, e, i, ctx)
      BY <3>3 DEF Ending
    <3>5. validate_access(Added(uw, e, dest, i), d, ctx, {"W", "X"}, {}, FALSE)
      <4> DEFINE c == Added(uw, e, dest, i)
      <4>1. c \in Worlds /\ c.files = uw.files /\ \A f \in Inos : SameRights(uw.inode[f], c.inode[f])
        BY <3>2, AddedIs
      <4> HIDE DEF c
      <4>2. \A f \in Inos : f # j => SameRights(w.inode[f], uw.inode[f])
        BY <2>2 DEF Unlinked
      <4>3. \A f \in Inos : f # j => SameRights(w.inode[f], c.inode[f])
        BY <4>1, <4>2 DEF SameRights
      <4>4. c.files[d] = w.files[d]
        BY <1>1, <1>5, <1>6, <2>2, <4>1 DEF Unlinked
      <4>5. validate_access(c, d, ctx, {"W", "X"}, {}, FALSE)
        <5>1. MayTake(w, c, i, d, j, ctx)
          BY <1>1, <1>2, <1>3, <1>5, <1>6, <4>1, <4>3, <4>4, Zenon DEF MayTake
        <5> QED BY <5>1, MayEnd
      <4> QED BY <4>5 DEF c
    <3>6. Ends(uw, b, source, dest, d, e, i)
      BY <3>2, <3>4, <3>5, EndingIs
    <3> HIDE DEF b
    <3>7. r = Renamed(b, source, dest)
      BY <1>7, <2>1, <2>7, <3>6 DEF Ends
    <3>8. Good(r.w) /\ r.w.handles = uw.handles /\ Moved(uw.inode, r.w.inode, d, Last(source), e, Last(dest), i)
      BY <3>6, <3>7 DEF Ends
    <3>9. KeptHandles(w, r.w)
      BY <2>3, <3>8 DEF KeptHandles
    <3> QED BY <2>1, <3>1, <3>8, <3>9 DEF RenameDone, MovedNode
  <2> QED BY <2>6, <2>7
<1> QED BY <1>9, <1>10, <1>11, <1>12

(* What is above a file is a directory.                                    *)
LEMMA DirAbove ==
  ASSUME NEW node, WellFormed(node), NEW p \in AllPaths, Res(node, p) # None, NEW q \in Leading(p), q # p
  PROVE  Res(node, q) \in Inos /\ node[Res(node, q)].type = "DIR"
<1>1. node \in Nodes /\ q \in AllPaths /\ IsPrefix(q, p)
  BY Shape DEF Leading
<1>2. Res(node, q) # None
  BY <1>1, NoneBelow
<1>3. Res(node, q) \in Inos
  BY <1>1, <1>2, ResStep
<1>4. node[Res(node, q)].entries # Empty
  BY <1>1, <1>2, LeafBelow
<1> QED BY <1>3, <1>4 DEF WellFormed

LEMMA TrailOf ==
  ASSUME NEW node, WellFormed(node)
  PROVE  \A p \in AllPaths : Res(node, p) # None =>
           \A k \in DOMAIN Front(Trail(node, p)) : \E q \in Leading(p) : q # p /\ Front(Trail(node, p))[k] = Res(node, q)
<1> DEFINE S == {p \in AllPaths : Res(node, p) # None =>
             \A k \in DOMAIN Front(Trail(node, p)) : \E q \in Leading(p) : q # p /\ Front(Trail(node, p))[k] = Res(node, q)}
<1>1. node \in Nodes
  BY Shape
<1>2. RootPath \in S
  <2>1. Trail(node, RootPath) = <<rootIndex>>
    BY <1>1, TrailStep
  <2>2. Front(<<rootIndex>>) = <<>>
    BY DEF Front
  <2> QED BY <2>1, <2>2 DEF AllPaths
<1>3. ASSUME NEW p \in Paths, Front(p) \in S PROVE p \in S
  <2>1. p \in AllPaths /\ Front(p) \in AllPaths /\ Leading(Front(p)) \subseteq Leading(p) /\ Front(p) \in Leading(p)
    BY LeadingFront
  <2> SUFFICES ASSUME Res(node, p) # None, NEW k \in DOMAIN Front(Trail(node, p))
               PROVE  \E q \in Leading(p) : q # p /\ Front(Trail(node, p))[k] = Res(node, q)
    BY <2>1
  <2> DEFINE t == Trail(node, Front(p))
             f == Front(t)
  <2>2. Res(node, Front(p)) # None /\ Front(Trail(node, p)) = t
    BY <1>1, ResStep
  <2>3. t \in Trails /\ Last(t) = Res(node, Front(p))
    BY <1>1, <2>1, TrailStep DEF Res
  <2> HIDE DEF t
  <2>4. t = Append(f, Last(t)) /\ f \in Seq(Inos \cup {None})
    <3>1. Len(t) \in Nat \ {0} /\ t \in Seq(Inos \cup {None})
      BY <2>3 DEF Trails
    <3>2. f = SubSeq(t, 1, Len(t) - 1)
      BY DEF Front
    <3>3. f \in Seq(Inos \cup {None})
      BY <3>1, <3>2, SubSeqProperties
    <3> QED BY <2>3, <3>3, TrailParts
  <2>5. Front(p) # p /\ \A q \in Leading(Front(p)) : q # p
    <3>1. Len(Front(p)) = Len(p) - 1 /\ Len(p) \in Nat
      BY PathFacts
    <3>2. ~IsPrefix(p, Front(p))
      BY <3>1 DEF IsPrefix
    <3> QED BY <3>1, <3>2 DEF Leading
  <2> HIDE DEF f
  <2>6. k \in 1 .. Len(f) + 1 /\ Len(f) \in Nat
    BY <2>2, <2>4
  <2>7. CASE k = Len(f) + 1
    <3>1. t[k] = Last(t)
      BY <2>4, <2>7
    <3> QED BY <2>1, <2>2, <2>3, <2>5, <3>1
  <2>8. CASE k # Len(f) + 1
    <3>1. k \in DOMAIN f /\ t[k] = f[k]
      <4>1. k \in 1 .. Len(f)
        BY <2>6, <2>8
      <4> QED BY <2>4, <4>1
    <3>2. PICK q \in Leading(Front(p)) : f[k] = Res(node, q)
      BY <1>3, <2>2, <3>1 DEF f, t
    <3> QED BY <2>1, <2>2, <2>5, <3>1, <3>2
  <2> QED BY <2>7, <2>8
<1>4. \A p \in AllPaths : p \in S
  <2> HIDE DEF S
  <2> QED BY <1>2, <1>3, PathInduction
<1> QED BY <1>4

(* Source and target lead to different files, and so does all above them.  *)
LEMMA BothDiffer ==
  ASSUME NEW node, WellFormed(node), NEW source \in Paths, NEW dest \in Paths,
         Res(node, source) # None, Res(node, Front(dest)) # None, node[Res(node, Front(dest))].type = "DIR",
         Res(node, source) # Res(node, dest)
  PROVE  \A q, r \in Leading(source) \cup Leading(dest) : Res(node, q) = Res(node, r) /\ Res(node, q) # None => q = r
<1>1. source \in AllPaths /\ dest \in AllPaths /\ Front(dest) \in AllPaths /\ node \in Nodes
  BY LeadingFront, Shape
<1>2. ASSUME NEW q \in Leading(source), q # source PROVE node[Res(node, q)].type = "DIR"
  BY <1>1, <1>2, DirAbove
<1>3. Res(node, Front(dest)) \in Inos
  BY <1>1, ResStep
<1>4. ASSUME NEW r \in Leading(dest), r # dest, Res(node, r) # None PROVE node[Res(node, r)].type = "DIR"
  <2>1. r \in Leading(Front(dest))
    BY <1>1, <1>4, PrefixFacts DEF Leading
  <2> QED BY <1>1, <1>4, <2>1, DirAbove
<1>5. ASSUME NEW q \in Leading(source), NEW r \in Leading(dest), Res(node, q) = Res(node, r), Res(node, q) # None PROVE q = r
  <2>1. q \in AllPaths /\ r \in AllPaths
    BY DEF Leading
  <2>2. CASE node[Res(node, q)].type = "DIR"
    BY <1>5, <2>1, <2>2, Unique
  <2>3. CASE node[Res(node, q)].type # "DIR"
    <3>1. q = source
      BY <1>2, <2>3
    <3>2. r # dest
      BY <1>5, <3>1
    <3> QED BY <1>4, <1>5, <2>3, <3>2
  <2> QED BY <2>2, <2>3
<1> QED BY <1>1, <1>5, LeadingDiffer

(* Below the source nothing is asked for by renamemove.                    *)
LEMMA BelowNotAsked ==
  ASSUME NEW source \in Paths, NEW dest \in Paths, ~IsPrefix(source, dest), NEW q \in Paths, IsStrictPrefix(source, q)
  PROVE  q \notin Leading(source) \cup Leading(dest)
<1>1. source \in AllPaths /\ dest \in AllPaths /\ q \in AllPaths /\ IsPrefix(source, q) /\ source # q
  BY DEF AllPaths, IsStrictPrefix
<1>2. ~IsPrefix(q, dest)
  BY <1>1, PrefixTrans
<1>3. ~IsPrefix(q, source)
  <2> SUFFICES ASSUME IsPrefix(q, source) PROVE FALSE
    OBVIOUS
  <2>1. Len(source) <= Len(q) /\ Len(q) <= Len(source) /\ Len(source) \in Nat /\ Len(q) \in Nat
    BY <1>1, AnyPath DEF IsPrefix
  <2>2. Len(source) = Len(q)
    BY <2>1
  <2>3. q = Part(source, Len(source)) /\ Part(source, Len(source)) = source
    <3>1. q = Part(source, Len(q))
      BY <1>1, PrefixIsPart
    <3>2. Len(source) \in 0 .. Len(source)
      BY <2>1
    <3> QED BY <1>1, <2>2, <3>1, <3>2, PartFacts
  <2> QED BY <1>1, <2>3
<1> QED BY <1>2, <1>3 DEF Leading

(* What GetIs says of the files of a path.                                 *)
AllOpen(node, v, P) == \A q \in P : Res(node, q) # None => v.files[Res(node, q)] # NoFile

LEMMA OpenKept ==
  ASSUME NEW w, NEW v, NEW P, NEW Q, Warms(w, v, P), Q \subseteq AllPaths, w.inode \in Nodes, AllOpen(w.inode, w, Q)
  PROVE  AllOpen(w.inode, v, Q)
<1>1. ASSUME NEW q \in Q, Res(w.inode, q) # None PROVE v.files[Res(w.inode, q)] # NoFile
  <2>1. Res(w.inode, q) \in Inos /\ w.files[Res(w.inode, q)] # NoFile
    BY <1>1, ResStep DEF AllOpen
  <2> QED BY <2>1, WarmsKeep
<1> QED BY <1>1 DEF AllOpen

Asked(source, dest) == Leading(source) \cup Leading(dest)

(* renamemove, by who may or by root.                                      *)
RenameCall(w, v, source, dest, ctx, d, e, i, j) ==
  /\ Good(w) /\ source \in Paths /\ dest \in Paths /\ ~IsPrefix(source, dest) /\ ~IsPrefix(dest, source)
  /\ Warms(w, v, Asked(source, dest)) /\ (ctx.uid = superuser \/ FreshIn(w))
  /\ d = Res(w.inode, Front(source)) /\ i = Res(w.inode, source) /\ i # None
  /\ e = Res(w.inode, Front(dest)) /\ e \in Inos /\ w.inode[e].type = "DIR"
  /\ j = Res(w.inode, dest) /\ j # i
  /\ \A q \in Paths : IsStrictPrefix(source, q) => w.paths[q] = None

LEMMA RenameReady ==
  ASSUME NEW w, NEW x, NEW source, NEW dest, NEW ctx, NEW d, NEW e, NEW i, NEW j,
         RenameCall(w, x, source, dest, ctx, d, e, i, j), AllOpen(w.inode, x, Asked(source, dest))
  PROVE  Renamable(x, source, dest, ctx, d, e, i, j)
<1> DEFINE P == Asked(source, dest)
<1>1. /\ Good(w) /\ source \in Paths /\ dest \in Paths /\ ~IsPrefix(source, dest) /\ ~IsPrefix(dest, source)
      /\ Warms(w, x, P) /\ (ctx.uid = superuser \/ FreshIn(w))
      /\ d = Res(w.inode, Front(source)) /\ i = Res(w.inode, source) /\ i # None
      /\ e = Res(w.inode, Front(dest)) /\ e \in Inos /\ w.inode[e].type = "DIR"
      /\ j = Res(w.inode, dest) /\ j # i
      /\ \A q \in Paths : IsStrictPrefix(source, q) => w.paths[q] = None
  BY DEF RenameCall
<1>2. WellFormed(w.inode) /\ w.inode \in Nodes /\ None \notin Inos
  BY <1>1, WorldFields, NamespaceAssumption DEF Good
<1>3. source \in AllPaths /\ dest \in AllPaths /\ Front(source) \in AllPaths /\ Front(dest) \in AllPaths
      /\ source \in P /\ dest \in P /\ Front(source) \in P /\ Front(dest) \in P
  BY <1>1, LeadingFront DEF Asked
<1>4. d \in Inos /\ i \in Inos /\ d # None /\ e # None
  BY <1>1, <1>2, NameOf
<1>5. Good(x) /\ x.inode = w.inode /\ x.handles = w.handles
  BY <1>1 DEF Warms
<1>6. \A q \in P : Res(w.inode, q) # None => x.files[Res(w.inode, q)] # NoFile
  BY DEF AllOpen
<1>7. x.files[d] # NoFile /\ (j # None => x.files[j] # NoFile /\ x.files[e] # NoFile)
  BY <1>1, <1>3, <1>4, <1>6
<1>8. \A q \in Paths : IsStrictPrefix(source, q) => x.paths[q] = None
  <2> SUFFICES ASSUME NEW q \in Paths, IsStrictPrefix(source, q) PROVE x.paths[q] = None
    OBVIOUS
  <2>1. q \notin P
    BY <1>1, BelowNotAsked DEF Asked
  <2>2. x.paths[q] = w.paths[q]
    BY <1>1, <2>1 DEF Warms
  <2> QED BY <1>1, <2>2
<1>9. ASSUME FreshIn(w)
      PROVE  /\ x.files[i] = Append(x.files[d], d)
             /\ j # None => x.files[j] = Append(x.files[e], e)
             /\ \A k \in DOMAIN x.files[d] : x.files[d][k] # j
  <2>1. FrontClosed(P)
    <3>1. FrontClosed(Leading(source)) /\ FrontClosed(Leading(dest))
      BY <1>3, PrefixFacts
    <3> QED BY <3>1 DEF FrontClosed, Asked
  <2>2. \A q, r \in P : Res(w.inode, q) = Res(w.inode, r) /\ Res(w.inode, q) # None => q = r
    BY <1>1, <1>2, <1>4, BothDiffer DEF Asked
  <2> HIDE DEF P
  <2>3. /\ \A q \in P : Res(w.inode, q) # None => x.files[Res(w.inode, q)] = Front(Trail(w.inode, q))
        /\ \A q \in P \cap Paths : Res(w.inode, q) # None =>
             x.files[Res(w.inode, q)] = Append(x.files[Res(w.inode, Front(q))], Res(w.inode, Front(q)))
    BY <1>1, <1>6, <1>9, <2>1, <2>2, FreshAlong
  <2>4. x.files[i] = Append(x.files[d], d) /\ (j # None => x.files[j] = Append(x.files[e], e))
    BY <1>1, <1>3, <2>3
  <2>5. x.files[d] = Front(Trail(w.inode, Front(source)))
    BY <1>1, <1>3, <1>4, <2>3
  <2>6. ASSUME NEW k \in DOMAIN x.files[d] PROVE x.files[d][k] # j
    <3>1. PICK q \in Leading(Front(source)) : q # Front(source) /\ x.files[d][k] = Res(w.inode, q)
      BY <1>1, <1>2, <1>3, <1>4, <2>5, <2>6, TrailOf
    <3>2. q \in AllPaths /\ Res(w.inode, q) \in Inos /\ w.inode[Res(w.inode, q)].type = "DIR"
      BY <1>1, <1>2, <1>3, <1>4, <3>1, DirAbove DEF Leading
    <3> SUFFICES ASSUME Res(w.inode, q) = j PROVE FALSE
      BY <3>1
    <3>3. q = dest
      BY <1>1, <1>2, <1>3, <3>2, Unique
    <3>4. IsPrefix(dest, Front(source))
      BY <3>1, <3>3 DEF Leading
    <3>5. IsPrefix(dest, source)
      BY <1>1, <1>3, <3>4, PrefixFacts
    <3> QED BY <1>1, <3>5
  <2> QED BY <2>4, <2>6
<1> QED BY <1>1, <1>5, <1>7, <1>8, <1>9 DEF Renamable

LEMMA RenameIs ==
  ASSUME NEW w, NEW v, NEW source, NEW dest, NEW ctx, NEW d, NEW e, NEW i, NEW j,
         RenameCall(w, v, source, dest, ctx, d, e, i, j), NEW r, r = renamemove(v, source, dest, ctx)
  PROVE  RenameDone(w, r.w, source, dest, d, e, i, j)
<1> DEFINE f == Get(v, source)
           fw == f.w
           t == Get(fw, dest)
           x == t.w
<1>1. Good(w) /\ Warms(w, v, Asked(source, dest)) /\ source \in AllPaths /\ dest \in AllPaths /\ i = Res(w.inode, source)
      /\ j = Res(w.inode, dest) /\ i # None
  BY DEF RenameCall, AllPaths
<1>2. Good(v) /\ v.inode = w.inode
  BY <1>1 DEF Warms
<1>3. f.ino = i /\ Warms(v, fw, Leading(source)) /\ AllOpen(w.inode, fw, Leading(source))
  <2> HIDE DEF f
  <2>1. /\ f.ino = Res(v.inode, source) /\ Warms(v, f.w, Leading(source))
        /\ \A q \in Leading(source) : Res(v.inode, q) # None => f.w.files[Res(v.inode, q)] # NoFile
    BY <1>1, <1>2, GetIs DEF f
  <2> QED BY <1>1, <1>2, <2>1 DEF AllOpen
<1>4. Good(fw) /\ fw.inode = w.inode /\ w.inode \in Nodes
  BY <1>2, <1>3, WorldFields DEF Warms, Good
<1>5. t.ino = j /\ Warms(fw, x, Leading(dest)) /\ AllOpen(w.inode, x, Leading(dest))
  <2> HIDE DEF t, fw
  <2>1. /\ t.ino = Res(fw.inode, dest) /\ Warms(fw, t.w, Leading(dest))
        /\ \A q \in Leading(dest) : Res(fw.inode, q) # None => t.w.files[Res(fw.inode, q)] # NoFile
    BY <1>1, <1>4, GetIs DEF t
  <2> QED BY <1>1, <1>4, <2>1 DEF AllOpen
<1>6. r = IF f.ino = None THEN [w |-> x, answer |-> "ENOENT"]
          ELSE IF \/ ~validate_access(x, f.ino, ctx, {}, {"W", "X"}, TRUE)
                  \/ t.ino # None /\ ~validate_access(x, t.ino, ctx, {}, {"W", "X"}, TRUE)
            THEN [w |-> x, answer |-> "EACCES"]
          ELSE IF t.ino # None /\ isFullDir(x, t.ino) THEN [w |-> x, answer |-> "not_empty"]
          ELSE renamemoveinner(x, source, dest, ctx)
  BY DEF renamemove
<1> HIDE DEF f, fw, t, x
<1>7. AllOpen(w.inode, x, Asked(source, dest))
  <2>1. AllOpen(w.inode, x, Leading(source))
    <3>1. Leading(source) \subseteq AllPaths
      BY DEF Leading
    <3> QED BY <1>3, <1>4, <1>5, <3>1, OpenKept
  <2> QED BY <1>5, <2>1 DEF AllOpen, Asked
<1>8. Warms(w, x, Asked(source, dest))
  <2>1. Warms(v, x, Asked(source, dest))
    BY <1>3, <1>5, WarmsBoth DEF Asked
  <2> QED BY <1>1, <2>1, WarmsBoth
<1>9. RenameCall(w, x, source, dest, ctx, d, e, i, j)
  BY <1>8 DEF RenameCall
<1>10. Good(x) /\ x.inode = w.inode /\ x.handles = w.handles
  BY <1>8 DEF Warms
<1>11. RenameDone(w, x, source, dest, d, e, i, j)
  BY <1>10 DEF RenameDone, MovedNode, KeptHandles
<1>12. CASE ~validate_access(x, i, ctx, {}, {"W", "X"}, TRUE)
  <2>1. r = [w |-> x, answer |-> "EACCES"]
    BY <1>1, <1>3, <1>6, <1>12
  <2>2. r.w = x
    BY <2>1
  <2> QED BY <1>11, <2>2
<1>13. CASE validate_access(x, i, ctx, {}, {"W", "X"}, TRUE) /\ t.ino # None
            /\ ~validate_access(x, t.ino, ctx, {}, {"W", "X"}, TRUE)
  <2>1. r = [w |-> x, answer |-> "EACCES"]
    BY <1>1, <1>3, <1>6, <1>13
  <2>2. r.w = x
    BY <2>1
  <2> QED BY <1>11, <2>2
<1>14. CASE /\ validate_access(x, i, ctx, {}, {"W", "X"}, TRUE)
            /\ ~(t.ino # None /\ ~validate_access(x, t.ino, ctx, {}, {"W", "X"}, TRUE))
            /\ t.ino # None /\ isFullDir(x, t.ino)
  <2>1. r = [w |-> x, answer |-> "not_empty"]
    BY <1>1, <1>3, <1>6, <1>14
  <2>2. r.w = x
    BY <2>1
  <2> QED BY <1>11, <2>2
<1>15. CASE /\ validate_access(x, i, ctx, {}, {"W", "X"}, TRUE)
            /\ ~(t.ino # None /\ ~validate_access(x, t.ino, ctx, {}, {"W", "X"}, TRUE))
            /\ ~(t.ino # None /\ isFullDir(x, t.ino))
  <2>1. r = renamemoveinner(x, source, dest, ctx)
    BY <1>1, <1>3, <1>6, <1>15
  <2>2. Renamable(x, source, dest, ctx, d, e, i, j)
    BY <1>7, <1>9, RenameReady
  <2>3. RenameDone(x, r.w, source, dest, d, e, i, j)
    BY <1>15, <2>1, <2>2, RenameInner
  <2> QED BY <1>10, <2>3 DEF RenameDone, KeptHandles
<1> QED BY <1>12, <1>13, <1>14, <1>15

-----------------------------------------------------------------------------
(* What a call leaves: the tree as it was but for owners and modes, or     *)
(* changed in one step, and handles that lead where they led.              *)
SameTree(node, node2) ==
  \A e \in Inos : /\ node2[e].type = node[e].type /\ node2[e].entries = node[e].entries
                  /\ node2[e].nlinks = node[e].nlinks

TreeChange(node, node2) ==
  \/ SameTree(node, node2)
  \/ \E d, n, i : Created(node, node2, d, n, i) \/ Linked(node, node2, d, n, i) \/ Removed(node, node2, d, n, i)
  \/ \E d, n, e, m, i : Moved(node, node2, d, n, e, m, i)
  \/ \E mid, d, n, e, m, i, j : i # j /\ Removed(node, mid, e, m, j) /\ Moved(mid, node2, d, n, e, m, i)

CallDone(w, v) == Good(v) /\ KeptHandles(w, v) /\ TreeChange(w.inode, v.inode)

LEMMA WarmsDone ==
  ASSUME NEW w, NEW v, NEW P, Warms(w, v, P)
  PROVE  CallDone(w, v)
BY DEF Warms, CallDone, KeptHandles, TreeChange, SameTree

LEMMA LookDone ==
  ASSUME NEW w, Good(w), NEW ctx, NEW p \in Paths
  PROVE  CallDone(w, LookUp(w, ctx, p).w)
<1>1. p \in AllPaths
  BY DEF AllPaths
<1> DEFINE g == LookUp(w, ctx, p)
<1>2. Warms(w, g.w, Leading(p))
  <2> HIDE DEF g
  <2> QED BY <1>1, LookUpIs DEF g
<1> HIDE DEF g
<1>3. CallDone(w, g.w)
  BY <1>2, WarmsDone
<1> QED BY <1>3 DEF g

(* The directory of a path is there, and the path is not.                  *)
LEMMA AbsentIs ==
  ASSUME NEW w, Good(w), NEW ctx, NEW p \in Paths, Absent(w, ctx, p)
  PROVE  /\ Res(w.inode, p) = None
         /\ Res(w.inode, Front(p)) \in Inos /\ w.inode[Res(w.inode, Front(p))].type = "DIR"
<1> DEFINE d == LookUp(w, ctx, getParentPath(p))
           dw == d.w
           g == LookUp(dw, ctx, p)
<1>1. p \in AllPaths /\ Front(p) \in AllPaths /\ getParentPath(p) = Front(p)
  BY LeadingFront DEF getParentPath
<1>2. d.answer = "ok" /\ IsDir(dw, d.ino) /\ g.answer = "ENOENT"
  BY DEF Absent
<1>3. /\ Warms(w, dw, Leading(Front(p))) /\ (d.answer = "ok" => d.ino = Res(w.inode, Front(p)) /\ d.ino # None)
  <2>1. d = LookUp(w, ctx, Front(p))
    BY <1>1
  <2> HIDE DEF d
  <2> QED BY <1>1, <2>1, LookUpIs
<1>4. Good(dw) /\ dw.inode = w.inode /\ w.inode \in Nodes
  BY <1>3, WorldFields DEF Warms, Good
<1>5. g.answer = "ENOENT" => Res(dw.inode, p) = None
  <2> HIDE DEF g, dw
  <2> QED BY <1>1, <1>4, LookUpIs DEF g
<1>6. Res(w.inode, Front(p)) \in Inos
  BY <1>1, <1>2, <1>3, <1>4, ResStep
<1>7. w.inode[d.ino].type = "DIR"
  BY <1>2, <1>4 DEF IsDir
<1> QED BY <1>2, <1>3, <1>4, <1>5, <1>6, <1>7

LEMMA MakeDone ==
  ASSUME NEW w, Good(w), NEW ctx \in Contexts, NEW p \in Paths, Absent(w, ctx, p), NEW i \in Inos, w.inode[i].type = "NONE",
         NEW type \in {"DIR", "REG", "LNK"}, NEW mode \in ModeType, NEW v, v = LookUp(w, ctx, p).w
  PROVE  CallDone(w, mkobject(v, p, ctx, type, mode, i).w)
<1> DEFINE d == Res(w.inode, Front(p))
           r == mkobject(v, p, ctx, type, mode, i)
<1>1. Good(v) /\ v.inode = w.inode /\ v.handles = w.handles
  <2> DEFINE g == LookUp(w, ctx, p)
  <2>1. p \in AllPaths
    BY DEF AllPaths
  <2>2. Warms(w, g.w, Leading(p))
    <3> HIDE DEF g
    <3> QED BY <2>1, LookUpIs DEF g
  <2> QED BY <2>2 DEF Warms
<1>2. Res(w.inode, p) = None /\ d \in Inos /\ w.inode[d].type = "DIR"
  BY AbsentIs
<1>3. ctx \in Contexts \cup {Super}
  OBVIOUS
<1>4. /\ Good(r.w) /\ r.w.handles = v.handles
      /\ r.w.inode = v.inode \/ Created(v.inode, r.w.inode, d, Last(p), i)
  <2>1. d = Res(v.inode, Front(p)) /\ v.inode[d].type = "DIR" /\ Res(v.inode, p) = None /\ v.inode[i].type = "NONE"
    BY <1>1, <1>2
  <2> HIDE DEF d, r
  <2> QED BY <1>1, <1>2, <1>3, <2>1, MakeIs DEF r
<1> QED BY <1>1, <1>4 DEF CallDone, TreeChange, SameTree, KeptHandles

LEMMA LookOk ==
  ASSUME NEW w, Good(w), NEW ctx, NEW p \in Paths, NEW g, g = LookUp(w, ctx, p)
  PROVE  /\ Warms(w, g.w, Leading(p)) /\ Good(g.w) /\ g.w.inode = w.inode /\ g.w.handles = w.handles
         /\ p \in AllPaths /\ w.inode \in Nodes /\ WellFormed(w.inode)
         /\ g.answer = "ok" =>
              /\ g.ino = Res(w.inode, p) /\ g.ino # None /\ g.ino \in Inos
              /\ w.inode[g.ino].type \in {"DIR", "REG", "LNK"}
              /\ Res(w.inode, Front(p)) \in Inos /\ w.inode[Res(w.inode, Front(p))].type = "DIR"
              /\ AllOpen(w.inode, g.w, Leading(p))
<1>1. p \in AllPaths /\ w.inode \in Nodes /\ WellFormed(w.inode)
  BY WorldFields DEF AllPaths, Good
<1>2. /\ Warms(w, g.w, Leading(p))
      /\ g.answer = "ok" => /\ g.ino = Res(w.inode, p) /\ g.ino # None
                            /\ \A q \in Leading(p) : Res(w.inode, q) # None => g.w.files[Res(w.inode, q)] # NoFile
  BY <1>1, LookUpIs
<1>3. Good(g.w) /\ g.w.inode = w.inode /\ g.w.handles = w.handles
  BY <1>2 DEF Warms
<1>4. ASSUME g.answer = "ok"
      PROVE  /\ g.ino \in Inos /\ w.inode[g.ino].type \in {"DIR", "REG", "LNK"}
             /\ Res(w.inode, Front(p)) \in Inos /\ w.inode[Res(w.inode, Front(p))].type = "DIR"
  <2>1. Res(w.inode, p) # None
    BY <1>2, <1>4
  <2>2. /\ Res(w.inode, Front(p)) \in Inos /\ w.inode[Res(w.inode, Front(p))].type = "DIR"
        /\ Res(w.inode, p) \in Inos /\ w.inode[Res(w.inode, p)].type # "NONE"
    BY <1>1, <2>1, NameOf
  <2>3. w.inode[Res(w.inode, p)].type \in {"NONE", "DIR", "REG", "LNK"}
    BY <1>1, <2>2, Shape
  <2> QED BY <1>2, <1>4, <2>2, <2>3
<1> QED BY <1>1, <1>2, <1>3, <1>4 DEF AllOpen

LEMMA DoneOn ==
  ASSUME NEW w, NEW v, NEW u, v.inode = w.inode, v.handles = w.handles, CallDone(v, u)
  PROVE  CallDone(w, u)
BY DEF CallDone, KeptHandles

(* hardlink, and the new name is asked for.                                *)
LEMMA HardlinkDone ==
  ASSUME NEW w, Good(w), NEW ctx, NEW target \in Paths, NEW p \in Paths,
         NEW t, t = LookUp(w, ctx, target), t.answer = "ok", ~IsDir(t.w, t.ino), Absent(t.w, ctx, p),
         NEW v, v = LookUp(t.w, ctx, p).w, NEW r, r = hardlink(v, target, p, ctx)
  PROVE  CallDone(w, IF r.answer = "ok" THEN Get(r.w, p).w ELSE r.w)
<1> DEFINE d == Res(w.inode, Front(p))
           i == Res(w.inode, target)
           tw == t.w
<1>1. /\ Good(tw) /\ tw.inode = w.inode /\ tw.handles = w.handles /\ target \in AllPaths
      /\ t.ino = i /\ i \in Inos /\ w.inode[i].type \in {"DIR", "REG", "LNK"}
  BY LookOk
<1>2. w.inode[i].type \in {"REG", "LNK"}
  BY <1>1 DEF IsDir
<1> HIDE DEF tw
<1>3. Good(v) /\ v.inode = w.inode /\ v.handles = w.handles
  <2> DEFINE g == LookUp(tw, ctx, p)
  <2>1. Good(g.w) /\ g.w.inode = tw.inode /\ g.w.handles = tw.handles
    <3> HIDE DEF g
    <3> QED BY <1>1, LookOk DEF g
  <2> QED BY <1>1, <2>1 DEF tw
<1>4. Res(w.inode, p) = None /\ d \in Inos /\ w.inode[d].type = "DIR"
  <2>1. Absent(tw, ctx, p)
    BY DEF tw
  <2> QED BY <1>1, <2>1, AbsentIs
<1>5. /\ Good(r.w) /\ r.w.handles = v.handles
      /\ r.answer = "ok" => Linked(v.inode, r.w.inode, d, Last(p), i)
      /\ r.answer # "ok" => r.w.inode = v.inode
  <2>1. i = Res(v.inode, target) /\ v.inode[i].type \in {"REG", "LNK"} /\ d = Res(v.inode, Front(p))
        /\ v.inode[d].type = "DIR" /\ Res(v.inode, p) = None
    BY <1>2, <1>3, <1>4
  <2> HIDE DEF d, i
  <2> QED BY <1>1, <1>3, <1>4, <2>1, LinkIs
<1> DEFINE rw == r.w
           g == Get(rw, p)
<1>6. Warms(rw, g.w, Leading(p))
  <2>1. p \in AllPaths
    BY DEF AllPaths
  <2> HIDE DEF g, rw
  <2> QED BY <1>5, <2>1, GetIs DEF g, rw
<1>7. Good(g.w) /\ g.w.inode = r.w.inode /\ g.w.handles = w.handles
  BY <1>3, <1>5, <1>6 DEF Warms
<1> HIDE DEF g
<1>8. CASE r.answer = "ok"
  <2>1. CallDone(w, g.w)
    BY <1>3, <1>5, <1>7, <1>8 DEF CallDone, TreeChange, KeptHandles
  <2> QED BY <1>8, <2>1 DEF g
<1>9. CASE r.answer # "ok"
  <2>1. CallDone(w, r.w)
    BY <1>3, <1>5, <1>9 DEF CallDone, TreeChange, SameTree, KeptHandles
  <2> QED BY <1>9, <2>1
<1> QED BY <1>8, <1>9

LEMMA UnlinkDone ==
  ASSUME NEW w, Good(w), NEW ctx, ctx.uid = superuser \/ FreshIn(w), NEW p \in Paths,
         NEW f, f = LookUp(w, ctx, p), f.answer = "ok"
  PROVE  CallDone(w, unlink(f.w, p, ctx).w)
<1> DEFINE v == f.w
           i == Res(v.inode, p)
           d == Res(v.inode, Front(p))
           r == unlink(v, p, ctx)
<1>1. /\ Good(v) /\ v.inode = w.inode /\ v.handles = w.handles /\ p \in AllPaths /\ w.inode \in Nodes /\ WellFormed(w.inode)
      /\ Warms(w, v, Leading(p))
      /\ i \in Inos /\ i # None /\ d \in Inos /\ d # None /\ AllOpen(w.inode, v, Leading(p))
  BY LookOk, NamespaceAssumption
<1>2. p \in Leading(p) /\ Front(p) \in Leading(p) /\ FrontClosed(Leading(p))
  BY <1>1, LeadingFront, PrefixFacts
<1>3. v.files[i] # NoFile /\ v.files[d] # NoFile
  BY <1>1, <1>2 DEF AllOpen
<1>4. ASSUME FreshIn(w) PROVE v.files[i] = Append(v.files[d], d)
  <2> DEFINE P == Leading(p)
  <2>1. \A q, s \in P : Res(w.inode, q) = Res(w.inode, s) /\ Res(w.inode, q) # None => q = s
    BY <1>1, LeadingDiffer
  <2>2. \A q \in P : Res(w.inode, q) # None => v.files[Res(w.inode, q)] # NoFile
    BY <1>1 DEF AllOpen
  <2>3. p \in P \cap Paths /\ Res(w.inode, p) # None
    BY <1>1, <1>2
  <2> HIDE DEF P, v
  <2>4. \A q \in P \cap Paths : Res(w.inode, q) # None =>
              v.files[Res(w.inode, q)] = Append(v.files[Res(w.inode, Front(q))], Res(w.inode, Front(q)))
    BY <1>1, <1>2, <1>4, <2>1, <2>2, FreshAlong DEF P
  <2> QED BY <1>1, <2>3, <2>4
<1>5. Unlinked(v, r.w, p, d, i)
  <2>1. ctx.uid = superuser \/ v.files[i] = Append(v.files[d], d)
    BY <1>4
  <2> HIDE DEF v, i, d, r
  <2> QED BY <1>1, <1>3, <2>1, UnlinkIs DEF i, d, r
<1> HIDE DEF r, v
<1>6. CallDone(v, r.w)
  BY <1>5 DEF Unlinked, CallDone, TreeChange, SameTree
<1>7. CallDone(w, r.w)
  BY <1>1, <1>6, DoneOn
<1> QED BY <1>7 DEF r, v

LEMMA MovedChange ==
  ASSUME NEW u, NEW m, NEW source, NEW dest, NEW d, NEW e, NEW i, NEW j, j # i, MovedNode(u, m, source, dest, d, e, i, j)
  PROVE  TreeChange(u, m)
<1>1. CASE m = u
  BY <1>1 DEF TreeChange, SameTree
<1>2. CASE Moved(u, m, d, Last(source), e, Last(dest), i)
  BY <1>2 DEF TreeChange
<1>3. CASE Removed(u, m, e, Last(dest), j)
  BY <1>3 DEF TreeChange
<1>4. CASE \E mid : Removed(u, mid, e, Last(dest), j) /\ Moved(mid, m, d, Last(source), e, Last(dest), i)
  BY <1>4 DEF TreeChange
<1> QED BY <1>1, <1>2, <1>3, <1>4 DEF MovedNode

LEMMA RenamedDone ==
  ASSUME NEW w, Good(w), NEW ctx, ctx.uid = superuser \/ FreshIn(w), NEW source \in Paths, NEW dest \in Paths,
         NEW f, f = LookUp(w, ctx, source), NEW t, t = LookUp(f.w, ctx, dest), f.answer = "ok",
         ~IsPrefix(source, dest), ~IsPrefix(dest, source),
         Absent(f.w, ctx, dest) \/ (t.answer = "ok" /\ t.ino # f.ino),
         \A q \in Paths : IsStrictPrefix(source, q) => w.paths[q] = None
  PROVE  CallDone(w, renamemove(t.w, source, dest, ctx).w)
<1> DEFINE fw == f.w
           v == t.w
           i == Res(w.inode, source)
           d == Res(w.inode, Front(source))
           j == Res(w.inode, dest)
           e == Res(w.inode, Front(dest))
           r == renamemove(v, source, dest, ctx)
<1>1. /\ Good(fw) /\ fw.inode = w.inode /\ fw.handles = w.handles /\ Warms(w, fw, Leading(source))
      /\ f.ino = i /\ i \in Inos /\ i # None /\ d \in Inos
  BY LookOk
<1>2. /\ Warms(fw, v, Leading(dest)) /\ v.inode = w.inode /\ v.handles = w.handles
      /\ t.answer = "ok" => t.ino = j /\ e \in Inos /\ w.inode[e].type = "DIR"
  <2>1. t = LookUp(fw, ctx, dest)
    OBVIOUS
  <2> HIDE DEF fw
  <2>2. /\ Warms(fw, t.w, Leading(dest)) /\ t.w.inode = fw.inode /\ t.w.handles = fw.handles
        /\ t.answer = "ok" => t.ino = Res(fw.inode, dest) /\ Res(fw.inode, Front(dest)) \in Inos
                              /\ fw.inode[Res(fw.inode, Front(dest))].type = "DIR"
    BY <1>1, <2>1, LookOk
  <2> QED BY <1>1, <2>2
<1>3. Absent(f.w, ctx, dest) => j = None /\ e \in Inos /\ w.inode[e].type = "DIR"
  <2> SUFFICES ASSUME Absent(f.w, ctx, dest) PROVE j = None /\ e \in Inos /\ w.inode[e].type = "DIR"
    OBVIOUS
  <2>1. Absent(fw, ctx, dest)
    OBVIOUS
  <2> HIDE DEF fw
  <2>2. Res(fw.inode, dest) = None /\ Res(fw.inode, Front(dest)) \in Inos /\ fw.inode[Res(fw.inode, Front(dest))].type = "DIR"
    BY <1>1, <2>1, AbsentIs
  <2> QED BY <1>1, <2>2
<1>4. e \in Inos /\ w.inode[e].type = "DIR" /\ j # i
  BY <1>1, <1>2, <1>3
<1>5. Warms(w, v, Asked(source, dest))
  <2> HIDE DEF fw, v
  <2> QED BY <1>1, <1>2, WarmsBoth DEF Asked
<1>6. RenameCall(w, v, source, dest, ctx, d, e, i, j)
  <2> HIDE DEF v
  <2> QED BY <1>1, <1>4, <1>5 DEF RenameCall
<1>7. RenameDone(w, r.w, source, dest, d, e, i, j)
  <2> HIDE DEF r, v, d, e, i, j
  <2> QED BY <1>6, RenameIs DEF r
<1> HIDE DEF r
<1>8. Good(r.w) /\ KeptHandles(w, r.w) /\ MovedNode(w.inode, r.w.inode, source, dest, d, e, i, j)
  BY <1>7 DEF RenameDone
<1>9. TreeChange(w.inode, r.w.inode)
  BY <1>4, <1>8, MovedChange
<1> QED BY <1>8, <1>9 DEF CallDone, r, v

-----------------------------------------------------------------------------
(* Owners and modes.                                                       *)
LEMMA SameTreeGood ==
  ASSUME NEW w, Good(w), NEW x \in Nodes, SameTree(w.inode, x), NEW v, v = SetInode(w, x)
  PROVE  CallDone(w, v)
<1>1. w \in Worlds /\ WellFormed(w.inode) /\ Cached(w) /\ w.inode \in Nodes
  BY WorldFields DEF Good
<1>2. v.inode = x /\ v.paths = w.paths /\ v.files = w.files /\ v.handles = w.handles /\ v \in Worlds
  BY <1>1, WorldInode
<1>3. \A i \in Inos : x[i].type = w.inode[i].type /\ x[i].entries = w.inode[i].entries /\ x[i].nlinks = w.inode[i].nlinks
  BY DEF SameTree
<1>4. ASSUME NEW i \in Inos PROVE NamesOf(x, i) = NamesOf(w.inode, i)
  BY <1>3 DEF NamesOf
<1>5. WellFormed(x)
  <2>1. LinksMatch(x)
    BY <1>1, <1>3, <1>4 DEF LinksMatch, WellFormed
  <2>2. rootIndex \in Inos
    BY NamespaceAssumption
  <2> QED BY <1>1, <1>3, <1>4, <2>1, <2>2 DEF WellFormed, Nodes
<1>6. Good(v)
  <2> DEFINE X == {q \in Paths : FALSE}
  <2>1. X \in SUBSET Paths /\ (\A q \in X : FALSE)
    OBVIOUS
  <2>2. \A q \in Paths : v.paths[q] # None => v.paths[q] = w.paths[q] /\ v.files[v.paths[q]] # NoFile
    BY <1>1, <1>2 DEF Cached
  <2>3. v.files[rootIndex] = <<>> /\ \A i \in Inos : v.files[i] # NoFile => v.inode[i].type # "NONE"
    BY <1>1, <1>2, <1>3 DEF Cached
  <2>4. \A d \in Inos, n \in Names : v.inode[d].entries[n] = w.inode[d].entries[n]
    BY <1>2, <1>3
  <2> HIDE DEF X
  <2> QED BY <1>2, <1>5, <2>1, <2>2, <2>3, <2>4, TreeGood
<1>7. KeptHandles(w, v) /\ TreeChange(w.inode, v.inode)
  BY <1>2 DEF KeptHandles, TreeChange
<1> QED BY <1>6, <1>7 DEF CallDone

LEMMA ModeDone ==
  ASSUME NEW w, Good(w), NEW i \in Inos, NEW m \in ModeType, NEW v, v = [w EXCEPT !.inode[i].mode = m]
  PROVE  CallDone(w, v)
<1>1. w \in Worlds /\ w.inode \in Nodes
  BY WorldFields DEF Good
<1> DEFINE node == w.inode
           r == [node[i] EXCEPT !.mode = m]
           x == [node EXCEPT ![i] = r]
<1>2. v = SetInode(w, x)
  BY <1>1 DEF SetInode
<1>3. node[i] \in NodeType /\ node \in [Inos -> NodeType]
  BY <1>1 DEF Nodes
<1>4. r \in NodeType
  BY <1>3, NodeFields
<1>5. r.type = node[i].type /\ r.entries = node[i].entries /\ r.nlinks = node[i].nlinks
  BY <1>3 DEF NodeType
<1> HIDE DEF r, node
<1>6. x \in Nodes
  BY <1>3, <1>4 DEF Nodes
<1>7. SameTree(node, x)
  BY <1>3, <1>5 DEF SameTree
<1> HIDE DEF x
<1> QED BY <1>2, <1>6, <1>7, SameTreeGood DEF node

LEMMA OwnerDone ==
  ASSUME NEW w, Good(w), NEW i \in Inos, NEW c \in Contexts, NEW v,
         v = [w EXCEPT !.inode[i].uid = c.uid, !.inode[i].gid = c.gid]
  PROVE  CallDone(w, v)
<1>1. w \in Worlds /\ w.inode \in Nodes
  BY WorldFields DEF Good
<1> DEFINE node == w.inode
           a == c.uid
           b == c.gid
           r == [node[i] EXCEPT !.uid = a, !.gid = b]
           x == [node EXCEPT ![i] = r]
<1>2. a \in {k.uid : k \in Contexts \cup {Super}} /\ b \in {k.gid : k \in Contexts \cup {Super}}
  OBVIOUS
<1>3. node[i] \in NodeType /\ node \in [Inos -> NodeType]
  BY <1>1 DEF Nodes
<1>4. r \in NodeType
  <2> HIDE DEF a, b, node
  <2> QED BY <1>2, <1>3, NodeFields
<1>5. r.type = node[i].type /\ r.entries = node[i].entries /\ r.nlinks = node[i].nlinks
  BY <1>3 DEF NodeType
<1>6. v = SetInode(w, x)
  <2>1. [w.inode EXCEPT ![i].uid = a, ![i].gid = b] = x
    BY <1>3
  <2>2. v = [w EXCEPT !.inode = [w.inode EXCEPT ![i].uid = a, ![i].gid = b]]
    BY <1>1, <1>3
  <2> QED BY <2>1, <2>2 DEF SetInode
<1> HIDE DEF r, node
<1>7. x \in Nodes
  BY <1>3, <1>4 DEF Nodes
<1>8. SameTree(node, x)
  BY <1>3, <1>5 DEF SameTree
<1> HIDE DEF x
<1> QED BY <1>6, <1>7, <1>8, SameTreeGood DEF node

LEMMA HandlesGood ==
  ASSUME NEW w, Good(w), NEW x \in [Handles -> [ino : Inos \cup {None}, deleted : BOOLEAN]], NEW v, v = SetHandles(w, x)
  PROVE  Good(v) /\ v.inode = w.inode /\ v.paths = w.paths /\ v.files = w.files /\ v.handles = x
<1>1. w \in Worlds
  BY DEF Good
<1>2. v.inode = w.inode /\ v.paths = w.paths /\ v.files = w.files /\ v.handles = x /\ v \in Worlds
  BY <1>1, WorldHandles
<1> QED BY <1>2 DEF Good, Cached

-----------------------------------------------------------------------------
(* The steps.                                                              *)
LEMMA WorldIs ==
  /\ World.inode = inode /\ World.paths = pathInodeCache /\ World.files = inodeFileCache /\ World.handles = openHandles
  /\ PermsFresh <=> FreshIn(World)
<1>1. World.inode = inode /\ World.paths = pathInodeCache /\ World.files = inodeFileCache /\ World.handles = openHandles
  BY DEF World
<1>2. PermsFresh <=> FreshIn(World)
  BY <1>1 DEF PermsFresh, FreshIn, Resolve, Res
<1> QED BY <1>1, <1>2

LEMMA WorldNext ==
  ASSUME NEW v \in Worlds, Becomes(v)
  PROVE  World' = v
<1>1. v = [inode |-> v.inode, paths |-> v.paths, files |-> v.files, handles |-> v.handles]
  BY DEF Worlds
<1>2. World' = [inode |-> v.inode, paths |-> v.paths, files |-> v.files, handles |-> v.handles]
  BY DEF World, Becomes
<1> QED BY <1>1, <1>2

StepDone == Good(World)' /\ Handled' /\ TreeChange(inode, inode')

LEMMA CallStep ==
  ASSUME NameInv, NEW v, CallDone(World, v), Becomes(v), UNCHANGED kernelOpen
  PROVE  StepDone
<1>1. Good(v) /\ KeptHandles(World, v) /\ TreeChange(World.inode, v.inode) /\ v \in Worlds
  BY DEF CallDone, Good
<1>2. World' = v
  BY <1>1, WorldNext
<1>3. Good(World)'
  BY <1>1, <1>2 DEF Good, Worlds, Cached
<1>4. inode' = v.inode /\ openHandles' = v.handles
  BY DEF Becomes
<1>5. TreeChange(inode, inode')
  BY <1>1, <1>4, WorldIs
<1>6. \A h \in Handles : /\ openHandles'[h].ino = openHandles[h].ino
                         /\ ~openHandles'[h].deleted => ~openHandles[h].deleted
  BY <1>1, <1>4, WorldIs DEF KeptHandles
<1>7. Handled'
  BY <1>6 DEF NameInv, Handled
<1> QED BY <1>3, <1>5, <1>7 DEF StepDone

LEMMA InitInv == Init => NameInv
<1> SUFFICES ASSUME Init PROVE NameInv
  OBVIOUS
<1>1. WellFormed(inode) /\ inode \in [Inos -> NodeType] /\ rootIndex \in Inos /\ None \notin Inos /\ inode[rootIndex].type = "DIR"
  BY TreesAssumption, NamespaceAssumption DEF Init, WellFormed
<1>2. /\ pathInodeCache \in [Paths -> Inos \cup {None}] /\ \A p \in Paths : pathInodeCache[p] = None
  BY DEF Init
<1>3. /\ inodeFileCache \in [Inos -> Seq(Inos) \cup {NoFile}] /\ inodeFileCache[rootIndex] = <<>>
      /\ \A i \in Inos : inodeFileCache[i] # NoFile => i = rootIndex
  BY <1>1 DEF Init
<1>4. openHandles \in [Handles -> [ino : Inos \cup {None}, deleted : BOOLEAN]] /\ \A h \in Handles : openHandles[h].ino = None
  BY DEF Init, Closed
<1>5. kernelOpen \in [Opens -> [ino : Inos \cup {None}, fh : Handles \cup {0}]] /\ \A k \in Opens : kernelOpen[k].fh = 0
  BY DEF Init
<1>6. World \in Worlds
  BY <1>1, <1>2, <1>3, <1>4 DEF World, Worlds
<1>7. Cached(World)
  BY <1>1, <1>2, <1>3, WorldIs DEF Cached
<1>8. Handled
  BY <1>4, <1>5 DEF Handled
<1> QED BY <1>1, <1>6, <1>7, <1>8, WorldIs DEF NameInv, Good

LEMMA GetattrStep ==
  ASSUME NameInv, NEW ctx, NEW p \in Paths, Getattr(ctx, p)
  PROVE  StepDone
<1> DEFINE v == LookUp(World, ctx, p).w
<1>1. Becomes(v) /\ UNCHANGED kernelOpen
  BY DEF Getattr
<1>2. CallDone(World, v)
  BY LookDone DEF NameInv
<1> HIDE DEF v
<1> QED BY <1>1, <1>2, CallStep

LEMMA MakeStep ==
  ASSUME NameInv, NEW ctx \in Contexts, NEW p \in Paths, NEW type \in {"DIR", "REG", "LNK"}, NEW mode \in ModeType,
         Make(ctx, p, type, mode)
  PROVE  StepDone
<1>1. PICK i \in Inos : ~Allocated(World, i) /\ Becomes(mkobject(LookUp(World, ctx, p).w, p, ctx, type, mode, i).w)
  BY DEF Make
<1>2. Absent(World, ctx, p) /\ UNCHANGED kernelOpen /\ Good(World) /\ World.inode[i].type = "NONE"
  BY <1>1 DEF Make, NameInv, Allocated
<1> DEFINE u == LookUp(World, ctx, p).w
           v == mkobject(u, p, ctx, type, mode, i).w
<1>3. CallDone(World, v)
  <2> HIDE DEF u
  <2> QED BY <1>2, MakeDone DEF u
<1>4. Becomes(v)
  BY <1>1
<1> HIDE DEF v
<1> QED BY <1>2, <1>3, <1>4, CallStep

LEMMA HardlinkStep ==
  ASSUME NameInv, NEW ctx, NEW target \in Paths, NEW p \in Paths, Hardlink(ctx, target, p)
  PROVE  StepDone
<1> DEFINE t == LookUp(World, ctx, target)
           u == LookUp(t.w, ctx, p).w
           r == hardlink(u, target, p, ctx)
           v == IF r.answer = "ok" THEN Get(r.w, p).w ELSE r.w
<1>1. t.answer = "ok" /\ ~IsDir(t.w, t.ino) /\ Absent(t.w, ctx, p) /\ Becomes(v) /\ UNCHANGED kernelOpen
  BY DEF Hardlink
<1>2. Good(World)
  BY DEF NameInv
<1>3. CallDone(World, v)
  <2>1. u = LookUp(t.w, ctx, p).w /\ t = LookUp(World, ctx, target) /\ r = hardlink(u, target, p, ctx)
    OBVIOUS
  <2> HIDE DEF t, u, r
  <2> QED BY <1>1, <1>2, <2>1, HardlinkDone
<1> HIDE DEF v
<1> QED BY <1>1, <1>3, CallStep

LEMMA UnlinkStep ==
  ASSUME NameInv, NEW ctx, MayCall(ctx), NEW p \in Paths, Unlink(ctx, p)
  PROVE  StepDone
<1> DEFINE f == LookUp(World, ctx, p)
           v == unlink(f.w, p, ctx).w
<1>1. f.answer = "ok" /\ Becomes(v) /\ UNCHANGED kernelOpen
  BY DEF Unlink
<1>2. Good(World) /\ (ctx.uid = superuser \/ FreshIn(World))
  BY WorldIs DEF NameInv, MayCall
<1>3. CallDone(World, v)
  <2>1. f = LookUp(World, ctx, p)
    OBVIOUS
  <2> HIDE DEF f
  <2> QED BY <1>1, <1>2, <2>1, UnlinkDone
<1> HIDE DEF v
<1> QED BY <1>1, <1>3, CallStep

LEMMA RenameStep ==
  ASSUME NameInv, Steady, NEW ctx, MayCall(ctx), NEW source \in Paths, NEW dest \in Paths, Rename(ctx, source, dest)
  PROVE  StepDone
<1> DEFINE f == LookUp(World, ctx, source)
           t == LookUp(f.w, ctx, dest)
           v == renamemove(t.w, source, dest, ctx).w
<1>1. /\ f.answer = "ok" /\ ~IsPrefix(source, dest) /\ ~IsPrefix(dest, source)
      /\ Absent(f.w, ctx, dest) \/ (t.answer = "ok" /\ t.ino # f.ino)
      /\ \A q \in Paths : IsStrictPrefix(source, q) => pathInodeCache[q] = None
      /\ Becomes(v) /\ UNCHANGED kernelOpen
  BY DEF Rename
<1>2. /\ Good(World) /\ (ctx.uid = superuser \/ FreshIn(World))
      /\ \A q \in Paths : IsStrictPrefix(source, q) => World.paths[q] = None
  BY <1>1, WorldIs DEF NameInv, MayCall
<1>3. CallDone(World, v)
  <2>1. f = LookUp(World, ctx, source) /\ t = LookUp(f.w, ctx, dest)
    OBVIOUS
  <2> HIDE DEF f, t
  <2> QED BY <1>1, <1>2, <2>1, RenamedDone
<1> HIDE DEF v
<1> QED BY <1>1, <1>3, CallStep

LEMMA ChmodStep ==
  ASSUME NameInv, NEW ctx, NEW p \in Paths, NEW mode \in ModeType, Chmod(ctx, p, mode)
  PROVE  StepDone
<1> DEFINE f == LookUp(World, ctx, p)
           fw == f.w
           i == f.ino
           u == [fw EXCEPT !.inode[i].mode = mode]
<1>1. f.answer = "ok" /\ (Becomes(u) \/ Becomes(fw)) /\ UNCHANGED kernelOpen
  <2>1. \/ Becomes(u)
        \/ Becomes(fw)
    BY DEF Chmod
  <2> QED BY <2>1 DEF Chmod
<1>2. Good(World)
  BY DEF NameInv
<1>3. Good(fw) /\ fw.inode = World.inode /\ fw.handles = World.handles /\ i \in Inos
  <2>1. f = LookUp(World, ctx, p)
    OBVIOUS
  <2> HIDE DEF f
  <2> QED BY <1>1, <1>2, <2>1, LookOk
<1>4. CallDone(World, fw)
  BY <1>2, LookDone
<1>5. CallDone(World, u)
  <2>1. u = [fw EXCEPT !.inode[i].mode = mode]
    OBVIOUS
  <2> HIDE DEF u, fw, i
  <2>2. CallDone(fw, u)
    BY <1>3, <2>1, ModeDone
  <2> QED BY <1>3, <2>2, DoneOn
<1> HIDE DEF u, fw
<1> QED BY <1>1, <1>4, <1>5, CallStep

LEMMA ChownStep ==
  ASSUME NameInv, NEW ctx, NEW p \in Paths, NEW owner \in Contexts, Chown(ctx, p, owner.uid, owner.gid)
  PROVE  StepDone
<1> DEFINE f == LookUp(World, ctx, p)
           fw == f.w
           i == f.ino
           u == [fw EXCEPT !.inode[i].uid = owner.uid, !.inode[i].gid = owner.gid]
<1>1. f.answer = "ok" /\ (Becomes(u) \/ Becomes(fw)) /\ UNCHANGED kernelOpen
  <2>1. \/ Becomes(u)
        \/ Becomes(fw)
    BY DEF Chown
  <2> QED BY <2>1 DEF Chown
<1>2. Good(World)
  BY DEF NameInv
<1>3. Good(fw) /\ fw.inode = World.inode /\ fw.handles = World.handles /\ i \in Inos
  <2>1. f = LookUp(World, ctx, p)
    OBVIOUS
  <2> HIDE DEF f
  <2> QED BY <1>1, <1>2, <2>1, LookOk
<1>4. CallDone(World, fw)
  BY <1>2, LookDone
<1>5. CallDone(World, u)
  <2>1. u = [fw EXCEPT !.inode[i].uid = owner.uid, !.inode[i].gid = owner.gid]
    OBVIOUS
  <2> HIDE DEF u, fw, i
  <2>2. CallDone(fw, u)
    BY <1>3, <2>1, OwnerDone
  <2> QED BY <1>3, <2>2, DoneOn
<1> HIDE DEF u, fw
<1> QED BY <1>1, <1>4, <1>5, CallStep

LEMMA FreeHandleIs ==
  ASSUME NEW w, NEW h, h = FreeHandle(w), h # 0
  PROVE  h \in Handles /\ w.handles[h] = Closed
<1> DEFINE places == {k \in Handles : w.handles[k] = Closed}
<1>1. h = IF places = {} THEN 0 ELSE Least(places)
  BY DEF FreeHandle
<1>2. places # {} /\ h = Least(places)
  BY <1>1
<1>3. places \in SUBSET Nat
  BY NamespaceAssumption DEF Handles
<1> HIDE DEF places
<1>4. \E x \in places : \A y \in places : x <= y
  BY <1>2, <1>3, LeastOf
<1>5. h \in places
  BY <1>2, <1>4 DEF Least
<1> QED BY <1>5 DEF places

LEMMA HandleFacts == 0 \notin Handles /\ None \notin Inos
BY NamespaceAssumption DEF Handles

LEMMA OpenStep ==
  ASSUME NameInv, NEW ctx, NEW p \in Paths, NEW want, NEW k \in Opens, Open(ctx, p, want, k)
  PROVE  StepDone
<1> DEFINE f == LookUp(World, ctx, p)
           fw == f.w
           i == f.ino
           h == FreeHandle(fw)
           file == [ino |-> i, deleted |-> FALSE]
           u == [fw EXCEPT !.handles[h] = file]
<1>1. /\ kernelOpen[k].ino = None /\ f.answer = "ok" /\ kernelOpen' = [kernelOpen EXCEPT ![k] = [ino |-> i, fh |-> h]]
      /\ h = 0 => Becomes(fw)
      /\ h # 0 => Becomes(u)
  BY DEF Open
<1>2. Good(World) /\ Handled
  BY DEF NameInv
<1>3. Good(fw) /\ fw.inode = World.inode /\ fw.handles = World.handles /\ i \in Inos
  <2>1. f = LookUp(World, ctx, p)
    OBVIOUS
  <2> HIDE DEF f
  <2> QED BY <1>1, <1>2, <2>1, LookOk
<1>4. h # 0 => h \in Handles /\ openHandles[h] = Closed
  <2> HIDE DEF fw
  <2> QED BY <1>3, FreeHandleIs, WorldIs
<1>5. fw.handles \in [Handles -> [ino : Inos \cup {None}, deleted : BOOLEAN]] /\ fw \in Worlds
  BY <1>3, WorldFields DEF Good
<1>6. file \in [ino : Inos \cup {None}, deleted : BOOLEAN] /\ file.ino = i
  BY <1>3
<1> HIDE DEF f, fw, i, h, file
<1>7. CASE h = 0
  <2>1. Becomes(fw) /\ fw \in Worlds
    BY <1>1, <1>5, <1>7
  <2>2. World' = fw
    BY <2>1, WorldNext
  <2>3. Good(World)'
    BY <1>3, <2>2 DEF Good, Worlds, Cached
  <2>4. inode' = inode /\ openHandles' = openHandles
    BY <1>3, <2>1, WorldIs DEF Becomes
  <2>5. TreeChange(inode, inode')
    BY <2>4 DEF TreeChange, SameTree
  <2>6. /\ kernelOpen'[k] = [ino |-> i, fh |-> 0] /\ \A l \in Opens : l # k => kernelOpen'[l] = kernelOpen[l]
        /\ kernelOpen' \in [Opens -> [ino : Inos \cup {None}, fh : Handles \cup {0}]]
    BY <1>1, <1>2, <1>3, <1>7 DEF Handled
  <2>7. kernelOpen[k].fh = 0
    BY <1>1, <1>2, HandleFacts DEF Handled
  <2>8. \A l \in Opens : kernelOpen'[l].fh = kernelOpen[l].fh /\ (kernelOpen[l].fh # 0 => kernelOpen'[l].ino = kernelOpen[l].ino)
    BY <2>6, <2>7
  <2>9. Handled'
    BY <1>2, <2>4, <2>6, <2>8 DEF Handled
  <2> QED BY <2>3, <2>5, <2>9 DEF StepDone
<1>8. CASE h # 0
  <2> DEFINE x == [fw.handles EXCEPT ![h] = file]
  <2>1. Becomes(u) /\ h \in Handles /\ openHandles[h] = Closed
    BY <1>1, <1>4, <1>8
  <2>2. x \in [Handles -> [ino : Inos \cup {None}, deleted : BOOLEAN]]
    BY <1>5, <1>6, <2>1
  <2>3. u = SetHandles(fw, x)
    BY DEF SetHandles
  <2>4. x[h] = file /\ \A g \in Handles : g # h => x[g] = openHandles[g]
    BY <1>3, <1>5, <2>1, WorldIs
  <2> HIDE DEF x, u
  <2>5. Good(u) /\ u.inode = fw.inode /\ u.handles = x
    BY <1>3, <2>2, <2>3, HandlesGood
  <2>6. u \in Worlds
    BY <2>5 DEF Good
  <2>7. World' = u
    BY <2>1, <2>6, WorldNext
  <2>8. Good(World)'
    BY <2>5, <2>7 DEF Good, Worlds, Cached
  <2>9. inode' = inode /\ openHandles' = x
    BY <1>3, <2>1, <2>5, WorldIs DEF Becomes
  <2>10. TreeChange(inode, inode')
    BY <2>9 DEF TreeChange, SameTree
  <2>11. /\ kernelOpen'[k].ino = i /\ kernelOpen'[k].fh = h /\ \A l \in Opens : l # k => kernelOpen'[l] = kernelOpen[l]
         /\ kernelOpen' \in [Opens -> [ino : Inos \cup {None}, fh : Handles \cup {0}]]
    BY <1>1, <1>2, <1>3, <2>1 DEF Handled
  <2>12. kernelOpen[k].fh = 0
    BY <1>1, <1>2, HandleFacts DEF Handled
  <2>13. ASSUME NEW l \in Opens, kernelOpen[l].fh = h PROVE FALSE
    <3>1. openHandles[h].ino = kernelOpen[l].ino /\ kernelOpen[l].ino \in Inos
      BY <1>2, <1>8, <2>13 DEF Handled
    <3> QED BY <2>1, <3>1, HandleFacts DEF Closed
  <2>14. ASSUME NEW l \in Opens, kernelOpen'[l].fh # 0
         PROVE  /\ kernelOpen'[l].fh \in Handles /\ kernelOpen'[l].ino \in Inos
                /\ openHandles'[kernelOpen'[l].fh].ino = kernelOpen'[l].ino
    <3>1. CASE l = k
      BY <1>3, <1>6, <2>1, <2>4, <2>9, <2>11, <3>1
    <3>2. CASE l # k
      <4>1. kernelOpen'[l] = kernelOpen[l] /\ kernelOpen[l].fh # h
        BY <2>11, <2>13, <3>2
      <4>2. /\ kernelOpen[l].fh \in Handles /\ kernelOpen[l].ino \in Inos
            /\ openHandles[kernelOpen[l].fh].ino = kernelOpen[l].ino
        BY <1>2, <2>14, <4>1 DEF Handled
      <4> QED BY <2>4, <2>9, <4>1, <4>2
    <3> QED BY <3>1, <3>2
  <2>15. \A l, m \in Opens : l # m /\ kernelOpen'[l].fh # 0 => kernelOpen'[l].fh # kernelOpen'[m].fh
    BY <1>2, <2>11, <2>12, <2>13 DEF Handled
  <2>16. ASSUME NEW g \in Handles, openHandles'[g].ino # None, ~openHandles'[g].deleted
         PROVE  \E l \in Opens : kernelOpen'[l].fh = g
    <3>1. CASE g = h
      BY <2>11, <3>1
    <3>2. CASE g # h
      <4>1. PICK l \in Opens : kernelOpen[l].fh = g
        BY <1>2, <2>4, <2>9, <2>16, <3>2 DEF Handled
      <4>2. l # k
        BY <2>12, <4>1, HandleFacts
      <4> QED BY <2>11, <4>1, <4>2
    <3> QED BY <3>1, <3>2
  <2>17. Handled'
    BY <2>11, <2>14, <2>15, <2>16 DEF Handled
  <2> QED BY <2>8, <2>10, <2>17 DEF StepDone
<1> QED BY <1>7, <1>8

LEMMA ReleaseStep ==
  ASSUME NameInv, NEW k \in Opens, Release(k)
  PROVE  StepDone
<1> DEFINE h == kernelOpen[k].fh
           x == IF h # 0 /\ ~openHandles[h].deleted THEN [openHandles EXCEPT ![h] = Closed] ELSE openHandles
           v == SetHandles(World, x)
<1>1. /\ openHandles' = x /\ kernelOpen' = [kernelOpen EXCEPT ![k] = [ino |-> None, fh |-> 0]]
      /\ inode' = inode /\ pathInodeCache' = pathInodeCache /\ inodeFileCache' = inodeFileCache
  BY DEF Release
<1>2. Good(World) /\ Handled
  BY DEF NameInv
<1>3. openHandles \in [Handles -> [ino : Inos \cup {None}, deleted : BOOLEAN]]
  BY <1>2, WorldFields, WorldIs DEF Good
<1>4. h # 0 => h \in Handles
  BY <1>2 DEF Handled
<1>5. Closed \in [ino : Inos \cup {None}, deleted : BOOLEAN] /\ Closed.ino = None
  BY DEF Closed
<1>6. x \in [Handles -> [ino : Inos \cup {None}, deleted : BOOLEAN]]
      /\ (h # 0 /\ ~openHandles[h].deleted => x[h] = Closed) /\ \A g \in Handles : x[g] = openHandles[g] \/ (g = h /\ x[g] = Closed)
  BY <1>3, <1>4, <1>5
<1> HIDE DEF x
<1>7. Good(v) /\ v.inode = World.inode /\ v.paths = World.paths /\ v.files = World.files /\ v.handles = x
  BY <1>2, <1>6, HandlesGood
<1>8. Becomes(v)
  BY <1>1, <1>7, WorldIs DEF Becomes
<1> HIDE DEF v
<1>9. World' = v
  BY <1>7, <1>8, WorldNext DEF Good
<1>10. Good(World)'
  BY <1>7, <1>9 DEF Good, Worlds, Cached
<1>11. TreeChange(inode, inode')
  BY <1>1 DEF TreeChange, SameTree
<1>12. /\ kernelOpen'[k].fh = 0 /\ \A l \in Opens : l # k => kernelOpen'[l] = kernelOpen[l]
       /\ kernelOpen' \in [Opens -> [ino : Inos \cup {None}, fh : Handles \cup {0}]]
  BY <1>1, <1>2 DEF Handled
<1>13. ASSUME NEW l \in Opens, kernelOpen'[l].fh # 0
       PROVE  /\ kernelOpen'[l].fh \in Handles /\ kernelOpen'[l].ino \in Inos
              /\ openHandles'[kernelOpen'[l].fh].ino = kernelOpen'[l].ino
  <2>1. l # k /\ kernelOpen'[l] = kernelOpen[l]
    BY <1>12, <1>13
  <2>2. /\ kernelOpen[l].fh \in Handles /\ kernelOpen[l].ino \in Inos
        /\ openHandles[kernelOpen[l].fh].ino = kernelOpen[l].ino /\ kernelOpen[l].fh # h
    BY <1>2, <1>13, <2>1 DEF Handled
  <2>3. x[kernelOpen[l].fh] = openHandles[kernelOpen[l].fh]
    BY <1>6, <2>2
  <2> QED BY <1>1, <2>1, <2>2, <2>3
<1>14. \A l, m \in Opens : l # m /\ kernelOpen'[l].fh # 0 => kernelOpen'[l].fh # kernelOpen'[m].fh
  BY <1>2, <1>12 DEF Handled
<1>15. ASSUME NEW g \in Handles, openHandles'[g].ino # None, ~openHandles'[g].deleted
       PROVE  \E l \in Opens : kernelOpen'[l].fh = g
  <2>1. x[g] = openHandles[g] /\ g # 0
    BY <1>1, <1>5, <1>6, <1>15, HandleFacts
  <2>2. g # h
    BY <1>1, <1>5, <1>6, <1>15, <2>1
  <2>3. PICK l \in Opens : kernelOpen[l].fh = g
    BY <1>1, <1>2, <1>15, <2>1 DEF Handled
  <2>4. l # k
    BY <2>2, <2>3
  <2> QED BY <1>12, <2>3, <2>4
<1>16. Handled'
  BY <1>12, <1>13, <1>14, <1>15 DEF Handled
<1> QED BY <1>10, <1>11, <1>16 DEF StepDone

LEMMA RemountStep ==
  ASSUME NameInv, Remount
  PROVE  StepDone
<1>1. /\ pathInodeCache' = [p \in Paths |-> None]
      /\ inodeFileCache' = [i \in Inos |-> IF i = rootIndex THEN <<>> ELSE NoFile]
      /\ openHandles' = [h \in Handles |-> Closed]
      /\ inode' = inode /\ kernelOpen' = kernelOpen /\ \A k \in Opens : kernelOpen[k].ino = None
  BY DEF Remount
<1>2. Good(World) /\ Handled
  BY DEF NameInv
<1>3. inode \in [Inos -> NodeType] /\ WellFormed(inode) /\ rootIndex \in Inos /\ inode[rootIndex].type = "DIR"
  BY <1>2, WorldIs, NamespaceAssumption DEF Good, WellFormed
<1>4. pathInodeCache' \in [Paths -> Inos \cup {None}] /\ \A p \in Paths : pathInodeCache'[p] = None
  BY <1>1
<1>5. /\ inodeFileCache' \in [Inos -> Seq(Inos) \cup {NoFile}] /\ inodeFileCache'[rootIndex] = <<>>
      /\ \A i \in Inos : inodeFileCache'[i] # NoFile => i = rootIndex
  BY <1>1, <1>3
<1>6. openHandles' \in [Handles -> [ino : Inos \cup {None}, deleted : BOOLEAN]] /\ \A h \in Handles : openHandles'[h].ino = None
  BY <1>1 DEF Closed
<1>7. World' = [inode |-> inode', paths |-> pathInodeCache', files |-> inodeFileCache', handles |-> openHandles']
  BY DEF World
<1>8. World' \in Worlds
  BY <1>1, <1>3, <1>4, <1>5, <1>6, <1>7 DEF Worlds
<1>9. Good(World)'
  BY <1>1, <1>3, <1>4, <1>5, <1>7, <1>8 DEF Good, Cached, Worlds
<1>10. TreeChange(inode, inode')
  BY <1>1 DEF TreeChange, SameTree
<1>11. \A k \in Opens : kernelOpen[k].fh = 0
  BY <1>1, <1>2, HandleFacts DEF Handled
<1>12. Handled'
  BY <1>1, <1>2, <1>6, <1>11 DEF Handled
<1> QED BY <1>9, <1>10, <1>12 DEF StepDone

LEMMA ModeTypes == AllBits \in ModeType /\ Modes \subseteq ModeType
BY NamespaceAssumption DEF AllBits, ModeType

LEMMA NextStep ==
  ASSUME Steady, NameInv, Next
  PROVE  StepDone
<1>1. \A ctx \in Callers : ctx \in Contexts /\ MayCall(ctx)
  BY DEF Callers
<1>2. ASSUME NEW ctx \in Contexts, NEW p \in Paths, Getattr(ctx, p) PROVE StepDone
  BY <1>2, GetattrStep
<1>3. ASSUME NEW ctx \in Callers, NEW p \in Paths, NEW m \in Modes, Mkdir(ctx, p, m) PROVE StepDone
  BY <1>1, <1>3, ModeTypes, MakeStep DEF Mkdir
<1>4. ASSUME NEW ctx \in Callers, NEW p \in Paths, NEW m \in Modes, Mknod(ctx, p, m) PROVE StepDone
  BY <1>1, <1>4, ModeTypes, MakeStep DEF Mknod
<1>5. ASSUME NEW ctx \in Callers, NEW p \in Paths, Softlink(ctx, p) PROVE StepDone
  BY <1>1, <1>5, ModeTypes, MakeStep DEF Softlink
<1>6. ASSUME NEW ctx \in Callers, NEW t \in Paths, NEW p \in Paths, Hardlink(ctx, t, p) PROVE StepDone
  BY <1>6, HardlinkStep
<1>7. ASSUME NEW ctx \in Callers, NEW p \in Paths, Unlink(ctx, p) PROVE StepDone
  BY <1>1, <1>7, UnlinkStep
<1>8. ASSUME NEW ctx \in Callers, NEW s \in Paths, NEW d \in Paths, Rename(ctx, s, d) PROVE StepDone
  BY <1>1, <1>8, RenameStep
<1>9. ASSUME NEW ctx \in Callers, NEW p \in Paths, NEW m \in Modes, Chmod(ctx, p, m) PROVE StepDone
  BY <1>9, ModeTypes, ChmodStep
<1>10. ASSUME NEW ctx \in Callers, NEW owner \in Contexts, NEW p \in Paths, Chown(ctx, p, owner.uid, owner.gid) PROVE StepDone
  BY <1>10, ChownStep
<1>11. ASSUME NEW ctx \in Callers, NEW p \in Paths, NEW k \in Opens, NEW a \in {{"R"}, {"W"}, {"R", "W"}}, Open(ctx, p, a, k)
       PROVE  StepDone
  BY <1>11, OpenStep
<1>12. ASSUME NEW k \in Opens, Release(k) PROVE StepDone
  BY <1>12, ReleaseStep
<1>13. CASE Remount
  BY <1>13, RemountStep
<1> QED BY <1>2, <1>3, <1>4, <1>5, <1>6, <1>7, <1>8, <1>9, <1>10, <1>11, <1>12, <1>13 DEF Next

LEMMA SameVars ==
  ASSUME NameInv, UNCHANGED vars
  PROVE  NameInv'
BY DEF NameInv, Good, Worlds, Cached, Handled, World, vars

(* While no directory is renamed that has cached paths below it: whatever   *)
(* users call, the tree of directories stays one, every cached path is      *)
(* where the directories lead, and every handle has its owner               *)
(* (get, fs.cpp:451-515; unlinkinner, :671-720; renamemoveinner, :785-800). *)
THEOREM NameInvariant ==
  ASSUME Steady
  PROVE  Spec => []NameInv
<1>1. Init => NameInv
  BY InitInv
<1>2. NameInv /\ [Next]_vars => NameInv'
  <2> SUFFICES ASSUME NameInv, [Next]_vars PROVE NameInv'
    OBVIOUS
  <2>1. CASE Next
    BY <2>1, NextStep DEF StepDone, NameInv
  <2>2. CASE UNCHANGED vars
    BY <2>2, SameVars
  <2> QED BY <2>1, <2>2
<1> QED BY <1>1, <1>2, PTL DEF Spec

(* Records, caches and handles keep their types, and the root is always a   *)
(* directory.                                                               *)
THEOREM NamespaceTyped ==
  ASSUME Steady
  PROVE  Spec => []TypeOK
<1>1. NameInv => TypeOK
  <2> SUFFICES ASSUME NameInv PROVE TypeOK
    OBVIOUS
  <2>1. World \in Worlds /\ WellFormed(World.inode) /\ Handled
    BY DEF NameInv, Good
  <2>2. /\ inode \in [Inos -> NodeType] /\ pathInodeCache \in [Paths -> Inos \cup {None}]
        /\ inodeFileCache \in [Inos -> Seq(Inos) \cup {NoFile}]
        /\ openHandles \in [Handles -> [ino : Inos \cup {None}, deleted : BOOLEAN]]
    BY <2>1, WorldFields, WorldIs DEF Nodes
  <2>3. inode[rootIndex].type = "DIR"
    BY <2>1, WorldIs DEF WellFormed
  <2> QED BY <2>1, <2>2, <2>3 DEF TypeOK, Handled
<1> QED BY <1>1, NameInvariant, PTL

(* A file has as many names as it counts and a directory one: unlinkinner   *)
(* counts down before it takes the name away, hardlink counts up after it   *)
(* added one, and renamemove takes away the target it replaces              *)
(* (fs.cpp:671-720, :785-800, :903-911).                                    *)
THEOREM LinksCounted ==
  ASSUME Steady
  PROVE  Spec => []LinksMatchNames
<1>1. NameInv => LinksMatchNames
  BY WorldIs DEF NameInv, Good, WellFormed, LinksMatchNames
<1> QED BY <1>1, NameInvariant, PTL

(* A handle leads to the file that was opened with it and to no other, and  *)
(* is free again once the kernel has released it, unless its file was       *)
(* deleted meanwhile (fs.cpp:558-577, fuse_main.cpp:200-211).               *)
THEOREM HandlesRight ==
  ASSUME Steady
  PROVE  Spec => []HandlesMatch
<1>1. NameInv => HandlesMatch
  BY DEF NameInv, Handled, HandlesMatch
<1> QED BY <1>1, NameInvariant, PTL

-----------------------------------------------------------------------------
(* The refinement: kinds and entries of the tree, and its steps.           *)
LEMMA KindIs ==
  ASSUME NEW node, WellFormed(node)
  PROVE  \A i \in Inos :
           /\ node[i].type \in {"NONE", "DIR", "REG", "LNK"}
           /\ Kind(node)[i] = "NONE" <=> node[i].type = "NONE"
           /\ Kind(node)[i] = "DIR" <=> node[i].type = "DIR"
           /\ Kind(node)[i] = "FILE" <=> node[i].type \in {"REG", "LNK"}
           /\ Ents(node)[i] = node[i].entries
BY Shape DEF Kind, Ents

WithKind(kinds, i, k) == [kinds EXCEPT ![i] = k]

LEMMA KindOnly ==
  ASSUME NEW node, NEW node2, NEW i \in Inos, KeepsBut(node, node2, {i}), NEW k, k = Kind(node2)[i]
  PROVE  Kind(node2) = WithKind(Kind(node), i, k)
BY DEF Kind, KeepsBut, WithKind

LEMMA KindSame ==
  ASSUME NEW node, NEW node2, \A i \in Inos : Kind(node2)[i] = Kind(node)[i]
  PROVE  Kind(node2) = Kind(node)
BY DEF Kind

LEMMA PutFunction ==
  ASSUME NEW I, NEW N, NEW V, NEW f \in [I -> [N -> V]], NEW g \in [I -> [N -> V]], NEW d \in I, NEW n \in N, NEW x \in V,
         \A e \in I, m \in N : g[e][m] = IF e = d /\ m = n THEN x ELSE f[e][m]
  PROVE  g = [f EXCEPT ![d][n] = x]
<1> DEFINE h == [f EXCEPT ![d][n] = x]
<1>1. h \in [I -> [N -> V]]
  OBVIOUS
<1>2. ASSUME NEW e \in I, NEW m \in N PROVE h[e][m] = IF e = d /\ m = n THEN x ELSE f[e][m]
  <2>1. CASE e = d
    BY <2>1
  <2>2. CASE e # d
    BY <2>2
  <2> QED BY <2>1, <2>2
<1> HIDE DEF h
<1>3. \A e \in I : g[e] = h[e]
  <2> SUFFICES ASSUME NEW e \in I PROVE g[e] = h[e]
    OBVIOUS
  <2> DEFINE a == g[e]
             b == h[e]
  <2>1. a \in [N -> V] /\ b \in [N -> V] /\ \A m \in N : a[m] = b[m]
    BY <1>1, <1>2
  <2> HIDE DEF a, b
  <2>2. a = b
    BY <2>1
  <2> QED BY <2>2 DEF a, b
<1>4. g = h
  BY <1>1, <1>3
<1> QED BY <1>4 DEF h

LEMMA EntsFunction ==
  ASSUME NEW node, WellFormed(node)
  PROVE  Ents(node) \in [Inos -> [Names -> Inos \cup {None}]]
BY Shape DEF Ents

LEMMA EntsPut ==
  ASSUME NEW node, WellFormed(node), NEW node2, WellFormed(node2), NEW d \in Inos, NEW n \in Names, NEW x \in Inos \cup {None},
         Puts(node, node2, d, n, x)
  PROVE  Ents(node2) = [Ents(node) EXCEPT ![d][n] = x]
<1> DEFINE f == Ents(node)
           g == Ents(node2)
           V == Inos \cup {None}
<1>1. f \in [Inos -> [Names -> V]] /\ g \in [Inos -> [Names -> V]]
  BY EntsFunction
<1>2. \A e \in Inos, m \in Names : g[e][m] = IF e = d /\ m = n THEN x ELSE f[e][m]
  BY DEF Puts, Ents
<1> HIDE DEF f, g, V
<1>3. x \in V
  BY DEF V
<1>4. g = [f EXCEPT ![d][n] = x]
  BY <1>1, <1>2, <1>3, PutFunction
<1> QED BY <1>4 DEF f, g

(* What the names say of what there is.                                    *)
LEMMA NamesSay ==
  ASSUME NEW node, WellFormed(node), NEW i \in Inos \ {rootIndex}
  PROVE  /\ NamesOf(node, i) = {} <=> node[i].type = "NONE"
         /\ node[i].type = "DIR" => Cardinality(NamesOf(node, i)) = 1
<1>1. /\ Cardinality(NamesOf(node, i)) = CASE node[i].type = "NONE" -> 0
                                           [] node[i].type = "DIR" -> 1
                                           [] OTHER -> node[i].nlinks
      /\ node[i].type \in {"REG", "LNK"} => node[i].nlinks # 0
  BY DEF WellFormed, LinksMatch
<1>2. node[i].type \in {"NONE", "DIR", "REG", "LNK"} /\ IsFiniteSet(NamesOf(node, i))
  BY Shape
<1>3. NamesOf(node, i) = {} <=> Cardinality(NamesOf(node, i)) = 0
  BY <1>2, FS_EmptySet
<1>4. CASE node[i].type = "NONE"
  BY <1>1, <1>3, <1>4
<1>5. CASE node[i].type = "DIR"
  <2>1. Cardinality(NamesOf(node, i)) = 1
    BY <1>1, <1>5
  <2> QED BY <1>3, <1>5, <2>1
<1>6. CASE node[i].type \in {"REG", "LNK"}
  <2>1. Cardinality(NamesOf(node, i)) = node[i].nlinks /\ node[i].nlinks # 0
    BY <1>1, <1>6
  <2> QED BY <1>3, <1>6, <2>1
<1> QED BY <1>2, <1>4, <1>5, <1>6

(* One name goes and another comes.                                        *)
Swapped(f, d, n, x, e, m, y) == [f EXCEPT ![d][n] = x, ![e][m] = y]
Swaps(I, N, f, g, d, n, x, e, m, y) ==
  \A c \in I, l \in N : g[c][l] = IF c = d /\ l = n THEN x ELSE IF c = e /\ l = m THEN y ELSE f[c][l]

(* The steps of the tree, on two states of the inodes.                     *)
Creates(node, node2, d, n, i, k) ==
  /\ d \in Inos /\ n \in Names /\ i \in Inos /\ k \in {"DIR", "FILE"}
  /\ Kind(node)[d] = "DIR" /\ Ents(node)[d][n] = None /\ Kind(node)[i] = "NONE"
  /\ Kind(node2) = [Kind(node) EXCEPT ![i] = k] /\ Ents(node2) = [Ents(node) EXCEPT ![d][n] = i]
  /\ Ents(node2) # Ents(node)

Links(node, node2, d, n, i) ==
  /\ d \in Inos /\ n \in Names /\ i \in Inos
  /\ Kind(node)[d] = "DIR" /\ Ents(node)[d][n] = None /\ Kind(node)[i] = "FILE"
  /\ Kind(node2) = Kind(node) /\ Ents(node2) = [Ents(node) EXCEPT ![d][n] = i]
  /\ Ents(node2) # Ents(node)

Reaped(node, node2, i) ==
  Kind(node2) = IF Tree!NamesOf(Ents(node2), i) = {} THEN [Kind(node) EXCEPT ![i] = "NONE"] ELSE Kind(node)

Unnames(node, node2, d, n, i) ==
  /\ d \in Inos /\ n \in Names /\ i # None
  /\ Kind(node)[d] = "DIR" /\ Ents(node)[d][n] = i
  /\ Kind(node)[i] = "DIR" => Ents(node)[i] = Empty
  /\ Ents(node2) = [Ents(node) EXCEPT ![d][n] = None] /\ Reaped(node, node2, i)
  /\ Ents(node2) # Ents(node)

Moves(node, node2, d, n, e, m, i, j) ==
  /\ d \in Inos /\ n \in Names /\ e \in Inos /\ m \in Names /\ i # None
  /\ Kind(node)[d] = "DIR" /\ Kind(node)[e] = "DIR" /\ Ents(node)[d][n] = i /\ Ents(node)[e][m] = j /\ <<d, n>> # <<e, m>>
  /\ j # None => j # i /\ (Kind(node)[j] = "DIR" => Ents(node)[j] = Empty)
  /\ Ents(node2) = Swapped(Ents(node), d, n, None, e, m, i)
  /\ IF j = None THEN Kind(node2) = Kind(node) ELSE Reaped(node, node2, j)
  /\ Ents(node2) # Ents(node)

LEMMA CreatedCreates ==
  ASSUME NEW node, WellFormed(node), NEW node2, WellFormed(node2), NEW d, NEW n, NEW i, Created(node, node2, d, n, i)
  PROVE  \E k \in {"DIR", "FILE"} : Creates(node, node2, d, n, i, k)
<1>1. /\ d \in Inos /\ n \in Names /\ i \in Inos
      /\ node[d].type = "DIR" /\ node[d].entries[n] = None /\ node[i].type = "NONE"
      /\ Puts(node, node2, d, n, i) /\ KeepsBut(node, node2, {i}) /\ node2[i].type # "NONE"
  BY DEF Created
<1> DEFINE k == Kind(node2)[i]
<1>2. k \in {"DIR", "FILE"}
  BY <1>1, KindIs
<1>3. Kind(node)[d] = "DIR" /\ Ents(node)[d][n] = None /\ Kind(node)[i] = "NONE"
  BY <1>1, KindIs
<1>4. Kind(node2) = [Kind(node) EXCEPT ![i] = k]
  <2>1. k = Kind(node2)[i]
    OBVIOUS
  <2> HIDE DEF k
  <2>2. Kind(node2) = WithKind(Kind(node), i, k)
    BY <1>1, <2>1, KindOnly
  <2> QED BY <2>2 DEF WithKind
<1>5. Ents(node2) = [Ents(node) EXCEPT ![d][n] = i]
  BY <1>1, EntsPut
<1>6. Ents(node2)[d][n] = i /\ i # None
  BY <1>1, NamespaceAssumption DEF Puts, Ents
<1> HIDE DEF k
<1>7. Creates(node, node2, d, n, i, k)
  BY <1>1, <1>2, <1>3, <1>4, <1>5, <1>6 DEF Creates
<1> QED BY <1>2, <1>7

LEMMA LinkedLinks ==
  ASSUME NEW node, WellFormed(node), NEW node2, WellFormed(node2), NEW d, NEW n, NEW i, Linked(node, node2, d, n, i)
  PROVE  Links(node, node2, d, n, i)
<1>1. /\ d \in Inos /\ n \in Names /\ i \in Inos
      /\ node[d].type = "DIR" /\ node[d].entries[n] = None /\ node[i].type \in {"REG", "LNK"}
      /\ Puts(node, node2, d, n, i) /\ KeepsBut(node, node2, {i}) /\ node2[i].type = node[i].type
  BY DEF Linked
<1>2. Kind(node)[d] = "DIR" /\ Ents(node)[d][n] = None /\ Kind(node)[i] = "FILE"
  BY <1>1, KindIs
<1>3. Kind(node2) = Kind(node)
  BY <1>1, KindSame DEF Kind, KeepsBut
<1>4. Ents(node2) = [Ents(node) EXCEPT ![d][n] = i]
  BY <1>1, EntsPut
<1>5. Ents(node2)[d][n] = i /\ i # None
  BY <1>1, NamespaceAssumption DEF Puts, Ents
<1> QED BY <1>1, <1>2, <1>3, <1>4, <1>5 DEF Links

LEMMA ReapedIs ==
  ASSUME NEW node, WellFormed(node), NEW node2, WellFormed(node2), NEW i \in Inos \ {rootIndex}, KeepsBut(node, node2, {i}),
         node2[i].type \in {"NONE", node[i].type}
  PROVE  Reaped(node, node2, i)
<1>1. Tree!NamesOf(Ents(node2), i) = NamesOf(node2, i)
  <2>1. {s \in Inos \X Names : Ents(node2)[s[1]][s[2]] = i} = NamesOf(node2, i)
    BY DEF NamesOf, Ents
  <2> QED BY <2>1 DEF Tree!NamesOf
<1>2. NamesOf(node2, i) = {} <=> node2[i].type = "NONE"
  BY NamesSay
<1>3. CASE node2[i].type = "NONE"
  <2>1. Kind(node2)[i] = "NONE"
    BY <1>3 DEF Kind
  <2>2. Kind(node2) = WithKind(Kind(node), i, "NONE")
    BY <2>1, KindOnly
  <2> QED BY <1>1, <1>2, <1>3, <2>2 DEF Reaped, WithKind
<1>4. CASE node2[i].type # "NONE"
  <2>1. Kind(node2) = Kind(node)
    BY <1>4, KindSame DEF Kind, KeepsBut
  <2> QED BY <1>1, <1>2, <1>4, <2>1 DEF Reaped
<1> QED BY <1>3, <1>4

LEMMA EntryIs ==
  ASSUME NEW node, WellFormed(node), NEW d \in Inos, NEW n \in Names, NEW i \in Inos, node[d].entries[n] = i
  PROVE  i \in Inos \ {rootIndex} /\ node[d].type = "DIR"
<1>1. i # None /\ <<d, n>> \in NamesOf(node, i)
  BY NamespaceAssumption DEF NamesOf
<1>2. i # rootIndex
  BY <1>1 DEF WellFormed
<1>3. node[d].type # "DIR" => node[d].entries = Empty
  BY DEF WellFormed
<1>4. Empty[n] = None
  BY DEF Empty
<1> QED BY <1>1, <1>2, <1>3, <1>4

LEMMA RemovedUnnames ==
  ASSUME NEW node, WellFormed(node), NEW node2, WellFormed(node2), NEW d, NEW n, NEW i, Removed(node, node2, d, n, i)
  PROVE  Unnames(node, node2, d, n, i)
<1>1. /\ d \in Inos /\ n \in Names /\ i \in Inos
      /\ node[d].entries[n] = i /\ node[i].entries = Empty
      /\ Puts(node, node2, d, n, None) /\ KeepsBut(node, node2, {i}) /\ node2[i].type \in {"NONE", node[i].type}
  BY DEF Removed
<1>2. i # None /\ None \notin Inos
  BY <1>1, NamespaceAssumption
<1>3. i \in Inos \ {rootIndex} /\ node[d].type = "DIR"
  BY <1>1, EntryIs
<1>4. Kind(node)[d] = "DIR" /\ Ents(node)[d][n] = i /\ Ents(node)[i] = Empty
  BY <1>1, <1>3, KindIs
<1>5. Ents(node2) = [Ents(node) EXCEPT ![d][n] = None]
  BY <1>1, EntsPut
<1>6. Reaped(node, node2, i)
  BY <1>1, <1>3, ReapedIs
<1>7. Ents(node2)[d][n] = None
  BY <1>1 DEF Puts, Ents
<1>8. Ents(node2) # Ents(node)
  BY <1>2, <1>4, <1>7
<1> QED BY <1>1, <1>2, <1>4, <1>5, <1>6, <1>8 DEF Unnames

LEMMA TwoPuts ==
  ASSUME NEW I, NEW N, NEW V, NEW f \in [I -> [N -> V]], NEW g \in [I -> [N -> V]], NEW d \in I, NEW n \in N, NEW x \in V,
         NEW e \in I, NEW m \in N, NEW y \in V, <<d, n>> # <<e, m>>, Swaps(I, N, f, g, d, n, x, e, m, y)
  PROVE  g = Swapped(f, d, n, x, e, m, y)
<1> DEFINE h == [f EXCEPT ![d][n] = x]
<1>1. h \in [I -> [N -> V]]
  OBVIOUS
<1>2. ASSUME NEW c \in I, NEW l \in N PROVE h[c][l] = IF c = d /\ l = n THEN x ELSE f[c][l]
  <2>1. CASE c = d
    BY <2>1
  <2>2. CASE c # d
    BY <2>2
  <2> QED BY <2>1, <2>2
<1>3. [f EXCEPT ![d][n] = x, ![e][m] = y] = [h EXCEPT ![e][m] = y]
  OBVIOUS
<1> HIDE DEF h
<1>4. \A c \in I, l \in N : g[c][l] = IF c = e /\ l = m THEN y ELSE h[c][l]
  <2> SUFFICES ASSUME NEW c \in I, NEW l \in N PROVE g[c][l] = IF c = e /\ l = m THEN y ELSE h[c][l]
    OBVIOUS
  <2>1. h[c][l] = IF c = d /\ l = n THEN x ELSE f[c][l]
    BY <1>2
  <2>2. g[c][l] = IF c = d /\ l = n THEN x ELSE IF c = e /\ l = m THEN y ELSE f[c][l]
    BY DEF Swaps
  <2>3. ~(c = d /\ l = n /\ c = e /\ l = m)
    OBVIOUS
  <2> QED BY <2>1, <2>2, <2>3
<1>5. g = [h EXCEPT ![e][m] = y]
  BY <1>1, <1>4, PutFunction
<1> QED BY <1>3, <1>5 DEF Swapped

Renames(node, node2, d, n, e, m, i) ==
  \A c \in Inos, l \in Names :
    node2[c].entries[l] = IF c = d /\ l = n THEN None ELSE IF c = e /\ l = m THEN i ELSE node[c].entries[l]

LEMMA EntsMoved ==
  ASSUME NEW node, WellFormed(node), NEW node2, WellFormed(node2), NEW d \in Inos, NEW n \in Names, NEW e \in Inos,
         NEW m \in Names, NEW i \in Inos, <<d, n>> # <<e, m>>, node[d].entries[n] = i, Renames(node, node2, d, n, e, m, i)
  PROVE  Ents(node2) = Swapped(Ents(node), d, n, None, e, m, i) /\ Ents(node2) # Ents(node)
<1> DEFINE f == Ents(node)
           g == Ents(node2)
           V == Inos \cup {None}
<1>1. f \in [Inos -> [Names -> V]] /\ g \in [Inos -> [Names -> V]]
  BY EntsFunction
<1>2. Swaps(Inos, Names, f, g, d, n, None, e, m, i)
  BY DEF Renames, Ents, Swaps
<1>3. f[d][n] = i
  BY DEF Ents
<1>4. None \in V /\ i \in V /\ None \notin Inos
  BY NamespaceAssumption
<1> HIDE DEF f, g, V
<1>5. g = Swapped(f, d, n, None, e, m, i)
  BY <1>1, <1>2, <1>4, TwoPuts
<1>6. g[d][n] = None
  BY <1>2 DEF Swaps
<1>7. g # f
  BY <1>3, <1>4, <1>6
<1> QED BY <1>5, <1>7 DEF f, g

LEMMA MovedMoves ==
  ASSUME NEW node, WellFormed(node), NEW node2, WellFormed(node2), NEW d, NEW n, NEW e, NEW m, NEW i,
         Moved(node, node2, d, n, e, m, i)
  PROVE  Moves(node, node2, d, n, e, m, i, None)
<1>1. /\ d \in Inos /\ n \in Names /\ e \in Inos /\ m \in Names /\ i \in Inos
      /\ node[d].entries[n] = i /\ node[e].type = "DIR" /\ node[e].entries[m] = None
      /\ Renames(node, node2, d, n, e, m, i) /\ KeepsBut(node, node2, {})
  BY DEF Moved, Renames
<1>2. i # None
  BY <1>1, NamespaceAssumption
<1>3. <<d, n>> # <<e, m>> /\ node[d].type = "DIR"
  <2>1. <<d, n>> # <<e, m>>
    BY <1>1, <1>2
  <2> QED BY <1>1, <2>1, EntryIs
<1>4. Kind(node)[d] = "DIR" /\ Kind(node)[e] = "DIR" /\ Ents(node)[d][n] = i /\ Ents(node)[e][m] = None
  BY <1>1, <1>3, KindIs
<1>5. Ents(node2) = Swapped(Ents(node), d, n, None, e, m, i) /\ Ents(node2) # Ents(node)
  BY <1>1, <1>3, EntsMoved
<1>6. Kind(node2) = Kind(node)
  BY <1>1, KindSame DEF Kind, KeepsBut
<1> QED BY <1>1, <1>2, <1>3, <1>4, <1>5, <1>6 DEF Moves

LEMMA ReplacedMoves ==
  ASSUME NEW node, WellFormed(node), NEW node2, WellFormed(node2), NEW mid, NEW d, NEW n, NEW e, NEW m, NEW i, NEW j, i # j,
         Removed(node, mid, e, m, j), Moved(mid, node2, d, n, e, m, i)
  PROVE  Moves(node, node2, d, n, e, m, i, j)
<1>1. /\ e \in Inos /\ m \in Names /\ j \in Inos
      /\ node[e].entries[m] = j /\ node[j].entries = Empty
      /\ Puts(node, mid, e, m, None) /\ KeepsBut(node, mid, {j}) /\ mid[j].type \in {"NONE", node[j].type}
  BY DEF Removed
<1>2. /\ d \in Inos /\ n \in Names /\ i \in Inos /\ mid[d].entries[n] = i
      /\ Renames(mid, node2, d, n, e, m, i) /\ KeepsBut(mid, node2, {})
  BY DEF Moved, Renames
<1>3. i # None /\ j # None
  BY <1>1, <1>2, NamespaceAssumption
<1>4. <<d, n>> # <<e, m>> /\ node[d].entries[n] = i
  BY <1>1, <1>2, <1>3 DEF Puts
<1>5. node[d].type = "DIR" /\ node[e].type = "DIR" /\ j \in Inos \ {rootIndex}
  <2>1. node[d].type = "DIR"
    BY <1>2, <1>4, EntryIs
  <2> QED BY <1>1, <2>1, EntryIs
<1>6. Renames(node, node2, d, n, e, m, i)
  <2> SUFFICES ASSUME NEW c \in Inos, NEW l \in Names
               PROVE  node2[c].entries[l] = IF c = d /\ l = n THEN None ELSE IF c = e /\ l = m THEN i ELSE node[c].entries[l]
    BY DEF Renames
  <2>1. node2[c].entries[l] = IF c = d /\ l = n THEN None ELSE IF c = e /\ l = m THEN i ELSE mid[c].entries[l]
    BY <1>2 DEF Renames
  <2>2. ~(c = e /\ l = m) => mid[c].entries[l] = node[c].entries[l]
    BY <1>1 DEF Puts
  <2> QED BY <2>1, <2>2
<1>7. KeepsBut(node, node2, {j}) /\ node2[j].type \in {"NONE", node[j].type}
  BY <1>1, <1>2 DEF KeepsBut
<1>8. Reaped(node, node2, j)
  BY <1>5, <1>7, ReapedIs
<1>9. Kind(node)[d] = "DIR" /\ Kind(node)[e] = "DIR" /\ Ents(node)[d][n] = i /\ Ents(node)[e][m] = j /\ Ents(node)[j] = Empty
  BY <1>1, <1>2, <1>4, <1>5, KindIs
<1>10. Ents(node2) = Swapped(Ents(node), d, n, None, e, m, i) /\ Ents(node2) # Ents(node)
  BY <1>1, <1>2, <1>4, <1>6, EntsMoved
<1> QED BY <1>1, <1>2, <1>3, <1>4, <1>8, <1>9, <1>10 DEF Moves

LEMMA SameTreeKinds ==
  ASSUME NEW node, NEW node2, SameTree(node, node2)
  PROVE  Kind(node2) = Kind(node) /\ Ents(node2) = Ents(node)
BY DEF Kind, Ents, SameTree

LEMMA TreeStep ==
  ASSUME WellFormed(inode), WellFormed(inode)', TreeChange(inode, inode')
  PROVE  [Tree!TreeNext]_(Tree!treeVars)
<1>1. WellFormed(inode')
  OBVIOUS
<1>2. CASE SameTree(inode, inode')
  <2>1. Kind(inode') = Kind(inode) /\ Ents(inode') = Ents(inode)
    BY <1>2, SameTreeKinds
  <2> QED BY <2>1 DEF Tree!treeVars
<1>3. ASSUME NEW d, NEW n, NEW i, Created(inode, inode', d, n, i) PROVE Tree!TreeNext
  <2>1. PICK k \in {"DIR", "FILE"} : Creates(inode, inode', d, n, i, k)
    BY <1>1, <1>3, CreatedCreates
  <2>2. Tree!Create(d, n, i, k) /\ d \in Tree!Dirs /\ Ents(inode') # Ents(inode) /\ n \in Names /\ i \in Inos
    BY <2>1 DEF Creates, Tree!Create, Tree!Dirs
  <2> QED BY <2>2 DEF Tree!TreeNext
<1>4. ASSUME NEW d, NEW n, NEW i, Linked(inode, inode', d, n, i) PROVE Tree!TreeNext
  <2>1. Links(inode, inode', d, n, i)
    BY <1>1, <1>4, LinkedLinks
  <2>2. Tree!Link(d, n, i) /\ d \in Tree!Dirs /\ Ents(inode') # Ents(inode) /\ n \in Names /\ i \in Inos
    BY <2>1 DEF Links, Tree!Link, Tree!Dirs
  <2> QED BY <2>2 DEF Tree!TreeNext
<1>5. ASSUME NEW d, NEW n, NEW i, Removed(inode, inode', d, n, i) PROVE Tree!TreeNext
  <2>1. Unnames(inode, inode', d, n, i)
    BY <1>1, <1>5, RemovedUnnames
  <2>2. Tree!Reap(Ents(inode'), i)
    BY <2>1 DEF Unnames, Reaped, Tree!Reap
  <2>3. Tree!IsEmpty(i)
    BY <2>1 DEF Unnames, Tree!IsEmpty, Tree!Empty, Empty
  <2>4. Ents(inode)[d][n] = i /\ i # None /\ Ents(inode') = [Ents(inode) EXCEPT ![d][n] = None]
    BY <2>1 DEF Unnames
  <2>5. Tree!Remove(d, n)
    BY <2>2, <2>3, <2>4 DEF Tree!Remove
  <2>6. d \in Tree!Dirs /\ Ents(inode') # Ents(inode) /\ n \in Names
    BY <2>1 DEF Unnames, Tree!Dirs
  <2> QED BY <2>5, <2>6 DEF Tree!TreeNext
<1>6. ASSUME NEW d, NEW n, NEW e, NEW m, NEW i, NEW j, Moves(inode, inode', d, n, e, m, i, j) PROVE Tree!TreeNext
  <2>1. Tree!Move(d, n, e, m)
    <3>1. j # None => j # i /\ Tree!IsEmpty(j)
      BY <1>6 DEF Moves, Tree!IsEmpty, Tree!Empty, Empty
    <3>2. j # None => Tree!Reap(Ents(inode'), j)
      BY <1>6 DEF Moves, Reaped, Tree!Reap
    <3>3. j = None => Kind(inode') = Kind(inode)
      BY <1>6 DEF Moves
    <3>4. /\ Ents(inode)[d][n] = i /\ Ents(inode)[e][m] = j /\ i # None /\ <<d, n>> # <<e, m>>
          /\ Ents(inode') = [Ents(inode) EXCEPT ![d][n] = None, ![e][m] = i]
      BY <1>6 DEF Moves, Swapped
    <3> QED BY <3>1, <3>2, <3>3, <3>4 DEF Tree!Move
  <2>2. d \in Tree!Dirs /\ e \in Tree!Dirs /\ Ents(inode') # Ents(inode) /\ n \in Names /\ m \in Names
    BY <1>6 DEF Moves, Tree!Dirs
  <2> QED BY <2>1, <2>2 DEF Tree!TreeNext
<1>7. ASSUME NEW d, NEW n, NEW e, NEW m, NEW i, Moved(inode, inode', d, n, e, m, i) PROVE Tree!TreeNext
  BY <1>1, <1>6, <1>7, MovedMoves
<1>8. ASSUME NEW mid, NEW d, NEW n, NEW e, NEW m, NEW i, NEW j, i # j, Removed(inode, mid, e, m, j),
             Moved(mid, inode', d, n, e, m, i)
      PROVE  Tree!TreeNext
  BY <1>1, <1>6, <1>8, ReplacedMoves
<1> QED BY <1>2, <1>3, <1>4, <1>5, <1>7, <1>8 DEF TreeChange

LEMMA TreeStart ==
  ASSUME WellFormed(inode)
  PROVE  Tree!TreeInit
<1>1. rootIndex \in Inos /\ inode[rootIndex].type = "DIR" /\ NamesOf(inode, rootIndex) = {}
  BY NamespaceAssumption DEF WellFormed
<1>2. Kind(inode)[rootIndex] = "DIR"
  BY <1>1, KindIs
<1>3. \A i \in Inos : {s \in Inos \X Names : Ents(inode)[s[1]][s[2]] = i} = NamesOf(inode, i)
  BY DEF NamesOf, Ents
<1>4. \A i \in Inos \ {rootIndex} :
        /\ NamesOf(inode, i) = {} <=> Kind(inode)[i] = "NONE"
        /\ Kind(inode)[i] = "DIR" => Cardinality(NamesOf(inode, i)) = 1
        /\ Kind(inode)[i] # "DIR" => Ents(inode)[i] = Empty
  <2> SUFFICES ASSUME NEW i \in Inos \ {rootIndex}
               PROVE  /\ NamesOf(inode, i) = {} <=> Kind(inode)[i] = "NONE"
                      /\ Kind(inode)[i] = "DIR" => Cardinality(NamesOf(inode, i)) = 1
                      /\ Kind(inode)[i] # "DIR" => Ents(inode)[i] = Empty
    OBVIOUS
  <2>1. inode[i].type # "DIR" => inode[i].entries = Empty
    BY DEF WellFormed
  <2> QED BY <2>1, NamesSay, KindIs
<1>5. \A i \in Inos : Tree!NamesOf(Ents(inode), i) = NamesOf(inode, i)
  BY <1>3 DEF Tree!NamesOf
<1>6. /\ Kind(inode)[rootIndex] = "DIR" /\ Tree!NamesOf(Ents(inode), rootIndex) = {}
      /\ \A i \in Inos \ {rootIndex} :
           /\ Tree!NamesOf(Ents(inode), i) = {} <=> Kind(inode)[i] = "NONE"
           /\ Kind(inode)[i] = "DIR" => Cardinality(Tree!NamesOf(Ents(inode), i)) = 1
           /\ Kind(inode)[i] # "DIR" => Ents(inode)[i] = Tree!Empty
  BY <1>1, <1>2, <1>4, <1>5 DEF Tree!Empty, Empty
<1> QED BY <1>6, Zenon DEF Tree!TreeInit, Tree!Cardinality, Cardinality

(* Every call is one step of the tree or leaves it alone: mkobject,         *)
(* hardlink, unlink and renamemove, with the target renamemove takes away   *)
(* first, whatever fails half way (fs.cpp:600-911).                         *)
THEOREM TreeKeepsToSpec ==
  ASSUME Steady
  PROVE  Spec => TreeSpec
<1>1. Init => Tree!TreeInit
  BY InitInv, TreeStart, WorldIs DEF NameInv, Good
<1>2. NameInv /\ [Next]_vars => [Tree!TreeNext]_(Tree!treeVars)
  <2> SUFFICES ASSUME NameInv, [Next]_vars PROVE [Tree!TreeNext]_(Tree!treeVars)
    OBVIOUS
  <2>1. WellFormed(inode)
    BY WorldIs DEF NameInv, Good
  <2>2. CASE Next
    <3>1. StepDone
      BY <2>2, NextStep
    <3>2. WellFormed(inode)' /\ TreeChange(inode, inode')
      BY <3>1 DEF StepDone, Good, World
    <3> QED BY <2>1, <3>2, TreeStep
  <2>3. CASE UNCHANGED vars
    BY <2>3 DEF vars, Tree!treeVars, Kind, Ents
  <2> QED BY <2>2, <2>3
<1> QED BY <1>1, <1>2, NameInvariant, PTL DEF Spec, TreeSpec, Tree!TreeSpec
=============================================================================
