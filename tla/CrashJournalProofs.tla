--------------------------- MODULE CrashJournalProofs ---------------------------
(* Theorems about CrashJournal, for any names, inodes, contents and slots: *)
(* what the replay of an entry does, once, twice or after other entries,   *)
(* to any mount that can be read; what is loaded of what was stored at     *)
(* rest; and that whatever a call does it does while its entry is on disk, *)
(* with any of the Faults. That Recovered shows the calls (Durable) is     *)
(* checked by the runs.                                                    *)
EXTENDS CrashJournal, FiniteSetTheorems, WellFoundedInduction, TLAPS

(* What a slot, a record and the state of a mount are.                     *)
Slot == [text : Texts, refs : Nat]
Record == [type : {"NONE", "REG", "DIR"}, mode : Modes, size : {0, 1}, ctd : Slots \cup {None}]
Worlds == [meta : [Records -> Record], data : [Slots -> Slot], list : [Records -> Slots \cup {None}]]
DirTexts == {DirText(d) : d \in [Names -> Inos \cup {None}]}
Holders(list, s) == {r \in Records : list[r] = s}

(* Between two steps of a call: counts are exact, and a file has a chunk   *)
(* when it has a size.                                                     *)
Loose(w) ==
  /\ w \in Worlds
  /\ \A r \in Records : (w.list[r] = None <=> w.meta[r].size = 0) /\ w.list[r] # zeroHash
  /\ \A s \in Slots \ {zeroHash} : w.data[s].refs = Cardinality(Holders(w.list, s))

(* What a user can see of a mount: types, modes and texts, wherever they   *)
(* are kept.                                                               *)
Chunk(w, r) == IF w.list[r] = None THEN None ELSE w.data[w.list[r]].text
Face(w) ==
  [r \in Records |-> [type |-> w.meta[r].type, mode |-> w.meta[r].mode, chunk |-> Chunk(w, r)]]

FaceNode == [type : {"NONE", "REG", "DIR"}, mode : Modes, chunk : Texts \cup {None}]
FaceType == [Records -> FaceNode]
DirOf(F) == IF F[root].chunk = None THEN Empty ELSE F[root].chunk.names

(* The directory can be read, and names what is there, each once.          *)
FaceSound(F) ==
  /\ F \in FaceType
  /\ F[root].type = "DIR" /\ F[root].chunk \in DirTexts \cup {None}
  /\ \A i \in Inos : /\ F[i].type \in {"NONE", "REG"}
                     /\ F[i].type = "NONE" => F[i].chunk = None
                     /\ F[i].chunk # None => \E v \in Values : F[i].chunk = Data(v)
  /\ \A n \in Names : DirOf(F)[n] # None => F[DirOf(F)[n]].type = "REG"
  /\ \A n, m \in Names : DirOf(F)[n] # None /\ n # m => DirOf(F)[n] # DirOf(F)[m]

Sound(w) == Loose(w) /\ FaceSound(Face(w))

FileIn(F, i) == [content |-> IF F[i].chunk = None THEN None ELSE F[i].chunk.value, mode |-> F[i].mode]
TreeIn(F) == [n \in Names |-> IF DirOf(F)[n] = None THEN None ELSE FileIn(F, DirOf(F)[n])]

-----------------------------------------------------------------------------
(* Numbers and slots.                                                      *)
LEMMA LeastOf ==
  ASSUME NEW S \in SUBSET Nat, S # {}
  PROVE  \E x \in S : \A y \in S : x <= y
<1>1. PICK x \in S : \A y \in S : ~ (<<y, x>> \in OpToRel(<, Nat))
  BY NatLessThanWellFounded, WFMin
<1>2. ASSUME NEW y \in S PROVE x <= y
  <2>1. <<y, x>> \in Nat \X Nat /\ x \in Nat /\ y \in Nat
    OBVIOUS
  <2>2. <<y, x>>[1] < <<y, x>>[2] => <<y, x>> \in OpToRel(<, Nat)
    BY <2>1 DEF OpToRel
  <2>3. ~ (y < x)
    BY <1>1, <2>2
  <2> QED BY <2>1, <2>3
<1> QED BY <1>2

(* What holds of 0 and goes from each number to the next holds up to n.    *)
LEMMA UpTo ==
  ASSUME NEW n \in Nat, NEW S, 0 \in S, \A k \in 1 .. n : k - 1 \in S => k \in S
  PROVE  \A k \in 0 .. n : k \in S
<1> DEFINE B == (0 .. n) \ S
<1> SUFFICES ASSUME B # {} PROVE FALSE
  OBVIOUS
<1>1. B \in SUBSET Nat
  OBVIOUS
<1>2. PICK x \in B : \A y \in B : x <= y
  <2> HIDE DEF B
  <2> QED BY <1>1, LeastOf
<1>3. x \in 1 .. n /\ x - 1 \in 0 .. n /\ x - 1 \notin B
  <2>1. x \in 0 .. n /\ x # 0 /\ x \in Nat
    OBVIOUS
  <2>2. ~(x <= x - 1)
    BY <2>1
  <2> QED BY <1>2, <2>1, <2>2
<1> QED BY <1>3

LEMMA LeastIn ==
  ASSUME NEW S \in SUBSET Nat, S # {}
  PROVE  Least(S) \in S
BY LeastOf DEF Least

LEMMA Basics ==
  /\ Slots \subseteq Nat /\ zeroHash \in Slots /\ Slots \ {zeroHash} = 1 .. NumSlots /\ NumSlots \in Nat
  /\ root \in Records /\ Inos \subseteq Records /\ root \notin Inos /\ IsFiniteSet(Records)
  /\ None \notin Slots /\ None \notin Texts /\ None \notin Inos /\ Zeros \in Texts /\ mode0 \in Modes
  /\ DirTexts \subseteq Texts
<1>1. IsFiniteSet(Records)
  BY SlotsAssumption, FS_AddElement DEF Records
<1>2. NumSlots \in Nat
  BY JournalAssumption
<1>3. Slots \subseteq Nat /\ zeroHash \in Slots /\ Slots \ {zeroHash} = 1 .. NumSlots
  BY <1>2 DEF Slots, zeroHash
<1>4. Zeros \in Texts /\ DirTexts \subseteq Texts
  BY DEF Texts, DirTexts
<1> QED BY <1>1, <1>2, <1>3, <1>4, JournalAssumption, SlotsAssumption DEF Records

(* There are more slots than files.                                        *)
LEMMA FreeSlot ==
  ASSUME NEW w, Loose(w)
  PROVE  FreeSlots(w) # {}
<1> SUFFICES ASSUME FreeSlots(w) = {} PROVE FALSE
  OBVIOUS
<1> DEFINE S == Slots \ {zeroHash}
<1>1. ASSUME NEW s \in S PROVE Holders(w.list, s) # {}
  <2>1. w.data[s].refs # 0 /\ w.data[s].refs = Cardinality(Holders(w.list, s))
    BY DEF FreeSlots, Loose
  <2> QED BY <2>1, FS_EmptySet
<1> DEFINE f == [s \in S |-> CHOOSE r \in Records : r \in Holders(w.list, s)]
<1>2. \A s \in S : f[s] \in Records /\ w.list[f[s]] = s
  BY <1>1 DEF Holders
<1>3. f \in [S -> Records]
  BY <1>2
<1>4. IsFiniteSet(S) /\ Cardinality(S) = NumSlots
  <2>1. S = 1 .. NumSlots /\ NumSlots \in Nat /\ NumSlots > 0
    <3>1. Cardinality(Records) \in Nat
      BY Basics, FS_CardinalityType
    <3> QED BY <3>1, Basics, SlotsAssumption
  <2> HIDE DEF S
  <2>2. IsFiniteSet(1 .. NumSlots) /\ Cardinality(1 .. NumSlots) = NumSlots
    <3>1. 1 \in Int /\ NumSlots \in Int /\ NumSlots - 1 + 1 = NumSlots /\ ~(1 > NumSlots)
      BY <2>1
    <3> QED BY <3>1, FS_Interval
  <2> QED BY <2>1, <2>2
<1>5. IsFiniteSet(Records) /\ Cardinality(Records) < Cardinality(S)
  <2>1. Cardinality(Records) \in Nat
    BY Basics, FS_CardinalityType
  <2> QED BY <1>4, <2>1, Basics, SlotsAssumption
<1> HIDE DEF f, S
<1>6. \E s, t \in S : s # t /\ f[s] = f[t]
  BY <1>3, <1>4, <1>5, FS_PigeonHole
<1> QED BY <1>2, <1>6

LEMMA WorldFields ==
  ASSUME NEW w \in Worlds
  PROVE  /\ w.meta \in [Records -> Record] /\ w.data \in [Slots -> Slot] /\ w.list \in [Records -> Slots \cup {None}]
         /\ w = [meta |-> w.meta, data |-> w.data, list |-> w.list]
BY DEF Worlds

(* A text is put where it is already, or where nothing is.                 *)
LEMMA HashIs ==
  ASSUME NEW w, Loose(w), NEW text \in Texts, NEW s, s = newHash(w, text)
  PROVE  /\ s \in Slots \ {zeroHash}
         /\ w.data[s].refs = 0 \/ (w.data[s].refs > 0 /\ w.data[s].text = text)
<1> DEFINE found == {x \in Slots \ {zeroHash} : w.data[x].refs > 0 /\ w.data[x].text = text}
<1>1. s = IF found # {} THEN Least(found) ELSE Least(FreeSlots(w))
  BY DEF newHash
<1>2. found \subseteq Nat /\ FreeSlots(w) \subseteq Nat
  BY Basics DEF FreeSlots
<1>3. CASE found # {}
  <2>1. s \in found
    <3> HIDE DEF found
    <3> QED BY <1>1, <1>2, <1>3, LeastIn
  <2> QED BY <2>1
<1>4. CASE found = {}
  <2>1. s \in FreeSlots(w)
    <3> HIDE DEF found
    <3> QED BY <1>1, <1>2, <1>4, LeastIn, FreeSlot
  <2> QED BY <2>1 DEF FreeSlots
<1> QED BY <1>3, <1>4

(* One reference less.                                                     *)
LEMMA DropIs ==
  ASSUME NEW data \in [Slots -> Slot], NEW o \in Slots \cup {None}, o \in {None, zeroHash} \/ data[o].refs > 0,
         NEW data2, data2 = Drop(data, o)
  PROVE  /\ data2 \in [Slots -> Slot]
         /\ \A x \in Slots : x # o => data2[x] = data[x]
         /\ o \in {None, zeroHash} => data2 = data
         /\ o \notin {None, zeroHash} =>
              /\ data2[o].refs = data[o].refs - 1
              /\ data[o].refs > 1 => data2[o].text = data[o].text
<1>1. Zeros \in Texts
  BY Basics
<1>2. CASE o \in {None, zeroHash}
  <2>1. data2 = data
    BY <1>2 DEF Drop
  <2> QED BY <1>2, <2>1
<1>3. CASE o \notin {None, zeroHash} /\ data[o].refs = 1
  <2>1. data2 = [data EXCEPT ![o] = [text |-> Zeros, refs |-> 0]]
    BY <1>3 DEF Drop
  <2>2. [text |-> Zeros, refs |-> 0] \in Slot
    BY <1>1 DEF Slot
  <2> QED BY <1>3, <2>1, <2>2
<1>4. CASE o \notin {None, zeroHash} /\ data[o].refs # 1
  <2>1. data2 = [data EXCEPT ![o].refs = @ - 1]
    BY <1>4 DEF Drop
  <2>2. data[o].refs \in Nat /\ data[o].refs > 1 /\ data[o].text \in Texts /\ o \in Slots
        /\ data[o] = [text |-> data[o].text, refs |-> data[o].refs]
    BY <1>4 DEF Slot
  <2>3. data2 = [data EXCEPT ![o] = [text |-> data[o].text, refs |-> data[o].refs - 1]]
    BY <2>1, <2>2 DEF Slot
  <2>4. [text |-> data[o].text, refs |-> data[o].refs - 1] \in Slot
    BY <2>2 DEF Slot
  <2> QED BY <1>4, <2>2, <2>3, <2>4
<1> QED BY <1>2, <1>3, <1>4

-----------------------------------------------------------------------------
(* A file gets another text.                                               *)
Turns(w, w2, r, text) ==
  /\ Loose(w2)
  /\ \A q \in Records : /\ Chunk(w2, q) = IF q = r THEN text ELSE Chunk(w, q)
                        /\ w2.meta[q].type = w.meta[q].type /\ w2.meta[q].mode = w.meta[q].mode

(* Who holds what, when r goes from one slot to another.                   *)
LEMMA HoldersMove ==
  ASSUME NEW list \in [Records -> Slots \cup {None}], NEW r \in Records, NEW s \in Slots \cup {None},
         NEW list2, list2 = [list EXCEPT ![r] = s], NEW x \in Slots
  PROVE  /\ IsFiniteSet(Holders(list, x)) /\ Cardinality(Holders(list, x)) \in Nat
         /\ x # s /\ x # list[r] => Holders(list2, x) = Holders(list, x)
         /\ x = s /\ x = list[r] => Holders(list2, x) = Holders(list, x)
         /\ x = s /\ x # list[r] => Cardinality(Holders(list2, x)) = Cardinality(Holders(list, x)) + 1
         /\ x # s /\ x = list[r] => Cardinality(Holders(list2, x)) = Cardinality(Holders(list, x)) - 1
         /\ (\E q \in Records : list[q] = x) => Cardinality(Holders(list, x)) > 0
         /\ (\E q \in Records : q # r /\ list[q] = x /\ list[r] = x) => Cardinality(Holders(list, x)) > 1
<1> DEFINE H == Holders(list, x)
           H2 == Holders(list2, x)
<1>1. IsFiniteSet(H)
  BY Basics, FS_Subset DEF Holders
<1>2. Cardinality(H) \in Nat
  BY <1>1, FS_CardinalityType
<1>3. \A q : q \in H <=> q \in Records /\ list[q] = x
  BY DEF Holders
<1>4. \A q : q \in H2 <=> q \in Records /\ (IF q = r THEN s ELSE list[q]) = x
  BY DEF Holders
<1> HIDE DEF H, H2
<1>5. (x # s /\ x # list[r] => H2 = H) /\ (x = s /\ x = list[r] => H2 = H)
  BY <1>3, <1>4
<1>6. x = s /\ x # list[r] => H2 = H \cup {r} /\ r \notin H
  BY <1>3, <1>4
<1>7. x # s /\ x = list[r] => H2 = H \ {r} /\ r \in H
  BY <1>3, <1>4
<1>8. \A q : q \notin H => Cardinality(H \cup {q}) = Cardinality(H) + 1
  BY <1>1, FS_AddElement
<1>9. \A q : q \in H => Cardinality(H \ {q}) = Cardinality(H) - 1 /\ Cardinality(H \ {q}) \in Nat
  <2> SUFFICES ASSUME NEW q, q \in H PROVE Cardinality(H \ {q}) = Cardinality(H) - 1 /\ Cardinality(H \ {q}) \in Nat
    OBVIOUS
  <2>1. IsFiniteSet(H \ {q}) /\ Cardinality(H \ {q}) = Cardinality(H) - 1
    BY <1>1, FS_RemoveElement
  <2> QED BY <2>1, FS_CardinalityType
<1>10. \A q \in H : Cardinality(H) > 0
  <2> SUFFICES ASSUME NEW q \in H PROVE Cardinality(H) > 0
    OBVIOUS
  <2>1. Cardinality(H) # 0
    BY <1>1, FS_EmptySet
  <2> QED BY <1>2, <2>1
<1>11. ASSUME NEW q \in H, NEW p \in H, p # q PROVE Cardinality(H) > 1
  <2>1. q \in H \ {p} /\ IsFiniteSet(H \ {p})
    BY <1>1, <1>11, FS_RemoveElement
  <2>2. Cardinality(H \ {p}) # 0
    BY <2>1, FS_EmptySet
  <2> QED BY <1>2, <1>9, <2>2
<1>12. (\E q \in Records : q # r /\ list[q] = x /\ list[r] = x) => Cardinality(H) > 1
  BY <1>3, <1>11
<1>13. (\E q \in Records : list[q] = x) => Cardinality(H) > 0
  BY <1>3, <1>10
<1>14. x = s /\ x # list[r] => Cardinality(H2) = Cardinality(H) + 1
  BY <1>6, <1>8
<1>15. x # s /\ x = list[r] => Cardinality(H2) = Cardinality(H) - 1
  BY <1>7, <1>9
<1> QED BY <1>1, <1>2, <1>5, <1>12, <1>13, <1>14, <1>15 DEF H, H2

(* The new chunk is counted before the old one is dropped.                 *)
Swapping(w, r, s, text, data1, w2) ==
  /\ Loose(w) /\ r \in Records /\ s \in (Slots \ {zeroHash}) \cup {None} /\ text \in Texts \cup {None}
  /\ text = None <=> s = None
  /\ s # None => w.data[s].refs = 0 \/ (w.data[s].refs > 0 /\ w.data[s].text = text)
  /\ data1 = IF s = None THEN w.data ELSE [w.data EXCEPT ![s] = [text |-> text, refs |-> @.refs + 1]]
  /\ w2.meta \in [Records -> Record] /\ w2 = [meta |-> w2.meta, data |-> w2.data, list |-> w2.list]
  /\ w2.data = Drop(data1, w.list[r]) /\ w2.list = [w.list EXCEPT ![r] = s]
  /\ \A q \in Records : /\ w2.meta[q].size = IF q # r THEN w.meta[q].size ELSE IF s = None THEN 0 ELSE 1
                        /\ w2.meta[q].type = w.meta[q].type /\ w2.meta[q].mode = w.meta[q].mode

LEMMA SwapIs ==
  ASSUME NEW w, NEW r, NEW s, NEW text, NEW data1, NEW w2, Swapping(w, r, s, text, data1, w2)
  PROVE  Turns(w, w2, r, text)
<1> DEFINE old == w.list[r]
           A(x) == Cardinality(Holders(w.list, x))
<1>1. /\ w \in Worlds /\ r \in Records /\ s \in (Slots \ {zeroHash}) \cup {None} /\ text \in Texts \cup {None}
      /\ \A q \in Records : (w.list[q] = None <=> w.meta[q].size = 0) /\ w.list[q] # zeroHash
      /\ \A x \in Slots \ {zeroHash} : w.data[x].refs = A(x)
  BY DEF Swapping, Loose
<1>2. /\ text = None <=> s = None
      /\ s # None => w.data[s].refs = 0 \/ (w.data[s].refs > 0 /\ w.data[s].text = text)
      /\ data1 = IF s = None THEN w.data ELSE [w.data EXCEPT ![s] = [text |-> text, refs |-> @.refs + 1]]
      /\ w2.data = Drop(data1, old) /\ w2.list = [w.list EXCEPT ![r] = s]
  BY DEF Swapping
<1>3. /\ w2.meta \in [Records -> Record] /\ w2 = [meta |-> w2.meta, data |-> w2.data, list |-> w2.list]
      /\ \A q \in Records : /\ w2.meta[q].size = IF q # r THEN w.meta[q].size ELSE IF s = None THEN 0 ELSE 1
                            /\ w2.meta[q].type = w.meta[q].type /\ w2.meta[q].mode = w.meta[q].mode
  BY DEF Swapping
<1>4. /\ w.data \in [Slots -> Slot] /\ w.list \in [Records -> Slots \cup {None}] /\ old \in Slots \cup {None} /\ old # zeroHash
      /\ None \notin Slots /\ zeroHash \in Slots /\ None \notin Texts
  BY <1>1, WorldFields, Basics
<1>5. /\ data1 \in [Slots -> Slot]
      /\ \A x \in Slots : x # s => data1[x] = w.data[x]
      /\ s # None => data1[s].refs = w.data[s].refs + 1 /\ data1[s].text = text
  <2>1. CASE s = None
    BY <1>2, <1>4, <2>1
  <2>2. CASE s # None
    <3>1. s \in Slots /\ text \in Texts /\ w.data[s].refs \in Nat
      BY <1>1, <1>2, <1>4, <2>2 DEF Slot
    <3>2. [text |-> text, refs |-> w.data[s].refs + 1] \in Slot
      BY <3>1 DEF Slot
    <3>3. data1 = [w.data EXCEPT ![s] = [text |-> text, refs |-> w.data[s].refs + 1]]
      BY <1>2, <2>2
    <3> QED BY <1>4, <3>1, <3>2, <3>3
  <2> QED BY <2>1, <2>2
<1>6. ASSUME NEW x \in Slots \ {zeroHash} PROVE data1[x].refs = IF x = s THEN A(x) + 1 ELSE A(x)
  <2>1. w.data[x].refs = A(x) /\ x \in Slots /\ x # None
    BY <1>1, <1>4
  <2> HIDE DEF A, old
  <2>2. CASE x = s
    BY <1>5, <2>1, <2>2
  <2>3. CASE x # s
    BY <1>5, <2>1, <2>3
  <2> QED BY <2>2, <2>3
<1>7. ASSUME NEW x \in Slots
      PROVE  /\ A(x) \in Nat
             /\ x # s /\ x # old => Holders(w2.list, x) = Holders(w.list, x)
             /\ x = s /\ x = old => Holders(w2.list, x) = Holders(w.list, x)
             /\ x = s /\ x # old => Cardinality(Holders(w2.list, x)) = A(x) + 1
             /\ x # s /\ x = old => Cardinality(Holders(w2.list, x)) = A(x) - 1
             /\ (\E q \in Records : w.list[q] = x) => A(x) > 0
             /\ (\E q \in Records : q # r /\ w.list[q] = x /\ old = x) => A(x) > 1
  <2>1. s \in Slots \cup {None} /\ w2.list = [w.list EXCEPT ![r] = s] /\ r \in Records
    BY <1>1, <1>2
  <2> QED BY <1>4, <2>1, HoldersMove
<1> HIDE DEF A
<1>8. old # None => old \in Slots \ {zeroHash} /\ data1[old].refs > 0
  <2>1. old # None => old \in Slots \ {zeroHash} /\ A(old) > 0 /\ A(old) \in Nat
    BY <1>1, <1>4, <1>7
  <2> HIDE DEF old
  <2> QED BY <1>6, <2>1
<1> HIDE DEF old
<1>9. /\ w2.data \in [Slots -> Slot]
      /\ \A x \in Slots : x # old => w2.data[x] = data1[x]
      /\ old # None => /\ w2.data[old].refs = data1[old].refs - 1
                       /\ data1[old].refs > 1 => w2.data[old].text = data1[old].text
  <2>1. old \in {None, zeroHash} \/ data1[old].refs > 0
    BY <1>8
  <2> QED BY <1>2, <1>4, <1>5, <2>1, DropIs
<1>10. ASSUME NEW x \in Slots \ {zeroHash} PROVE w2.data[x].refs = Cardinality(Holders(w2.list, x))
  <2>1. A(x) \in Nat /\ data1[x].refs = IF x = s THEN A(x) + 1 ELSE A(x)
    BY <1>6, <1>7
  <2>2. CASE x # old
    <3>1. w2.data[x].refs = data1[x].refs
      BY <1>9, <2>2
    <3> QED BY <1>7, <2>1, <2>2, <3>1 DEF A
  <2>3. CASE x = old
    <3>1. old # None /\ w2.data[x].refs = data1[x].refs - 1
      BY <1>4, <1>9, <2>3
    <3> QED BY <1>7, <2>1, <2>3, <3>1 DEF A
  <2> QED BY <2>2, <2>3
<1>11. w2.list \in [Records -> Slots \cup {None}] /\ \A q \in Records : w2.list[q] = IF q = r THEN s ELSE w.list[q]
  BY <1>1, <1>2, <1>4
<1>12. Loose(w2)
  <2>1. w2 \in Worlds
    BY <1>3, <1>9, <1>11 DEF Worlds
  <2>2. ASSUME NEW q \in Records PROVE (w2.list[q] = None <=> w2.meta[q].size = 0) /\ w2.list[q] # zeroHash
    <3>1. CASE q = r
      BY <1>1, <1>3, <1>4, <1>11, <3>1
    <3>2. CASE q # r
      BY <1>1, <1>3, <1>11, <3>2
    <3> QED BY <3>1, <3>2
  <2> QED BY <1>10, <2>1, <2>2 DEF Loose
<1>13. ASSUME NEW q \in Records PROVE Chunk(w2, q) = IF q = r THEN text ELSE Chunk(w, q)
  <2>1. CASE q = r /\ s = None
    BY <1>2, <1>11, <2>1 DEF Chunk
  <2>2. CASE q = r /\ s # None
    <3>1. s \in Slots \ {zeroHash} /\ w2.list[q] = s
      BY <1>1, <1>11, <2>2
    <3>2. w2.data[s].text = text
      <4>1. CASE s # old
        BY <1>5, <1>9, <2>2, <3>1, <4>1
      <4>2. CASE s = old
        <5>1. A(s) > 0 /\ A(s) \in Nat
          BY <1>1, <1>7, <3>1, <4>2 DEF old
        <5>2. data1[s].refs > 1
          BY <1>6, <3>1, <5>1
        <5> QED BY <1>5, <1>9, <2>2, <4>2, <5>2
      <4> QED BY <4>1, <4>2
    <3> QED BY <2>2, <3>1, <3>2 DEF Chunk
  <2>3. CASE q # r /\ w.list[q] = None
    BY <1>11, <2>3 DEF Chunk
  <2>4. CASE q # r /\ w.list[q] # None
    <3> DEFINE x == w.list[q]
    <3>1. x \in Slots \ {zeroHash} /\ w2.list[q] = x /\ x # None
      BY <1>1, <1>4, <1>11, <2>4
    <3>2. A(x) > 0 /\ A(x) \in Nat /\ (x = old => A(x) > 1)
      BY <1>7, <2>4, <3>1 DEF old
    <3> HIDE DEF x
    <3>3. data1[x].text = w.data[x].text
      <4>1. CASE x # s
        BY <1>5, <3>1, <4>1
      <4>2. CASE x = s
        <5>1. w.data[s].refs > 0
          BY <1>1, <3>1, <3>2, <4>2
        <5> QED BY <1>2, <1>5, <3>1, <4>2, <5>1
      <4> QED BY <4>1, <4>2
    <3>4. w2.data[x].text = data1[x].text
      <4>1. CASE x # old
        BY <1>9, <3>1, <4>1
      <4>2. CASE x = old
        <5>1. data1[x].refs > 1
          BY <1>6, <3>1, <3>2, <4>2
        <5> QED BY <1>9, <3>1, <4>2, <5>1
      <4> QED BY <4>1, <4>2
    <3> QED BY <2>4, <3>1, <3>3, <3>4 DEF Chunk, x
  <2> QED BY <2>1, <2>2, <2>3, <2>4
<1> QED BY <1>3, <1>12, <1>13 DEF Turns

LEMMA SizeSet ==
  ASSUME NEW meta \in [Records -> Record], NEW r \in Records, NEW z \in {0, 1}, NEW m2, m2 = [meta EXCEPT ![r].size = z]
  PROVE  /\ m2 \in [Records -> Record]
         /\ \A q \in Records : /\ m2[q].size = IF q # r THEN meta[q].size ELSE z
                               /\ m2[q].type = meta[q].type /\ m2[q].mode = meta[q].mode
<1>1. meta[r] \in Record
  OBVIOUS
<1>2. [meta[r] EXCEPT !.size = z] \in Record
  BY <1>1 DEF Record
<1>3. m2 = [meta EXCEPT ![r] = [meta[r] EXCEPT !.size = z]]
  OBVIOUS
<1>4. [meta[r] EXCEPT !.size = z].size = z /\ [meta[r] EXCEPT !.size = z].type = meta[r].type
      /\ [meta[r] EXCEPT !.size = z].mode = meta[r].mode
  BY <1>1 DEF Record
<1> QED BY <1>2, <1>3, <1>4

(* swapContent, writeInner, truncateInner: one record gets another text,   *)
(* the others keep theirs.                                                 *)
LEMMA SetTextIs ==
  ASSUME NEW w, Loose(w), NEW r \in Records, NEW text \in Texts \cup {None}, NEW w2, w2 = SetText(w, r, text)
  PROVE  Turns(w, w2, r, text)
<1>1. /\ w.meta \in [Records -> Record] /\ w.data \in [Slots -> Slot] /\ w.list \in [Records -> Slots \cup {None}]
      /\ w = [meta |-> w.meta, data |-> w.data, list |-> w.list]
  BY WorldFields DEF Loose
<1>2. None \notin Slots /\ None \notin Texts
  BY Basics
<1>3. CASE text = None
  <2>1. w2 = [meta |-> [w.meta EXCEPT ![r].size = 0], data |-> Drop(w.data, w.list[r]), list |-> [w.list EXCEPT ![r] = None]]
    BY <1>1, <1>3 DEF SetText
  <2>2. w2.meta = [w.meta EXCEPT ![r].size = 0] /\ w2.data = Drop(w.data, w.list[r]) /\ w2.list = [w.list EXCEPT ![r] = None]
        /\ w2 = [meta |-> w2.meta, data |-> w2.data, list |-> w2.list]
    BY <2>1
  <2>3. /\ w2.meta \in [Records -> Record]
        /\ \A q \in Records : /\ w2.meta[q].size = IF q # r THEN w.meta[q].size ELSE 0
                              /\ w2.meta[q].type = w.meta[q].type /\ w2.meta[q].mode = w.meta[q].mode
    BY <1>1, <2>2, SizeSet
  <2>4. Swapping(w, r, None, text, w.data, w2)
    BY <1>3, <2>2, <2>3 DEF Swapping
  <2> QED BY <2>4, SwapIs
<1>4. CASE text # None
  <2> DEFINE s == newHash(w, text)
             counted == [w.data EXCEPT ![s] = [text |-> text, refs |-> @.refs + 1]]
  <2>1. s \in Slots \ {zeroHash} /\ (w.data[s].refs = 0 \/ (w.data[s].refs > 0 /\ w.data[s].text = text))
    BY <1>4, HashIs
  <2>2. w2 = [meta |-> [w.meta EXCEPT ![r].size = 1], data |-> Drop(counted, w.list[r]), list |-> [w.list EXCEPT ![r] = s]]
    BY <1>1, <1>4 DEF SetText
  <2> HIDE DEF s
  <2>3. counted = IF s = None THEN w.data ELSE [w.data EXCEPT ![s] = [text |-> text, refs |-> @.refs + 1]]
    BY <1>2, <2>1
  <2> HIDE DEF counted
  <2>4. w2.meta = [w.meta EXCEPT ![r].size = 1] /\ w2.data = Drop(counted, w.list[r]) /\ w2.list = [w.list EXCEPT ![r] = s]
        /\ w2 = [meta |-> w2.meta, data |-> w2.data, list |-> w2.list]
    BY <2>2
  <2>5. /\ w2.meta \in [Records -> Record]
        /\ \A q \in Records : /\ w2.meta[q].size = IF q # r THEN w.meta[q].size ELSE 1
                              /\ w2.meta[q].type = w.meta[q].type /\ w2.meta[q].mode = w.meta[q].mode
    BY <1>1, <2>4, SizeSet
  <2>6. s # None /\ s \in (Slots \ {zeroHash}) \cup {None} /\ (text = None <=> s = None)
    BY <1>2, <1>4, <2>1
  <2>7. Swapping(w, r, s, text, counted, w2)
    BY <2>1, <2>3, <2>4, <2>5, <2>6 DEF Swapping
  <2> QED BY <2>7, SwapIs
<1> QED BY <1>3, <1>4

-----------------------------------------------------------------------------
(* Steps, as a user sees them.                                             *)
WithChunk(F, r, c) == [F EXCEPT ![r].chunk = c]
DirChunk(d) == IF d = Empty THEN None ELSE DirText(d)
Renew(F, r, type, mode) == [F EXCEPT ![r] = [type |-> type, mode |-> mode, chunk |-> None]]
WithMode(F, r, m) == [F EXCEPT ![r].mode = m]

(* One face for both, and the second world is one between two steps.       *)
Shows(w, F) == Loose(w) /\ Face(w) = F

(* The face of a world, record by record.                                  *)
LEMMA FaceIs ==
  ASSUME NEW w, Loose(w), NEW F, F = Face(w)
  PROVE  /\ F \in FaceType
         /\ \A r \in Records : /\ F[r].type = w.meta[r].type /\ F[r].mode = w.meta[r].mode /\ F[r].chunk = Chunk(w, r)
                               /\ F[r].chunk = None <=> w.list[r] = None
                               /\ F[r].chunk = None <=> w.meta[r].size = 0
<1>1. /\ w.meta \in [Records -> Record] /\ w.data \in [Slots -> Slot] /\ w.list \in [Records -> Slots \cup {None}]
      /\ \A r \in Records : w.list[r] = None <=> w.meta[r].size = 0
  BY WorldFields DEF Loose
<1>2. ASSUME NEW r \in Records
      PROVE  w.meta[r].type \in {"NONE", "REG", "DIR"} /\ w.meta[r].mode \in Modes /\ Chunk(w, r) \in Texts \cup {None}
             /\ (Chunk(w, r) = None <=> w.list[r] = None)
  <2>1. w.meta[r] \in Record
    BY <1>1
  <2>2. w.meta[r].type \in {"NONE", "REG", "DIR"} /\ w.meta[r].mode \in Modes
    BY <2>1 DEF Record
  <2>3. CASE w.list[r] = None
    BY <2>2, <2>3 DEF Chunk
  <2>4. CASE w.list[r] # None
    <3>1. w.data[w.list[r]] \in Slot
      BY <1>1, <2>4
    <3>2. w.data[w.list[r]].text \in Texts
      BY <3>1 DEF Slot
    <3> QED BY <2>2, <2>4, <3>2, Basics DEF Chunk
  <2> QED BY <2>3, <2>4
<1>4. F \in FaceType
  BY <1>2 DEF Face, FaceType, FaceNode
<1>5. ASSUME NEW r \in Records
      PROVE  /\ F[r].type = w.meta[r].type /\ F[r].mode = w.meta[r].mode /\ F[r].chunk = Chunk(w, r)
             /\ F[r].chunk = None <=> w.list[r] = None
             /\ F[r].chunk = None <=> w.meta[r].size = 0
  <2>1. F[r].type = w.meta[r].type /\ F[r].mode = w.meta[r].mode /\ F[r].chunk = Chunk(w, r)
    BY DEF Face
  <2>2. (Chunk(w, r) = None <=> w.list[r] = None) /\ (w.list[r] = None <=> w.meta[r].size = 0)
    BY <1>1, <1>2
  <2> HIDE DEF Chunk
  <2> QED BY <2>1, <2>2
<1> QED BY <1>4, <1>5

(* Two worlds have one face when their records show the same.              *)
LEMMA FaceSame ==
  ASSUME NEW w, NEW F \in FaceType,
         \A r \in Records : w.meta[r].type = F[r].type /\ w.meta[r].mode = F[r].mode /\ Chunk(w, r) = F[r].chunk
  PROVE  Face(w) = F
<1>1. F = [r \in Records |-> F[r]]
  BY DEF FaceType
<1>2. \A r \in Records : F[r] = [type |-> F[r].type, mode |-> F[r].mode, chunk |-> F[r].chunk]
  BY DEF FaceType, FaceNode
<1>3. \A r \in Records : Face(w)[r] = F[r]
  BY <1>2 DEF Face
<1>4. Face(w) = [r \in Records |-> Face(w)[r]]
  BY DEF Face
<1> QED BY <1>1, <1>3, <1>4

(* The changes of a face, record by record.                                *)
LEMMA WithChunkIs ==
  ASSUME NEW F \in FaceType, NEW r \in Records, NEW c \in Texts \cup {None}, NEW G, G = WithChunk(F, r, c)
  PROVE  /\ G \in FaceType /\ \A q \in Records : q # r => G[q] = F[q]
         /\ G[r].chunk = c /\ G[r].type = F[r].type /\ G[r].mode = F[r].mode
<1>1. F[r] \in FaceNode
  BY DEF FaceType, FaceNode
<1> DEFINE x == [F[r] EXCEPT !.chunk = c]
<1>2. x \in FaceNode /\ x.chunk = c /\ x.type = F[r].type /\ x.mode = F[r].mode
  BY <1>1 DEF FaceNode
<1>3. G = [F EXCEPT ![r] = x]
  BY DEF WithChunk
<1> HIDE DEF x
<1>4. G \in FaceType /\ G[r] = x /\ \A q \in Records : q # r => G[q] = F[q]
  BY <1>2, <1>3 DEF FaceType
<1> QED BY <1>2, <1>4

LEMMA WithModeIs ==
  ASSUME NEW F \in FaceType, NEW r \in Records, NEW m \in Modes, NEW G, G = WithMode(F, r, m)
  PROVE  /\ G \in FaceType /\ \A q \in Records : q # r => G[q] = F[q]
         /\ G[r].chunk = F[r].chunk /\ G[r].type = F[r].type /\ G[r].mode = m
<1>1. F[r] \in FaceNode
  BY DEF FaceType, FaceNode
<1> DEFINE x == [F[r] EXCEPT !.mode = m]
<1>2. x \in FaceNode /\ x.chunk = F[r].chunk /\ x.type = F[r].type /\ x.mode = m
  BY <1>1 DEF FaceNode
<1>3. G = [F EXCEPT ![r] = x]
  BY DEF WithMode
<1> HIDE DEF x
<1>4. G \in FaceType /\ G[r] = x /\ \A q \in Records : q # r => G[q] = F[q]
  BY <1>2, <1>3 DEF FaceType
<1> QED BY <1>2, <1>4

LEMMA RenewIs ==
  ASSUME NEW F \in FaceType, NEW r \in Records, NEW t \in {"NONE", "REG", "DIR"}, NEW m \in Modes, NEW G, G = Renew(F, r, t, m)
  PROVE  /\ G \in FaceType /\ \A q \in Records : q # r => G[q] = F[q]
         /\ G[r].chunk = None /\ G[r].type = t /\ G[r].mode = m
<1> DEFINE x == [type |-> t, mode |-> m, chunk |-> None]
<1>1. x \in FaceNode /\ x.chunk = None /\ x.type = t /\ x.mode = m
  BY DEF FaceNode
<1>2. G = [F EXCEPT ![r] = x]
  BY DEF Renew
<1> HIDE DEF x
<1>3. G \in FaceType /\ G[r] = x /\ \A q \in Records : q # r => G[q] = F[q]
  BY <1>1, <1>2 DEF FaceType
<1> QED BY <1>1, <1>3

-----------------------------------------------------------------------------
(* The directory and the files, as a user sees them.                       *)
LEMMA DirTypes ==
  ASSUME NEW F \in FaceType, F[root].chunk \in DirTexts \cup {None}
  PROVE  DirOf(F) \in [Names -> Inos \cup {None}]
<1>1. Empty \in [Names -> Inos \cup {None}]
  BY DEF Empty
<1>2. CASE F[root].chunk = None
  BY <1>1, <1>2 DEF DirOf
<1>3. CASE F[root].chunk # None
  <2>1. PICK d \in [Names -> Inos \cup {None}] : F[root].chunk = DirText(d)
    BY <1>3 DEF DirTexts
  <2> QED BY <1>3, <2>1 DEF DirOf, DirText
<1> QED BY <1>2, <1>3

LEMMA DirChunkIs ==
  ASSUME NEW d \in [Names -> Inos \cup {None}], NEW F, F[root].chunk = DirChunk(d)
  PROVE  /\ DirChunk(d) \in DirTexts \cup {None} /\ DirChunk(d) \in Texts \cup {None} /\ DirOf(F) = d
         /\ DirChunk(d) = None <=> d = Empty
<1>1. DirText(d) \in DirTexts /\ DirText(d) \in Texts /\ DirText(d) # None /\ DirText(d).names = d
  BY Basics DEF DirTexts, DirText
<1>2. CASE d = Empty
  BY <1>2 DEF DirChunk, DirOf
<1>3. CASE d # Empty
  BY <1>1, <1>3 DEF DirChunk, DirOf
<1> QED BY <1>2, <1>3

(* The directory that is read is the one of the face.                      *)
LEMMA DirIs ==
  ASSUME NEW w, Loose(w), NEW F, F = Face(w)
  PROVE  Dir(w) = DirOf(F)
<1>1. root \in Records
  BY Basics
<1>2. F[root].chunk = Chunk(w, root) /\ (F[root].chunk = None <=> w.list[root] = None) /\ (F[root].chunk = None <=> w.meta[root].size = 0)
  BY <1>1, FaceIs
<1>3. CASE w.meta[root].size = 0
  BY <1>2, <1>3 DEF Dir, DirOf
<1>4. CASE w.meta[root].size # 0
  BY <1>2, <1>4 DEF Dir, DirOf, Text, Chunk
<1> QED BY <1>3, <1>4

(* A sound world shows the tree of its face.                               *)
LEMMA TreeIs ==
  ASSUME NEW w, Sound(w), NEW F, F = Face(w)
  PROVE  Readable(w) /\ Dir(w) = DirOf(F) /\ TreeOf(w) = TreeIn(F)
<1>1. Loose(w) /\ FaceSound(F) /\ F \in FaceType
  BY DEF Sound, FaceSound
<1>2. Dir(w) = DirOf(F)
  BY <1>1, DirIs
<1>3. root \in Records /\ Inos \subseteq Records
  BY Basics
<1>4. ASSUME NEW r \in Records
      PROVE  /\ F[r].mode = w.meta[r].mode /\ (w.meta[r].size = 0 <=> F[r].chunk = None)
             /\ w.meta[r].size # 0 => Text(w, r) = F[r].chunk
  <2>1. F[r].mode = w.meta[r].mode /\ F[r].chunk = Chunk(w, r) /\ (F[r].chunk = None <=> w.list[r] = None)
        /\ (F[r].chunk = None <=> w.meta[r].size = 0)
    BY <1>1, FaceIs
  <2>2. w.meta[r].size # 0 => Text(w, r) = Chunk(w, r)
    BY <2>1 DEF Text, Chunk
  <2> QED BY <2>1, <2>2
<1>5. Readable(w)
  <2> SUFFICES ASSUME w.meta[root].size # 0 PROVE Text(w, root).kind = "dir"
    BY DEF Readable
  <2>1. Text(w, root) \in DirTexts
    BY <1>1, <1>3, <1>4 DEF FaceSound
  <2> QED BY <2>1 DEF DirTexts, DirText
<1>6. ASSUME NEW i \in Inos PROVE FileOf(w, i) = FileIn(F, i)
  <2>1. i \in Records
    BY <1>3
  <2>2. CASE F[i].chunk = None
    BY <1>4, <2>1, <2>2 DEF FileOf, FileIn
  <2>3. CASE F[i].chunk # None
    <3>1. PICK v \in Values : F[i].chunk = Data(v)
      BY <1>1, <2>3 DEF FaceSound
    <3>2. Text(w, i) = Data(v) /\ w.meta[i].size # 0 /\ F[i].mode = w.meta[i].mode
      BY <1>4, <2>1, <2>3, <3>1
    <3>3. Data(v).kind = "data" /\ Data(v).value = v
      BY DEF Data
    <3>4. FileOf(w, i) = [content |-> v, mode |-> F[i].mode]
      BY <3>2, <3>3 DEF FileOf
    <3> QED BY <2>3, <3>1, <3>3, <3>4 DEF FileIn
  <2> QED BY <2>2, <2>3
<1>7. DirOf(F) \in [Names -> Inos \cup {None}]
  BY <1>1, DirTypes DEF FaceSound
<1>8. ASSUME NEW n \in Names PROVE TreeOf(w)[n] = TreeIn(F)[n]
  <2>1. DirOf(F)[n] \in Inos \cup {None}
    BY <1>7
  <2>2. CASE DirOf(F)[n] = None
    BY <1>2, <1>5, <2>2 DEF TreeOf, TreeIn
  <2>3. CASE DirOf(F)[n] # None
    BY <1>2, <1>5, <1>6, <2>1, <2>3 DEF TreeOf, TreeIn
  <2> QED BY <2>2, <2>3
<1>9. TreeOf(w) = TreeIn(F)
  <2>1. TreeOf(w) = [n \in Names |-> TreeOf(w)[n]] /\ TreeIn(F) = [n \in Names |-> TreeIn(F)[n]]
    BY DEF TreeOf, TreeIn
  <2> HIDE DEF TreeOf, TreeIn
  <2> QED BY <1>8, <2>1
<1> QED BY <1>2, <1>5, <1>9

(* Another text of one record is another chunk in the face.                *)
LEMMA TurnFace ==
  ASSUME NEW w, Loose(w), NEW w2, NEW r \in Records, NEW text \in Texts \cup {None}, Turns(w, w2, r, text)
  PROVE  Shows(w2, WithChunk(Face(w), r, text))
<1> DEFINE F == Face(w)
           G == WithChunk(F, r, text)
<1>1. F \in FaceType /\ \A q \in Records : F[q].type = w.meta[q].type /\ F[q].mode = w.meta[q].mode /\ F[q].chunk = Chunk(w, q)
  BY FaceIs
<1> HIDE DEF F
<1>2. /\ G \in FaceType /\ \A q \in Records : q # r => G[q] = F[q]
      /\ G[r].chunk = text /\ G[r].type = F[r].type /\ G[r].mode = F[r].mode
  BY <1>1, WithChunkIs
<1> HIDE DEF G
<1>3. ASSUME NEW q \in Records PROVE w2.meta[q].type = G[q].type /\ w2.meta[q].mode = G[q].mode /\ Chunk(w2, q) = G[q].chunk
  <2>1. Chunk(w2, q) = (IF q = r THEN text ELSE Chunk(w, q)) /\ w2.meta[q].type = w.meta[q].type /\ w2.meta[q].mode = w.meta[q].mode
    BY DEF Turns
  <2> QED BY <1>1, <1>2, <2>1
<1>4. Face(w2) = G
  BY <1>2, <1>3, FaceSame
<1> QED BY <1>4 DEF Turns, Shows, F, G

(* Only the records change, and no size does.                              *)
LEMMA MetaFace ==
  ASSUME NEW w, Loose(w), NEW r \in Records, NEW x \in Record, x.size = w.meta[r].size,
         NEW w2, w2 = [meta |-> [w.meta EXCEPT ![r] = x], data |-> w.data, list |-> w.list],
         NEW G \in FaceType, \A q \in Records : q # r => G[q] = Face(w)[q],
         G[r].chunk = Face(w)[r].chunk, G[r].type = x.type, G[r].mode = x.mode
  PROVE  Shows(w2, G)
<1> DEFINE F == Face(w)
           m2 == [w.meta EXCEPT ![r] = x]
<1>1. /\ w.meta \in [Records -> Record] /\ w.data \in [Slots -> Slot] /\ w.list \in [Records -> Slots \cup {None}]
  BY WorldFields DEF Loose
<1>2. \A q \in Records : F[q].type = w.meta[q].type /\ F[q].mode = w.meta[q].mode /\ F[q].chunk = Chunk(w, q)
  BY FaceIs
<1>3. m2 \in [Records -> Record] /\ m2[r] = x /\ \A q \in Records : q # r => m2[q] = w.meta[q]
  BY <1>1
<1>4. w2.meta = m2 /\ w2.data = w.data /\ w2.list = w.list
  OBVIOUS
<1>5. w2 \in Worlds
  BY <1>1, <1>3 DEF Worlds
<1> HIDE DEF m2
<1>6. \A q \in Records : w2.meta[q].size = w.meta[q].size
  BY <1>3, <1>4
<1>7. Loose(w2)
  BY <1>4, <1>5, <1>6 DEF Loose
<1>8. \A q \in Records : Chunk(w2, q) = Chunk(w, q)
  BY <1>4 DEF Chunk
<1> HIDE DEF F
<1>9. ASSUME NEW q \in Records PROVE w2.meta[q].type = G[q].type /\ w2.meta[q].mode = G[q].mode /\ Chunk(w2, q) = G[q].chunk
  <2>1. CASE q = r
    BY <1>2, <1>3, <1>4, <1>8, <2>1 DEF F
  <2>2. CASE q # r
    BY <1>2, <1>3, <1>4, <1>8, <2>2 DEF F
  <2> QED BY <2>1, <2>2
<1>10. Face(w2) = G
  BY <1>9, FaceSame
<1> QED BY <1>7, <1>10 DEF Shows

(* A rest changes no face: it only notes where the chunk is.               *)
LEMMA RestIs ==
  ASSUME NEW w, Loose(w), NEW r \in Records, NEW w2, w2 = rest(w, r)
  PROVE  Shows(w2, Face(w))
<1>1. /\ w.meta \in [Records -> Record] /\ w.list \in [Records -> Slots \cup {None}]
      /\ w = [meta |-> w.meta, data |-> w.data, list |-> w.list]
  BY WorldFields DEF Loose
<1> DEFINE x == [w.meta[r] EXCEPT !.ctd = w.list[r]]
<1>2. w.meta[r] \in Record /\ w.list[r] \in Slots \cup {None}
  BY <1>1
<1>3. x \in Record /\ x.size = w.meta[r].size /\ x.type = w.meta[r].type /\ x.mode = w.meta[r].mode
  BY <1>2 DEF Record
<1>4. w2 = [meta |-> [w.meta EXCEPT ![r] = x], data |-> w.data, list |-> w.list]
  BY <1>1 DEF rest
<1> HIDE DEF x
<1>5. Face(w) \in FaceType /\ Face(w)[r].type = w.meta[r].type /\ Face(w)[r].mode = w.meta[r].mode
  BY FaceIs
<1> QED BY <1>3, <1>4, <1>5, MetaFace

(* The other steps: chmod, make, shred.                                    *)
SetMode(w, r, m) == [w EXCEPT !.meta[r].mode = m]

LEMMA ChmodIs ==
  ASSUME NEW w, Loose(w), NEW r \in Records, NEW m \in Modes, NEW w2, w2 = SetMode(w, r, m)
  PROVE  Shows(w2, WithMode(Face(w), r, m))
<1>1. /\ w.meta \in [Records -> Record] /\ w = [meta |-> w.meta, data |-> w.data, list |-> w.list]
  BY WorldFields DEF Loose
<1> DEFINE x == [w.meta[r] EXCEPT !.mode = m]
           G == WithMode(Face(w), r, m)
<1>2. w.meta[r] \in Record
  BY <1>1
<1>3. x \in Record /\ x.size = w.meta[r].size /\ x.type = w.meta[r].type /\ x.mode = m
  BY <1>2 DEF Record
<1>4. w2 = [meta |-> [w.meta EXCEPT ![r] = x], data |-> w.data, list |-> w.list]
  BY <1>1 DEF SetMode
<1>5. Face(w) \in FaceType /\ Face(w)[r].type = w.meta[r].type
  BY FaceIs
<1>6. /\ G \in FaceType /\ \A q \in Records : q # r => G[q] = Face(w)[q]
      /\ G[r].chunk = Face(w)[r].chunk /\ G[r].type = Face(w)[r].type /\ G[r].mode = m
  BY <1>5, WithModeIs
<1> HIDE DEF x, G
<1>7. x \in Record /\ x.size = w.meta[r].size /\ G[r].type = x.type /\ G[r].mode = x.mode
  BY <1>3, <1>5, <1>6
<1>8. Shows(w2, G)
  BY <1>4, <1>6, <1>7, MetaFace
<1> QED BY <1>8 DEF G

LEMMA RenewedIs ==
  ASSUME NEW w, Loose(w), NEW r \in Records, Face(w)[r].chunk = None, NEW t \in {"NONE", "REG"}, NEW m \in Modes,
         NEW w2, w2 = [meta |-> [w.meta EXCEPT ![r] = [type |-> t, mode |-> m, size |-> 0, ctd |-> None]],
                       data |-> w.data, list |-> w.list]
  PROVE  Shows(w2, Renew(Face(w), r, t, m))
<1> DEFINE x == [type |-> t, mode |-> m, size |-> 0, ctd |-> None]
           G == Renew(Face(w), r, t, m)
<1>1. x \in Record /\ x.size = 0 /\ x.type = t /\ x.mode = m
  BY DEF Record
<1>2. w2 = [meta |-> [w.meta EXCEPT ![r] = x], data |-> w.data, list |-> w.list]
  OBVIOUS
<1>3. Face(w) \in FaceType /\ w.meta[r].size = 0
  BY FaceIs
<1>4. t \in {"NONE", "REG", "DIR"}
  OBVIOUS
<1>5. /\ G \in FaceType /\ \A q \in Records : q # r => G[q] = Face(w)[q]
      /\ G[r].chunk = None /\ G[r].type = t /\ G[r].mode = m
  <2> DEFINE F == Face(w)
  <2>1. F \in FaceType /\ G = Renew(F, r, t, m)
    BY <1>3
  <2> HIDE DEF F, G
  <2>2. G \in FaceType /\ G[r].chunk = None /\ G[r].type = t /\ G[r].mode = m
    BY <1>4, <2>1, RenewIs
  <2>3. \A q \in Records : q # r => G[q] = F[q]
    BY <2>1 DEF Renew, FaceType
  <2> QED BY <2>2, <2>3 DEF F
<1> HIDE DEF x, G
<1>6. Shows(w2, G)
  BY <1>1, <1>2, <1>3, <1>5, MetaFace
<1> QED BY <1>6 DEF G

Made(w, r, m) == [w EXCEPT !.meta[r] = NewRecord(m), !.list[r] = None]

LEMMA MakeIs ==
  ASSUME NEW w, Loose(w), NEW r \in Records, Face(w)[r].chunk = None, NEW m \in Modes,
         NEW w2, w2 = Made(w, r, m)
  PROVE  Shows(w2, Renew(Face(w), r, "REG", m))
<1>1. /\ w.meta \in [Records -> Record] /\ w.list \in [Records -> Slots \cup {None}]
      /\ w = [meta |-> w.meta, data |-> w.data, list |-> w.list]
  BY WorldFields DEF Loose
<1>2. w.list[r] = None
  BY FaceIs
<1>3. [w.list EXCEPT ![r] = None] = w.list
  BY <1>1, <1>2
<1>4. NewRecord(m) = [type |-> "REG", mode |-> m, size |-> 0, ctd |-> None]
  <2> DEFINE z == [type |-> "NONE", mode |-> mode0, size |-> 0, ctd |-> None]
             z1 == [z EXCEPT !.type = "REG"]
  <2>1. z1 = [type |-> "REG", mode |-> mode0, size |-> 0, ctd |-> None]
    OBVIOUS
  <2>2. NewRecord(m) = [z1 EXCEPT !.mode = m]
    BY DEF NewRecord, NoRecord
  <2> HIDE DEF z1
  <2> QED BY <2>1, <2>2
<1>5. w2 = [meta |-> [w.meta EXCEPT ![r] = NewRecord(m)], data |-> w.data, list |-> [w.list EXCEPT ![r] = None]]
  BY <1>1 DEF Made
<1>6. w2 = [meta |-> [w.meta EXCEPT ![r] = [type |-> "REG", mode |-> m, size |-> 0, ctd |-> None]],
            data |-> w.data, list |-> w.list]
  BY <1>3, <1>4, <1>5
<1> QED BY <1>6, RenewedIs

LEMMA ShredIs ==
  ASSUME NEW w, Loose(w), NEW r \in Records, NEW w2, w2 = [SetText(w, r, None) EXCEPT !.meta[r] = NoRecord]
  PROVE  Shows(w2, Renew(Face(w), r, "NONE", mode0))
<1> DEFINE w1 == SetText(w, r, None)
           F1 == WithChunk(Face(w), r, None)
<1>1. Turns(w, w1, r, None)
  BY SetTextIs
<1> HIDE DEF w1
<1>2. Loose(w1) /\ Face(w1) = F1
  BY <1>1, TurnFace DEF Shows
<1>3. Face(w) \in FaceType
  BY FaceIs
<1>4. F1[r].chunk = None
  BY <1>3, WithChunkIs
<1>5. Renew(F1, r, "NONE", mode0) = Renew(Face(w), r, "NONE", mode0)
  BY <1>3 DEF Renew, WithChunk, FaceType
<1>6. w1 = [meta |-> w1.meta, data |-> w1.data, list |-> w1.list]
  BY <1>2, WorldFields DEF Loose
<1>7. w2 = [meta |-> [w1.meta EXCEPT ![r] = [type |-> "NONE", mode |-> mode0, size |-> 0, ctd |-> None]],
            data |-> w1.data, list |-> w1.list]
  BY <1>6 DEF w1, NoRecord
<1> HIDE DEF F1
<1>8. mode0 \in Modes
  BY Basics
<1>9. Shows(w2, Renew(F1, r, "NONE", mode0))
  BY <1>2, <1>4, <1>7, <1>8, RenewedIs
<1> QED BY <1>5, <1>9 DEF F1

(* The steps of calls.                                                     *)
UnlinkEntries == [type : {"unlink"}, id : Nat, name : Names]
StepSet ==
  [do : {"add"}, name : Names, ino : Inos] \cup [do : {"remove"}, name : Names]
    \cup [do : {"rest"}, ino : Records] \cup [do : {"shred", "cut"}, ino : Inos]
    \cup [do : {"make", "chmod"}, ino : Inos, mode : Modes] \cup [do : {"write"}, ino : Inos, value : Values]
    \cup [do : {"journal"}, entry : UnlinkEntries] \cup [do : {"end"}, id : Nat]

(* A step, as a user sees it, and when it is one that can be done.         *)
NewDir(F, step) == IF step.do = "add" THEN [DirOf(F) EXCEPT ![step.name] = step.ino]
                   ELSE [DirOf(F) EXCEPT ![step.name] = None]
DoFace(F, step) ==
  CASE step.do \in {"add", "remove"} -> WithChunk(F, root, DirChunk(NewDir(F, step)))
    [] step.do \in {"rest", "journal", "end"} -> F
    [] step.do = "make" -> Renew(F, step.ino, "REG", step.mode)
    [] step.do = "shred" -> Renew(F, step.ino, "NONE", mode0)
    [] step.do = "write" -> WithChunk(F, step.ino, Data(step.value))
    [] step.do = "cut" -> WithChunk(F, step.ino, None)
    [] step.do = "chmod" -> WithMode(F, step.ino, step.mode)
MayDo(F, step) ==
  /\ step \in StepSet
  /\ step.do \in {"add", "remove"} => F[root].chunk \in DirTexts \cup {None}
  /\ step.do = "make" => F[step.ino].chunk = None

LEMMA StepFields ==
  ASSUME NEW step \in StepSet
  PROVE  /\ step.do \in {"add", "remove", "rest", "shred", "cut", "make", "chmod", "write", "journal", "end"}
         /\ step.do = "add" => step.name \in Names /\ step.ino \in Inos
         /\ step.do = "remove" => step.name \in Names
         /\ step.do = "rest" => step.ino \in Records
         /\ step.do \in {"shred", "cut"} => step.ino \in Inos
         /\ step.do \in {"make", "chmod"} => step.ino \in Inos /\ step.mode \in Modes
         /\ step.do = "write" => step.ino \in Inos /\ step.value \in Values
BY DEF StepSet

(* The directory is written as the text of the root, or dropped.           *)
LEMMA SetDirIs ==
  ASSUME NEW w, Loose(w), NEW d \in [Names -> Inos \cup {None}], NEW w2, w2 = SetDir(w, d)
  PROVE  Shows(w2, WithChunk(Face(w), root, DirChunk(d)))
<1>1. DirChunk(d) \in Texts \cup {None}
  <2>1. DirText(d) \in Texts
    BY Basics DEF DirTexts
  <2> QED BY <2>1 DEF DirChunk
<1>2. w2 = SetText(w, root, DirChunk(d)) /\ root \in Records
  BY Basics DEF SetDir, DirChunk
<1>3. Turns(w, w2, root, DirChunk(d))
  BY <1>1, <1>2, SetTextIs
<1> QED BY <1>1, <1>2, <1>3, TurnFace

LEMMA NewDirTypes ==
  ASSUME NEW F \in FaceType, NEW step, MayDo(F, step), step.do \in {"add", "remove"}
  PROVE  NewDir(F, step) \in [Names -> Inos \cup {None}]
<1>1. DirOf(F) \in [Names -> Inos \cup {None}]
  BY DirTypes DEF MayDo
<1>2. step.name \in Names /\ (step.do = "add" => step.ino \in Inos)
  BY StepFields DEF MayDo
<1> QED BY <1>1, <1>2 DEF NewDir

(* What a step does is what a user sees of it.                             *)
LEMMA StepFace ==
  ASSUME NEW w, Loose(w), NEW step, MayDo(Face(w), step)
  PROVE  Shows(Do(w, step), DoFace(Face(w), step))
<1> DEFINE F == Face(w)
<1>1. F \in FaceType
  BY FaceIs
<1>2. step \in StepSet /\ Inos \subseteq Records
  BY Basics DEF MayDo
<1>3. CASE step.do \in {"add", "remove"}
  <2>1. NewDir(F, step) \in [Names -> Inos \cup {None}]
    BY <1>1, <1>3, NewDirTypes
  <2>2. Dir(w) = DirOf(F)
    BY DirIs
  <2>3. Do(w, step) = SetDir(w, NewDir(F, step))
    BY <1>3, <2>2 DEF Do, NewDir
  <2>4. DoFace(F, step) = WithChunk(F, root, DirChunk(NewDir(F, step)))
    BY <1>3 DEF DoFace
  <2> QED BY <2>1, <2>3, <2>4, SetDirIs
<1>4. CASE step.do = "rest"
  <2>1. step.ino \in Records
    BY <1>2, <1>4, StepFields
  <2>2. Do(w, step) = rest(w, step.ino) /\ DoFace(F, step) = F
    BY <1>4 DEF Do, DoFace
  <2> QED BY <2>1, <2>2, RestIs
<1>5. CASE step.do = "make"
  <2>1. step.ino \in Records /\ step.mode \in Modes
    BY <1>2, <1>5, StepFields
  <2>2. Do(w, step) = Made(w, step.ino, step.mode)
    BY <1>5 DEF Do, Made
  <2>3. DoFace(F, step) = Renew(F, step.ino, "REG", step.mode)
    BY <1>5 DEF DoFace
  <2>4. F[step.ino].chunk = None
    BY <1>5 DEF MayDo
  <2> QED BY <2>1, <2>2, <2>3, <2>4, MakeIs
<1>6. CASE step.do = "shred"
  <2>1. step.ino \in Records
    BY <1>2, <1>6, StepFields
  <2>2. Do(w, step) = [SetText(w, step.ino, None) EXCEPT !.meta[step.ino] = NoRecord]
    BY <1>6 DEF Do
  <2>3. DoFace(F, step) = Renew(F, step.ino, "NONE", mode0)
    BY <1>6 DEF DoFace
  <2> QED BY <2>1, <2>2, <2>3, ShredIs
<1>7. CASE step.do = "write"
  <2>1. step.ino \in Records /\ Data(step.value) \in Texts
    BY <1>2, <1>7, StepFields DEF Texts
  <2>2. Do(w, step) = SetText(w, step.ino, Data(step.value))
    BY <1>7 DEF Do
  <2>3. DoFace(F, step) = WithChunk(F, step.ino, Data(step.value))
    BY <1>7 DEF DoFace
  <2> QED BY <2>1, <2>2, <2>3, SetTextIs, TurnFace
<1>8. CASE step.do = "cut"
  <2>1. step.ino \in Records
    BY <1>2, <1>8, StepFields
  <2> DEFINE w1 == SetText(w, step.ino, None)
  <2>2. Do(w, step) = rest(w1, step.ino)
    BY <1>8 DEF Do
  <2>3. DoFace(F, step) = WithChunk(F, step.ino, None)
    BY <1>8 DEF DoFace
  <2>4. Loose(w1) /\ Face(w1) = WithChunk(F, step.ino, None)
    BY <2>1, SetTextIs, TurnFace DEF Shows
  <2> HIDE DEF w1
  <2> QED BY <2>1, <2>2, <2>3, <2>4, RestIs
<1>9. CASE step.do = "chmod"
  <2>1. step.ino \in Records /\ step.mode \in Modes
    BY <1>2, <1>9, StepFields
  <2>2. Do(w, step) = SetMode(w, step.ino, step.mode)
    BY <1>9 DEF Do, SetMode
  <2>3. DoFace(F, step) = WithMode(F, step.ino, step.mode)
    BY <1>9 DEF DoFace
  <2> QED BY <2>1, <2>2, <2>3, ChmodIs
<1>10. CASE step.do \in {"journal", "end"}
  <2>1. Do(w, step) = w /\ DoFace(F, step) = F
    BY <1>10 DEF Do, DoFace
  <2> QED BY <2>1 DEF Shows
<1>11. step.do \in {"add", "remove", "rest", "shred", "cut", "make", "chmod", "write", "journal", "end"}
  BY <1>2, StepFields
<1> QED BY <1>3, <1>4, <1>5, <1>6, <1>7, <1>8, <1>9, <1>10, <1>11

-----------------------------------------------------------------------------
(* The steps of a call, one after the other, as a user sees them.          *)
FaceRun(F, steps, G) ==
  /\ steps \in Seq(StepSet)
  /\ \E f : /\ f[0] = F /\ f[Len(steps)] = G
            /\ \A k \in 1 .. Len(steps) : MayDo(f[k - 1], steps[k]) /\ f[k] = DoFace(f[k - 1], steps[k])

(* Runs of no step, of a first step and the rest, of one step, of two runs. *)
LEMMA RunNone ==
  ASSUME NEW F, NEW G
  PROVE  FaceRun(F, <<>>, G) <=> G = F
<1>1. Len(<<>>) = 0 /\ <<>> \in Seq(StepSet) /\ 1 .. Len(<<>>) = {}
  OBVIOUS
<1>2. ASSUME G = F PROVE FaceRun(F, <<>>, G)
  <2> DEFINE f == [k \in {0} |-> F]
  <2>1. f[0] = F
    OBVIOUS
  <2> HIDE DEF f
  <2> QED BY <1>1, <1>2, <2>1 DEF FaceRun
<1>3. FaceRun(F, <<>>, G) => G = F
  BY <1>1 DEF FaceRun
<1> QED BY <1>2, <1>3

LEMMA RunCons ==
  ASSUME NEW F, NEW G, NEW step, NEW t, MayDo(F, step), FaceRun(DoFace(F, step), t, G),
         NEW steps, steps = <<step>> \o t
  PROVE  FaceRun(F, steps, G)
<1> DEFINE n == Len(t)
<1>1. step \in StepSet /\ t \in Seq(StepSet)
  BY DEF MayDo, FaceRun
<1>2. /\ steps \in Seq(StepSet) /\ n \in Nat /\ Len(steps) = n + 1 /\ steps[1] = step
      /\ \A k \in 2 .. n + 1 : steps[k] = t[k - 1]
  BY <1>1
<1>3. PICK f : /\ f[0] = DoFace(F, step) /\ f[n] = G
               /\ \A k \in 1 .. n : MayDo(f[k - 1], t[k]) /\ f[k] = DoFace(f[k - 1], t[k])
  BY DEF FaceRun
<1> HIDE DEF n
<1> DEFINE g == [k \in 0 .. n + 1 |-> IF k = 0 THEN F ELSE f[k - 1]]
<1>6. g[0] = F /\ g[n + 1] = f[n] /\ g[1] = f[0]
  BY <1>2
<1>7. ASSUME NEW k \in 1 .. n + 1
      PROVE  MayDo(g[k - 1], steps[k]) /\ g[k] = DoFace(g[k - 1], steps[k])
  <2>1. CASE k = 1
    <3> HIDE DEF g
    <3> QED BY <1>2, <1>3, <1>6, <2>1
  <2>2. CASE k # 1
    <3>1. k - 1 \in 1 .. n /\ k \in 2 .. n + 1 /\ g[k] = f[k - 1] /\ g[k - 1] = f[(k - 1) - 1]
      BY <1>2, <2>2
    <3> HIDE DEF g
    <3> QED BY <1>2, <1>3, <3>1
  <2> QED BY <2>1, <2>2
<1> HIDE DEF g
<1> QED BY <1>2, <1>3, <1>6, <1>7 DEF FaceRun

LEMMA RunOne ==
  ASSUME NEW F, NEW G, NEW step, MayDo(F, step), G = DoFace(F, step)
  PROVE  FaceRun(F, <<step>>, G)
<1>1. FaceRun(G, <<>>, G)
  BY RunNone
<1>2. <<step>> = <<step>> \o <<>>
  OBVIOUS
<1> QED BY <1>1, <1>2, RunCons

LEMMA RunMore ==
  ASSUME NEW F, NEW G, NEW H, NEW s, NEW t, FaceRun(F, s, G), FaceRun(G, t, H), NEW steps, steps = s \o t
  PROVE  FaceRun(F, steps, H)
<1> DEFINE m == Len(s)
           n == Len(t)
<1>1. s \in Seq(StepSet) /\ t \in Seq(StepSet)
  BY DEF FaceRun
<1>2. /\ m \in Nat /\ n \in Nat /\ steps \in Seq(StepSet) /\ Len(steps) = m + n
      /\ \A k \in 1 .. m : steps[k] = s[k]
      /\ \A k \in m + 1 .. m + n : steps[k] = t[k - m]
  BY <1>1
<1>3. PICK f : /\ f[0] = F /\ f[m] = G
               /\ \A k \in 1 .. m : MayDo(f[k - 1], s[k]) /\ f[k] = DoFace(f[k - 1], s[k])
  BY DEF FaceRun
<1>4. PICK h : /\ h[0] = G /\ h[n] = H
               /\ \A k \in 1 .. n : MayDo(h[k - 1], t[k]) /\ h[k] = DoFace(h[k - 1], t[k])
  BY DEF FaceRun
<1> HIDE DEF m, n
<1> DEFINE g == [k \in 0 .. m + n |-> IF k <= m THEN f[k] ELSE h[k - m]]
<1>5. \A k \in 0 .. m : g[k] = f[k]
  BY <1>2
<1>6. \A k \in m .. m + n : g[k] = h[k - m]
  <2> SUFFICES ASSUME NEW k \in m .. m + n PROVE g[k] = h[k - m]
    OBVIOUS
  <2>1. CASE k = m
    <3>1. g[k] = f[m] /\ k - m = 0
      BY <1>2, <2>1
    <3> QED BY <1>3, <1>4, <3>1
  <2>2. CASE k # m
    BY <1>2, <2>2
  <2> QED BY <2>1, <2>2
<1>7. g[0] = F /\ g[m + n] = H
  <2>1. 0 \in 0 .. m /\ m + n \in m .. m + n /\ (m + n) - m = n
    BY <1>2
  <2> HIDE DEF g
  <2> QED BY <1>3, <1>4, <1>5, <1>6, <2>1
<1> HIDE DEF g
<1>8. ASSUME NEW k \in 1 .. m + n
      PROVE  MayDo(g[k - 1], steps[k]) /\ g[k] = DoFace(g[k - 1], steps[k])
  <2>1. CASE k <= m
    <3>1. k \in 1 .. m /\ k \in 0 .. m /\ k - 1 \in 0 .. m
      BY <1>2, <2>1
    <3> QED BY <1>2, <1>3, <1>5, <3>1
  <2>2. CASE k > m
    <3>1. k \in m + 1 .. m + n /\ k \in m .. m + n /\ k - 1 \in m .. m + n /\ k - m \in 1 .. n /\ (k - 1) - m = (k - m) - 1
      BY <1>2, <2>2
    <3>2. steps[k] = t[k - m] /\ g[k] = h[k - m] /\ g[k - 1] = h[(k - m) - 1]
      BY <1>2, <1>6, <3>1
    <3> QED BY <1>4, <3>1, <3>2
  <2> QED BY <1>2, <2>1, <2>2
<1> QED BY <1>2, <1>7, <1>8 DEF FaceRun

(* DoAll goes from each world to the next.                                 *)
LEMMA DoAllIs ==
  ASSUME NEW w, NEW steps, Len(steps) \in Nat
  PROVE  \E g : /\ g[0] = w /\ g[Len(steps)] = DoAll(w, steps)
                /\ \A k \in 1 .. Len(steps) : g[k] = Do(g[k - 1], steps[k])
<1> DEFINE n == Len(steps)
           Is(g, m) == g = [k \in 0 .. m |-> IF k = 0 THEN w ELSE Do(g[k - 1], steps[k])]
           S == {m \in 0 .. n : \E g : Is(g, m)}
<1>1. n \in Nat
  OBVIOUS
<1> HIDE DEF n
<1>2. 0 \in S
  <2> DEFINE g == [k \in 0 .. 0 |-> w]
  <2>1. Is(g, 0)
    OBVIOUS
  <2> HIDE DEF g
  <2> QED BY <1>1, <2>1
<1>3. ASSUME NEW m \in 1 .. n, m - 1 \in S PROVE m \in S
  <2>1. PICK g : Is(g, m - 1)
    BY <1>3
  <2> DEFINE g2 == [k \in 0 .. m |-> IF k = m THEN Do(g[m - 1], steps[m]) ELSE g[k]]
  <2>2. Is(g2, m)
    <3>1. ASSUME NEW k \in 0 .. m PROVE g2[k] = IF k = 0 THEN w ELSE Do(g2[k - 1], steps[k])
      <4>1. CASE k = 0
        <5>1. g2[k] = g[0] /\ 0 \in 0 .. m - 1
          BY <4>1, <1>1
        <5> QED BY <2>1, <4>1, <5>1
      <4>2. CASE k = m
        <5>1. g2[k] = Do(g[m - 1], steps[m]) /\ g2[k - 1] = g[m - 1] /\ k # 0
          BY <4>2, <1>1
        <5> QED BY <4>2, <5>1
      <4>3. CASE k # 0 /\ k # m
        <5>1. k \in 0 .. m - 1 /\ g2[k] = g[k] /\ g2[k - 1] = g[k - 1]
          BY <4>3, <1>1
        <5>2. g[k] = Do(g[k - 1], steps[k])
          BY <2>1, <4>3, <5>1
        <5> QED BY <4>3, <5>1, <5>2
      <4> QED BY <4>1, <4>2, <4>3
    <3> QED BY <3>1
  <2> HIDE DEF g2, Is
  <2> QED BY <1>1, <2>2
<1> HIDE DEF S
<1>4. n \in S
  <2>1. \A k \in 0 .. n : k \in S
    BY <1>1, <1>2, <1>3, UpTo
  <2> QED BY <1>1, <2>1
<1>5. PICK g : Is(g, n)
  BY <1>4 DEF S
<1> DEFINE f == CHOOSE g2 : Is(g2, n)
<1>6. Is(f, n)
  <2> HIDE DEF Is
  <2> QED BY <1>5
<1>7. f[n] = DoAll(w, steps)
  BY DEF DoAll, n
<1> HIDE DEF f
<1>8. f[0] = w /\ \A k \in 1 .. n : f[k] = Do(f[k - 1], steps[k])
  BY <1>1, <1>6
<1> QED BY <1>7, <1>8 DEF n

(* The steps done, whatever the world they start in is like otherwise.     *)
LEMMA RunAll ==
  ASSUME NEW w, Loose(w), NEW steps, NEW G, FaceRun(Face(w), steps, G)
  PROVE  Shows(DoAll(w, steps), G)
<1> DEFINE n == Len(steps)
<1>1. steps \in Seq(StepSet) /\ n \in Nat
  BY DEF FaceRun
<1>2. PICK f : /\ f[0] = Face(w) /\ f[n] = G
               /\ \A k \in 1 .. n : MayDo(f[k - 1], steps[k]) /\ f[k] = DoFace(f[k - 1], steps[k])
  BY DEF FaceRun
<1>3. PICK g : /\ g[0] = w /\ g[n] = DoAll(w, steps)
               /\ \A k \in 1 .. n : g[k] = Do(g[k - 1], steps[k])
  BY <1>1, DoAllIs
<1> HIDE DEF n
<1> DEFINE S == {k \in 0 .. n : Shows(g[k], f[k])}
<1>4. 0 \in S
  BY <1>1, <1>2, <1>3 DEF Shows
<1>5. ASSUME NEW k \in 1 .. n, k - 1 \in S PROVE k \in S
  <2>1. Loose(g[k - 1]) /\ Face(g[k - 1]) = f[k - 1]
    BY <1>5 DEF Shows
  <2>2. MayDo(Face(g[k - 1]), steps[k]) /\ f[k] = DoFace(Face(g[k - 1]), steps[k]) /\ g[k] = Do(g[k - 1], steps[k])
    BY <1>2, <1>3, <2>1
  <2>3. Shows(g[k], f[k])
    BY <2>1, <2>2, StepFace
  <2> QED BY <1>1, <2>3
<1> HIDE DEF S
<1>6. n \in S
  <2>1. \A k \in 0 .. n : k \in S
    BY <1>1, <1>4, <1>5, UpTo
  <2> QED BY <1>1, <2>1
<1> QED BY <1>2, <1>3, <1>6 DEF S

-----------------------------------------------------------------------------
(* The calls, as a user sees them: each can be done and leaves the tree T  *)
(* in a directory d that can be read.                                      *)
Makes(F, steps, G, T, d) ==
  FaceRun(F, steps, G) /\ FaceSound(G) /\ TreeIn(G) = T /\ DirOf(G) = d

(* Another directory, the same files.                                      *)
Redirects(F, G, d) ==
  /\ G \in FaceType /\ DirOf(G) = d /\ G[root].chunk \in DirTexts \cup {None} /\ G[root].type = F[root].type
  /\ G[root].chunk = None <=> d = Empty
  /\ \A i \in Inos : G[i] = F[i]

(* The steps of mkobject, unlink and renamemove on the directory.          *)
LEMMA DirStep ==
  ASSUME NEW F \in FaceType, NEW step, MayDo(F, step), step.do \in {"add", "remove"}, NEW G, G = DoFace(F, step)
  PROVE  Redirects(F, G, NewDir(F, step))
<1> DEFINE d == NewDir(F, step)
<1>1. d \in [Names -> Inos \cup {None}]
  BY NewDirTypes
<1> HIDE DEF d
<1>2. G = WithChunk(F, root, DirChunk(d))
  BY DEF DoFace, d
<1>3. DirChunk(d) \in Texts \cup {None}
  <2>1. DirText(d) \in Texts
    BY <1>1, Basics DEF DirTexts
  <2> QED BY <2>1 DEF DirChunk
<1>4. root \in Records /\ \A i \in Inos : i \in Records /\ i # root
  BY Basics
<1>5. /\ G \in FaceType /\ \A q \in Records : q # root => G[q] = F[q]
      /\ G[root].chunk = DirChunk(d) /\ G[root].type = F[root].type
  BY <1>2, <1>3, <1>4, WithChunkIs
<1>6. DirOf(G) = d /\ DirChunk(d) \in DirTexts \cup {None} /\ (DirChunk(d) = None <=> d = Empty)
  BY <1>1, <1>5, DirChunkIs
<1> QED BY <1>4, <1>5, <1>6 DEF Redirects, d

LEMMA AddIs ==
  ASSUME NEW F \in FaceType, F[root].chunk \in DirTexts \cup {None}, NEW n \in Names, NEW i \in Inos, NEW step, step = Add(n, i)
  PROVE  /\ MayDo(F, step) /\ step.do = "add" /\ Redirects(F, DoFace(F, step), [DirOf(F) EXCEPT ![n] = i])
<1>1. step = [do |-> "add", name |-> n, ino |-> i]
  BY DEF Add
<1>2. step \in StepSet
  BY <1>1 DEF StepSet
<1>3. step.do = "add" /\ step.name = n /\ step.ino = i
  BY <1>1
<1>4. MayDo(F, step)
  BY <1>2, <1>3 DEF MayDo
<1>5. NewDir(F, step) = [DirOf(F) EXCEPT ![n] = i]
  BY <1>3 DEF NewDir
<1>6. Redirects(F, DoFace(F, step), NewDir(F, step))
  BY <1>3, <1>4, DirStep
<1> QED BY <1>3, <1>4, <1>5, <1>6

LEMMA TakeIs ==
  ASSUME NEW F \in FaceType, F[root].chunk \in DirTexts \cup {None}, NEW n \in Names, NEW step, step = Take(n)
  PROVE  /\ MayDo(F, step) /\ step.do = "remove" /\ Redirects(F, DoFace(F, step), [DirOf(F) EXCEPT ![n] = None])
<1>1. step = [do |-> "remove", name |-> n]
  BY DEF Take
<1>2. step \in StepSet
  BY <1>1 DEF StepSet
<1>3. step.do = "remove" /\ step.name = n
  BY <1>1
<1>4. MayDo(F, step)
  BY <1>2, <1>3 DEF MayDo
<1>5. NewDir(F, step) = [DirOf(F) EXCEPT ![n] = None]
  BY <1>3 DEF NewDir
<1>6. Redirects(F, DoFace(F, step), NewDir(F, step))
  BY <1>3, <1>4, DirStep
<1> QED BY <1>3, <1>4, <1>5, <1>6

LEMMA RestStep ==
  ASSUME NEW F
  PROVE  MayDo(F, RestRoot) /\ DoFace(F, RestRoot) = F /\ RestRoot.do = "rest"
<1>1. RestRoot = [do |-> "rest", ino |-> root] /\ root \in Records
  BY Basics DEF RestRoot, Step
<1>2. RestRoot \in StepSet
  BY <1>1 DEF StepSet
<1>3. RestRoot.do = "rest"
  BY <1>1
<1> QED BY <1>2, <1>3 DEF MayDo, DoFace

(* What a sound face has.                                                  *)
LEMMA SoundFields ==
  ASSUME NEW F, FaceSound(F)
  PROVE  /\ F \in FaceType /\ F[root].chunk \in DirTexts \cup {None} /\ F[root].type = "DIR"
         /\ DirOf(F) \in [Names -> Inos \cup {None}]
         /\ \A n \in Names : DirOf(F)[n] # None => DirOf(F)[n] \in Inos /\ F[DirOf(F)[n]].type = "REG"
<1>1. F \in FaceType /\ F[root].chunk \in DirTexts \cup {None} /\ F[root].type = "DIR"
  BY DEF FaceSound
<1>2. DirOf(F) \in [Names -> Inos \cup {None}]
  BY <1>1, DirTypes
<1> QED BY <1>1, <1>2 DEF FaceSound

LEMMA RootOther ==
  ASSUME NEW i \in Inos
  PROVE  i # root /\ i \in Records /\ root \in Records /\ \A q \in Inos : q \in Records /\ q # root
BY Basics

mkobjectSteps(n, i, m) == <<Add(n, i), RestRoot, [do |-> "make", ino |-> i, mode |-> m]>>

(* mkobject: the new name leads to an empty file.                          *)
LEMMA MkobjectMakes ==
  ASSUME NEW F, FaceSound(F), NEW n \in Names, DirOf(F)[n] = None, NEW i \in Inos,
         F[i].chunk = None, \A k \in Names : DirOf(F)[k] # i, NEW m \in Modes
  PROVE  \E G : Makes(F, mkobjectSteps(n, i, m), G, [TreeIn(F) EXCEPT ![n] = [content |-> None, mode |-> m]],
                      [DirOf(F) EXCEPT ![n] = i])
<1> DEFINE D == DirOf(F)
           d == [D EXCEPT ![n] = i]
           F1 == DoFace(F, Add(n, i))
           make == [do |-> "make", ino |-> i, mode |-> m]
           G == Renew(F1, i, "REG", m)
<1>1. /\ F \in FaceType /\ F[root].chunk \in DirTexts \cup {None} /\ F[root].type = "DIR" /\ D \in [Names -> Inos \cup {None}]
      /\ \A k \in Names : D[k] # None => D[k] \in Inos /\ F[D[k]].type = "REG"
  BY SoundFields
<1>2. /\ \A j \in Inos : /\ F[j].type \in {"NONE", "REG"}
                         /\ F[j].type = "NONE" => F[j].chunk = None
                         /\ F[j].chunk # None => \E v \in Values : F[j].chunk = Data(v)
      /\ \A k, l \in Names : D[k] # None /\ k # l => D[k] # D[l]
  BY DEF FaceSound
<1>3. MayDo(F, Add(n, i)) /\ Redirects(F, F1, d) /\ Add(n, i).do = "add"
  BY <1>1, AddIs
<1> HIDE DEF F1
<1>4. i # root /\ i \in Records /\ root \in Records /\ \A q \in Inos : q \in Records /\ q # root
  BY RootOther
<1>5. /\ F1 \in FaceType /\ DirOf(F1) = d /\ F1[root].chunk \in DirTexts \cup {None} /\ F1[root].type = "DIR"
      /\ \A j \in Inos : F1[j] = F[j]
  BY <1>1, <1>3 DEF Redirects
<1>6. /\ G \in FaceType /\ \A q \in Records : q # i => G[q] = F1[q]
      /\ G[i].chunk = None /\ G[i].type = "REG" /\ G[i].mode = m
  BY <1>4, <1>5, RenewIs
<1>7. MayDo(F1, make) /\ DoFace(F1, make) = G /\ make.do = "make"
  <2>1. make \in StepSet /\ make.do = "make" /\ make.ino = i /\ make.mode = m
    BY DEF StepSet
  <2> HIDE DEF make
  <2> QED BY <1>2, <1>5, <2>1 DEF MayDo, DoFace
<1> HIDE DEF G, make, D
<1>8. FaceRun(F, mkobjectSteps(n, i, m), G)
  <2>2. FaceRun(F1, <<make>>, G)
    BY <1>7, RunOne
  <2>3. <<RestRoot, make>> = <<RestRoot>> \o <<make>>
    OBVIOUS
  <2>4. FaceRun(F1, <<RestRoot, make>>, G)
    BY <2>2, <2>3, RestStep, RunCons
  <2>5. mkobjectSteps(n, i, m) = <<Add(n, i)>> \o <<RestRoot, make>>
    BY DEF mkobjectSteps, make
  <2> QED BY <1>3, <2>4, <2>5, RunCons DEF F1
<1>9. d \in [Names -> Inos \cup {None}] /\ d[n] = i /\ \A k \in Names : k # n => d[k] = D[k]
  BY <1>1
<1> HIDE DEF d
<1>10. DirOf(G) = d /\ G[root] = F1[root]
  BY <1>4, <1>5, <1>6 DEF DirOf
<1>11. \A k \in Names : D[k] # i
  BY DEF D
<1>12. \A j \in Inos : j # i => G[j] = F[j]
  BY <1>4, <1>5, <1>6
<1>13. FaceSound(G)
  <2>1. ASSUME NEW j \in Inos
        PROVE  /\ G[j].type \in {"NONE", "REG"} /\ (G[j].type = "NONE" => G[j].chunk = None)
               /\ (G[j].chunk # None => \E v \in Values : G[j].chunk = Data(v))
    BY <1>2, <1>6, <1>12
  <2>2. ASSUME NEW k \in Names, d[k] # None PROVE G[d[k]].type = "REG"
    BY <1>1, <1>6, <1>9, <1>12, <2>2
  <2>3. ASSUME NEW k \in Names, NEW l \in Names, d[k] # None, k # l PROVE d[k] # d[l]
    BY <1>2, <1>9, <1>11, <2>3
  <2> QED BY <1>5, <1>6, <1>10, <2>1, <2>2, <2>3 DEF FaceSound
<1>14. TreeIn(G) = [TreeIn(F) EXCEPT ![n] = [content |-> None, mode |-> m]]
  <2> DEFINE T2 == [TreeIn(F) EXCEPT ![n] = [content |-> None, mode |-> m]]
  <2>1. ASSUME NEW k \in Names PROVE TreeIn(G)[k] = T2[k]
    <3>1. CASE k = n
      <4>1. d[k] = i /\ i # None
        BY <1>9, <3>1, Basics
      <4>2. TreeIn(G)[k] = FileIn(G, i)
        BY <1>10, <4>1 DEF TreeIn
      <4>3. FileIn(G, i) = [content |-> None, mode |-> m]
        BY <1>6 DEF FileIn
      <4>4. T2[k] = [content |-> None, mode |-> m]
        BY <3>1 DEF TreeIn
      <4> QED BY <4>2, <4>3, <4>4
    <3>2. CASE k # n
      <4>1. d[k] = D[k]
        BY <1>9, <3>2
      <4>2. T2[k] = TreeIn(F)[k]
        BY <3>2 DEF TreeIn
      <4>3. D[k] # None => D[k] \in Inos /\ D[k] # i
        BY <1>1, <1>11
      <4>4. D[k] # None => FileIn(G, D[k]) = FileIn(F, D[k])
        BY <1>12, <4>3 DEF FileIn
      <4> QED BY <1>10, <4>1, <4>2, <4>4 DEF TreeIn, D
    <3> QED BY <3>1, <3>2
  <2>2. T2 = [k \in Names |-> T2[k]] /\ TreeIn(G) = [k \in Names |-> TreeIn(G)[k]]
    BY DEF TreeIn
  <2> HIDE DEF T2
  <2>3. TreeIn(G) = T2
    BY <2>1, <2>2
  <2> QED BY <2>3 DEF T2
<1> QED BY <1>8, <1>10, <1>13, <1>14 DEF Makes, d, D

(* Two ways to know a tree: name by name, or whole.                        *)
LEMMA TreeAt ==
  ASSUME NEW G, NEW T, T = [k \in Names |-> T[k]],
         \A k \in Names : T[k] = IF DirOf(G)[k] = None THEN None ELSE FileIn(G, DirOf(G)[k])
  PROVE  TreeIn(G) = T
BY DEF TreeIn

LEMMA TreeGives ==
  ASSUME NEW F
  PROVE  /\ TreeIn(F) = [k \in Names |-> TreeIn(F)[k]]
         /\ \A k \in Names : TreeIn(F)[k] = IF DirOf(F)[k] = None THEN None ELSE FileIn(F, DirOf(F)[k])
BY DEF TreeIn

(* unlink: the name is gone, and so is its file.                           *)
LEMMA UnlinkMakes ==
  ASSUME NEW F, FaceSound(F), NEW n \in Names, DirOf(F)[n] # None
  PROVE  \E G : Makes(F, UnlinkSteps(n, DirOf(F)[n]), G, [TreeIn(F) EXCEPT ![n] = None], [DirOf(F) EXCEPT ![n] = None])
<1> DEFINE D == DirOf(F)
           i == D[n]
           d == [D EXCEPT ![n] = None]
           F1 == DoFace(F, Take(n))
           shred == Step("shred", i)
           G == Renew(F1, i, "NONE", mode0)
<1>1. /\ F \in FaceType /\ F[root].chunk \in DirTexts \cup {None} /\ F[root].type = "DIR" /\ D \in [Names -> Inos \cup {None}]
      /\ \A k \in Names : D[k] # None => D[k] \in Inos /\ F[D[k]].type = "REG"
  BY SoundFields
<1>2. /\ \A j \in Inos : /\ F[j].type \in {"NONE", "REG"}
                         /\ F[j].type = "NONE" => F[j].chunk = None
                         /\ F[j].chunk # None => \E v \in Values : F[j].chunk = Data(v)
      /\ \A k, l \in Names : D[k] # None /\ k # l => D[k] # D[l]
  BY DEF FaceSound
<1>3. MayDo(F, Take(n)) /\ Redirects(F, F1, d) /\ Take(n).do = "remove"
  BY <1>1, TakeIs
<1> HIDE DEF F1
<1>4. i \in Inos /\ i # root /\ i \in Records /\ root \in Records /\ \A q \in Inos : q \in Records /\ q # root
  BY <1>1, RootOther
<1> HIDE DEF i
<1>5. /\ F1 \in FaceType /\ DirOf(F1) = d /\ F1[root].chunk \in DirTexts \cup {None} /\ F1[root].type = "DIR"
      /\ \A j \in Inos : F1[j] = F[j]
  BY <1>1, <1>3 DEF Redirects
<1>6. /\ G \in FaceType /\ \A q \in Records : q # i => G[q] = F1[q]
      /\ G[i].chunk = None /\ G[i].type = "NONE"
  <2> DEFINE t == "NONE"
  <2>1. t \in {"NONE", "REG", "DIR"} /\ t = "NONE" /\ mode0 \in Modes
    BY Basics
  <2>2. G = Renew(F1, i, t, mode0) /\ F1 \in FaceType /\ i \in Records
    BY <1>4, <1>5
  <2> HIDE DEF G, t
  <2>3. G \in FaceType
    BY <2>1, <2>2, RenewIs
  <2>5. \A q \in Records : q # i => G[q] = F1[q]
    BY <2>2 DEF Renew, FaceType
  <2>4. G[i].chunk = None /\ G[i].type = t
    BY <2>1, <2>2, RenewIs
  <2> QED BY <2>1, <2>3, <2>4, <2>5
<1>7. MayDo(F1, shred) /\ DoFace(F1, shred) = G
  <2>1. shred \in StepSet /\ shred.do = "shred" /\ shred.ino = i
    BY <1>4 DEF StepSet, Step
  <2> HIDE DEF shred
  <2> QED BY <2>1 DEF MayDo, DoFace
<1> HIDE DEF G, shred
<1>8. FaceRun(F, UnlinkSteps(n, i), G)
  <2>2. FaceRun(F1, <<shred>>, G)
    BY <1>7, RunOne
  <2>3. <<RestRoot, shred>> = <<RestRoot>> \o <<shred>>
    OBVIOUS
  <2>4. FaceRun(F1, <<RestRoot, shred>>, G)
    BY <2>2, <2>3, RestStep, RunCons
  <2>5. UnlinkSteps(n, i) = <<Take(n)>> \o <<RestRoot, shred>>
    BY DEF UnlinkSteps, shred
  <2> QED BY <1>3, <2>4, <2>5, RunCons DEF F1
<1>9. d \in [Names -> Inos \cup {None}] /\ d[n] = None /\ \A k \in Names : k # n => d[k] = D[k]
  BY <1>1
<1>10. \A k \in Names : k # n => D[k] # i
  BY <1>1, <1>2, <1>4, Basics DEF i
<1> HIDE DEF d, D
<1>11. DirOf(G) = d /\ G[root] = F1[root]
  BY <1>4, <1>5, <1>6 DEF DirOf
<1>12. \A j \in Inos : j # i => G[j] = F[j]
  BY <1>4, <1>5, <1>6
<1>13. FaceSound(G)
  <2>1. ASSUME NEW j \in Inos
        PROVE  /\ G[j].type \in {"NONE", "REG"} /\ (G[j].type = "NONE" => G[j].chunk = None)
               /\ (G[j].chunk # None => \E v \in Values : G[j].chunk = Data(v))
    BY <1>2, <1>6, <1>12
  <2>2. ASSUME NEW k \in Names, d[k] # None PROVE G[d[k]].type = "REG"
    <3>1. k # n /\ d[k] = D[k] /\ D[k] # i
      BY <1>9, <1>10, <2>2
    <3> QED BY <1>1, <1>12, <2>2, <3>1
  <2>3. ASSUME NEW k \in Names, NEW l \in Names, d[k] # None, k # l PROVE d[k] # d[l]
    BY <1>2, <1>9, <2>3
  <2> QED BY <1>5, <1>6, <1>11, <2>1, <2>2, <2>3 DEF FaceSound
<1> DEFINE T == [TreeIn(F) EXCEPT ![n] = None]
<1>14. TreeIn(G) = T
  <2>1. T = [k \in Names |-> T[k]] /\ T[n] = None /\ \A k \in Names : k # n => T[k] = TreeIn(F)[k]
    BY DEF TreeIn
  <2> HIDE DEF T
  <2>2. ASSUME NEW k \in Names PROVE T[k] = IF d[k] = None THEN None ELSE FileIn(G, d[k])
    <3>1. CASE k = n
      BY <1>9, <2>1, <3>1
    <3>2. CASE k # n
      <4>1. T[k] = IF D[k] = None THEN None ELSE FileIn(F, D[k])
        BY <2>1, <3>2, TreeGives DEF D
      <4>2. D[k] # None => FileIn(G, D[k]) = FileIn(F, D[k])
        BY <1>1, <1>10, <1>12, <3>2 DEF FileIn
      <4> QED BY <1>9, <3>2, <4>1, <4>2
    <3> QED BY <3>1, <3>2
  <2> QED BY <1>11, <2>1, <2>2, TreeAt
<1> QED BY <1>8, <1>11, <1>13, <1>14 DEF Makes, T, i, D, d

(* renamemove onto a free name: the file has the other name.               *)
RenameFreeSteps(n, to, i) == <<Add(to, i), RestRoot, Take(n), RestRoot>>

LEMMA RenameMakes ==
  ASSUME NEW F, FaceSound(F), NEW n \in Names, DirOf(F)[n] # None, NEW to \in Names, to # n, DirOf(F)[to] = None
  PROVE  \E G : Makes(F, RenameFreeSteps(n, to, DirOf(F)[n]), G, [TreeIn(F) EXCEPT ![n] = None, ![to] = TreeIn(F)[n]],
                      [[DirOf(F) EXCEPT ![to] = DirOf(F)[n]] EXCEPT ![n] = None])
<1> DEFINE D == DirOf(F)
           i == D[n]
           d1 == [D EXCEPT ![to] = i]
           d == [d1 EXCEPT ![n] = None]
           F1 == DoFace(F, Add(to, i))
           G == DoFace(F1, Take(n))
<1>1. /\ F \in FaceType /\ F[root].chunk \in DirTexts \cup {None} /\ F[root].type = "DIR" /\ D \in [Names -> Inos \cup {None}]
      /\ \A k \in Names : D[k] # None => D[k] \in Inos /\ F[D[k]].type = "REG"
  BY SoundFields
<1>2. /\ \A j \in Inos : /\ F[j].type \in {"NONE", "REG"}
                         /\ F[j].type = "NONE" => F[j].chunk = None
                         /\ F[j].chunk # None => \E v \in Values : F[j].chunk = Data(v)
      /\ \A k, l \in Names : D[k] # None /\ k # l => D[k] # D[l]
  BY DEF FaceSound
<1>3. i \in Inos
  BY <1>1
<1>4. d \in [Names -> Inos \cup {None}] /\ d[n] = None /\ d[to] = i /\ \A k \in Names : k \notin {n, to} => d[k] = D[k]
  BY <1>1
<1>5. MayDo(F, Add(to, i)) /\ Redirects(F, F1, d1) /\ Add(to, i).do = "add"
  BY <1>1, <1>3, AddIs
<1> HIDE DEF F1
<1>6. /\ F1 \in FaceType /\ DirOf(F1) = d1 /\ F1[root].chunk \in DirTexts \cup {None} /\ F1[root].type = "DIR"
      /\ \A j \in Inos : F1[j] = F[j]
  BY <1>1, <1>5 DEF Redirects
<1>7. MayDo(F1, Take(n)) /\ Redirects(F1, G, d) /\ Take(n).do = "remove"
  BY <1>6, TakeIs
<1> HIDE DEF G
<1>8. /\ G \in FaceType /\ DirOf(G) = d /\ G[root].chunk \in DirTexts \cup {None} /\ G[root].type = "DIR"
      /\ \A j \in Inos : G[j] = F[j]
  BY <1>6, <1>7 DEF Redirects
<1> HIDE DEF d, d1, i
<1>9. FaceRun(F, RenameFreeSteps(n, to, i), G)
  <2>1. FaceRun(G, <<RestRoot>>, G)
    BY RestStep, RunOne
  <2>2. <<Take(n), RestRoot>> = <<Take(n)>> \o <<RestRoot>>
    OBVIOUS
  <2>3. FaceRun(F1, <<Take(n), RestRoot>>, G)
    BY <1>7, <2>1, <2>2, RunCons DEF G
  <2>4. <<RestRoot, Take(n), RestRoot>> = <<RestRoot>> \o <<Take(n), RestRoot>>
    OBVIOUS
  <2>5. FaceRun(F1, <<RestRoot, Take(n), RestRoot>>, G)
    BY <2>3, <2>4, RestStep, RunCons
  <2>6. RenameFreeSteps(n, to, i) = <<Add(to, i)>> \o <<RestRoot, Take(n), RestRoot>>
    BY DEF RenameFreeSteps
  <2> QED BY <1>5, <2>5, <2>6, RunCons DEF F1
<1>10. i # None /\ None \notin Inos
  BY <1>3, Basics
<1>11. \A k \in Names : k # n => D[k] # i
  BY <1>2, <1>10 DEF i
<1>12. D[to] = None /\ D[n] = i
  BY DEF i
<1> HIDE DEF D
<1>13. FaceSound(G)
  <2>2. ASSUME NEW k \in Names, d[k] # None PROVE F[d[k]].type = "REG" /\ d[k] \in Inos
    BY <1>1, <1>3, <1>4, <1>12, <2>2
  <2>3. ASSUME NEW k \in Names, NEW l \in Names, d[k] # None, k # l PROVE d[k] # d[l]
    <3>1. k # n
      BY <1>4, <2>3
    <3>2. CASE l = n
      BY <1>4, <2>3, <3>2
    <3>3. CASE l # n /\ k = to
      BY <1>4, <1>11, <2>3, <3>3
    <3>4. CASE l = to /\ k # to
      BY <1>4, <1>11, <2>3, <3>1, <3>4
    <3>5. CASE l \notin {n, to} /\ k # to
      BY <1>2, <1>4, <2>3, <3>1, <3>5
    <3> QED BY <3>2, <3>3, <3>4, <3>5
  <2> QED BY <1>2, <1>8, <2>2, <2>3 DEF FaceSound
<1> DEFINE T == [TreeIn(F) EXCEPT ![n] = None, ![to] = TreeIn(F)[n]]
<1>14. TreeIn(G) = T
  <2>1. T = [k \in Names |-> T[k]] /\ T[n] = None /\ T[to] = TreeIn(F)[n] /\ \A k \in Names : k \notin {n, to} => T[k] = TreeIn(F)[k]
    BY DEF TreeIn
  <2> HIDE DEF T
  <2>2. \A j \in Inos : FileIn(G, j) = FileIn(F, j)
    BY <1>8 DEF FileIn
  <2>3. \A k \in Names : TreeIn(F)[k] = IF D[k] = None THEN None ELSE FileIn(F, D[k])
    BY TreeGives DEF D
  <2>4. ASSUME NEW k \in Names PROVE T[k] = IF d[k] = None THEN None ELSE FileIn(G, d[k])
    <3>1. CASE k = n
      BY <1>4, <2>1, <3>1
    <3>2. CASE k = to
      BY <1>3, <1>4, <1>10, <1>12, <2>1, <2>2, <2>3, <3>2
    <3>3. CASE k \notin {n, to}
      BY <1>1, <1>4, <2>1, <2>2, <2>3, <3>3
    <3> QED BY <3>1, <3>2, <3>3
  <2> QED BY <1>8, <2>1, <2>4, TreeAt
<1> QED BY <1>8, <1>9, <1>13, <1>14 DEF Makes, T, i, D, d, d1

(* One file changes, that the directory names.                             *)
LEMMA FileMakes ==
  ASSUME NEW F, FaceSound(F), NEW i \in Inos, NEW step, MayDo(F, step), step.do \in {"write", "cut", "chmod"},
         NEW G \in FaceType, G = DoFace(F, step), \A q \in Records : q # i => G[q] = F[q],
         G[i].type = F[i].type, F[i].type = "REG", G[i].chunk = None \/ \E v \in Values : G[i].chunk = Data(v),
         NEW T, T = [n \in Names |-> IF DirOf(F)[n] = i THEN FileIn(G, i) ELSE TreeIn(F)[n]]
  PROVE  Makes(F, <<step>>, G, T, DirOf(F))
<1> DEFINE D == DirOf(F)
<1>1. /\ F \in FaceType /\ F[root].chunk \in DirTexts \cup {None} /\ F[root].type = "DIR" /\ D \in [Names -> Inos \cup {None}]
      /\ \A k \in Names : D[k] # None => D[k] \in Inos /\ F[D[k]].type = "REG"
  BY SoundFields
<1>2. /\ \A j \in Inos : /\ F[j].type \in {"NONE", "REG"}
                         /\ F[j].type = "NONE" => F[j].chunk = None
                         /\ F[j].chunk # None => \E v \in Values : F[j].chunk = Data(v)
      /\ \A k, l \in Names : D[k] # None /\ k # l => D[k] # D[l]
  BY DEF FaceSound
<1>3. i # root /\ i \in Records /\ root \in Records /\ (\A q \in Inos : q \in Records /\ q # root) /\ i # None
  BY RootOther, Basics
<1>4. G[root] = F[root] /\ \A j \in Inos : j # i => G[j] = F[j]
  BY <1>3
<1>5. DirOf(G) = D
  BY <1>4 DEF DirOf
<1> HIDE DEF D
<1>6. FaceSound(G)
  <2>1. ASSUME NEW j \in Inos
        PROVE  /\ G[j].type \in {"NONE", "REG"} /\ (G[j].type = "NONE" => G[j].chunk = None)
               /\ (G[j].chunk # None => \E v \in Values : G[j].chunk = Data(v)) /\ (F[j].type = "REG" => G[j].type = "REG")
    BY <1>2, <1>4
  <2>2. ASSUME NEW k \in Names, D[k] # None PROVE G[D[k]].type = "REG"
    BY <1>1, <2>1, <2>2
  <2> QED BY <1>1, <1>2, <1>4, <1>5, <2>1, <2>2 DEF FaceSound
<1>7. TreeIn(G) = T
  <2>1. T = [n \in Names |-> T[n]] /\ \A n \in Names : T[n] = IF D[n] = i THEN FileIn(G, i) ELSE TreeIn(F)[n]
    BY DEF D
  <2>2. ASSUME NEW k \in Names PROVE T[k] = IF D[k] = None THEN None ELSE FileIn(G, D[k])
    <3>1. CASE D[k] = i
      BY <1>3, <2>1, <3>1
    <3>2. CASE D[k] # i
      <4>1. T[k] = IF D[k] = None THEN None ELSE FileIn(F, D[k])
        BY <2>1, <3>2, TreeGives DEF D
      <4>2. D[k] # None => FileIn(G, D[k]) = FileIn(F, D[k])
        BY <1>1, <1>4, <3>2 DEF FileIn
      <4> QED BY <4>1, <4>2
    <3> QED BY <3>1, <3>2
  <2> QED BY <1>5, <2>1, <2>2, TreeAt
<1>8. FaceRun(F, <<step>>, G)
  BY RunOne
<1> QED BY <1>5, <1>6, <1>7, <1>8 DEF Makes, D

(* write: the file shows the value, under its name.                        *)
WriteTree(F, i, v) ==
  [n \in Names |-> IF DirOf(F)[n] = i THEN [TreeIn(F)[n] EXCEPT !.content = v] ELSE TreeIn(F)[n]]
WriteStep(i, v) == [do |-> "write", ino |-> i, value |-> v]

LEMMA WriteMakes ==
  ASSUME NEW F, FaceSound(F), NEW i \in Inos, F[i].type = "REG", NEW v \in Values,
         NEW step, step = WriteStep(i, v),
         NEW T, T = WriteTree(F, i, v)
  PROVE  \E G : Makes(F, <<step>>, G, T, DirOf(F))
<1> DEFINE G == WithChunk(F, i, Data(v))
<1>1. F \in FaceType /\ i \in Records /\ i # None
  BY SoundFields, Basics
<1>2. Data(v) \in Texts /\ Data(v) # None /\ Data(v).value = v
  BY Basics DEF Texts, Data
<1>3. step \in StepSet /\ step.do = "write" /\ step.ino = i /\ step.value = v
  BY DEF StepSet, WriteStep
<1>4. MayDo(F, step) /\ DoFace(F, step) = G
  BY <1>3 DEF MayDo, DoFace
<1>5. /\ G \in FaceType /\ \A q \in Records : q # i => G[q] = F[q]
      /\ G[i].chunk = Data(v) /\ G[i].type = F[i].type /\ G[i].mode = F[i].mode
  BY <1>1, <1>2, WithChunkIs
<1> HIDE DEF G
<1>6. ASSUME NEW n \in Names, DirOf(F)[n] = i PROVE [TreeIn(F)[n] EXCEPT !.content = v] = FileIn(G, i)
  <2>1. TreeIn(F)[n] = [content |-> IF F[i].chunk = None THEN None ELSE F[i].chunk.value, mode |-> F[i].mode]
    BY <1>1, <1>6, TreeGives DEF FileIn
  <2>2. FileIn(G, i) = [content |-> v, mode |-> F[i].mode]
    BY <1>2, <1>5 DEF FileIn
  <2> QED BY <2>1, <2>2
<1>7. T = [n \in Names |-> IF DirOf(F)[n] = i THEN FileIn(G, i) ELSE TreeIn(F)[n]]
  BY <1>6 DEF WriteTree
<1>8. (G[i].chunk = None \/ \E u \in Values : G[i].chunk = Data(u)) /\ step.do \in {"write", "cut", "chmod"}
  BY <1>3, <1>5
<1>9. Makes(F, <<step>>, G, T, DirOf(F))
  BY <1>4, <1>5, <1>7, <1>8, FileMakes
<1> QED BY <1>9

(* truncate: the file is empty.                                            *)
CutTree(F, i) ==
  [n \in Names |-> IF DirOf(F)[n] = i THEN [TreeIn(F)[n] EXCEPT !.content = None] ELSE TreeIn(F)[n]]

LEMMA CutMakes ==
  ASSUME NEW F, FaceSound(F), NEW i \in Inos, F[i].type = "REG", NEW step, step = Step("cut", i),
         NEW T, T = CutTree(F, i)
  PROVE  \E G : Makes(F, <<step>>, G, T, DirOf(F))
<1> DEFINE G == WithChunk(F, i, None)
<1>1. F \in FaceType /\ i \in Records /\ i # None
  BY SoundFields, Basics
<1>3. step \in StepSet /\ step.do = "cut" /\ step.ino = i
  BY DEF StepSet, Step
<1>4. MayDo(F, step) /\ DoFace(F, step) = G
  BY <1>3 DEF MayDo, DoFace
<1>5. /\ G \in FaceType /\ \A q \in Records : q # i => G[q] = F[q]
      /\ G[i].chunk = None /\ G[i].type = F[i].type /\ G[i].mode = F[i].mode
  BY <1>1, WithChunkIs
<1> HIDE DEF G
<1>6. ASSUME NEW n \in Names, DirOf(F)[n] = i PROVE [TreeIn(F)[n] EXCEPT !.content = None] = FileIn(G, i)
  <2>1. TreeIn(F)[n] = [content |-> IF F[i].chunk = None THEN None ELSE F[i].chunk.value, mode |-> F[i].mode]
    BY <1>1, <1>6, TreeGives DEF FileIn
  <2>2. FileIn(G, i) = [content |-> None, mode |-> F[i].mode]
    BY <1>5 DEF FileIn
  <2> QED BY <2>1, <2>2
<1>7. T = [n \in Names |-> IF DirOf(F)[n] = i THEN FileIn(G, i) ELSE TreeIn(F)[n]]
  BY <1>6 DEF CutTree
<1>8. (G[i].chunk = None \/ \E u \in Values : G[i].chunk = Data(u)) /\ step.do \in {"write", "cut", "chmod"}
  BY <1>3, <1>5
<1>9. Makes(F, <<step>>, G, T, DirOf(F))
  BY <1>4, <1>5, <1>7, <1>8, FileMakes
<1> QED BY <1>9

(* chmod: the file has the mode.                                           *)
ModeTree(F, i, m) ==
  [n \in Names |-> IF DirOf(F)[n] = i THEN [TreeIn(F)[n] EXCEPT !.mode = m] ELSE TreeIn(F)[n]]
ModeStep(i, m) == [do |-> "chmod", ino |-> i, mode |-> m]

LEMMA ModeMakes ==
  ASSUME NEW F, FaceSound(F), NEW i \in Inos, F[i].type = "REG", NEW m \in Modes,
         NEW step, step = ModeStep(i, m),
         NEW T, T = ModeTree(F, i, m)
  PROVE  \E G : Makes(F, <<step>>, G, T, DirOf(F))
<1> DEFINE G == WithMode(F, i, m)
<1>1. F \in FaceType /\ i \in Records /\ i # None
  BY SoundFields, Basics
<1>3. step \in StepSet /\ step.do = "chmod" /\ step.ino = i /\ step.mode = m
  BY DEF StepSet, ModeStep
<1>4. MayDo(F, step) /\ DoFace(F, step) = G
  BY <1>3 DEF MayDo, DoFace
<1>5. /\ G \in FaceType /\ \A q \in Records : q # i => G[q] = F[q]
      /\ G[i].chunk = F[i].chunk /\ G[i].type = F[i].type /\ G[i].mode = m
  BY <1>1, WithModeIs
<1> HIDE DEF G
<1>6. ASSUME NEW n \in Names, DirOf(F)[n] = i PROVE [TreeIn(F)[n] EXCEPT !.mode = m] = FileIn(G, i)
  <2> DEFINE c == IF F[i].chunk = None THEN None ELSE F[i].chunk.value
  <2>1. TreeIn(F)[n] = [content |-> c, mode |-> F[i].mode]
    BY <1>1, <1>6, TreeGives DEF FileIn
  <2>2. FileIn(G, i) = [content |-> c, mode |-> m]
    BY <1>5 DEF FileIn
  <2> HIDE DEF c
  <2> QED BY <2>1, <2>2
<1>7. T = [n \in Names |-> IF DirOf(F)[n] = i THEN FileIn(G, i) ELSE TreeIn(F)[n]]
  BY <1>6 DEF ModeTree
<1>8. (G[i].chunk = None \/ \E u \in Values : G[i].chunk = Data(u)) /\ step.do \in {"write", "cut", "chmod"}
  BY <1>3, <1>5 DEF FaceSound
<1>9. Makes(F, <<step>>, G, T, DirOf(F))
  BY <1>4, <1>5, <1>7, <1>8, FileMakes
<1> QED BY <1>9

-----------------------------------------------------------------------------
(* The replay of the entries below n.                                      *)
TryAt(n, d, entries) ==
  LET before[k \in 0 .. n] ==
        IF k = 0 THEN Loaded(d)
        ELSE IF \E e \in entries : e.id = k - 1
             THEN replayEntry(before[k - 1], CHOOSE e \in entries : e.id = k - 1)
             ELSE before[k - 1]
  IN before[n]

(* The replay of one number.                                               *)
ReplayOf(w, entries, id) ==
  IF \E e \in entries : e.id = id THEN replayEntry(w, CHOOSE e \in entries : e.id = id) ELSE w
Replays(h, n, d, entries) ==
  /\ h[0] = Loaded(d)
  /\ \A k \in 1 .. n : h[k] = ReplayOf(h[k - 1], entries, k - 1)

(* The replay goes from each number to the next.                           *)
LEMMA TryIs ==
  ASSUME NEW n \in Nat, NEW d, NEW entries
  PROVE  \E h : Replays(h, n, d, entries) /\ h[n] = TryAt(n, d, entries)
<1> DEFINE Is(g, m) == g = [k \in 0 .. m |-> IF k = 0 THEN Loaded(d) ELSE ReplayOf(g[k - 1], entries, k - 1)]
           S == {m \in 0 .. n : \E g : Is(g, m)}
<1>2. 0 \in S
  <2> DEFINE g == [k \in 0 .. 0 |-> Loaded(d)]
  <2>1. Is(g, 0)
    OBVIOUS
  <2> HIDE DEF g
  <2> QED BY <2>1
<1>3. ASSUME NEW m \in 1 .. n, m - 1 \in S PROVE m \in S
  <2>1. PICK g : Is(g, m - 1)
    BY <1>3
  <2> DEFINE g2 == [k \in 0 .. m |-> IF k = m THEN ReplayOf(g[m - 1], entries, m - 1) ELSE g[k]]
  <2>2. Is(g2, m)
    <3>1. ASSUME NEW k \in 0 .. m PROVE g2[k] = IF k = 0 THEN Loaded(d) ELSE ReplayOf(g2[k - 1], entries, k - 1)
      <4>1. CASE k = 0
        <5>1. g2[k] = g[0] /\ 0 \in 0 .. m - 1
          BY <4>1
        <5> QED BY <2>1, <4>1, <5>1
      <4>2. CASE k = m
        <5>1. g2[k] = ReplayOf(g[m - 1], entries, m - 1) /\ g2[k - 1] = g[m - 1] /\ k # 0
          BY <4>2
        <5> QED BY <4>2, <5>1
      <4>3. CASE k # 0 /\ k # m
        <5>1. k \in 0 .. m - 1 /\ g2[k] = g[k] /\ g2[k - 1] = g[k - 1]
          BY <4>3
        <5>2. g[k] = ReplayOf(g[k - 1], entries, k - 1)
          BY <2>1, <4>3, <5>1
        <5> QED BY <4>3, <5>1, <5>2
      <4> QED BY <4>1, <4>2, <4>3
    <3> QED BY <3>1
  <2> HIDE DEF g2, Is
  <2> QED BY <2>2
<1> HIDE DEF S
<1>4. n \in S
  <2>1. \A k \in 0 .. n : k \in S
    BY <1>2, <1>3, UpTo
  <2> QED BY <2>1
<1>5. PICK g : Is(g, n)
  BY <1>4 DEF S
<1> DEFINE f == CHOOSE g2 : Is(g2, n)
<1>6. Is(f, n)
  <2> HIDE DEF Is
  <2> QED BY <1>5
<1>7. f[n] = TryAt(n, d, entries)
  BY DEF TryAt, ReplayOf
<1> HIDE DEF f
<1>8. Replays(f, n, d, entries)
  BY <1>6 DEF Replays
<1> QED BY <1>7, <1>8

(* Without open entries a replay is a load.                                *)
LEMMA TryNone ==
  ASSUME NEW n \in Nat, NEW d
  PROVE  TryAt(n, d, {}) = Loaded(d)
<1>1. PICK h : Replays(h, n, d, {}) /\ h[n] = TryAt(n, d, {})
  BY TryIs
<1> DEFINE S == {k \in 0 .. n : h[k] = Loaded(d)}
<1>2. 0 \in S /\ \A k \in 1 .. n : k - 1 \in S => k \in S
  BY <1>1 DEF Replays, ReplayOf
<1> HIDE DEF S
<1>3. \A k \in 0 .. n : k \in S
  BY <1>2, UpTo
<1> QED BY <1>1, <1>3 DEF S

(* A new entry, with the next number, is replayed last.                    *)
LEMMA TryMore ==
  ASSUME NEW n \in Nat, NEW d, NEW entries, \A e \in entries : e.id \in 0 .. n - 1, NEW entry, entry.id = n
  PROVE  TryAt(n + 1, d, entries \cup {entry}) = replayEntry(TryAt(n, d, entries), entry)
<1> DEFINE more == entries \cup {entry}
<1>1. PICK h : Replays(h, n, d, entries) /\ h[n] = TryAt(n, d, entries)
  BY TryIs
<1>2. PICK g : Replays(g, n + 1, d, more) /\ g[n + 1] = TryAt(n + 1, d, more)
  BY TryIs
<1> DEFINE S == {k \in 0 .. n : g[k] = h[k]}
<1>3. ASSUME NEW w, NEW k \in 0 .. n - 1 PROVE ReplayOf(w, more, k) = ReplayOf(w, entries, k)
  <2>1. \A e : e \in more /\ e.id = k <=> e \in entries /\ e.id = k
    OBVIOUS
  <2> HIDE DEF more
  <2>2. (CHOOSE e \in more : e.id = k) = (CHOOSE e \in entries : e.id = k)
    BY <2>1
  <2> QED BY <2>1, <2>2 DEF ReplayOf
<1>4. ASSUME NEW w PROVE ReplayOf(w, more, n) = replayEntry(w, entry)
  <2>1. \A e : e \in more /\ e.id = n <=> e = entry
    OBVIOUS
  <2> HIDE DEF more
  <2>2. (CHOOSE e \in more : e.id = n) = entry
    BY <2>1
  <2> QED BY <2>1, <2>2 DEF ReplayOf
<1> HIDE DEF more
<1>5. 0 \in S
  BY <1>1, <1>2 DEF Replays
<1>6. ASSUME NEW k \in 1 .. n, k - 1 \in S PROVE k \in S
  <2>1. k \in 1 .. n + 1 /\ k - 1 \in 0 .. n - 1 /\ k \in 0 .. n /\ g[k - 1] = h[k - 1]
    BY <1>6
  <2>2. g[k] = ReplayOf(g[k - 1], more, k - 1) /\ h[k] = ReplayOf(h[k - 1], entries, k - 1)
    BY <1>1, <1>2, <2>1 DEF Replays
  <2>3. g[k] = h[k]
    BY <1>3, <2>1, <2>2
  <2> QED BY <2>1, <2>3
<1> HIDE DEF S
<1>7. g[n] = h[n]
  <2>1. n \in S
    BY <1>5, <1>6, UpTo
  <2> QED BY <2>1 DEF S
<1>8. g[n + 1] = ReplayOf(g[n], more, n)
  <2>1. n + 1 \in 1 .. n + 1 /\ (n + 1) - 1 = n
    OBVIOUS
  <2> QED BY <1>2, <2>1 DEF Replays
<1> QED BY <1>1, <1>2, <1>4, <1>7, <1>8 DEF more

(* What was stored when every file was at rest is what is loaded.          *)
LEMMA LoadedIs ==
  ASSUME NEW w, Loose(w), NEW d, d.data = w.data, d.meta \in [Records -> Record],
         \A r \in Records : /\ d.meta[r].type = w.meta[r].type /\ d.meta[r].mode = w.meta[r].mode
                            /\ d.meta[r].size = w.meta[r].size /\ d.meta[r].ctd = w.list[r]
  PROVE  Shows(Loaded(d), Face(w))
<1> DEFINE v == Loaded(d)
<1>1. /\ w.meta \in [Records -> Record] /\ w.data \in [Slots -> Slot] /\ w.list \in [Records -> Slots \cup {None}]
      /\ \A r \in Records : (w.list[r] = None <=> w.meta[r].size = 0) /\ w.list[r] # zeroHash
      /\ \A s \in Slots \ {zeroHash} : w.data[s].refs = Cardinality(Holders(w.list, s))
  BY WorldFields DEF Loose
<1>2. ASSUME NEW r \in Records PROVE v.list[r] = w.list[r]
  <2>1. v.list[r] = IF d.meta[r].size = 0 THEN None
                    ELSE IF d.meta[r].ctd = None \/ d.data[d.meta[r].ctd].refs = 0 THEN zeroHash ELSE d.meta[r].ctd
    BY DEF Loaded
  <2>2. CASE w.list[r] = None
    BY <1>1, <2>1, <2>2
  <2>3. CASE w.list[r] # None
    <3>1. w.list[r] \in Slots \ {zeroHash} /\ w.list[r] \in Slots
      BY <1>1, <2>3
    <3>2. w.data[w.list[r]].refs # 0
      <4>1. IsFiniteSet(Holders(w.list, w.list[r])) /\ Holders(w.list, w.list[r]) # {}
        BY Basics, FS_Subset DEF Holders
      <4>2. Cardinality(Holders(w.list, w.list[r])) # 0
        BY <4>1, FS_EmptySet
      <4> QED BY <1>1, <3>1, <4>2
    <3> HIDE DEF v
    <3> QED BY <1>1, <2>1, <2>3, <3>2
  <2> QED BY <2>2, <2>3
<1>3. v.meta = d.meta /\ v.data = w.data /\ v = [meta |-> d.meta, data |-> w.data, list |-> v.list]
      /\ v.list = [r \in Records |-> v.list[r]]
  BY DEF Loaded
<1> HIDE DEF v
<1>4. v.list = w.list
  BY <1>1, <1>2, <1>3
<1>5. Loose(v)
  <2>1. v \in Worlds
    BY <1>1, <1>3, <1>4 DEF Worlds
  <2> QED BY <1>1, <1>3, <1>4, <2>1 DEF Loose
<1>6. Face(v) = Face(w)
  <2>1. Face(w) \in FaceType /\ \A r \in Records : /\ Face(w)[r].type = w.meta[r].type /\ Face(w)[r].mode = w.meta[r].mode
                                                   /\ Face(w)[r].chunk = Chunk(w, r)
    BY FaceIs
  <2>2. \A r \in Records : Chunk(v, r) = Chunk(w, r)
    BY <1>3, <1>4 DEF Chunk
  <2>3. \A r \in Records : v.meta[r].type = Face(w)[r].type /\ v.meta[r].mode = Face(w)[r].mode /\ Chunk(v, r) = Face(w)[r].chunk
    BY <1>3, <2>1, <2>2
  <2> QED BY <2>1, <2>3, FaceSame
<1> QED BY <1>5, <1>6 DEF Shows, v

(* An entry that can be replayed shows what its steps show.                *)
LEMMA EntryReplays ==
  ASSUME NEW w, Loose(w), NEW e, NEW steps, NEW G, FaceRun(Face(w), steps, G), CanReplay(w, e), StepsOf(e, Dir(w), 0) = steps
  PROVE  Shows(replayEntry(w, e), G)
<1>1. replayEntry(w, e) = DoAll(w, steps)
  BY DEF replayEntry
<1> QED BY <1>1, RunAll

-----------------------------------------------------------------------------
(* The entries, the directory a call leaves, and the inode of a new file:  *)
(* no name leads to it and it has no chunk.                                *)
EntryType ==
  [type : {"mkobject"}, id : Nat, name : Names, ino : Inos, mode : Modes]
    \cup [type : {"unlink"}, id : Nat, name : Names]
    \cup {e \in [type : {"renamemove"}, id : Nat, name : Names, to : Names] : e.name # e.to}
    \cup [type : {"write"}, id : Nat, ino : Inos, value : Values]
    \cup [type : {"truncate"}, id : Nat, ino : Inos]
    \cup [type : {"chmod"}, id : Nat, ino : Inos, mode : Modes]
NewNames(d, e) ==
  CASE e.type = "mkobject" -> [d EXCEPT ![e.name] = e.ino]
    [] e.type = "unlink" -> [d EXCEPT ![e.name] = None]
    [] e.type = "renamemove" -> [[d EXCEPT ![e.to] = d[e.name]] EXCEPT ![e.name] = None]
    [] OTHER -> d
InodeFree(w, e) ==
  e.type = "mkobject" => w.list[e.ino] = None /\ \A n \in Names : Dir(w)[n] # e.ino

LEMMA EntryFields ==
  ASSUME NEW e \in EntryType
  PROVE  /\ e.type \in {"mkobject", "unlink", "renamemove", "write", "truncate", "chmod"}
         /\ e.type = "mkobject" => e.name \in Names /\ e.ino \in Inos /\ e.mode \in Modes
         /\ e.type = "unlink" => e.name \in Names
         /\ e.type = "renamemove" => e.name \in Names /\ e.to \in Names /\ e.name # e.to
         /\ e.type = "write" => e.ino \in Inos /\ e.value \in Values
         /\ e.type = "truncate" => e.ino \in Inos
         /\ e.type = "chmod" => e.ino \in Inos /\ e.mode \in Modes
BY DEF EntryType

(* What the steps of a rename onto a taken name come to: the file that has *)
(* it is unlinked first, in a call of its own.                             *)
NestedUnlink(to) == [do |-> "journal", entry |-> [type |-> "unlink", id |-> 0, name |-> to]]
EndNested == [do |-> "end", id |-> 0]

LEMMA RenameOverMakes ==
  ASSUME NEW F, FaceSound(F), NEW n \in Names, DirOf(F)[n] # None, NEW to \in Names, to # n, DirOf(F)[to] # None,
         NEW steps,
         steps = (<<NestedUnlink(to)>> \o UnlinkSteps(to, DirOf(F)[to]) \o <<EndNested>>)
                   \o RenameFreeSteps(n, to, DirOf(F)[n])
  PROVE  \E G : Makes(F, steps, G, [TreeIn(F) EXCEPT ![n] = None, ![to] = TreeIn(F)[n]],
                      [[DirOf(F) EXCEPT ![to] = DirOf(F)[n]] EXCEPT ![n] = None])
<1> DEFINE D == DirOf(F)
           U == UnlinkSteps(to, D[to])
           R == RenameFreeSteps(n, to, D[n])
<1>1. PICK H : Makes(F, U, H, [TreeIn(F) EXCEPT ![to] = None], [D EXCEPT ![to] = None])
  BY UnlinkMakes
<1>2. D \in [Names -> Inos \cup {None}]
  BY SoundFields
<1>3. /\ FaceSound(H) /\ FaceRun(F, U, H)
      /\ DirOf(H) = [D EXCEPT ![to] = None] /\ TreeIn(H) = [TreeIn(F) EXCEPT ![to] = None]
  BY <1>1 DEF Makes
<1>4. DirOf(H)[n] = D[n] /\ DirOf(H)[to] = None /\ D[n] # None
  BY <1>2, <1>3
<1>5. PICK G : Makes(H, R, G, [TreeIn(H) EXCEPT ![n] = None, ![to] = TreeIn(H)[n]],
                     [[DirOf(H) EXCEPT ![to] = DirOf(H)[n]] EXCEPT ![n] = None])
  BY <1>3, <1>4, RenameMakes
<1>6. MayDo(F, NestedUnlink(to)) /\ DoFace(F, NestedUnlink(to)) = F
  <2>1. NestedUnlink(to) \in StepSet /\ NestedUnlink(to).do = "journal"
    BY DEF NestedUnlink, StepSet, UnlinkEntries
  <2> QED BY <2>1 DEF MayDo, DoFace
<1>7. MayDo(H, EndNested) /\ DoFace(H, EndNested) = H
  <2>1. EndNested \in StepSet /\ EndNested.do = "end"
    BY DEF EndNested, StepSet
  <2> QED BY <2>1 DEF MayDo, DoFace
<1>8. FaceRun(F, steps, G)
  <2>1. FaceRun(F, <<NestedUnlink(to)>>, F) /\ FaceRun(H, <<EndNested>>, H) /\ FaceRun(H, R, G)
    BY <1>5, <1>6, <1>7, RunOne DEF Makes
  <2> HIDE DEF U, R, D
  <2>2. FaceRun(F, <<NestedUnlink(to)>> \o U, H)
    BY <1>3, <2>1, RunMore
  <2>3. FaceRun(F, (<<NestedUnlink(to)>> \o U) \o <<EndNested>>, H)
    BY <2>1, <2>2, RunMore
  <2>4. steps = ((<<NestedUnlink(to)>> \o U) \o <<EndNested>>) \o R
    BY DEF U, R, D
  <2> QED BY <2>1, <2>3, <2>4, RunMore
<1>9. DirOf(G) = [[D EXCEPT ![to] = D[n]] EXCEPT ![n] = None]
  <2>1. DirOf(G) = [[DirOf(H) EXCEPT ![to] = DirOf(H)[n]] EXCEPT ![n] = None]
    BY <1>5 DEF Makes
  <2> QED BY <1>2, <1>3, <1>4, <2>1
<1>10. TreeIn(G) = [TreeIn(F) EXCEPT ![n] = None, ![to] = TreeIn(F)[n]]
  <2>1. TreeIn(G) = [TreeIn(H) EXCEPT ![n] = None, ![to] = TreeIn(H)[n]]
    BY <1>5 DEF Makes
  <2> DEFINE T == TreeIn(F)
  <2>2. T = [k \in Names |-> T[k]]
    BY TreeGives
  <2> HIDE DEF T
  <2>3. TreeIn(H) = [T EXCEPT ![to] = None]
    BY <1>3 DEF T
  <2>4. [TreeIn(H) EXCEPT ![n] = None, ![to] = TreeIn(H)[n]] = [T EXCEPT ![n] = None, ![to] = T[n]]
    BY <2>2, <2>3
  <2> QED BY <2>1, <2>4 DEF T
<1> QED BY <1>5, <1>8, <1>9, <1>10 DEF Makes

(* The steps of an entry that can be replayed come to its effect.          *)
CanFace(F, e) ==
  CASE e.type = "mkobject" -> /\ DirOf(F)[e.name] = None /\ F[e.ino].chunk = None
                              /\ \A n \in Names : DirOf(F)[n] # e.ino
    [] e.type \in {"unlink", "renamemove"} -> DirOf(F)[e.name] # None
    [] OTHER -> F[e.ino].type # "NONE"

LEMMA EntryMakes ==
  ASSUME NEW F, FaceSound(F), NEW e \in EntryType, CanFace(F, e)
  PROVE  \E G : Makes(F, StepsOf(e, DirOf(F), 0), G, Effect(TreeIn(F), DirOf(F), e), NewNames(DirOf(F), e))
<1> DEFINE D == DirOf(F)
           T == TreeIn(F)
<1>1. CASE e.type = "mkobject"
  <2>1. e.name \in Names /\ e.ino \in Inos /\ e.mode \in Modes
    BY <1>1, EntryFields
  <2>2. D[e.name] = None /\ F[e.ino].chunk = None /\ \A n \in Names : D[n] # e.ino
    BY <1>1 DEF CanFace
  <2>3. StepsOf(e, D, 0) = mkobjectSteps(e.name, e.ino, e.mode)
    BY <1>1 DEF StepsOf, mkobjectSteps
  <2>4. Effect(T, D, e) = [T EXCEPT ![e.name] = [content |-> None, mode |-> e.mode]] /\ NewNames(D, e) = [D EXCEPT ![e.name] = e.ino]
    BY <1>1 DEF Effect, NewNames
  <2>5. \E G : Makes(F, mkobjectSteps(e.name, e.ino, e.mode), G, [TreeIn(F) EXCEPT ![e.name] = [content |-> None, mode |-> e.mode]],
                     [DirOf(F) EXCEPT ![e.name] = e.ino])
    BY <2>1, <2>2, MkobjectMakes
  <2> QED BY <2>3, <2>4, <2>5
<1>2. CASE e.type = "unlink"
  <2>1. e.name \in Names /\ D[e.name] # None
    BY <1>2, EntryFields DEF CanFace
  <2>2. StepsOf(e, D, 0) = UnlinkSteps(e.name, D[e.name])
    BY <1>2 DEF StepsOf
  <2>3. Effect(T, D, e) = [T EXCEPT ![e.name] = None] /\ NewNames(D, e) = [D EXCEPT ![e.name] = None]
    BY <1>2 DEF Effect, NewNames
  <2>4. \E G : Makes(F, UnlinkSteps(e.name, DirOf(F)[e.name]), G, [TreeIn(F) EXCEPT ![e.name] = None], [DirOf(F) EXCEPT ![e.name] = None])
    BY <2>1, UnlinkMakes
  <2> QED BY <2>2, <2>3, <2>4
<1>3. CASE e.type = "renamemove"
  <2>1. e.name \in Names /\ e.to \in Names /\ e.name # e.to /\ D[e.name] # None
    BY <1>3, EntryFields DEF CanFace
  <2>2. StepsOf(e, D, 0) = RenameSteps(e, D, 0)
    BY <1>3 DEF StepsOf
  <2>3. /\ Effect(T, D, e) = [T EXCEPT ![e.name] = None, ![e.to] = T[e.name]]
        /\ NewNames(D, e) = [[D EXCEPT ![e.to] = D[e.name]] EXCEPT ![e.name] = None]
    BY <1>3 DEF Effect, NewNames
  <2>4. CASE D[e.to] = None
    <3>1. RenameSteps(e, D, 0) = <<>> \o RenameFreeSteps(e.name, e.to, D[e.name])
      BY <2>4 DEF RenameSteps, RenameFreeSteps
    <3>2. RenameSteps(e, D, 0) = RenameFreeSteps(e.name, e.to, D[e.name])
      BY <3>1 DEF RenameFreeSteps
    <3>3. \E G : Makes(F, RenameFreeSteps(e.name, e.to, DirOf(F)[e.name]), G, [TreeIn(F) EXCEPT ![e.name] = None, ![e.to] = TreeIn(F)[e.name]],
                       [[DirOf(F) EXCEPT ![e.to] = DirOf(F)[e.name]] EXCEPT ![e.name] = None])
      BY <2>1, <2>4, RenameMakes
    <3> QED BY <2>2, <2>3, <3>2, <3>3
  <2>5. CASE D[e.to] # None
    <3>1. RenameSteps(e, D, 0)
            = (<<NestedUnlink(e.to)>> \o UnlinkSteps(e.to, D[e.to]) \o <<EndNested>>) \o RenameFreeSteps(e.name, e.to, D[e.name])
      BY <2>5 DEF RenameSteps, RenameFreeSteps, NestedUnlink, EndNested
    <3>2. \E G : Makes(F, RenameSteps(e, D, 0), G, [TreeIn(F) EXCEPT ![e.name] = None, ![e.to] = TreeIn(F)[e.name]],
                       [[DirOf(F) EXCEPT ![e.to] = DirOf(F)[e.name]] EXCEPT ![e.name] = None])
      BY <2>1, <2>5, <3>1, RenameOverMakes
    <3> QED BY <2>2, <2>3, <3>1, <3>2
  <2> QED BY <2>4, <2>5
<1>4. CASE e.type \in {"write", "truncate", "chmod"}
  <2>1. e.ino \in Inos /\ F[e.ino].type # "NONE"
    BY <1>4, EntryFields DEF CanFace
  <2>2. F[e.ino].type = "REG"
    BY <2>1 DEF FaceSound
  <2>3. NewNames(D, e) = D
    BY <1>4 DEF NewNames
  <2>4. CASE e.type = "write"
    <3>1. e.value \in Values
      BY <2>4, EntryFields
    <3>2. StepsOf(e, D, 0) = <<WriteStep(e.ino, e.value)>>
      BY <2>4 DEF StepsOf, WriteStep
    <3>3. Effect(T, D, e) = WriteTree(F, e.ino, e.value)
      BY <2>4 DEF Effect, WriteTree
    <3> QED BY <2>1, <2>2, <2>3, <3>1, <3>2, <3>3, WriteMakes
  <2>5. CASE e.type = "truncate"
    <3>2. StepsOf(e, D, 0) = <<Step("cut", e.ino)>>
      BY <2>5 DEF StepsOf
    <3>3. Effect(T, D, e) = CutTree(F, e.ino)
      BY <2>5 DEF Effect, CutTree
    <3> QED BY <2>1, <2>2, <2>3, <3>2, <3>3, CutMakes
  <2>6. CASE e.type = "chmod"
    <3>1. e.mode \in Modes
      BY <2>6, EntryFields
    <3>2. StepsOf(e, D, 0) = <<ModeStep(e.ino, e.mode)>>
      BY <2>6 DEF StepsOf, ModeStep
    <3>3. Effect(T, D, e) = ModeTree(F, e.ino, e.mode)
      BY <2>6 DEF Effect, ModeTree
    <3> QED BY <2>1, <2>2, <2>3, <3>1, <3>2, <3>3, ModeMakes
  <2> QED BY <1>4, <2>4, <2>5, <2>6
<1>5. e.type \in {"mkobject", "unlink", "renamemove", "write", "truncate", "chmod"}
  BY EntryFields
<1> QED BY <1>1, <1>2, <1>3, <1>4, <1>5

(* The counts of a sound mount are exact.                                  *)
LEMMA SoundCounts ==
  ASSUME NEW w, Sound(w)
  PROVE  CountsMatch(w)
<1>1. Loose(w) /\ FaceSound(Face(w))
  BY DEF Sound
<1>2. ASSUME NEW r \in Records PROVE w.meta[r].type = "NONE" => w.list[r] = None
  <2>1. Face(w)[r].type = w.meta[r].type /\ (Face(w)[r].chunk = None <=> w.list[r] = None)
    BY <1>1, FaceIs
  <2>2. CASE r = root
    BY <1>1, <2>1, <2>2 DEF FaceSound
  <2>3. CASE r \in Inos
    BY <1>1, <2>1, <2>3 DEF FaceSound
  <2> QED BY <2>2, <2>3 DEF Records
<1>3. ASSUME NEW s \in Slots \ {zeroHash}
      PROVE  w.data[s].refs = Cardinality({r \in Records : w.meta[r].type # "NONE" /\ w.list[r] = s})
  <2>1. Holders(w.list, s) = {r \in Records : w.meta[r].type # "NONE" /\ w.list[r] = s}
    BY <1>2, Basics DEF Holders
  <2> QED BY <1>1, <2>1 DEF Loose
<1> QED BY <1>3 DEF CountsMatch

(* The replay of an entry whose name, or file, is there does what its call *)
(* is for and nothing else, and leaves exact counts and a directory that   *)
(* can be read: whichever slots the texts are in, whatever else the mount  *)
(* holds, with the nested unlink of a rename (fs.cpp:325-364, :647-817,    *)
(* file.cpp:1101-1117). A new file needs an inode that nothing uses.       *)
THEOREM ReplayDoesTheCall ==
  ASSUME NEW w, Sound(w), NEW e \in EntryType, CanReplay(w, e), InodeFree(w, e)
  PROVE  /\ Sound(replayEntry(w, e)) /\ CountsMatch(replayEntry(w, e))
         /\ TreeOf(replayEntry(w, e)) = Effect(TreeOf(w), Dir(w), e)
         /\ Dir(replayEntry(w, e)) = NewNames(Dir(w), e)
<1> DEFINE F == Face(w)
<1>1. Loose(w) /\ FaceSound(F)
  BY DEF Sound
<1>2. Dir(w) = DirOf(F) /\ TreeOf(w) = TreeIn(F)
  BY TreeIs
<1>3. CanFace(F, e)
  <2>1. CASE e.type = "mkobject"
    <3>1. e.ino \in Records
      BY <2>1, EntryFields, Basics
    <3>2. F[e.ino].chunk = None <=> w.list[e.ino] = None
      BY <1>1, <3>1, FaceIs
    <3> QED BY <1>2, <2>1, <3>2 DEF CanFace, CanReplay, InodeFree
  <2>2. CASE e.type \in {"unlink", "renamemove"}
    BY <1>2, <2>2 DEF CanFace, CanReplay
  <2>3. CASE e.type \in {"write", "truncate", "chmod"}
    <3>1. e.ino \in Records
      BY <2>3, EntryFields, Basics
    <3>2. F[e.ino].type = w.meta[e.ino].type
      BY <1>1, <3>1, FaceIs
    <3> QED BY <2>3, <3>2 DEF CanFace, CanReplay
  <2> QED BY <2>1, <2>2, <2>3, EntryFields
<1> HIDE DEF F
<1>4. PICK G : Makes(F, StepsOf(e, DirOf(F), 0), G, Effect(TreeIn(F), DirOf(F), e), NewNames(DirOf(F), e))
  BY <1>1, <1>3, EntryMakes
<1>5. Shows(replayEntry(w, e), G)
  <2>1. FaceRun(Face(w), StepsOf(e, DirOf(F), 0), G) /\ StepsOf(e, Dir(w), 0) = StepsOf(e, DirOf(F), 0)
    BY <1>2, <1>4 DEF Makes, F
  <2> QED BY <1>1, <2>1, EntryReplays
<1>6. Sound(replayEntry(w, e)) /\ Face(replayEntry(w, e)) = G
  BY <1>4, <1>5 DEF Shows, Sound, Makes
<1>7. Dir(replayEntry(w, e)) = DirOf(G) /\ TreeOf(replayEntry(w, e)) = TreeIn(G)
  BY <1>6, TreeIs
<1> QED BY <1>2, <1>4, <1>6, <1>7, SoundCounts DEF Makes

(* Writing, truncating or changing the mode twice is doing it once.        *)
LEMMA EffectTwice ==
  ASSUME NEW t, NEW d, NEW e, e.type \in {"write", "truncate", "chmod"}, NEW u, u = Effect(t, d, e)
  PROVE  Effect(u, d, e) = u
<1>1. CASE e.type = "write"
  <2>1. u = [n \in Names |-> IF d[n] = e.ino THEN [t[n] EXCEPT !.content = e.value] ELSE t[n]]
    BY <1>1 DEF Effect
  <2>2. Effect(u, d, e) = [n \in Names |-> IF d[n] = e.ino THEN [u[n] EXCEPT !.content = e.value] ELSE u[n]]
    BY <1>1 DEF Effect
  <2>3. ASSUME NEW n \in Names, d[n] = e.ino PROVE [u[n] EXCEPT !.content = e.value] = u[n]
    BY <2>1, <2>3
  <2> QED BY <2>1, <2>2, <2>3
<1>2. CASE e.type = "truncate"
  <2>1. u = [n \in Names |-> IF d[n] = e.ino THEN [t[n] EXCEPT !.content = None] ELSE t[n]]
    BY <1>2 DEF Effect
  <2>2. Effect(u, d, e) = [n \in Names |-> IF d[n] = e.ino THEN [u[n] EXCEPT !.content = None] ELSE u[n]]
    BY <1>2 DEF Effect
  <2>3. ASSUME NEW n \in Names, d[n] = e.ino PROVE [u[n] EXCEPT !.content = None] = u[n]
    BY <2>1, <2>3
  <2> QED BY <2>1, <2>2, <2>3
<1>3. CASE e.type = "chmod"
  <2>1. u = [n \in Names |-> IF d[n] = e.ino THEN [t[n] EXCEPT !.mode = e.mode] ELSE t[n]]
    BY <1>3 DEF Effect
  <2>2. Effect(u, d, e) = [n \in Names |-> IF d[n] = e.ino THEN [u[n] EXCEPT !.mode = e.mode] ELSE u[n]]
    BY <1>3 DEF Effect
  <2>3. ASSUME NEW n \in Names, d[n] = e.ino PROVE [u[n] EXCEPT !.mode = e.mode] = u[n]
    BY <2>1, <2>3
  <2> QED BY <2>1, <2>2, <2>3
<1> QED BY <1>1, <1>2, <1>3

(* An entry that is replayed a second time, because the files of the       *)
(* journal were not yet removed or its call had been done and stored,      *)
(* changes nothing that a user sees (fs.cpp:325-364).                      *)
THEOREM ReplayTwice ==
  ASSUME NEW w, Sound(w), NEW e \in EntryType, CanReplay(w, e) => InodeFree(w, e),
         NEW w2, w2 = replayEntry(w, e)
  PROVE  /\ Sound(replayEntry(w2, e)) /\ Dir(replayEntry(w2, e)) = Dir(w2)
         /\ TreeOf(replayEntry(w2, e)) = TreeOf(w2)
<1>1. CASE ~CanReplay(w2, e)
  <2>1. replayEntry(w2, e) = w2
    BY <1>1 DEF replayEntry
  <2>2. CASE CanReplay(w, e)
    BY <2>1, <2>2, ReplayDoesTheCall
  <2>3. CASE ~CanReplay(w, e)
    BY <2>1, <2>3 DEF replayEntry
  <2> QED BY <2>1, <2>2, <2>3
<1>2. CASE CanReplay(w2, e)
  <2>1. CanReplay(w, e)
    <3> SUFFICES ASSUME ~CanReplay(w, e) PROVE FALSE
      OBVIOUS
    <3>1. w2 = w
      BY DEF replayEntry
    <3> QED BY <1>2, <3>1
  <2>2. Sound(w2) /\ TreeOf(w2) = Effect(TreeOf(w), Dir(w), e) /\ Dir(w2) = NewNames(Dir(w), e)
    BY <2>1, ReplayDoesTheCall
  <2>3. Dir(w) \in [Names -> Inos \cup {None}]
    <3>1. FaceSound(Face(w)) /\ Dir(w) = DirOf(Face(w))
      BY TreeIs DEF Sound
    <3> QED BY <3>1, SoundFields
  <2>4. e.type \in {"write", "truncate", "chmod"}
    <3>1. CASE e.type = "mkobject"
      <4>1. Dir(w2)[e.name] = e.ino /\ e.ino # None
        BY <2>2, <2>3, <3>1, EntryFields, Basics DEF NewNames
      <4> QED BY <1>2, <3>1, <4>1 DEF CanReplay
    <3>2. CASE e.type \in {"unlink", "renamemove"}
      <4>1. Dir(w2)[e.name] = None
        BY <2>2, <2>3, <3>2, EntryFields DEF NewNames
      <4> QED BY <1>2, <3>2, <4>1 DEF CanReplay
    <3> QED BY <3>1, <3>2, EntryFields
  <2>5. Dir(w2) = Dir(w) /\ NewNames(Dir(w2), e) = Dir(w2) /\ InodeFree(w2, e)
    BY <2>2, <2>4 DEF NewNames, InodeFree
  <2>6. Sound(replayEntry(w2, e)) /\ TreeOf(replayEntry(w2, e)) = Effect(TreeOf(w2), Dir(w2), e)
        /\ Dir(replayEntry(w2, e)) = NewNames(Dir(w2), e)
    BY <1>2, <2>2, <2>5, ReplayDoesTheCall
  <2>7. Effect(TreeOf(w2), Dir(w2), e) = TreeOf(w2)
    BY <2>2, <2>4, <2>5, EffectTwice
  <2> QED BY <2>5, <2>6, <2>7
<1> QED BY <1>1, <1>2

(* What one number of the replay does to the mount before it: the entry    *)
(* that has it, if it can be done, does its call; nothing else happens.    *)
Does(w, v, entries, id) ==
  /\ Sound(v) /\ CountsMatch(v)
  /\ \A e \in entries : e.id = id /\ CanReplay(w, e) => TreeOf(v) = Effect(TreeOf(w), Dir(w), e)
                                                        /\ Dir(v) = NewNames(Dir(w), e)
  /\ (\A e \in entries : e.id = id => ~CanReplay(w, e)) => v = w

LEMMA NumberDoes ==
  ASSUME NEW w, Sound(w), NEW entries \in SUBSET EntryType, \A e, f \in entries : e.id = f.id => e = f,
         NEW id, \A e \in entries : e.id = id /\ CanReplay(w, e) => InodeFree(w, e)
  PROVE  Does(w, ReplayOf(w, entries, id), entries, id)
<1>1. CASE \E e \in entries : e.id = id
  <2>1. PICK e \in entries : e.id = id
    BY <1>1
  <2>2. (CHOOSE f \in entries : f.id = id) = e
    BY <2>1
  <2>3. ReplayOf(w, entries, id) = replayEntry(w, e)
    BY <1>1, <2>2 DEF ReplayOf
  <2>4. \A f \in entries : f.id = id => f = e
    BY <2>1
  <2>5. e \in EntryType
    BY <2>1
  <2>6. CASE CanReplay(w, e)
    <3>1. InodeFree(w, e)
      BY <2>1, <2>6
    <3>2. Sound(replayEntry(w, e)) /\ CountsMatch(replayEntry(w, e)) /\ TreeOf(replayEntry(w, e)) = Effect(TreeOf(w), Dir(w), e)
          /\ Dir(replayEntry(w, e)) = NewNames(Dir(w), e)
      BY <2>5, <2>6, <3>1, ReplayDoesTheCall
    <3> QED BY <2>1, <2>3, <2>4, <2>6, <3>2 DEF Does
  <2>7. CASE ~CanReplay(w, e)
    <3>1. replayEntry(w, e) = w
      BY <2>7 DEF replayEntry
    <3> QED BY <2>3, <2>4, <2>7, <3>1, SoundCounts DEF Does
  <2> QED BY <2>6, <2>7
<1>2. CASE ~\E e \in entries : e.id = id
  <2>1. ReplayOf(w, entries, id) = w
    BY <1>2 DEF ReplayOf
  <2> QED BY <1>2, <2>1, SoundCounts DEF Does
<1> QED BY <1>1, <1>2

(* The next mount after a crash: if what was stored can be read, it does   *)
(* the calls of the open entries one by one in the order of their numbers  *)
(* and leaves out those that cannot be done, whatever was stored of them,  *)
(* and comes to a mount that can be read, with exact counts                *)
(* (journal.cpp:132-214). h is the mount after each number.                *)
THEOREM ReplayDoesTheCalls ==
  ASSUME NEW d, Sound(Loaded(d)), NEW entries \in SUBSET EntryType, \A e, f \in entries : e.id = f.id => e = f,
         nextId \in Nat
  PROVE  \E h : /\ h[0] = Loaded(d) /\ h[nextId] = tryReplay(d, entries)
                /\ (\A k \in 1 .. nextId : \A e \in entries :
                      e.id = k - 1 /\ CanReplay(h[k - 1], e) => InodeFree(h[k - 1], e))
                   => /\ \A k \in 1 .. nextId : Does(h[k - 1], h[k], entries, k - 1)
                      /\ Sound(tryReplay(d, entries)) /\ CountsMatch(tryReplay(d, entries))
<1>1. PICK h : Replays(h, nextId, d, entries) /\ h[nextId] = TryAt(nextId, d, entries)
  BY TryIs
<1>2. h[0] = Loaded(d) /\ h[nextId] = tryReplay(d, entries)
  BY <1>1 DEF Replays, TryAt, tryReplay
<1>3. ASSUME \A k \in 1 .. nextId : \A e \in entries :
               e.id = k - 1 /\ CanReplay(h[k - 1], e) => InodeFree(h[k - 1], e)
      PROVE  /\ \A k \in 1 .. nextId : Does(h[k - 1], h[k], entries, k - 1)
             /\ Sound(tryReplay(d, entries)) /\ CountsMatch(tryReplay(d, entries))
  <2> DEFINE S == {k \in 0 .. nextId : Sound(h[k])}
  <2>1. ASSUME NEW k \in 1 .. nextId, Sound(h[k - 1]) PROVE Does(h[k - 1], h[k], entries, k - 1)
    <3>1. h[k] = ReplayOf(h[k - 1], entries, k - 1)
      BY <1>1 DEF Replays
    <3>2. \A e \in entries : e.id = k - 1 /\ CanReplay(h[k - 1], e) => InodeFree(h[k - 1], e)
      BY <1>3
    <3> DEFINE w == h[k - 1]
               id == k - 1
    <3>3. Sound(w) /\ \A e \in entries : e.id = id /\ CanReplay(w, e) => InodeFree(w, e)
      BY <2>1, <3>2
    <3> HIDE DEF w, id
    <3>4. Does(w, ReplayOf(w, entries, id), entries, id)
      BY <3>3, NumberDoes
    <3> QED BY <3>1, <3>4 DEF w, id
  <2>2. 0 \in S
    BY <1>2
  <2>3. ASSUME NEW k \in 1 .. nextId, k - 1 \in S PROVE k \in S
    <3>1. Sound(h[k - 1])
      BY <2>3
    <3>2. Sound(h[k])
      BY <2>1, <3>1 DEF Does
    <3> QED BY <3>2
  <2> HIDE DEF S
  <2>4. \A k \in 0 .. nextId : k \in S
    BY <2>2, <2>3, UpTo
  <2>5. \A k \in 0 .. nextId : Sound(h[k])
    BY <2>4 DEF S
  <2>6. \A k \in 1 .. nextId : k - 1 \in 0 .. nextId
    OBVIOUS
  <2>7. \A k \in 1 .. nextId : Does(h[k - 1], h[k], entries, k - 1)
    BY <2>1, <2>5, <2>6
  <2>8. Sound(h[nextId])
    BY <2>5
  <2> QED BY <1>2, <2>7, <2>8, SoundCounts
<1> QED BY <1>2, <1>3

(* What is stored of a mount whose files are at rest is loaded with the    *)
(* same names, contents, modes and exact counts: a chunk is found where    *)
(* the record says, and a slot of the disk that no file has is nobody's    *)
(* (fs.cpp:84-109, storage.cpp:80-131, file.cpp:432-482, :864-930).        *)
THEOREM StoredIsLoaded ==
  ASSUME NEW w, Sound(w), NEW v, v = Loaded(OnDisk(AllAtRest(w)))
  PROVE  Sound(v) /\ CountsMatch(v) /\ TreeOf(v) = TreeOf(w) /\ Dir(v) = Dir(w)
<1> DEFINE m2 == [r \in Records |-> [w.meta[r] EXCEPT !.ctd = w.list[r]]]
<1>1. Loose(w) /\ FaceSound(Face(w))
  BY DEF Sound
<1>2. /\ w.meta \in [Records -> Record] /\ w.data \in [Slots -> Slot] /\ w.list \in [Records -> Slots \cup {None}]
      /\ w = [meta |-> w.meta, data |-> w.data, list |-> w.list]
  BY <1>1, WorldFields DEF Loose
<1> DEFINE d == [meta |-> m2, data |-> w.data]
<1>3. OnDisk(AllAtRest(w)) = d
  <2>1. AllAtRest(w) = [w EXCEPT !.meta = m2]
    BY <1>2 DEF AllAtRest
  <2> DEFINE x == m2
  <2>2. AllAtRest(w) = [w EXCEPT !.meta = x]
    BY <2>1
  <2> HIDE DEF x
  <2>3. OnDisk(AllAtRest(w)) = [meta |-> x, data |-> w.data]
    BY <1>2, <2>2 DEF OnDisk
  <2> QED BY <2>3 DEF x
<1>5. ASSUME NEW r \in Records
      PROVE  /\ m2[r] \in Record /\ m2[r].type = w.meta[r].type /\ m2[r].mode = w.meta[r].mode
             /\ m2[r].size = w.meta[r].size /\ m2[r].ctd = w.list[r]
  <2>1. w.meta[r] \in Record /\ w.list[r] \in Slots \cup {None}
    BY <1>2
  <2> QED BY <2>1 DEF Record
<1>6. m2 \in [Records -> Record]
  BY <1>5
<1> HIDE DEF m2
<1>7. Loose(v) /\ Face(v) = Face(w)
  <2>1. d.data = w.data /\ d.meta = m2
    OBVIOUS
  <2> HIDE DEF d
  <2>2. Shows(Loaded(d), Face(w))
    BY <1>1, <1>5, <1>6, <2>1, LoadedIs
  <2> QED BY <1>3, <2>2 DEF Shows
<1>8. Sound(v)
  BY <1>1, <1>7 DEF Sound
<1>9. TreeOf(v) = TreeIn(Face(w)) /\ Dir(v) = DirOf(Face(w)) /\ TreeOf(w) = TreeIn(Face(w)) /\ Dir(w) = DirOf(Face(w))
  BY <1>7, <1>8, TreeIs
<1> QED BY <1>8, <1>9, SoundCounts

-----------------------------------------------------------------------------
(* The entries of the running call. In the steps that are left, a nested   *)
(* entry is the first step and gets the next number; the number of the     *)
(* call itself is not let go of before the end.                            *)
StepsLeft ==
  /\ \E S : todo \in Seq(S)
  /\ todo # <<>> =>
       \E o \in held : \A k \in 1 .. Len(todo) :
         /\ todo[k].do = "end" => todo[k].id # o
         /\ todo[k].do = "journal" => k = 1 /\ todo[k].entry.id = nextId
Ahead == WriteAhead /\ StepsLeft /\ nextId \in Nat

Nine(a, b, c, d, e, f, g, h, i) == (<<a>> \o <<b, c, d>> \o <<e>>) \o <<f, g, h, i>>

LEMMA NineSteps ==
  ASSUME NEW a, NEW b, NEW c, NEW d, NEW e, NEW f, NEW g, NEW h, NEW i, NEW s,
         s = Nine(a, b, c, d, e, f, g, h, i)
  PROVE  /\ \E S : s \in Seq(S)
         /\ Len(s) = 9
         /\ s[1] = a /\ s[2] = b /\ s[3] = c /\ s[4] = d /\ s[5] = e /\ s[6] = f /\ s[7] = g /\ s[8] = h /\ s[9] = i
<1> DEFINE S == {a, b, c, d, e, f, g, h, i}
<1>1. a \in S /\ b \in S /\ c \in S /\ d \in S /\ e \in S /\ f \in S /\ g \in S /\ h \in S /\ i \in S
  OBVIOUS
<1> HIDE DEF S
<1>2. s \in Seq(S)
  BY <1>1 DEF Nine
<1>3. /\ Len(s) = 9
      /\ s[1] = a /\ s[2] = b /\ s[3] = c /\ s[4] = d /\ s[5] = e /\ s[6] = f /\ s[7] = g /\ s[8] = h /\ s[9] = i
  BY DEF Nine
<1> QED BY <1>2, <1>3

LEMMA StepsShape ==
  ASSUME NEW e, e.type \in {"mkobject", "unlink", "renamemove", "write", "truncate", "chmod"}, NEW d, NEW id,
         NEW steps, steps = StepsOf(e, d, id)
  PROVE  /\ \E S : steps \in Seq(S)
         /\ \A k \in 1 .. Len(steps) : /\ steps[k].do = "end" => steps[k].id = id
                                       /\ steps[k].do = "journal" => k = 1 /\ steps[k].entry.id = id
<1>1. CASE e.type = "mkobject"
  <2> DEFINE s1 == Add(e.name, e.ino)
             s3 == [do |-> "make", ino |-> e.ino, mode |-> e.mode]
  <2>1. steps = <<s1, RestRoot, s3>>
    BY <1>1 DEF StepsOf
  <2>2. s1.do = "add" /\ RestRoot.do = "rest" /\ s3.do = "make"
    BY DEF Add, RestRoot, Step
  <2> HIDE DEF s1, s3
  <2>3. steps \in Seq({s1, RestRoot, s3}) /\ Len(steps) = 3 /\ steps[1] = s1 /\ steps[2] = RestRoot /\ steps[3] = s3
    BY <2>1
  <2>4. \A k \in 1 .. 3 : steps[k].do \notin {"end", "journal"}
    BY <2>2, <2>3
  <2> QED BY <2>3, <2>4
<1>2. CASE e.type = "unlink"
  <2> DEFINE s1 == Take(e.name)
             s3 == Step("shred", d[e.name])
  <2>1. steps = <<s1, RestRoot, s3>>
    BY <1>2 DEF StepsOf, UnlinkSteps
  <2>2. s1.do = "remove" /\ RestRoot.do = "rest" /\ s3.do = "shred"
    BY DEF Take, RestRoot, Step
  <2> HIDE DEF s1, s3
  <2>3. steps \in Seq({s1, RestRoot, s3}) /\ Len(steps) = 3 /\ steps[1] = s1 /\ steps[2] = RestRoot /\ steps[3] = s3
    BY <2>1
  <2>4. \A k \in 1 .. 3 : steps[k].do \notin {"end", "journal"}
    BY <2>2, <2>3
  <2> QED BY <2>3, <2>4
<1>3. CASE e.type = "renamemove"
  <2> DEFINE a1 == Add(e.to, d[e.name])
             a3 == Take(e.name)
             u == [type |-> "unlink", id |-> id, name |-> e.to]
             j1 == [do |-> "journal", entry |-> u]
             j2 == Take(e.to)
             j4 == Step("shred", d[e.to])
             j5 == [do |-> "end", id |-> id]
  <2>1. steps = (IF d[e.to] = None THEN <<>> ELSE <<j1>> \o <<j2, RestRoot, j4>> \o <<j5>>) \o <<a1, RestRoot, a3, RestRoot>>
    BY <1>3 DEF StepsOf, RenameSteps, UnlinkSteps
  <2>2. /\ a1.do = "add" /\ RestRoot.do = "rest" /\ a3.do = "remove"
        /\ j1.do = "journal" /\ j1.entry.id = id /\ j2.do = "remove" /\ j4.do = "shred" /\ j5.do = "end" /\ j5.id = id
    BY DEF Add, Take, RestRoot, Step
  <2> HIDE DEF a1, a3, j1, j2, j4, j5
  <2>3. CASE d[e.to] = None
    <3>1. steps = <<a1, RestRoot, a3, RestRoot>>
      BY <2>1, <2>3
    <3>2. /\ steps \in Seq({a1, RestRoot, a3}) /\ Len(steps) = 4
          /\ steps[1] = a1 /\ steps[2] = RestRoot /\ steps[3] = a3 /\ steps[4] = RestRoot
      BY <3>1
    <3>3. \A k \in 1 .. 4 : steps[k].do \notin {"end", "journal"}
      BY <2>2, <3>2
    <3> QED BY <3>2, <3>3
  <2>4. CASE d[e.to] # None
    <3>1. steps = Nine(j1, j2, RestRoot, j4, j5, a1, RestRoot, a3, RestRoot)
      BY <2>1, <2>4 DEF Nine
    <3>2. /\ \E S : steps \in Seq(S)
          /\ Len(steps) = 9
          /\ steps[1] = j1 /\ steps[2] = j2 /\ steps[3] = RestRoot /\ steps[4] = j4 /\ steps[5] = j5
          /\ steps[6] = a1 /\ steps[7] = RestRoot /\ steps[8] = a3 /\ steps[9] = RestRoot
      BY <3>1, NineSteps
    <3>3. \A k \in 1 .. 9 : /\ k # 1 => steps[k].do # "journal"
                            /\ k # 5 => steps[k].do # "end"
      BY <2>2, <3>2
    <3> QED BY <2>2, <3>2, <3>3
  <2> QED BY <2>3, <2>4
<1>4. CASE e.type \in {"write", "truncate", "chmod"}
  <2>1. PICK s : steps = <<s>> /\ s.do \in {"write", "cut", "chmod"}
    <3>1. CASE e.type = "write"
      <4> DEFINE s == [do |-> "write", ino |-> e.ino, value |-> e.value]
      <4>1. steps = <<s>> /\ s.do = "write"
        BY <3>1 DEF StepsOf
      <4> HIDE DEF s
      <4> QED BY <4>1
    <3>2. CASE e.type = "truncate"
      <4> DEFINE s == Step("cut", e.ino)
      <4>1. steps = <<s>> /\ s.do = "cut"
        BY <3>2 DEF StepsOf, Step
      <4> HIDE DEF s
      <4> QED BY <4>1
    <3>3. CASE e.type = "chmod"
      <4> DEFINE s == [do |-> "chmod", ino |-> e.ino, mode |-> e.mode]
      <4>1. steps = <<s>> /\ s.do = "chmod"
        BY <3>3 DEF StepsOf
      <4> HIDE DEF s
      <4> QED BY <4>1
    <3> QED BY <1>4, <3>1, <3>2, <3>3
  <2>2. steps \in Seq({s}) /\ Len(steps) = 1 /\ steps[1] = s
    BY <2>1
  <2>3. \A k \in 1 .. 1 : steps[k].do \notin {"end", "journal"}
    BY <2>1, <2>2
  <2> QED BY <2>2, <2>3
<1> QED BY <1>1, <1>2, <1>3, <1>4

(* A call begins: its entry is on disk before its first step.              *)
Numbered(e, id) == [e EXCEPT !.id = id]

LEMMA BeginAhead ==
  ASSUME Ahead, NEW e, Begin(e),
         \A id : /\ Numbered(e, id).id = id
                /\ Numbered(e, id).type \in {"mkobject", "unlink", "renamemove", "write", "truncate", "chmod"}
  PROVE  Ahead'
<1> DEFINE entry == Numbered(e, nextId)
<1>1. /\ todo = <<>> /\ open' = open \cup {entry} /\ held' = {nextId} /\ todo' = StepsOf(entry, Dir(mem), nextId + 1)
      /\ nextId' = nextId + 1 /\ logs' = logs /\ held = {}
  BY DEF Begin, Idle, Numbered
<1>7. entry.id = nextId /\ entry.type \in {"mkobject", "unlink", "renamemove", "write", "truncate", "chmod"}
  OBVIOUS
<1> HIDE DEF entry
<1>2. nextId \in Nat /\ nextId' \in Nat
  BY <1>1 DEF Ahead
<1>3. /\ \E S : todo' \in Seq(S)
      /\ \A k \in 1 .. Len(todo') : /\ todo'[k].do = "end" => todo'[k].id = nextId + 1
                                    /\ todo'[k].do = "journal" => k = 1 /\ todo'[k].entry.id = nextId + 1
  BY <1>1, <1>7, StepsShape
<1>4. StepsLeft'
  BY <1>1, <1>2, <1>3 DEF StepsLeft
<1>5. /\ \A f \in open : f.id \in 0 .. nextId - 1 /\ f.id \in logs.data \cup logs.meta
      /\ \A f, g \in open : f.id = g.id => f = g
  BY <1>1 DEF Ahead, WriteAhead
<1>6. WriteAhead'
  <2>1. \A id \in held' : \E f \in open' : f.id = id
    BY <1>1, <1>7
  <2>2. ASSUME NEW f \in open' PROVE f.id \in 0 .. nextId' - 1 /\ f.id \in held' \cup logs'.data \cup logs'.meta
    BY <1>1, <1>2, <1>5, <1>7
  <2>3. ASSUME NEW f \in open', NEW g \in open', f.id = g.id PROVE f = g
    BY <1>1, <1>2, <1>5, <1>7, <2>3
  <2>4. held' # {}
    BY <1>1
  <2> QED BY <2>1, <2>2, <2>3, <2>4 DEF WriteAhead
<1> QED BY <1>2, <1>4, <1>6 DEF Ahead

(* The calls.                                                              *)
LEMMA CallsAhead ==
  ASSUME Ahead,
         \/ \E n \in Names, i \in Inos, m \in Modes : mkobject(n, i, m)
         \/ \E n \in Names : unlink(n)
         \/ \E n, to \in Names : renamemove(n, to)
         \/ \E i \in Inos, v \in Values : write(i, v)
         \/ \E i \in Inos : truncate(i)
         \/ \E i \in Inos, m \in Modes : chmod(i, m)
  PROVE  Ahead'
<1>1. ASSUME NEW n \in Names, NEW i \in Inos, NEW m \in Modes, mkobject(n, i, m) PROVE Ahead'
  <2> DEFINE e == [type |-> "mkobject", id |-> 0, name |-> n, ino |-> i, mode |-> m]
  <2>1. \A id : Numbered(e, id).id = id /\ Numbered(e, id).type = "mkobject"
    BY DEF Numbered
  <2>2. Begin(e)
    BY <1>1 DEF mkobject
  <2> HIDE DEF e
  <2> QED BY <2>1, <2>2, BeginAhead
<1>2. ASSUME NEW n \in Names, unlink(n) PROVE Ahead'
  <2> DEFINE e == [type |-> "unlink", id |-> 0, name |-> n]
  <2>1. \A id : Numbered(e, id).id = id /\ Numbered(e, id).type = "unlink"
    BY DEF Numbered
  <2>2. Begin(e)
    BY <1>2 DEF unlink
  <2> HIDE DEF e
  <2> QED BY <2>1, <2>2, BeginAhead
<1>3. ASSUME NEW n \in Names, NEW to \in Names, renamemove(n, to) PROVE Ahead'
  <2> DEFINE e == [type |-> "renamemove", id |-> 0, name |-> n, to |-> to]
  <2>1. \A id : Numbered(e, id).id = id /\ Numbered(e, id).type = "renamemove"
    BY DEF Numbered
  <2>2. Begin(e)
    BY <1>3 DEF renamemove
  <2> HIDE DEF e
  <2> QED BY <2>1, <2>2, BeginAhead
<1>4. ASSUME NEW i \in Inos, NEW v \in Values, write(i, v) PROVE Ahead'
  <2> DEFINE e == [type |-> "write", id |-> 0, ino |-> i, value |-> v]
  <2>1. \A id : Numbered(e, id).id = id /\ Numbered(e, id).type = "write"
    BY DEF Numbered
  <2>2. Begin(e)
    BY <1>4 DEF write
  <2> HIDE DEF e
  <2> QED BY <2>1, <2>2, BeginAhead
<1>5. ASSUME NEW i \in Inos, truncate(i) PROVE Ahead'
  <2> DEFINE e == [type |-> "truncate", id |-> 0, ino |-> i]
  <2>1. \A id : Numbered(e, id).id = id /\ Numbered(e, id).type = "truncate"
    BY DEF Numbered
  <2>2. Begin(e)
    BY <1>5 DEF truncate
  <2> HIDE DEF e
  <2> QED BY <2>1, <2>2, BeginAhead
<1>6. ASSUME NEW i \in Inos, NEW m \in Modes, chmod(i, m) PROVE Ahead'
  <2> DEFINE e == [type |-> "chmod", id |-> 0, ino |-> i, mode |-> m]
  <2>1. \A id : Numbered(e, id).id = id /\ Numbered(e, id).type = "chmod"
    BY DEF Numbered
  <2>2. Begin(e)
    BY <1>6 DEF chmod
  <2> HIDE DEF e
  <2> QED BY <2>1, <2>2, BeginAhead
<1> QED BY <1>1, <1>2, <1>3, <1>4, <1>5, <1>6

(* Entries that a log or the call holds stay; what was let go of goes.     *)
LEMMA EvictIs ==
  ASSUME NEW entries, NEW l, NEW h, NEW e
  PROVE  e \in Evict(entries, l, h) <=> e \in entries /\ e.id \in h \cup l.data \cup l.meta
BY DEF Evict

(* A step of the call: a nested entry is the first step of its steps, and  *)
(* the last of them lets go of it.                                         *)
LEMMA ProceedAhead ==
  ASSUME Ahead, Proceed
  PROVE  Ahead'
<1> DEFINE step == Head(todo)
<1>1. PICK l, h, more :
        /\ logs' = l /\ held' = h /\ todo' = Tail(todo) /\ todo # <<>>
        /\ more = (IF step.do = "journal" THEN open \cup {step.entry} ELSE open)
        /\ open' = Evict(more, l, h)
        /\ nextId' = (IF step.do = "journal" THEN nextId + 1 ELSE nextId)
        /\ h = (CASE step.do = "journal" -> held \cup {step.entry.id}
                  [] step.do = "end" -> held \ {step.id}
                  [] OTHER -> held)
        /\ logs.data \subseteq l.data /\ logs.meta \subseteq l.meta
  <2> DEFINE mine == IF step.do \in {"journal", "end"} THEN {}
                     ELSE {CHOOSE id \in held : \A k \in held : k <= id}
             kept == LogsOf(mem, step)
             l == [data |-> IF "data" \in kept THEN logs.data \cup mine ELSE logs.data,
                   meta |-> IF "meta" \in kept THEN logs.meta \cup mine ELSE logs.meta]
             h == CASE step.do = "journal" -> held \cup {step.entry.id}
                    [] step.do = "end" -> held \ {step.id}
                    [] OTHER -> held
             more == IF step.do = "journal" THEN open \cup {step.entry} ELSE open
  <2>1. /\ logs' = l /\ held' = h /\ todo' = Tail(todo) /\ todo # <<>> /\ open' = Evict(more, l, h)
        /\ nextId' = (IF step.do = "journal" THEN nextId + 1 ELSE nextId)
    BY DEF Proceed
  <2> HIDE DEF mine, kept
  <2>2. logs.data \subseteq l.data /\ logs.meta \subseteq l.meta
    OBVIOUS
  <2> HIDE DEF l
  <2> QED BY <2>1, <2>2
<1>2. PICK S : todo \in Seq(S)
  BY DEF Ahead, StepsLeft
<1>3. PICK o \in held : \A k \in 1 .. Len(todo) : /\ todo[k].do = "end" => todo[k].id # o
                                                  /\ todo[k].do = "journal" => k = 1 /\ todo[k].entry.id = nextId
  BY <1>1 DEF Ahead, StepsLeft
<1>4. /\ Len(todo) \in Nat /\ Len(todo) > 0 /\ step = todo[1] /\ Tail(todo) \in Seq(S) /\ Len(Tail(todo)) = Len(todo) - 1
      /\ \A k \in 1 .. Len(todo) - 1 : Tail(todo)[k] = todo[k + 1]
  BY <1>1, <1>2
<1>5. (step.do = "end" => step.id # o) /\ (step.do = "journal" => step.entry.id = nextId)
  BY <1>3, <1>4
<1> HIDE DEF step
<1>6. /\ nextId \in Nat
      /\ \A id \in held : \E e \in open : e.id = id
      /\ \A e \in open : e.id \in 0 .. nextId - 1 /\ e.id \in held \cup logs.data \cup logs.meta
      /\ \A e, f \in open : e.id = f.id => e = f
  BY DEF Ahead, WriteAhead
<1>7. nextId' \in Nat /\ 0 .. nextId - 1 \subseteq 0 .. nextId' - 1 /\ (step.do = "journal" => nextId \in 0 .. nextId' - 1)
  BY <1>1, <1>6
<1>8. o \in h
  BY <1>1, <1>5
<1>9. StepsLeft'
  <2>1. ASSUME NEW k \in 1 .. Len(Tail(todo))
        PROVE  (Tail(todo)[k].do = "end" => Tail(todo)[k].id # o) /\ Tail(todo)[k].do # "journal"
    <3>1. k + 1 \in 1 .. Len(todo) /\ k + 1 # 1 /\ Tail(todo)[k] = todo[k + 1]
      BY <1>4
    <3> QED BY <1>3, <3>1
  <2> QED BY <1>1, <1>4, <1>8, <2>1 DEF StepsLeft
<1>10. /\ \A e \in more : e.id \in 0 .. nextId' - 1
       /\ \A e, f \in more : e.id = f.id => e = f
       /\ \A id \in h : \E e \in more : e.id = id
  <2>1. CASE step.do = "journal"
    <3>1. more = open \cup {step.entry} /\ step.entry.id = nextId /\ h = held \cup {step.entry.id}
      BY <1>1, <1>5, <2>1
    <3>2. \A e \in open : e.id # nextId
      BY <1>6
    <3> QED BY <1>6, <1>7, <2>1, <3>1, <3>2
  <2>2. CASE step.do # "journal"
    <3>1. more = open /\ h \subseteq held
      BY <1>1, <2>2
    <3> QED BY <1>6, <1>7, <3>1
  <2> QED BY <2>1, <2>2
<1>11. \A e : e \in open' <=> e \in more /\ e.id \in h \cup l.data \cup l.meta
  BY <1>1, EvictIs
<1>12. WriteAhead'
  <2>1. \A id \in h : \E e \in open' : e.id = id
    BY <1>10, <1>11
  <2>2. \A e \in open' : e.id \in 0 .. nextId' - 1 /\ e.id \in h \cup l.data \cup l.meta
    BY <1>10, <1>11
  <2>3. \A e, f \in open' : e.id = f.id => e = f
    BY <1>10, <1>11
  <2> QED BY <1>1, <1>8, <2>1, <2>2, <2>3 DEF WriteAhead
<1> QED BY <1>7, <1>9, <1>12 DEF Ahead

(* Logs are dropped, and entries that nobody holds with them.              *)
LEMMA EvictAhead ==
  ASSUME Ahead, NEW l, NEW h \in SUBSET held, open' = Evict(open, l, h), logs' = l, held' = h,
         todo' = todo, nextId' = nextId, h = held \/ todo = <<>>
  PROVE  Ahead'
<1>1. /\ nextId \in Nat /\ (todo # <<>> => held # {})
      /\ \A id \in held : \E e \in open : e.id = id
      /\ \A e \in open : e.id \in 0 .. nextId - 1
      /\ \A e, f \in open : e.id = f.id => e = f
  BY DEF Ahead, WriteAhead
<1>2. \A e : e \in open' <=> e \in open /\ e.id \in h \cup l.data \cup l.meta
  BY EvictIs
<1>3. StepsLeft'
  BY DEF Ahead, StepsLeft
<1>4. WriteAhead'
  <2>1. \A id \in h : \E e \in open' : e.id = id
    BY <1>1, <1>2
  <2>2. \A e \in open' : e.id \in 0 .. nextId' - 1 /\ e.id \in h \cup l.data \cup l.meta
    BY <1>1, <1>2
  <2>3. \A e, f \in open' : e.id = f.id => e = f
    BY <1>1, <1>2
  <2>4. todo' # <<>> => h # {}
    BY <1>1
  <2> QED BY <2>1, <2>2, <2>3, <2>4 DEF WriteAhead
<1> QED BY <1>1, <1>3, <1>4 DEF Ahead

(* A mount starts with no entries and no call.                             *)
LEMMA MountAhead ==
  ASSUME open' = {}, held' = {}, todo' = <<>>, nextId' = 0
  PROVE  Ahead'
<1>1. todo' \in Seq({})
  OBVIOUS
<1> QED BY <1>1 DEF Ahead, WriteAhead, StepsLeft

(* What a call does it does while its entry is on disk, and an entry goes  *)
(* only when the call has returned and no change log holds it: in every    *)
(* state, with any of the Faults, wherever stores and crashes come         *)
(* (journal.cpp:17-87, bucket.cpp:228-232, :323-338).                      *)
THEOREM EntryWhileCalling == Spec => []WriteAhead
<1>1. Init => Ahead
  <2> SUFFICES ASSUME Init PROVE Ahead
    OBVIOUS
  <2>1. open = {} /\ held = {} /\ todo = <<>> /\ nextId = 0
    BY DEF Init
  <2>2. todo \in Seq({})
    BY <2>1
  <2> QED BY <2>1, <2>2 DEF Ahead, WriteAhead, StepsLeft
<1>2. Ahead /\ [Next]_vars => Ahead'
  <2> SUFFICES ASSUME Ahead, [Next]_vars PROVE Ahead'
    OBVIOUS
  <2>1. CASE UNCHANGED vars
    BY <2>1 DEF vars, Ahead, WriteAhead, StepsLeft
  <2>2. ASSUME NEW i \in Inos, close(i) PROVE Ahead'
    BY <2>2 DEF close, Ahead, WriteAhead, StepsLeft
  <2>3. CASE Proceed
    BY <2>3, ProceedAhead
  <2>4. CASE Return
    <3>1. todo = <<>> /\ held' = {} /\ open' = Evict(open, logs, {}) /\ logs' = logs /\ todo' = todo /\ nextId' = nextId
      BY <2>4 DEF Return
    <3> QED BY <3>1, EvictAhead
  <2>5. CASE storeAllData
    <3>1. PICK d, l : Stored(d, l)
      BY <2>5 DEF storeAllData
    <3>2. open' = Evict(open, l, held) /\ logs' = l /\ held' = held /\ todo' = todo /\ nextId' = nextId
      BY <3>1 DEF Stored
    <3> QED BY <3>2, EvictAhead
  <2>6. CASE CrashAndMount
    BY <2>6, MountAhead DEF CrashAndMount
  <2>7. CASE CleanRemount
    BY <2>7, MountAhead DEF CleanRemount, Idle
  <2> QED BY <2>1, <2>2, <2>3, <2>4, <2>5, <2>6, <2>7, CallsAhead DEF Next
<1>3. Ahead => WriteAhead
  BY DEF Ahead
<1> QED BY <1>1, <1>2, <1>3, PTL DEF Spec
=============================================================================
