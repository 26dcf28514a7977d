---------------------------- MODULE MCNamespace ----------------------------
(* Small instances of Namespace. *)
EXTENDS Namespace, TLC

CONSTANTS a, b, i0, i1, i2, i3, i4, u

User == [uid |-> u, gid |-> u]
Both == {Super, User}

Private == [sticky |-> FALSE, user |-> Bits, group |-> {}, other |-> {}]
Sticky == [AllBits EXCEPT !.sticky = TRUE]
TwoModes == {Private, Sticky}

(* An empty tree, and one with a directory of root that everybody writes to *)
(* and the user's file in it, and a directory of the user. *)
Populated(x, y, z, m, n) ==
  [EmptyTree EXCEPT
     ![rootIndex].entries = [c \in Names |-> IF c = m THEN x ELSE y],
     ![x] = [NewNode(Super, "DIR", Sticky) EXCEPT !.entries[n] = z],
     ![y] = NewNode(User, "DIR", Private),
     ![z] = NewNode(User, "REG", Private)]

MCTrees ==
  {EmptyTree} \cup
  {Populated(t[1], t[2], t[3], t[4], t[5]) :
     t \in {s \in (Inos \ {rootIndex}) \X (Inos \ {rootIndex}) \X (Inos \ {rootIndex}) \X Names \X Names :
              Cardinality({s[1], s[2], s[3]}) = 3}}

Symmetry == Permutations(Inos \ {rootIndex}) \cup Permutations(Names)
=============================================================================
