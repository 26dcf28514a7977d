------------------------------- MODULE FileTree -------------------------------
(***************************************************************************)
(* What the name space promises: a tree of directories whose files may     *)
(* have several names. A call changes it in one step or not at all; a file *)
(* exists as long as it has a name.                                        *)
(***************************************************************************)
EXTENDS Integers, FiniteSets

CONSTANTS Names, Inos, rootIndex, None

VARIABLES kind,    \* "DIR", "FILE" or "NONE"
          entries  \* entries[d][n]: the inode that directory d calls n

treeVars == <<kind, entries>>

Empty == [n \in Names |-> None]
NamesOf(e, i) == {dn \in Inos \X Names : e[dn[1]][dn[2]] = i}
IsEmpty(i) == kind[i] = "DIR" => entries[i] = Empty

(* Any tree: what is there has a name, and a directory only one. *)
TreeInit ==
  /\ kind[rootIndex] = "DIR" /\ NamesOf(entries, rootIndex) = {}
  /\ \A i \in Inos \ {rootIndex} :
       /\ NamesOf(entries, i) = {} <=> kind[i] = "NONE"
       /\ kind[i] = "DIR" => Cardinality(NamesOf(entries, i)) = 1
       /\ kind[i] # "DIR" => entries[i] = Empty

Create(d, n, i, k) ==
  /\ entries[d][n] = None /\ kind[i] = "NONE"
  /\ kind' = [kind EXCEPT ![i] = k]
  /\ entries' = [entries EXCEPT ![d][n] = i]

Link(d, n, i) ==
  /\ entries[d][n] = None /\ kind[i] = "FILE"
  /\ entries' = [entries EXCEPT ![d][n] = i]
  /\ UNCHANGED kind

(* An inode whose last name went is gone. *)
Reap(e, i) ==
  kind' = IF NamesOf(e, i) = {} THEN [kind EXCEPT ![i] = "NONE"] ELSE kind

Remove(d, n) ==
  LET i == entries[d][n] IN
  /\ i # None /\ IsEmpty(i)
  /\ entries' = [entries EXCEPT ![d][n] = None]
  /\ Reap(entries', i)

Move(d, n, e, m) ==
  LET i == entries[d][n]
      old == entries[e][m] IN
  /\ i # None /\ <<d, n>> # <<e, m>>
  /\ old # None => old # i /\ IsEmpty(old)
  /\ entries' = [entries EXCEPT ![d][n] = None, ![e][m] = i]
  /\ IF old = None THEN UNCHANGED kind ELSE Reap(entries', old)

Dirs == {d \in Inos : kind[d] = "DIR"}

TreeNext ==
  /\ entries' # entries
  /\ \E d \in Dirs, n \in Names :
      \/ \E i \in Inos, k \in {"DIR", "FILE"} : Create(d, n, i, k)
      \/ \E i \in Inos : Link(d, n, i)
      \/ Remove(d, n)
      \/ \E e \in Dirs, m \in Names : Move(d, n, e, m)

TreeSpec == TreeInit /\ [][TreeNext]_treeVars
=============================================================================
