------------------------ MODULE BucketAccountingProofs ------------------------
(***************************************************************************)
(* The pool of free bucket indexes hands every index to one owner and loses*)
(* none, for any threads, buckets and chunks in a bucket, when the calls   *)
(* overlap only where the lists can take it (Apart). PoolInv says that the *)
(* calls in progress are of one kind and that a refill is alone (Calls),   *)
(* that they find a record each (Room), that the two lists and the records *)
(* in the hands of calls are all records, each once (Threaded), which      *)
(* records hold an index (Filled), and who has it (Owned).                 *)
(***************************************************************************)
EXTENDS BucketAccounting, FiniteSetTheorems, TLAPS

Before == {"load", "next", "take"}
Holding == {"use", "link", "insert"}
Refilling == {"lock", "check", "create", "release", "steal", "rebuild"}
Lists == {"available", "free"}

Active == {t \in Threads : pc[t] # "idle"}
Takers == {t \in Threads : pc[t] \in Before}
Holders == {t \in Threads : pc[t] \in Holding}

Types ==
  /\ head \in [Lists -> Records \cup {Null}]
  /\ next \in [Records -> Records \cup {Null}]
  /\ data \in [Records -> Index \cup {None}]
  /\ hint \in Nat /\ bucketsInUse \in SUBSET Nat /\ IsFiniteSet(bucketsInUse)
  /\ mutex \in Threads \cup {NoThread}
  /\ live \in SUBSET Index
  /\ pc \in [Threads -> {"idle"} \cup Before \cup Holding \cup Refilling]
  /\ op \in [Threads -> {"none", "fetch", "post"}]
  /\ expected \in [Threads -> Records \cup {Null}]
  /\ successor \in [Threads -> Records \cup {Null}]
  /\ node \in [Threads -> Records \cup {Null}]
  /\ value \in [Threads -> Index \cup {None}]

(* What a call knows at each place. Whether expected is still in the list  *)
(* it was read from is open; that it leaves for good when it does is what  *)
(* the exchange relies on.                                                 *)
Knows(t) ==
  /\ pc[t] = "idle" <=> op[t] = "none"
  /\ pc[t] \in {"next", "take"} => expected[t] \in Records
  /\ pc[t] \in Holding => node[t] \in Records
  /\ value[t] # None <=> op[t] = "post" \/ (op[t] = "fetch" /\ pc[t] \in {"link", "insert"})
  /\ pc[t] = "take" /\ expected[t] \in Chain(From(t)) => successor[t] = next[expected[t]]
  /\ pc[t] = "insert" => next[node[t]] = expected[t]

(* A call that refills is alone, and what it has seen stays so.            *)
Refills(t) ==
  /\ pc[t] \in Refilling => Active = {t} /\ head[From(t)] = Null
  /\ pc[t] = "create" => op[t] = "fetch"
  /\ pc[t] \in {"release", "steal", "rebuild"} => op[t] = "post"
  /\ pc[t] = "steal" => head["available"] # Null
  /\ pc[t] = "release" => head["available"] # Null
  /\ pc[t] = "rebuild" => head["available"] = Null

Calls ==
  /\ \A t \in Threads : Knows(t) /\ Refills(t)
  /\ \A t, u \in Active : op[t] = op[u]

Room ==
  \A t \in Active :
    Active = {t} \/ Cardinality(Takers) <= Cardinality(Chain(From(t)))

(* No record is the next of two, and none is before the head.              *)
Ordered(S, first, nxt) ==
  /\ \A q \in S : nxt[q] # first
  /\ \A p, q \in S : nxt[p] = nxt[q] /\ nxt[p] # Null => p = q

Threaded ==
  /\ \A l \in Lists : Ordered(Chain(l), head[l], next)
  /\ Chain("available") \cap Chain("free") = {}
  /\ \A t \in Holders :
       /\ node[t] \notin Chain("available") \cup Chain("free")
       /\ \A u \in Holders : node[u] = node[t] => u = t
  /\ ~Stolen => \A r \in Records :
       r \in Chain("available") \cup Chain("free") \/ \E t \in Holders : node[t] = r

Filled ==
  /\ \A r \in Chain("available") : data[r] # None
  /\ \A r \in Chain("free") : data[r] = None
  /\ Stolen => \A r \in Records : data[r] # None
  /\ \A t \in Holders :
       IF pc[t] = "use" THEN data[node[t]] # None <=> op[t] = "fetch"
       ELSE data[node[t]] = IF op[t] = "fetch" THEN None ELSE value[t]
  /\ \A r, q \in Records : data[r] = data[q] /\ data[r] # None => r = q

Owned ==
  /\ \A t \in Threads :
       InHand(t) \cap live = {} /\ \A u \in Threads \ {t} : InHand(t) \cap InHand(u) = {}
  /\ Pool \cap Used = {} /\ Pool \cup Used = Indexes(bucketsInUse)

PoolInv == Types /\ Calls /\ Room /\ Threaded /\ Filled /\ Owned

-----------------------------------------------------------------------------
(* What can be reached from a head.                                        *)
Links == [Records -> Records \cup {Null}]

LEMMA ReachFacts ==
  ASSUME NEW first \in Records \cup {Null}, NEW nxt \in Links
  PROVE  /\ Reach(first, nxt) \subseteq Records
         /\ Leads(Reach(first, nxt), first, nxt)
         /\ \A S \in SUBSET Records : Leads(S, first, nxt) => Reach(first, nxt) \subseteq S
         /\ first = Null <=> Reach(first, nxt) = {}
<1> DEFINE R == Reach(first, nxt)
<1>1. Null \notin Records
  BY DEF Null, Records
<1>2. first = Null => Leads({}, first, nxt)
  BY DEF Leads
<1>3. R \subseteq Records /\ \A S \in SUBSET Records : Leads(S, first, nxt) => R \subseteq S
  BY DEF Reach
<1>4. first \in R \cup {Null}
  BY DEF Reach, Leads
<1>5. ASSUME NEW q \in R PROVE nxt[q] \in R \cup {Null}
  BY <1>3 DEF Reach, Leads, Links
<1> QED BY <1>1, <1>2, <1>3, <1>4, <1>5 DEF Leads

(* A head that is taken leaves the rest (takeFromList).                    *)
LEMMA TakenOff ==
  ASSUME NEW first \in Records, NEW nxt \in Links,
         Ordered(Reach(first, nxt), first, nxt)
  PROVE  Reach(nxt[first], nxt) = Reach(first, nxt) \ {first}
<1> DEFINE R == Reach(first, nxt)
           P == Reach(nxt[first], nxt)
<1>1. Null \notin Records /\ nxt[first] \in Records \cup {Null}
  BY DEF Null, Records, Links
<1>2. R \subseteq Records /\ Leads(R, first, nxt)
  BY ReachFacts
<1>3. P \subseteq Records /\ Leads(P, nxt[first], nxt)
  BY <1>1, ReachFacts
<1>4. Leads(R \ {first}, nxt[first], nxt)
  BY <1>1, <1>2 DEF Leads, Ordered
<1>5. P \subseteq R \ {first}
  BY <1>1, <1>2, <1>4, ReachFacts
<1>6. Leads(P \cup {first}, first, nxt)
  BY <1>3 DEF Leads
<1>7. R \subseteq P \cup {first}
  BY <1>3, <1>6, ReachFacts
<1> QED BY <1>5, <1>7

(* A record whose next is the head goes before the rest (insertIntoList).  *)
LEMMA PutOn ==
  ASSUME NEW first \in Records \cup {Null}, NEW nxt \in Links,
         NEW n \in Records, nxt[n] = first
  PROVE  Reach(n, nxt) = Reach(first, nxt) \cup {n}
<1> DEFINE R == Reach(first, nxt)
           P == Reach(n, nxt)
<1>1. R \subseteq Records /\ Leads(R, first, nxt) /\ P \subseteq Records /\ Leads(P, n, nxt)
  BY ReachFacts
<1>2. Leads(R \cup {n}, n, nxt)
  BY <1>1 DEF Leads
<1>3. P \subseteq R \cup {n}
  BY <1>1, <1>2, ReachFacts
<1>4. n \in P
  BY <1>1 DEF Leads, Null, Records
<1>5. Leads(P, first, nxt)
  BY <1>1, <1>4 DEF Leads
<1>6. R \subseteq P
  BY <1>1, <1>5, ReachFacts
<1> QED BY <1>3, <1>4, <1>6

(* A list does not notice what happens to other records.                   *)
LEMMA Elsewhere ==
  ASSUME NEW first \in Records \cup {Null}, NEW nxt \in Links, NEW new \in Links,
         \A r \in Reach(first, nxt) : new[r] = nxt[r]
  PROVE  Reach(first, new) = Reach(first, nxt)
<1> DEFINE R == Reach(first, nxt)
           P == Reach(first, new)
<1>1. R \subseteq Records /\ Leads(R, first, nxt) /\ P \subseteq Records /\ Leads(P, first, new)
  BY ReachFacts
<1>2. Leads(R, first, new)
  BY <1>1 DEF Leads
<1>3. P \subseteq R
  BY <1>1, <1>2, ReachFacts
<1>4. Leads(P, first, nxt)
  BY <1>1, <1>3 DEF Leads
<1> QED BY <1>1, <1>3, <1>4, ReachFacts

-----------------------------------------------------------------------------
(* In a finite set of numbers each place has one member: the one that has  *)
(* that many below it.                                                     *)
Below(S, b) == {c \in S : c < b}

LEMMA Places ==
  ASSUME NEW S \in SUBSET Nat, IsFiniteSet(S)
  PROVE  /\ \A b, c \in S : Cardinality(Below(S, b)) = Cardinality(Below(S, c)) => b = c
         /\ \A k \in 0 .. Cardinality(S) - 1 : \E b \in S : Cardinality(Below(S, b)) = k
<1> DEFINE n == Cardinality(S)
           place == [b \in S |-> Cardinality(Below(S, b))]
<1>1. n \in Nat
  BY FS_CardinalityType
<1>2. ASSUME NEW b \in S
      PROVE  /\ IsFiniteSet(Below(S, b)) /\ Cardinality(Below(S, b)) \in Nat
             /\ Cardinality(Below(S, b)) < n
  <2>1. Below(S, b) \in SUBSET S /\ b \notin Below(S, b)
    BY DEF Below
  <2>2. /\ IsFiniteSet(Below(S, b)) /\ Cardinality(Below(S, b)) <= n
        /\ Cardinality(S) = Cardinality(Below(S, b)) => S = Below(S, b)
    BY <2>1, FS_Subset
  <2>3. Cardinality(Below(S, b)) \in Nat
    BY <2>2, FS_CardinalityType
  <2> HIDE DEF n
  <2> QED BY <1>1, <2>1, <2>2, <2>3 DEF n
<1>3. ASSUME NEW b \in S, NEW c \in S, b < c
      PROVE  Cardinality(Below(S, b)) < Cardinality(Below(S, c))
  <2>0. \A x \in S : x \in Nat
    OBVIOUS
  <2>1. Below(S, b) \in SUBSET Below(S, c) /\ b \in Below(S, c) /\ b \notin Below(S, b)
    <3>1. \A x \in S : x < b => x < c
      BY <1>3, <2>0
    <3>2. ~(b < b)
      BY <2>0
    <3> QED BY <1>3, <3>1, <3>2 DEF Below
  <2>2. /\ Cardinality(Below(S, b)) <= Cardinality(Below(S, c))
        /\ Cardinality(Below(S, c)) = Cardinality(Below(S, b)) => Below(S, c) = Below(S, b)
    BY <1>2, <2>1, FS_Subset
  <2>3. Cardinality(Below(S, b)) \in Nat /\ Cardinality(Below(S, c)) \in Nat
    BY <1>2
  <2> QED BY <2>1, <2>2, <2>3
<1>4. \A b, c \in S : Cardinality(Below(S, b)) = Cardinality(Below(S, c)) => b = c
  <2> SUFFICES ASSUME NEW b \in S, NEW c \in S, b # c
               PROVE  Cardinality(Below(S, b)) # Cardinality(Below(S, c))
    OBVIOUS
  <2>1. b < c \/ c < b
    OBVIOUS
  <2>2. Cardinality(Below(S, b)) \in Nat /\ Cardinality(Below(S, c)) \in Nat
    BY <1>2
  <2> QED BY <1>3, <2>1, <2>2
<1>5. place \in Injection(S, 0 .. n - 1)
  <2>1. place \in [S -> 0 .. n - 1]
    <3> HIDE DEF n
    <3> QED BY <1>1, <1>2
  <2>2. \A b, c \in S : place[b] = place[c] => b = c
    BY <1>4
  <2> HIDE DEF place, n
  <2> QED BY <2>1, <2>2 DEF Injection, IsInjective
<1>6. IsFiniteSet(0 .. n - 1) /\ Cardinality(0 .. n - 1) = n
  <2> HIDE DEF n
  <2>1. 0 \in Int /\ n - 1 \in Int
    BY <1>1
  <2> QED BY <1>1, <2>1, FS_Interval
<1>7. place \in Surjection(S, 0 .. n - 1)
  <2> HIDE DEF place
  <2> QED BY <1>5, <1>6, FS_Injection
<1>8. \A k \in 0 .. n - 1 : \E b \in S : place[b] = k
  <2> HIDE DEF place
  <2> QED BY <1>7 DEF Surjection
<1> QED BY <1>4, <1>8

(* The first and the last of a set of numbers.                             *)
LEMMA FirstAndLast ==
  ASSUME NEW S \in SUBSET Nat, IsFiniteSet(S), S # {}
  PROVE  /\ \E b \in S : \A c \in S : b <= c
         /\ \E b \in S : \A c \in S : c <= b
<1> DEFINE n == Cardinality(S)
<1>1. n \in Nat \ {0}
  BY FS_CardinalityType, FS_EmptySet
<1>2. \A b \in S : Below(S, b) \in SUBSET S /\ IsFiniteSet(Below(S, b))
  BY FS_Subset DEF Below
<1>3. PICK b \in S : Cardinality(Below(S, b)) = 0
  <2> 0 \in 0 .. n - 1
    BY <1>1
  <2> QED BY Places
<1>4. Below(S, b) = {}
  BY <1>2, <1>3, FS_EmptySet
<1>5. \A c \in S : b <= c
  BY <1>4 DEF Below
<1>6. PICK d \in S : Cardinality(Below(S, d)) = n - 1
  <2> n - 1 \in 0 .. n - 1
    BY <1>1
  <2> QED BY Places
<1>7. Below(S, d) = S \ {d}
  <2>1. /\ IsFiniteSet(S \ {d}) /\ Cardinality(S \ {d}) = n - 1
    BY FS_RemoveElement
  <2>2. Below(S, d) \in SUBSET (S \ {d})
    BY DEF Below
  <2> HIDE DEF n
  <2> QED BY <1>6, <2>1, <2>2, FS_Subset
<1>8. \A c \in S : c <= d
  BY <1>7 DEF Below
<1> QED BY <1>3, <1>5, <1>6, <1>8

-----------------------------------------------------------------------------
LEMMA RecordsAre ==
  /\ Records \subseteq Nat \ {0} /\ IsFiniteSet(Records) /\ Null \notin Records
  /\ maxBuckets * chunksInBucket \in Nat \ {0}
<1>1. maxBuckets * chunksInBucket \in Nat \ {0}
  BY PoolAssumption
<1>2. IsFiniteSet(Records)
  <2> DEFINE n == maxBuckets * chunksInBucket
  <2>1. n \in Int /\ 1 \in Int
    BY <1>1
  <2> HIDE DEF n
  <2>2. IsFiniteSet(1 .. n)
    BY <2>1, FS_Interval
  <2> QED BY <2>2 DEF Records, n
<1>3. Records \subseteq Nat \ {0} /\ Null \notin Records
  <2> DEFINE n == maxBuckets * chunksInBucket
  <2> HIDE DEF n
  <2>1. 1 .. n \subseteq Nat \ {0} /\ 0 \notin 1 .. n
    BY <1>1 DEF n
  <2> QED BY <2>1 DEF Records, Null, n
<1> QED BY <1>1, <1>2, <1>3

(* What the rebuilding of a list puts on it is the list, in order          *)
(* (cleanRecords, releaseBuckets).                                         *)
LEMMA InSequence ==
  ASSUME NEW S \in SUBSET Records, NEW nxt \in Links,
         \A r \in S : nxt[r] = Pushed(S, Null)[r]
  PROVE  /\ Front(S, Null) \in Records \cup {Null}
         /\ Reach(Front(S, Null), nxt) = S
         /\ Ordered(S, Front(S, Null), nxt)
<1> DEFINE first == Front(S, Null)
           Later(r) == {q \in S : q > r}
           R == Reach(first, nxt)
<1>1. /\ S \in SUBSET Nat /\ IsFiniteSet(S) /\ \A T \in SUBSET S : T \in SUBSET Nat /\ IsFiniteSet(T)
      /\ \A q \in S : q \in Nat /\ q # Null /\ q \in Records
  BY RecordsAre, FS_Subset
<1>2. S # {} => first \in S /\ \A q \in S : first <= q
  <2> SUFFICES ASSUME S # {} PROVE first \in S /\ \A q \in S : first <= q
    OBVIOUS
  <2>1. \E r \in S : \A q \in S : r <= q
    BY <1>1, FirstAndLast
  <2> QED BY <2>1 DEF Front
<1>3. S = {} => first = Null
  BY DEF Front
<1>4. ASSUME NEW r \in S
      PROVE  IF Later(r) = {} THEN nxt[r] = Null
             ELSE nxt[r] \in Later(r) /\ \A p \in Later(r) : nxt[r] <= p
  <2>1. nxt[r] = IF Later(r) = {} THEN Null
                 ELSE CHOOSE q \in Later(r) : \A p \in Later(r) : q <= p
    BY DEF Pushed
  <2>2. CASE Later(r) = {}
    BY <2>1, <2>2
  <2>3. CASE Later(r) # {}
    <3>1. Later(r) \in SUBSET Nat /\ IsFiniteSet(Later(r))
      <4>1. Later(r) \in SUBSET S
        OBVIOUS
      <4> QED BY <1>1, <4>1
    <3>2. \E q \in Later(r) : \A p \in Later(r) : q <= p
      <4> HIDE DEF Later
      <4> QED BY <2>3, <3>1, FirstAndLast
    <3> HIDE DEF Later
    <3> QED BY <2>1, <2>3, <3>2
  <2> QED BY <2>2, <2>3
<1>5. first \in Records \cup {Null}
  BY <1>1, <1>2, <1>3
<1>6. Leads(S, first, nxt)
  BY <1>2, <1>3, <1>4 DEF Leads
<1>7. R \subseteq S /\ Leads(R, first, nxt)
  <2> HIDE DEF first
  <2> QED BY <1>5, <1>6, ReachFacts
<1> HIDE DEF first, R
<1>8. S \subseteq R
  <2> SUFFICES ASSUME S \ R # {} PROVE FALSE
    OBVIOUS
  <2>1. PICK m \in S \ R : \A q \in S \ R : m <= q
    <3>1. S \ R \in SUBSET S
      OBVIOUS
    <3>2. S \ R \in SUBSET Nat /\ IsFiniteSet(S \ R)
      BY <1>1, <3>1
    <3> QED BY <3>2, FirstAndLast
  <2> DEFINE E == {q \in S : q < m}
  <2>2. first \in R /\ first \in E
    <3>1. first \in S /\ first # Null /\ first <= m
      BY <1>1, <1>2, <2>1
    <3>2. first \in R
      BY <1>7, <3>1 DEF Leads
    <3> QED BY <1>1, <2>1, <3>1, <3>2
  <2>3. PICK p \in E : \A q \in E : q <= p
    <3>1. E \in SUBSET S
      OBVIOUS
    <3>2. E \in SUBSET Nat /\ IsFiniteSet(E) /\ E # {}
      BY <1>1, <2>2, <3>1
    <3> HIDE DEF E
    <3> QED BY <3>2, FirstAndLast
  <2>4. p \in S /\ p \in Nat /\ m \in S /\ m \in Nat /\ p < m
    BY <1>1, <2>1, <2>3
  <2>5. p \in R
    <3> SUFFICES ASSUME p \notin R PROVE FALSE
      OBVIOUS
    <3>1. m <= p
      BY <2>1, <2>4
    <3> QED BY <2>4, <3>1
  <2>6. nxt[p] \in S /\ nxt[p] \in Nat /\ nxt[p] <= m /\ p < nxt[p]
    <3>1. m \in Later(p)
      BY <2>4
    <3>2. nxt[p] \in Later(p) /\ nxt[p] <= m
      BY <1>4, <2>4, <3>1
    <3> QED BY <1>1, <3>2
  <2>7. nxt[p] = m
    <3>1. nxt[p] < m => nxt[p] <= p
      BY <2>3, <2>6
    <3> QED BY <2>4, <2>6, <3>1
  <2> QED BY <1>1, <1>7, <2>1, <2>4, <2>5, <2>7 DEF Leads
<1>9. Ordered(S, first, nxt)
  <2>1. ASSUME NEW q \in S PROVE nxt[q] # first /\ (nxt[q] = Null \/ (nxt[q] \in Nat /\ q < nxt[q]))
    <3>1. first \in S /\ first \in Nat /\ first <= q /\ first # Null /\ q \in Nat
      BY <1>1, <1>2
    <3>2. CASE Later(q) = {}
      BY <1>4, <3>1, <3>2
    <3>3. CASE Later(q) # {}
      <4>1. nxt[q] \in S /\ nxt[q] > q
        BY <1>4, <3>3
      <4>2. nxt[q] \in Nat
        BY <1>1, <4>1
      <4> HIDE DEF Later
      <4>3. q < nxt[q] /\ nxt[q] # first
        BY <3>1, <4>1, <4>2
      <4> QED BY <4>2, <4>3
    <3> QED BY <3>2, <3>3
  <2>2. ASSUME NEW p \in S, NEW q \in S, p < q, nxt[p] = nxt[q], nxt[p] # Null PROVE FALSE
    <3>1. q \in Later(p)
      BY <1>1, <2>2
    <3>2. nxt[p] <= q
      BY <1>4, <3>1
    <3>3. q < nxt[q] /\ nxt[q] \in Nat /\ q \in Nat
      BY <1>1, <2>1, <2>2
    <3> QED BY <2>2, <3>2, <3>3
  <2>3. \A p, q \in S : nxt[p] = nxt[q] /\ nxt[p] # Null => p = q
    <3>1. \A p, q \in S : p < q \/ q < p \/ p = q
      BY <1>1
    <3> QED BY <2>2, <3>1
  <2> QED BY <2>1, <2>3 DEF Ordered
<1> USE DEF first, R
<1> QED BY <1>5, <1>7, <1>8, <1>9

LEMMA Division ==
  ASSUME NEW a \in Nat, NEW c \in Nat \ {0}
  PROVE  /\ a \div c \in Nat /\ a % c \in 0 .. c - 1 /\ a = c * (a \div c) + (a % c)
         /\ \A k \in Nat, j \in 0 .. c - 1 : a = c * k + j => a \div c = k /\ a % c = j
<1>1. a \div c \in Nat /\ a % c \in 0 .. c - 1 /\ a = c * (a \div c) + (a % c)
  OBVIOUS
<1>2. ASSUME NEW k \in Nat, NEW j \in 0 .. c - 1, a = c * k + j
      PROVE  a \div c = k /\ a % c = j
  <2> DEFINE d == a \div c
             e == a % c
  <2>1. d \in Nat /\ e \in 0 .. c - 1 /\ c * d + e = c * k + j
    BY <1>1, <1>2
  <2> HIDE DEF d, e
  <2>2. d < k => FALSE
    <3> SUFFICES ASSUME d < k PROVE FALSE
      OBVIOUS
    <3>1. c * d + c <= c * k
      <4>1. PICK x \in Nat : k = d + 1 + x
        BY <2>1
      <4>2. c * k = c * d + c + c * x /\ c * x >= 0
        BY <2>1, <4>1
      <4> QED BY <2>1, <4>2
    <3> QED BY <2>1, <3>1
  <2>3. k < d => FALSE
    <3> SUFFICES ASSUME k < d PROVE FALSE
      OBVIOUS
    <3>1. c * k + c <= c * d
      <4>1. PICK x \in Nat : d = k + 1 + x
        BY <2>1
      <4>2. c * d = c * k + c + c * x /\ c * x >= 0
        BY <2>1, <4>1
      <4> QED BY <2>1, <4>2
    <3> QED BY <2>1, <3>1
  <2>4. d = k
    BY <2>1, <2>2, <2>3
  <2> QED BY <2>1, <2>4 DEF d, e
<1> QED BY <1>1, <1>2

(* The ids of new buckets: different, and of no bucket in use (:100-120).  *)
LEMMA NewIds ==
  ASSUME hint \in Nat, bucketsInUse \in SUBSET Nat, IsFiniteSet(bucketsInUse)
  PROVE  \A k \in 0 .. maxBuckets :
           /\ NewId(k) \in Nat /\ NewId(k) \notin bucketsInUse
           /\ \A j \in 0 .. maxBuckets : NewId(j) = NewId(k) => j = k
<1> DEFINE n == Cardinality(bucketsInUse)
           I == hint .. hint + maxBuckets + n
<1>1. n \in Nat /\ maxBuckets \in Nat
  BY FS_CardinalityType, PoolAssumption
<1>2. Unused = I \ bucketsInUse /\ Unused \in SUBSET Nat
  <2> HIDE DEF n
  <2> QED BY <1>1 DEF Unused, n
<1>3. IsFiniteSet(I) /\ Cardinality(I) = maxBuckets + n + 1
  <2> DEFINE b == hint + maxBuckets + n
  <2>1. hint \in Int /\ b \in Int /\ b >= hint /\ b - hint + 1 = maxBuckets + n + 1
    <3> HIDE DEF n
    <3> QED BY <1>1
  <2> HIDE DEF b
  <2>2. IsFiniteSet(hint .. b) /\ Cardinality(hint .. b) = b - hint + 1
    BY <2>1, FS_Interval
  <2> QED BY <2>1, <2>2 DEF b
<1>4. /\ IsFiniteSet(Unused) /\ Cardinality(Unused) = Cardinality(I) - Cardinality(I \cap bucketsInUse)
      /\ Cardinality(I \cap bucketsInUse) <= n /\ Cardinality(I \cap bucketsInUse) \in Nat
  <2> HIDE DEF I, n
  <2>1. IsFiniteSet(I \ bucketsInUse)
        /\ Cardinality(I \ bucketsInUse) = Cardinality(I) - Cardinality(I \cap bucketsInUse)
    BY <1>3, FS_Difference
  <2>2. I \cap bucketsInUse \in SUBSET bucketsInUse
    OBVIOUS
  <2>3. IsFiniteSet(I \cap bucketsInUse) /\ Cardinality(I \cap bucketsInUse) <= n
    BY <2>2, FS_Subset DEF n
  <2> QED BY <1>2, <2>1, <2>3, FS_CardinalityType
<1>5. Cardinality(Unused) >= maxBuckets + 1 /\ Cardinality(Unused) \in Nat
  <2> HIDE DEF I, n
  <2>1. Cardinality(Unused) \in Nat
    BY <1>4, FS_CardinalityType
  <2> QED BY <1>1, <1>3, <1>4, <2>1
<1>6. ASSUME NEW k \in 0 .. maxBuckets
      PROVE  NewId(k) \in Unused /\ Cardinality(Below(Unused, NewId(k))) = k
  <2>1. k \in 0 .. Cardinality(Unused) - 1
    BY <1>1, <1>5
  <2>2. \E b \in Unused : Cardinality(Below(Unused, b)) = k
    BY <1>2, <1>4, <2>1, Places
  <2> QED BY <2>2 DEF NewId, Below
<1> QED BY <1>2, <1>6

LEMMA PushedTypes ==
  ASSUME NEW S \in SUBSET Records, NEW old \in Records \cup {Null}
  PROVE  Front(S, old) \in Records \cup {Null} /\ \A r \in S : Pushed(S, old)[r] \in Records \cup {Null}
<1>1. \A T \in SUBSET S : T \in SUBSET Nat /\ IsFiniteSet(T)
  BY RecordsAre, FS_Subset
<1>2. Front(S, old) \in Records \cup {Null}
  <2>1. S # {} => \E r \in S : \A q \in S : r <= q
    BY <1>1, FirstAndLast
  <2> QED BY <2>1 DEF Front
<1>3. ASSUME NEW r \in S PROVE Pushed(S, old)[r] \in Records \cup {Null}
  <2> DEFINE later == {q \in S : q > r}
  <2>1. later \in SUBSET S
    OBVIOUS
  <2>2. Pushed(S, old)[r] = IF later = {} THEN old ELSE CHOOSE q \in later : \A p \in later : q <= p
    BY DEF Pushed
  <2> HIDE DEF later
  <2>3. later # {} => \E q \in later : \A p \in later : q <= p
    BY <1>1, <2>1, FirstAndLast
  <2> QED BY <2>1, <2>2, <2>3
<1> QED BY <1>2, <1>3

(* All records in order are one list.                                      *)
LEMMA AllInOrder ==
  /\ InOrder \in Links /\ 1 \in Records
  /\ Reach(1, InOrder) = Records /\ Ordered(Records, 1, InOrder)
<1> DEFINE n == maxBuckets * chunksInBucket
<1>1. n \in Nat \ {0} /\ Records = 1 .. n
  BY RecordsAre DEF Records
<1> HIDE DEF n
<1>2. InOrder \in Links /\ 1 \in Records
  BY <1>1 DEF InOrder, Links
<1>3. Front(Records, Null) = 1
  <2>1. \A r \in Records : (\A q \in Records : r <= q) <=> r = 1
    BY <1>1
  <2> QED BY <1>2, <2>1 DEF Front
<1>4. ASSUME NEW r \in Records PROVE InOrder[r] = Pushed(Records, Null)[r]
  <2> DEFINE later == {q \in Records : q > r}
  <2>1. Pushed(Records, Null)[r] =
          IF later = {} THEN Null ELSE CHOOSE q \in later : \A p \in later : q <= p
    BY DEF Pushed
  <2>2. CASE r + 1 \in Records
    <3>1. r + 1 \in later /\ \A q \in later : (\A p \in later : q <= p) <=> q = r + 1
      BY <1>1, <2>2
    <3> HIDE DEF later
    <3>2. (CHOOSE q \in later : \A p \in later : q <= p) = r + 1
      BY <3>1
    <3> QED BY <2>1, <2>2, <3>1, <3>2 DEF InOrder
  <2>3. CASE r + 1 \notin Records
    <3>1. later = {}
      BY <1>1, <2>3
    <3> QED BY <2>1, <2>3, <3>1 DEF InOrder
  <2> QED BY <2>2, <2>3
<1>5. Reach(1, InOrder) = Records /\ Ordered(Records, 1, InOrder)
  BY <1>2, <1>3, <1>4, InSequence
<1> QED BY <1>2, <1>5

(* Records stand for the pairs of a new bucket and one of its slots.       *)
LEMMA RecordsSplit ==
  /\ \A r \in Records :
       /\ (r - 1) \div chunksInBucket \in 0 .. maxBuckets - 1 /\ (r - 1) % chunksInBucket \in Slots
       /\ \A q \in Records :
            /\ (r - 1) \div chunksInBucket = (q - 1) \div chunksInBucket
            /\ (r - 1) % chunksInBucket = (q - 1) % chunksInBucket
            => r = q
  /\ \A k \in 0 .. maxBuckets - 1, j \in Slots :
       \E r \in Records : (r - 1) \div chunksInBucket = k /\ (r - 1) % chunksInBucket = j
<1> DEFINE c == chunksInBucket
           m == maxBuckets
<1>1. c \in Nat \ {0} /\ m \in Nat \ {0} /\ Records = 1 .. m * c /\ Slots = 0 .. c - 1
  BY PoolAssumption DEF Records, Slots
<1> HIDE DEF c, m
<1>2. ASSUME NEW r \in Records
      PROVE  /\ r - 1 \in Nat /\ r - 1 < m * c /\ r \in Nat
             /\ (r - 1) \div c \in Nat /\ (r - 1) % c \in 0 .. c - 1
             /\ r - 1 = c * ((r - 1) \div c) + ((r - 1) % c)
  <2>1. m * c \in Nat
    BY <1>1
  <2>2. r - 1 \in Nat /\ r - 1 < m * c /\ r \in Nat
    BY <1>1, <2>1
  <2> QED BY <1>1, <2>2, Division
<1>3. ASSUME NEW r \in Records PROVE (r - 1) \div c \in 0 .. m - 1
  <2> DEFINE d == (r - 1) \div c
             e == (r - 1) % c
  <2>1. d \in Nat /\ e \in 0 .. c - 1 /\ c * d + e < m * c
    BY <1>2
  <2> HIDE DEF d, e
  <2>2. m <= d => FALSE
    <3> SUFFICES ASSUME m <= d PROVE FALSE
      OBVIOUS
    <3>1. PICK x \in Nat : d = m + x
      BY <1>1, <2>1
    <3>2. c * d = m * c + c * x /\ c * x >= 0 /\ c * d \in Nat /\ m * c \in Nat
      BY <1>1, <2>1, <3>1
    <3> QED BY <1>1, <2>1, <3>2
  <2>3. d \in 0 .. m - 1
    BY <1>1, <2>1, <2>2
  <2> QED BY <2>3 DEF d
<1>4. ASSUME NEW r \in Records, NEW q \in Records,
             (r - 1) \div c = (q - 1) \div c, (r - 1) % c = (q - 1) % c
      PROVE  r = q
  <2>1. r - 1 = q - 1
    BY <1>2, <1>4
  <2> QED BY <1>2, <2>1
<1>5. ASSUME NEW k \in 0 .. m - 1, NEW j \in Slots
      PROVE  \E r \in Records : (r - 1) \div c = k /\ (r - 1) % c = j
  <2> DEFINE a == c * k + j
  <2>1. k \in Nat /\ j \in 0 .. c - 1 /\ j \in Nat /\ c * k \in Nat /\ k <= m - 1
    BY <1>1
  <2>2. c * k + c <= m * c
    <3>1. PICK x \in Nat : m = k + 1 + x
      BY <1>1, <2>1
    <3>2. m * c = c * k + c + c * x /\ c * x >= 0
      BY <1>1, <2>1, <3>1
    <3> QED BY <1>1, <2>1, <3>2
  <2>3. a \in Nat /\ a < m * c /\ m * c \in Nat
    BY <1>1, <2>1, <2>2
  <2>4. a \div c = k /\ a % c = j
    <3>1. a \in Nat /\ a = c * k + j
      BY <2>3
    <3> HIDE DEF a
    <3>2. \A x \in Nat, y \in 0 .. c - 1 : a = c * x + y => a \div c = x /\ a % c = y
      BY <1>1, <3>1, Division
    <3> QED BY <2>1, <3>1, <3>2
  <2>5. a + 1 \in Records /\ (a + 1) - 1 = a
    <3> HIDE DEF a
    <3> QED BY <1>1, <2>3
  <2> QED BY <2>4, <2>5
<1> QED BY <1>1, <1>2, <1>3, <1>4, <1>5 DEF c, m

-----------------------------------------------------------------------------
LEMMA ListFacts ==
  ASSUME Types, NEW l \in Lists
  PROVE  /\ Chain(l) \subseteq Records /\ IsFiniteSet(Chain(l))
         /\ Cardinality(Chain(l)) \in Nat
         /\ head[l] = Null <=> Chain(l) = {}
         /\ head[l] # Null => head[l] \in Chain(l)
         /\ \A q \in Chain(l) : next[q] \in Chain(l) \cup {Null}
<1>1. head[l] \in Records \cup {Null} /\ next \in Links
  BY DEF Types, Links
<1>2. Chain(l) \subseteq Records /\ Leads(Chain(l), head[l], next) /\ (head[l] = Null <=> Chain(l) = {})
  BY <1>1, ReachFacts DEF Chain
<1>3. IsFiniteSet(Chain(l)) /\ Cardinality(Chain(l)) \in Nat
  BY <1>2, RecordsAre, FS_Subset, FS_CardinalityType
<1> QED BY <1>2, <1>3 DEF Leads

LEMMA ListsOf ==
  \A t \in Threads : From(t) \in Lists /\ To(t) \in Lists /\ From(t) # To(t)
BY DEF From, To, Lists

LEMMA FreshTypes ==
  ASSUME Types, NEW t \in Threads, CreateBuckets(t)
  PROVE  /\ data' \in [Records -> Index] /\ bucketsInUse' \in SUBSET Nat
         /\ IsFiniteSet(bucketsInUse') /\ hint' \in Nat
<1>1. maxBuckets \in Nat \ {0} /\ \A k \in 0 .. maxBuckets - 1 : k \in 0 .. maxBuckets
  BY PoolAssumption
<1>2. \A k \in 0 .. maxBuckets : NewId(k) \in Nat
  BY NewIds DEF Types
<1>3. data' \in [Records -> Index]
  <2>1. \A r \in Records : <<NewId((r - 1) \div chunksInBucket), (r - 1) % chunksInBucket>> \in Index
    BY <1>1, <1>2, RecordsSplit DEF Index
  <2> QED BY <2>1 DEF CreateBuckets
<1> DEFINE New == {NewId(k) : k \in 0 .. maxBuckets - 1}
<1>4. IsFiniteSet(New)
  <2> DEFINE I == 0 .. maxBuckets - 1
             id == [k \in I |-> NewId(k)]
  <2>1. id \in Surjection(I, New)
    <3>1. id \in [I -> New]
      OBVIOUS
    <3>2. \A b \in New : \E k \in I : id[k] = b
      OBVIOUS
    <3> HIDE DEF id, New, I
    <3> QED BY <3>1, <3>2 DEF Surjection
  <2>2. IsFiniteSet(I)
    <3>1. 0 \in Int /\ maxBuckets - 1 \in Int
      BY <1>1
    <3> QED BY <3>1, FS_Interval
  <2> HIDE DEF id, New, I
  <2> QED BY <2>1, <2>2, FS_Surjection
<1>5. bucketsInUse' = bucketsInUse \cup New
  BY DEF CreateBuckets
<1>6. New \in SUBSET Nat
  BY <1>1, <1>2
<1>7. hint' \in Nat
  <2>1. hint' = NewId(maxBuckets - 1) + 1 /\ NewId(maxBuckets - 1) \in Nat
    <3>1. maxBuckets - 1 \in 0 .. maxBuckets
      BY <1>1
    <3> QED BY <1>2, <3>1 DEF CreateBuckets
  <2> QED BY <2>1
<1> HIDE DEF New
<1> QED BY <1>3, <1>4, <1>5, <1>6, <1>7, FS_Union DEF Types

(* The rebuilding: what goes and what is kept (:129-160).                  *)
Gone == {r \in Records : data[r] = None \/ data[r][1] \in Complete}
Kept == Records \ Gone

LEMMA Rebuilt ==
  ASSUME Types, NEW t \in Threads, ReleaseBuckets(t), Complete # {}
  PROVE  /\ data' = [r \in Records |-> IF r \in Gone THEN None ELSE data[r]]
         /\ next' = [r \in Records |-> IF r \in Gone THEN Pushed(Gone, head["free"])[r]
                                       ELSE Pushed(Kept, head["available"])[r]]
         /\ head' = [free |-> Front(Gone, head["free"]), available |-> Front(Kept, head["available"])]
         /\ head' \in [Lists -> Records \cup {Null}] /\ next' \in Links
         /\ bucketsInUse' = bucketsInUse \ Complete
<1>1. /\ data' = [r \in Records |-> IF r \in Gone THEN None ELSE data[r]]
      /\ next' = [r \in Records |-> IF r \in Gone THEN Pushed(Gone, head["free"])[r]
                                       ELSE Pushed(Kept, head["available"])[r]]
      /\ head' = [free |-> Front(Gone, head["free"]), available |-> Front(Kept, head["available"])]
      /\ bucketsInUse' = bucketsInUse \ Complete
  BY DEF ReleaseBuckets, Gone, Kept
<1>2. Gone \in SUBSET Records /\ Kept \in SUBSET Records /\ Kept = Records \ Gone
  BY DEF Gone, Kept
<1>3. head["free"] \in Records \cup {Null} /\ head["available"] \in Records \cup {Null}
  BY DEF Types, Lists
<1>4. /\ Front(Gone, head["free"]) \in Records \cup {Null}
      /\ Front(Kept, head["available"]) \in Records \cup {Null}
      /\ \A r \in Gone : Pushed(Gone, head["free"])[r] \in Records \cup {Null}
      /\ \A r \in Kept : Pushed(Kept, head["available"])[r] \in Records \cup {Null}
  BY <1>2, <1>3, PushedTypes
<1>5. head' \in [Lists -> Records \cup {Null}]
  BY <1>1, <1>4 DEF Lists
<1>6. next' \in Links
  BY <1>1, <1>2, <1>4 DEF Links
<1> QED BY <1>1, <1>5, <1>6

LEMMA StepTypes ==
  ASSUME Types, Calls, NEW t \in Threads, Fetch(t) \/ Post(t) \/ Work(t)
  PROVE  Types'
<1>0. Knows(t)
  BY DEF Calls
<1>1. CASE Fetch(t)
  BY <1>1 DEF Fetch, Types, Goto, listVars, bucketVars, Before
<1>2. CASE Post(t)
  BY <1>2 DEF Post, Types, Goto, listVars, bucketVars, Before
<1>3. CASE TakeLoad(t)
  BY <1>3, ListsOf DEF TakeLoad, Types, Goto, listVars, bucketVars, Before, Refilling
<1>4. CASE TakeNext(t)
  BY <1>0, <1>4 DEF TakeNext, Types, Goto, listVars, bucketVars, Before, Knows
<1>5. CASE TakeCas(t)
  BY <1>5, ListsOf DEF TakeCas, Types, Goto, bucketVars, Before, Holding, Refilling
<1>6. CASE Use(t)
  BY <1>0, <1>6 DEF Use, Types, Goto, bucketVars, Holding, Knows
<1>7. CASE InsertLoad(t)
  BY <1>7, ListsOf DEF InsertLoad, Types, Goto, bucketVars, Holding
<1>8. CASE InsertRetry(t)
  BY <1>8 DEF InsertRetry, Types, Goto, listVars, bucketVars, registers, Holding
<1>9. CASE InsertCas(t)
  <2>1. live' \in SUBSET Index
    BY <1>0, <1>9 DEF InsertCas, Types, Knows
  <2> QED BY <1>9, <2>1 DEF InsertCas, Types, Goto, bucketVars
<1>10. CASE Lock(t)
  BY <1>10 DEF Lock, Types, Goto, listVars, bucketVars, registers, Refilling
<1>11. CASE Check(t)
  BY <1>11 DEF Check, Types, Goto, listVars, bucketVars, registers, Refilling, Before
<1>12. CASE CreateBuckets(t)
  <2>1. /\ data' \in [Records -> Index] /\ bucketsInUse' \in SUBSET Nat
        /\ IsFiniteSet(bucketsInUse') /\ hint' \in Nat
    BY <1>12, FreshTypes
  <2>2. head' \in [Lists -> Records \cup {Null}] /\ next' \in [Records -> Records \cup {Null}]
    BY <1>12, AllInOrder DEF CreateBuckets, Lists, Links
  <2> QED BY <1>12, <2>1, <2>2 DEF CreateBuckets, Types, Goto, registers, Before
<1>13. CASE ReleaseBegin(t)
  BY <1>13 DEF ReleaseBegin, Types, Goto, listVars, bucketVars, registers, Refilling
<1>14. CASE StealList(t)
  BY <1>14 DEF StealList, Types, Goto, bucketVars, registers, Refilling
<1>15. CASE ReleaseBuckets(t)
  <2>1. CASE Complete = {}
    BY <1>15, <2>1 DEF ReleaseBuckets, Types, listVars, registers
  <2>2. CASE Complete # {}
    <3>1. data' \in [Records -> Index \cup {None}]
      <4>1. data' = [r \in Records |-> IF r \in Gone THEN None ELSE data[r]]
        BY <1>15, <2>2, Rebuilt
      <4>2. data \in [Records -> Index \cup {None}]
        BY DEF Types
      <4> QED BY <4>1, <4>2
    <3>2. bucketsInUse' \in SUBSET Nat /\ IsFiniteSet(bucketsInUse')
      <4>1. bucketsInUse' = bucketsInUse \ Complete
        BY <1>15, <2>2, Rebuilt
      <4>2. bucketsInUse \in SUBSET Nat /\ IsFiniteSet(bucketsInUse)
        BY DEF Types
      <4> QED BY <4>1, <4>2, FS_Difference
    <3>3. head' \in [Lists -> Records \cup {Null}] /\ next' \in [Records -> Records \cup {Null}]
      BY <1>15, <2>2, Rebuilt DEF Links
    <3>4. /\ mutex' = NoThread /\ pc' = [pc EXCEPT ![t] = "load"]
          /\ UNCHANGED <<hint, live, registers>>
      BY <1>15, <2>2 DEF ReleaseBuckets, Goto
    <3> QED BY <3>1, <3>2, <3>3, <3>4 DEF Types, registers, Before
  <2> QED BY <2>1, <2>2
<1> QED BY <1>1, <1>2, <1>3, <1>4, <1>5, <1>6, <1>7, <1>8, <1>9, <1>10, <1>11, <1>12, <1>13,
           <1>14, <1>15 DEF Work, Take, Insert, Refill

-----------------------------------------------------------------------------
(* Initially every record is free, and the callers hold the old indexes.   *)
LEMMA PoolInit == Init => PoolInv
<1> SUFFICES ASSUME Init PROVE PoolInv
  OBVIOUS
<1>1. Types
  <2>1. head \in [Lists -> Records \cup {Null}] /\ next \in [Records -> Records \cup {Null}]
    BY AllInOrder DEF Init, Lists, Links
  <2>2. live \in SUBSET Index
    BY PoolAssumption DEF Init, Indexes, Index
  <2> QED BY <2>1, <2>2, PoolAssumption DEF Init, Types
<1>2. Chain("available") = {} /\ Chain("free") = Records
  <2>1. Reach(Null, InOrder) = {}
    BY AllInOrder, ReachFacts
  <2> QED BY <2>1, AllInOrder DEF Init, Chain
<1>3. Active = {} /\ Takers = {} /\ Holders = {} /\ ~Stolen
  BY DEF Init, Active, Takers, Holders, Before, Holding, Stolen
<1>4. Calls
  BY <1>3 DEF Init, Calls, Knows, Refills, Holding, Refilling, Active
<1>5. Room
  BY <1>3 DEF Room
<1>6. Threaded
  BY <1>2, <1>3, AllInOrder DEF Threaded, Ordered, Lists, Init
<1>7. Filled
  BY <1>2, <1>3 DEF Filled, Init
<1>8. Owned
  <2>1. Pool = {}
    BY <1>2, <1>3 DEF Pool
  <2>2. \A t \in Threads : InHand(t) = {}
    BY DEF InHand, Init
  <2>3. Used = Indexes(bucketsInUse)
    BY <2>2 DEF Used, Init
  <2> QED BY <2>1, <2>2, <2>3 DEF Owned
<1> QED BY <1>1, <1>4, <1>5, <1>6, <1>7, <1>8 DEF PoolInv

-----------------------------------------------------------------------------
(* Who has the indexes: the ways in which they move.                       *)
Moves == [IP!Next]_<<Pool, Used, bucketsInUse>>

LEMMA Rests ==
  ASSUME Owned, NEW t \in Threads, \A u \in Threads \ {t} : InHand(u)' = InHand(u),
         Pool' = Pool, bucketsInUse' = bucketsInUse,
         InHand(t)' \cup live' = InHand(t) \cup live, InHand(t)' \cap live' = {}
  PROVE  Owned' /\ Used' = Used
<1>1. Used = (live \cup InHand(t)) \cup UNION {InHand(u) : u \in Threads \ {t}}
  BY DEF Used
<1>2. Used' = (live' \cup InHand(t)') \cup UNION {InHand(u)' : u \in Threads \ {t}}
  BY DEF Used
<1>3. UNION {InHand(u)' : u \in Threads \ {t}} = UNION {InHand(u) : u \in Threads \ {t}}
  OBVIOUS
<1>4. Used' = Used
  BY <1>1, <1>2, <1>3
<1>5. ASSUME NEW v \in Threads
      PROVE  InHand(v)' \cap live' = {} /\ \A u \in Threads \ {v} : InHand(v)' \cap InHand(u)' = {}
  BY DEF Owned
<1>6. Pool' \cap Used' = {} /\ Pool' \cup Used' = Indexes(bucketsInUse')
  BY <1>4 DEF Owned
<1> QED BY <1>4, <1>5, <1>6 DEF Owned

LEMMA Taken ==
  ASSUME Owned, NEW t \in Threads, \A u \in Threads \ {t} : InHand(u)' = InHand(u),
         NEW i \in Pool, Pool' = Pool \ {i}, bucketsInUse' = bucketsInUse, live' = live,
         InHand(t) = {}, InHand(t)' = {i}
  PROVE  Owned' /\ Used' = Used \cup {i}
<1>1. Used = live \cup UNION {InHand(u) : u \in Threads \ {t}}
  BY DEF Used
<1>2. Used' = (live \cup {i}) \cup UNION {InHand(u)' : u \in Threads \ {t}}
  BY DEF Used
<1>3. UNION {InHand(u)' : u \in Threads \ {t}} = UNION {InHand(u) : u \in Threads \ {t}}
  OBVIOUS
<1>4. Used' = Used \cup {i}
  BY <1>1, <1>2, <1>3
<1>5. i \notin live /\ \A u \in Threads : i \notin InHand(u)
  BY DEF Owned, Used
<1>6. ASSUME NEW v \in Threads
      PROVE  InHand(v)' \cap live' = {} /\ \A u \in Threads \ {v} : InHand(v)' \cap InHand(u)' = {}
  BY <1>5 DEF Owned
<1>7. Pool' \cap Used' = {} /\ Pool' \cup Used' = Indexes(bucketsInUse')
  BY <1>4 DEF Owned
<1> QED BY <1>4, <1>6, <1>7 DEF Owned

LEMMA Given ==
  ASSUME Owned, NEW t \in Threads, \A u \in Threads \ {t} : InHand(u)' = InHand(u),
         NEW i, Pool' = Pool \cup {i}, bucketsInUse' = bucketsInUse, live' = live,
         InHand(t) = {i}, InHand(t)' = {}
  PROVE  Owned' /\ Used' = Used \ {i} /\ i \in Used
<1>1. Used = (live \cup {i}) \cup UNION {InHand(u) : u \in Threads \ {t}}
  BY DEF Used
<1>2. Used' = live \cup UNION {InHand(u)' : u \in Threads \ {t}}
  BY DEF Used
<1>3. UNION {InHand(u)' : u \in Threads \ {t}} = UNION {InHand(u) : u \in Threads \ {t}}
  OBVIOUS
<1>4. i \notin live /\ \A u \in Threads \ {t} : i \notin InHand(u)
  BY DEF Owned
<1>5. Used' = Used \ {i} /\ i \in Used
  BY <1>1, <1>2, <1>3, <1>4
<1>6. ASSUME NEW v \in Threads
      PROVE  InHand(v)' \cap live' = {} /\ \A u \in Threads \ {v} : InHand(v)' \cap InHand(u)' = {}
  BY DEF Owned
<1>7. Pool' \cap Used' = {} /\ Pool' \cup Used' = Indexes(bucketsInUse')
  BY <1>5 DEF Owned
<1> QED BY <1>5, <1>6, <1>7 DEF Owned

LEMMA Refilled ==
  ASSUME Owned, \A u \in Threads : InHand(u)' = InHand(u), live' = live,
         Pool' = (Pool \ Indexes(bucketsInUse \ bucketsInUse')) \cup Indexes(bucketsInUse' \ bucketsInUse),
         Indexes(bucketsInUse \ bucketsInUse') \subseteq Pool
  PROVE  Owned' /\ Used' = Used
<1>1. Used' = Used
  BY DEF Used
<1>2. ASSUME NEW v \in Threads
      PROVE  InHand(v)' \cap live' = {} /\ \A u \in Threads \ {v} : InHand(v)' \cap InHand(u)' = {}
  BY DEF Owned
<1>3. Indexes(bucketsInUse') =
        (Indexes(bucketsInUse) \ Indexes(bucketsInUse \ bucketsInUse'))
          \cup Indexes(bucketsInUse' \ bucketsInUse)
  BY DEF Indexes
<1>4. Indexes(bucketsInUse) \cap Indexes(bucketsInUse' \ bucketsInUse) = {}
  BY DEF Indexes
<1>5. Pool' \cap Used' = {} /\ Pool' \cup Used' = Indexes(bucketsInUse')
  BY <1>1, <1>3, <1>4 DEF Owned
<1> QED BY <1>1, <1>2, <1>5 DEF Owned

-----------------------------------------------------------------------------
(* A step of one call leaves the registers of the others alone.            *)
LEMMA Others ==
  ASSUME Types, NEW t \in Threads, Fetch(t) \/ Post(t) \/ Work(t), NEW u \in Threads \ {t}
  PROVE  /\ pc'[u] = pc[u] /\ op'[u] = op[u] /\ expected'[u] = expected[u]
         /\ successor'[u] = successor[u] /\ node'[u] = node[u] /\ value'[u] = value[u]
<1>1. CASE Fetch(t) \/ Post(t)
  BY <1>1 DEF Fetch, Post, Types, Goto
<1>2. CASE Take(t)
  BY <1>2 DEF Take, TakeLoad, TakeNext, TakeCas, Use, Types, Goto
<1>3. CASE Insert(t)
  BY <1>3 DEF Insert, InsertLoad, InsertRetry, InsertCas, Types, Goto, registers
<1>4. CASE Refill(t)
  BY <1>4 DEF Refill, Lock, Check, CreateBuckets, ReleaseBegin, StealList, ReleaseBuckets,
              Types, Goto, registers
<1> QED BY <1>1, <1>2, <1>3, <1>4 DEF Work

LEMMA CallSets ==
  ASSUME Types
  PROVE  /\ Active \subseteq Threads /\ Takers \subseteq Active /\ Holders \subseteq Active
         /\ IsFiniteSet(Active) /\ IsFiniteSet(Takers)
         /\ Cardinality(Active) \in Nat /\ Cardinality(Takers) \in Nat
         /\ Cardinality(Takers) <= Cardinality(Active)
<1>1. Active \subseteq Threads /\ Takers \subseteq Active /\ Holders \subseteq Active
  BY DEF Active, Takers, Holders, Before, Holding
<1>2. IsFiniteSet(Active) /\ IsFiniteSet(Takers)
  BY <1>1, PoolAssumption, FS_Subset
<1> QED BY <1>1, <1>2, FS_Subset, FS_CardinalityType

(* No call moves, and none starts, while another refills.                  *)
LEMMA NobodyRefills ==
  ASSUME PoolInv, Apart, NEW t \in Threads, Fetch(t) \/ Post(t) \/ Work(t),
         NEW u \in Threads \ {t}
  PROVE  pc[u] \notin Refilling
<1> SUFFICES ASSUME pc[u] \in Refilling PROVE FALSE
  OBVIOUS
<1>1. Active = {u} /\ head[From(u)] = Null /\ u \in Active /\ pc[u] # "idle" /\ op[u] # "none"
  <2>1. Knows(u) /\ Refills(u)
    BY DEF PoolInv, Calls
  <2>2. pc[u] # "idle"
    BY DEF Refilling
  <2> QED BY <2>1, <2>2 DEF Knows, Refills
<1>2. pc[t] = "idle"
  BY <1>1 DEF Active
<1>3. Fetch(t) \/ Post(t)
  BY <1>2 DEF Work, Take, TakeLoad, TakeNext, TakeCas, Use, Insert, InsertLoad, InsertRetry,
              InsertCas, Refill, Lock, Check, CreateBuckets, ReleaseBegin, StealList,
              ReleaseBuckets
<1>4. \/ MayStart("fetch", "available") /\ op[u] = "fetch"
      \/ MayStart("post", "free") /\ op[u] = "post"
  BY <1>1, <1>3 DEF Fetch, Post, MayStart
<1>5. Cardinality(Chain(From(u))) > Cardinality(Active)
  BY <1>1, <1>4 DEF MayStart, From, Active
<1>6. Chain(From(u)) = {}
  BY <1>1, ListFacts, ListsOf DEF PoolInv
<1> QED BY <1>5, <1>6, FS_EmptySet, CallSets DEF PoolInv

(* What a call knows outlives the steps of others that take from its list, *)
(* and those that use no record of it.                                     *)
LEMMA KeepsKnowing ==
  ASSUME Types, Types', NEW u \in Threads, Knows(u), Refills(u), pc[u] \notin Refilling,
         pc'[u] = pc[u], op'[u] = op[u], expected'[u] = expected[u],
         successor'[u] = successor[u], node'[u] = node[u], value'[u] = value[u],
         pc[u] = "take" =>
           /\ Chain(From(u))' \subseteq Chain(From(u))
           /\ \A r \in Chain(From(u))' : next'[r] = next[r],
         pc[u] = "insert" => next'[node[u]] = next[node[u]]
  PROVE  Knows(u)' /\ Refills(u)'
<1>1. From(u)' = From(u)
  BY DEF From
<1>2. Knows(u)'
  BY <1>1 DEF Knows
<1>3. Refills(u)'
  BY DEF Refills, Refilling
<1> QED BY <1>2, <1>3

LEMMA SameLists ==
  ASSUME Threaded, Filled, UNCHANGED listVars, Holders' = Holders, Stolen' = Stolen,
         \A u \in Holders : /\ node'[u] = node[u] /\ op'[u] = op[u] /\ value'[u] = value[u]
                            /\ pc'[u] = "use" <=> pc[u] = "use"
  PROVE  Threaded' /\ Filled' /\ \A l \in Lists : Chain(l)' = Chain(l)
<1>1. head' = head /\ next' = next /\ data' = data
  BY DEF listVars
<1>2. \A l \in Lists : Chain(l)' = Chain(l)
  BY <1>1 DEF Chain, Reach, Leads
<1>3. Chain("available")' = Chain("available") /\ Chain("free")' = Chain("free")
  BY <1>2 DEF Lists
<1>4. \A l \in Lists : Ordered(Chain(l), head[l], next)'
  <2> SUFFICES ASSUME NEW l \in Lists PROVE Ordered(Chain(l), head[l], next)'
    OBVIOUS
  <2>1. Ordered(Chain(l), head[l], next) /\ Chain(l)' = Chain(l)
    BY <1>2 DEF Threaded
  <2> QED BY <1>1, <2>1 DEF Ordered
<1>5. Threaded'
  BY <1>3, <1>4 DEF Threaded
<1>6. Filled'
  BY <1>1, <1>3 DEF Filled
<1> QED BY <1>2, <1>5, <1>6

LEMMA StartStep ==
  ASSUME PoolInv, Apart, Types', NEW t \in Threads, Fetch(t) \/ Post(t)
  PROVE  PoolInv' /\ Moves
<1> DEFINE kind == op'[t]
           l == IF kind = "fetch" THEN "available" ELSE "free"
<1>1. /\ pc[t] = "idle" /\ pc'[t] = "load" /\ kind \in {"fetch", "post"} /\ MayStart(kind, l)
      /\ UNCHANGED <<listVars, node, bucketVars>>
  BY DEF Fetch, Post, Goto, PoolInv, Types
<1>2. ASSUME NEW u \in Threads \ {t}
      PROVE  /\ pc'[u] = pc[u] /\ op'[u] = op[u] /\ expected'[u] = expected[u]
             /\ successor'[u] = successor[u] /\ node'[u] = node[u] /\ value'[u] = value[u]
  BY Others DEF PoolInv
<1>3. /\ Active' = Active \cup {t} /\ Takers' = Takers \cup {t} /\ Holders' = Holders
      /\ Stolen' = Stolen /\ t \notin Active
  BY <1>1, <1>2 DEF Active, Takers, Holders, Before, Holding, Stolen
<1>4. Threaded' /\ Filled' /\ \A k \in Lists : Chain(k)' = Chain(k)
  <2>1. \A u \in Holders : u \in Threads \ {t}
    BY <1>1 DEF Holders, Holding
  <2> QED BY <1>1, <1>2, <1>3, <2>1, SameLists DEF PoolInv
<1>5. Calls'
  <2>1. ASSUME NEW u \in Threads \ {t} PROVE Knows(u)' /\ Refills(u)'
    <3>1. pc[u] \notin Refilling
      BY NobodyRefills
    <3>2. Chain(From(u))' = Chain(From(u)) /\ next' = next
      <4>1. From(u)' = From(u) /\ From(u) \in Lists
        BY <1>2, ListsOf DEF From
      <4> QED BY <1>1, <1>4, <4>1 DEF listVars
    <3> QED BY <1>2, <3>1, <3>2, KeepsKnowing DEF PoolInv, Calls
  <2>2. Knows(t)' /\ Refills(t)'
    <3>1. value[t] = None
      BY <1>1 DEF PoolInv, Calls, Knows
    <3>2. kind = "fetch" => value' = value
      BY DEF Fetch, Post, PoolInv, Types
    <3>3. kind = "post" => value'[t] # None
      BY PoolAssumption DEF Fetch, Post, PoolInv, Types, Index, Slots
    <3> QED BY <1>1, <3>1, <3>2, <3>3 DEF Knows, Refills, Holding, Refilling
  <2>3. \A u, v \in Active' : op'[u] = op'[v]
    BY <1>1, <1>2, <1>3 DEF MayStart, Active
  <2> QED BY <2>1, <2>2, <2>3 DEF Calls
<1>6. Room'
  <2> SUFFICES ASSUME NEW v \in Active', Active' # {v}
               PROVE  Cardinality(Takers') <= Cardinality(Chain(From(v))')
    BY DEF Room
  <2>1. Active # {}
    BY <1>3
  <2>2. Cardinality(Chain(l)) > Cardinality(Active)
    BY <1>1, <2>1 DEF MayStart, Active
  <2>3. op'[v] = kind /\ v \in Threads
    BY <1>5, <1>3 DEF Calls, Active
  <2>4. From(v)' = l /\ l \in Lists
    BY <2>3, <1>1 DEF From, Lists
  <2>5. Chain(From(v))' = Chain(l)
    BY <1>4, <2>4
  <2>6. Cardinality(Takers') <= Cardinality(Takers) + 1
    <3>1. IsFiniteSet(Takers) /\ Cardinality(Takers) \in Nat
      BY CallSets DEF PoolInv
    <3>2. Cardinality(Takers \cup {t}) \in {Cardinality(Takers), Cardinality(Takers) + 1}
      BY <3>1, FS_AddElement
    <3> QED BY <1>3, <3>1, <3>2
  <2>7. /\ Cardinality(Takers) <= Cardinality(Active) /\ Cardinality(Active) \in Nat
        /\ Cardinality(Takers) \in Nat /\ Cardinality(Chain(l)) \in Nat
    BY <2>4, CallSets, ListFacts DEF PoolInv
  <2>8. Cardinality(Takers') \in Nat
    BY <1>3, CallSets, FS_AddElement, FS_CardinalityType DEF PoolInv
  <2> HIDE DEF l
  <2> QED BY <2>2, <2>5, <2>6, <2>7, <2>8
<1>7. Owned' /\ Used' = Used /\ Pool' = Pool
  <2>1. \A u \in Threads \ {t} : InHand(u)' = InHand(u)
    BY <1>1, <1>2 DEF InHand, listVars
  <2>2. Pool' = Pool
    BY <1>1, <1>3, <1>4 DEF Pool, listVars, Lists
  <2>3. InHand(t) = {} /\ InHand(t)' = {value'[t]} \ {None}
    BY <1>1 DEF InHand, PoolInv, Calls, Knows
  <2>4. InHand(t)' \cup live' = InHand(t) \cup live /\ InHand(t)' \cap live' = {}
    <3>1. CASE Fetch(t)
      BY <2>3, <3>1, <1>1 DEF Fetch, PoolInv, Calls, Knows
    <3>2. CASE Post(t)
      <4>1. PICK i \in live : live' = live \ {i} /\ value' = [value EXCEPT ![t] = i]
        BY <3>2 DEF Post
      <4>2. i # None /\ value'[t] = i
        BY <4>1, PoolAssumption DEF PoolInv, Types, Index, Slots
      <4> QED BY <2>3, <4>1, <4>2
    <3> QED BY <3>1, <3>2
  <2> QED BY <1>1, <2>1, <2>2, <2>4, Rests DEF PoolInv, bucketVars
<1> QED BY <1>1, <1>4, <1>5, <1>6, <1>7 DEF PoolInv, Moves, bucketVars

(* The steps that only look: at a head, at a next, at the lock.            *)
Walk(t) ==
  \/ TakeLoad(t) \/ TakeNext(t) \/ (TakeCas(t) /\ head[From(t)] # expected[t])
  \/ InsertRetry(t) \/ Lock(t) \/ Check(t) \/ ReleaseBegin(t)
  \/ (ReleaseBuckets(t) /\ Complete = {})

LEMMA WalkStep ==
  ASSUME PoolInv, Apart, Types', NEW t \in Threads, Walk(t)
  PROVE  PoolInv' /\ Moves
<1> USE DEF Walk
<1>1. UNCHANGED <<listVars, bucketVars, live, op, node, value>>
  BY DEF TakeLoad, TakeNext, TakeCas, InsertRetry, Lock, Check, ReleaseBegin, ReleaseBuckets,
         listVars, bucketVars, registers
<1>2. Work(t)
  BY DEF Work, Take, Insert, Refill
<1>3. ASSUME NEW u \in Threads \ {t}
      PROVE  /\ pc'[u] = pc[u] /\ op'[u] = op[u] /\ expected'[u] = expected[u]
             /\ successor'[u] = successor[u] /\ node'[u] = node[u] /\ value'[u] = value[u]
  BY <1>2, Others DEF PoolInv
<1>4. /\ pc[t] # "idle" /\ pc'[t] # "idle" /\ (pc[t] \in Holding <=> pc'[t] \in Holding)
      /\ pc[t] # "use" /\ pc'[t] # "use" /\ (pc[t] = "rebuild" <=> pc'[t] = "rebuild")
  BY DEF TakeLoad, TakeNext, TakeCas, InsertRetry, Lock, Check, ReleaseBegin, ReleaseBuckets,
         PoolInv, Types, Goto, Holding
<1>5. Active' = Active /\ Holders' = Holders /\ Stolen' = Stolen
  BY <1>3, <1>4 DEF Active, Holders, Stolen
<1>6. Threaded' /\ Filled' /\ \A l \in Lists : Chain(l)' = Chain(l)
  <2>1. \A u \in Holders : pc'[u] = "use" <=> pc[u] = "use"
    BY <1>3, <1>4 DEF Holders
  <2> QED BY <1>1, <1>5, <2>1, SameLists DEF PoolInv
<1>7. \A u \in Threads : From(u)' = From(u) /\ To(u)' = To(u) /\ Chain(From(u))' = Chain(From(u))
  BY <1>1, <1>6, ListsOf DEF From, To
<1>8. Knows(t) /\ Refills(t) /\ op[t] \in {"fetch", "post"}
  BY <1>4 DEF PoolInv, Calls, Knows, Types
(* An empty list is met by a call that is alone.                           *)
<1>9. pc[t] \in Before /\ head[From(t)] = Null => Active = {t}
  <2> SUFFICES ASSUME pc[t] \in Before, head[From(t)] = Null, Active # {t} PROVE FALSE
    OBVIOUS
  <2>1. t \in Takers /\ t \in Active
    BY <1>4 DEF Takers, Active
  <2>2. Cardinality(Takers) <= Cardinality(Chain(From(t)))
    BY <2>1 DEF PoolInv, Room
  <2>3. Chain(From(t)) = {}
    BY ListFacts, ListsOf DEF PoolInv
  <2>4. Cardinality(Takers) = 0
    BY <2>2, <2>3, CallSets, FS_EmptySet DEF PoolInv
  <2> QED BY <2>1, <2>4, CallSets, FS_EmptySet DEF PoolInv
<1>10. Calls'
  <2>1. ASSUME NEW u \in Threads \ {t} PROVE Knows(u)' /\ Refills(u)'
    <3>1. pc[u] \notin Refilling
      BY <1>2, NobodyRefills
    <3>2. Chain(From(u))' = Chain(From(u)) /\ next' = next
      BY <1>1, <1>7 DEF listVars
    <3> QED BY <1>3, <3>1, <3>2, KeepsKnowing DEF PoolInv, Calls
  <2>2. ASSUME NEW h, h = head[From(t)] PROVE h \in Records \cup {Null} /\ (h # Null => h \in Records)
    BY <2>2, ListsOf DEF PoolInv, Types
  <2>3. Knows(t)'
    <3>1. pc'[t] \in {"next", "take"} => expected'[t] \in Records
      BY <1>8, <2>2 DEF TakeLoad, TakeNext, TakeCas, InsertRetry, Lock, Check, ReleaseBegin,
         ReleaseBuckets, PoolInv, Types, Goto, Knows
    <3>2. pc'[t] = "take" => successor'[t] = next'[expected'[t]]
      BY <1>1, <1>8 DEF TakeLoad, TakeNext, TakeCas, InsertRetry, Lock, Check, ReleaseBegin,
         ReleaseBuckets, PoolInv, Types, Goto, listVars
    <3>3. pc'[t] # "insert" /\ (pc'[t] \in Holding => node'[t] \in Records)
      BY <1>1, <1>4, <1>8 DEF TakeLoad, TakeNext, TakeCas, InsertRetry, Lock, Check, ReleaseBegin,
         ReleaseBuckets, PoolInv, Types, Goto, Knows
    <3>4. pc[t] \in {"link", "insert"} <=> pc'[t] \in {"link", "insert"}
      BY <1>4 DEF Holding
    <3> QED BY <1>1, <1>4, <1>8, <3>1, <3>2, <3>3, <3>4 DEF Knows
  <2>4. Refills(t)'
    <3>1. pc'[t] \in Refilling => Active = {t} /\ head[From(t)] = Null
      BY <1>8, <1>9 DEF TakeLoad, TakeNext, TakeCas, InsertRetry, Lock, Check, ReleaseBegin,
         ReleaseBuckets, PoolInv, Types, Goto, Refills, Refilling, Before
    <3>2. pc'[t] = "create" => op[t] = "fetch"
      BY <1>8 DEF TakeLoad, TakeNext, TakeCas, InsertRetry, Lock, Check, ReleaseBegin,
         ReleaseBuckets, PoolInv, Types, Goto, Refills
    <3>3. pc'[t] \in {"release", "steal", "rebuild"} => op[t] = "post"
      BY <1>8 DEF TakeLoad, TakeNext, TakeCas, InsertRetry, Lock, Check, ReleaseBegin,
         ReleaseBuckets, PoolInv, Types, Goto, Refills
    <3>4. pc'[t] \in {"release", "steal"} => head["available"] # Null
      BY <1>8 DEF TakeLoad, TakeNext, TakeCas, InsertRetry, Lock, Check, ReleaseBegin,
         ReleaseBuckets, PoolInv, Types, Goto, Refills, To
    <3>5. pc'[t] = "rebuild" => head["available"] = Null
      BY <1>4, <1>8 DEF Refills
    <3> QED BY <1>1, <1>5, <1>7, <3>1, <3>2, <3>3, <3>4, <3>5 DEF Refills, listVars
  <2>5. \A u, v \in Active' : op'[u] = op'[v]
    BY <1>1, <1>5 DEF PoolInv, Calls
  <2> QED BY <2>1, <2>3, <2>4, <2>5 DEF Calls
<1>11. Room'
  <2> SUFFICES ASSUME NEW v \in Active', Active' # {v}
               PROVE  Cardinality(Takers') <= Cardinality(Chain(From(v))')
    BY DEF Room
  <2>1. Active # {v} /\ v \in Active /\ v \in Threads /\ t \in Active /\ Active # {t}
    BY <1>4, <1>5 DEF Active
  <2>2. pc[t] \notin Refilling
    BY <1>8, <2>1 DEF Refills
  <2>3. Takers' \in SUBSET Takers
    <3>1. pc'[t] \in Before => pc[t] \in Before
      BY <2>2 DEF TakeLoad, TakeNext, TakeCas, InsertRetry, Lock, Check, ReleaseBegin,
         ReleaseBuckets, PoolInv, Types, Goto, Refilling, Before
    <3> QED BY <1>3, <3>1 DEF Takers
  <2>4. Cardinality(Takers') <= Cardinality(Takers) /\ Cardinality(Takers') \in Nat
    BY <2>3, CallSets, FS_Subset, FS_CardinalityType DEF PoolInv
  <2>5. Cardinality(Takers) <= Cardinality(Chain(From(v)))
    BY <2>1 DEF PoolInv, Room
  <2>6. Cardinality(Takers) \in Nat /\ Cardinality(Chain(From(v))) \in Nat
    BY <2>1, CallSets, ListFacts, ListsOf DEF PoolInv
  <2> QED BY <1>7, <2>1, <2>4, <2>5, <2>6
<1>12. Owned' /\ Used' = Used /\ Pool' = Pool
  <2>1. \A u \in Threads : InHand(u)' = InHand(u)
    BY <1>1, <1>3, <1>4 DEF InHand, listVars
  <2>2. Pool' = Pool
    BY <1>1, <1>5, <1>6 DEF Pool, listVars, Lists
  <2> QED BY <1>1, <2>1, <2>2, Rests DEF PoolInv, bucketVars, Owned
<1> QED BY <1>1, <1>6, <1>10, <1>11, <1>12 DEF PoolInv, Moves, bucketVars

(* A call between two records, or with one in its hands, is beside no      *)
(* refill, and every record is somewhere.                                  *)
LEMMA NobodyStole ==
  ASSUME PoolInv, Apart, NEW t \in Threads, Work(t), pc[t] # "rebuild"
  PROVE  ~Stolen
<1>1. \A u \in Threads \ {t} : pc[u] # "rebuild"
  BY NobodyRefills DEF Refilling
<1> QED BY <1>1 DEF Stolen

(* takeFromList succeeds: the head is still the record that was read, so   *)
(* it has never left the list, and its next is still what was read then.   *)
LEMMA TakeStep ==
  ASSUME PoolInv, Apart, Types', NEW t \in Threads, TakeCas(t), head[From(t)] = expected[t]
  PROVE  PoolInv' /\ Moves
<1> DEFINE h == expected[t]
           l == From(t)
           m == To(t)
<1>1. /\ pc[t] = "take" /\ pc' = [pc EXCEPT ![t] = "use"] /\ node' = [node EXCEPT ![t] = h]
      /\ head' = [head EXCEPT ![l] = successor[t]]
      /\ UNCHANGED <<next, data, bucketVars, live, op, expected, successor, value>>
  BY DEF TakeCas, Goto
<1>2. Work(t) /\ l \in Lists /\ m \in Lists /\ l # m /\ Lists = {l, m} /\ Lists = {"available", "free"}
  BY ListsOf DEF Work, Take, Lists, From, To
<1>3. ASSUME NEW u \in Threads \ {t}
      PROVE  /\ pc'[u] = pc[u] /\ op'[u] = op[u] /\ expected'[u] = expected[u]
             /\ successor'[u] = successor[u] /\ node'[u] = node[u] /\ value'[u] = value[u]
  BY <1>2, Others DEF PoolInv
<1>4. h \in Records /\ h \in Chain(l) /\ successor[t] = next[h] /\ op[t] \in {"fetch", "post"}
  <2>1. Knows(t) /\ h \in Records
    BY <1>1 DEF PoolInv, Calls, Knows
  <2>2. h \in Chain(l)
    BY <1>2, <2>1, ListFacts, RecordsAre DEF PoolInv
  <2> QED BY <1>1, <2>1, <2>2 DEF Knows, PoolInv, Types
<1>5. pc'[t] = "use" /\ node'[t] = h /\ head'[l] = next[h] /\ head'[m] = head[m]
  BY <1>1, <1>2, <1>4 DEF PoolInv, Types
<1>6. Chain(l)' = Chain(l) \ {h} /\ Chain(m)' = Chain(m)
  <2>1. next \in Links /\ Ordered(Reach(h, next), h, next) /\ Chain(l) = Reach(h, next)
    BY <1>2 DEF PoolInv, Types, Links, Threaded, Chain
  <2>2. Reach(next[h], next) = Chain(l) \ {h}
    BY <1>4, <2>1, TakenOff
  <2>3. Chain(l)' = Reach(next[h], next) /\ Chain(m)' = Reach(head[m], next)
    BY <1>1, <1>5 DEF Chain, Reach, Leads, From, To
  <2> QED BY <2>2, <2>3 DEF Chain
<1>7. /\ Active' = Active /\ Takers' = Takers \ {t} /\ Holders' = Holders \cup {t}
      /\ t \in Takers /\ t \notin Holders /\ ~Stolen /\ ~Stolen'
  <2>1. ~Stolen
    BY <1>1, <1>2, NobodyStole
  <2> QED BY <1>1, <1>3, <1>5, <2>1 DEF Active, Takers, Holders, Before, Holding, Stolen
<1>8. /\ From(t)' = l
      /\ \A u \in Active : From(u)' = l /\ From(u) = l /\ Chain(From(u))' = Chain(l)'
  <2>1. From(t)' = l /\ \A u \in Active : From(u)' = l /\ From(u) = l
    BY <1>1, <1>7 DEF From, PoolInv, Calls, Active
  <2> QED BY <2>1 DEF Chain
<1>9. Calls'
  <2>1. ASSUME NEW u \in Threads \ {t} PROVE Knows(u)' /\ Refills(u)'
    <3>1. pc[u] \notin Refilling
      BY <1>2, NobodyRefills
    <3>2. pc[u] = "take" => From(u) = l /\ Chain(From(u))' = Chain(l)'
      BY <1>8 DEF Active
    <3>3. pc[u] = "take" => /\ Chain(From(u))' \subseteq Chain(From(u))
                            /\ \A r \in Chain(From(u))' : next'[r] = next[r]
      BY <1>1, <1>6, <3>2
    <3> QED BY <1>1, <1>3, <3>1, <3>3, KeepsKnowing DEF PoolInv, Calls
  <2>2. Knows(t)' /\ Refills(t)'
    <3>1. Knows(t)
      BY DEF PoolInv, Calls
    <3> QED BY <1>1, <1>4, <1>5, <3>1 DEF Knows, Refills, Holding, Refilling
  <2>3. \A u, v \in Active' : op'[u] = op'[v]
    BY <1>1, <1>7 DEF PoolInv, Calls
  <2> QED BY <2>1, <2>2, <2>3 DEF Calls
<1>10. Room'
  <2> SUFFICES ASSUME NEW v \in Active', Active' # {v}
               PROVE  Cardinality(Takers') <= Cardinality(Chain(From(v))')
    BY DEF Room
  <2>1. v \in Active /\ Active # {v} /\ From(v) = l /\ Chain(From(v))' = Chain(l)'
    BY <1>7, <1>8
  <2>2. Cardinality(Takers) <= Cardinality(Chain(l))
    BY <2>1 DEF PoolInv, Room
  <2>3. /\ IsFiniteSet(Takers) /\ Cardinality(Takers) \in Nat
        /\ IsFiniteSet(Chain(l)) /\ Cardinality(Chain(l)) \in Nat
    BY <1>2, CallSets, ListFacts DEF PoolInv
  <2>4. Cardinality(Takers \ {t}) = Cardinality(Takers) - 1
    BY <1>7, <2>3, FS_RemoveElement
  <2>5. Cardinality(Chain(l) \ {h}) = Cardinality(Chain(l)) - 1
    <3> HIDE DEF h, l
    <3> QED BY <1>4, <2>3, FS_RemoveElement
  <2>6. Chain(From(v))' = Chain(l) \ {h}
    BY <1>6, <2>1
  <2> HIDE DEF h, l
  <2> QED BY <1>7, <2>2, <2>3, <2>4, <2>5, <2>6
<1>11. Threaded'
  <2>1. Ordered(Chain(l), head[l], next)' /\ Ordered(Chain(m), head[m], next)'
    <3>1. Ordered(Chain(l), h, next) /\ Ordered(Chain(m), head[m], next)
      BY <1>2 DEF PoolInv, Threaded
    <3>2. Ordered(Chain(m)', head'[m], next')
      BY <1>1, <1>5, <1>6, <3>1
    <3>3. \A q \in Chain(l) \ {h} : next[q] # next[h]
      <4>1. next[h] = Null => Chain(l)' = {}
        <5>1. next[h] \in Records \cup {Null} /\ next \in Links
          BY <1>4 DEF PoolInv, Types, Links
        <5>2. next[h] = Null => Reach(next[h], next) = {}
          BY <5>1, ReachFacts
        <5>3. Chain(l)' = Reach(next[h], next)
          BY <1>1, <1>5 DEF Chain, Reach, Leads, From
        <5> QED BY <5>2, <5>3
      <4> QED BY <1>4, <1>6, <3>1, <4>1 DEF Ordered
    <3>4. Ordered(Chain(l)', head'[l], next')
      BY <1>1, <1>5, <1>6, <3>1, <3>3 DEF Ordered
    <3>5. From(t)' = l /\ To(t)' = m
      BY <1>1 DEF From, To
    <3> QED BY <3>2, <3>4, <3>5 DEF Ordered
  <2>2. \A k \in Lists : Ordered(Chain(k), head[k], next)'
    <3>1. (\A k \in Lists : Ordered(Chain(k), head[k], next))'
          <=> Ordered(Chain("available"), head["available"], next)'
              /\ Ordered(Chain("free"), head["free"], next)'
      BY DEF Lists
    <3>2. Ordered(Chain("available"), head["available"], next)'
          /\ Ordered(Chain("free"), head["free"], next)'
      BY <1>1, <1>4, <2>1 DEF From, To
    <3> QED BY <3>1, <3>2
  <2>3. Chain("available") \cup Chain("free") = Chain(l) \cup Chain(m) /\ Chain(l) \cap Chain(m) = {}
    BY <1>4 DEF From, To, PoolInv, Threaded
  <2>4. /\ Chain("available")' \cup Chain("free")' = (Chain("available") \cup Chain("free")) \ {h}
        /\ Chain("available")' \cap Chain("free")' = {}
    <3>1. Chain("available")' \cup Chain("free")' = Chain(l)' \cup Chain(m)'
          /\ Chain("available")' \cap Chain("free")' = Chain(l)' \cap Chain(m)'
      BY <1>1, <1>4 DEF From, To
    <3> QED BY <1>4, <1>6, <2>3, <3>1
  <2>5. \A u \in Holders : u # t /\ node'[u] = node[u] /\ node[u] # h
    BY <1>3, <1>4, <1>7, <2>3 DEF Holders, PoolInv, Threaded
  <2>6. \A u \in Holders' :
          /\ node'[u] \notin Chain("available")' \cup Chain("free")'
          /\ \A v \in Holders' : node'[v] = node'[u] => v = u
    BY <1>5, <1>7, <2>4, <2>5 DEF PoolInv, Threaded
  <2>7. \A r \in Records :
          r \in Chain("available")' \cup Chain("free")' \/ \E u \in Holders' : node'[u] = r
    BY <1>5, <1>7, <2>4, <2>5 DEF PoolInv, Threaded
  <2> QED BY <2>2, <2>4, <2>6, <2>7 DEF Threaded
<1>12. Filled'
  <2>1. Chain("available")' \subseteq Chain("available") /\ Chain("free")' \subseteq Chain("free")
    BY <1>1, <1>4, <1>6 DEF From, To
  <2>2. data[h] # None <=> op[t] = "fetch"
    BY <1>4 DEF PoolInv, Filled, From
  <2>3. \A u \in Holders : u # t /\ node'[u] = node[u] /\ pc'[u] = pc[u] /\ op'[u] = op[u] /\ value'[u] = value[u]
    BY <1>3, <1>7 DEF Holders
  <2>4. \A u \in Holders' :
          IF pc'[u] = "use" THEN data'[node'[u]] # None <=> op'[u] = "fetch"
          ELSE data'[node'[u]] = IF op'[u] = "fetch" THEN None ELSE value'[u]
    BY <1>1, <1>5, <1>7, <2>2, <2>3 DEF PoolInv, Filled
  <2> QED BY <1>1, <1>7, <2>1, <2>4 DEF PoolInv, Filled
<1>13. Owned' /\ Moves
  <2>1. \A u \in Threads \ {t} : InHand(u)' = InHand(u)
    BY <1>1, <1>3 DEF InHand
  <2>2. Pool = {data[r] : r \in Chain("available")} \ {None}
        /\ Pool' = {data[r] : r \in Chain("available")'} \ {None}
    BY <1>1, <1>7 DEF Pool
  <2>3. CASE op[t] = "fetch"
    <3>1. l = "available" /\ data[h] # None /\ data[h] \in Pool
      BY <1>4, <2>2, <2>3 DEF From, PoolInv, Filled
    <3>2. Pool' = Pool \ {data[h]}
      <4>1. Chain("available")' = Chain("available") \ {h}
        BY <1>1, <1>6, <2>3 DEF From
      <4>2. \A r \in Chain("available") : r \in Records
        BY <1>2, ListFacts DEF PoolInv
      <4>3. \A r \in Chain("available") : data[r] = data[h] => r = h
        BY <1>4, <3>1, <4>2 DEF PoolInv, Filled
      <4> QED BY <2>2, <4>1, <4>3
    <3>3. InHand(t) = {} /\ InHand(t)' = {data[h]}
      <4>1. value[t] = None
        BY <1>1, <2>3 DEF PoolInv, Calls, Knows
      <4> QED BY <1>1, <1>5, <2>3, <4>1 DEF InHand
    <3>4. Owned' /\ Used' = Used \cup {data[h]}
      <4> DEFINE i == data[h]
      <4> HIDE DEF i
      <4>1. i \in Pool /\ Pool' = Pool \ {i} /\ InHand(t)' = {i}
        BY <3>1, <3>2, <3>3 DEF i
      <4>2. Owned' /\ Used' = Used \cup {i}
        BY <1>1, <2>1, <3>3, <4>1, Taken DEF PoolInv, bucketVars
      <4> QED BY <4>2 DEF i
    <3>5. IP!Fetch
      BY <1>1, <3>1, <3>2, <3>4 DEF IP!Fetch, bucketVars
    <3> QED BY <3>4, <3>5 DEF Moves, IP!Next
  <2>4. CASE op[t] = "post"
    <3>1. Pool' = Pool
      <4>1. Chain("available")' = Chain("available")
        BY <1>1, <1>6, <2>4 DEF To
      <4> QED BY <2>2, <4>1
    <3>2. InHand(t)' = InHand(t)
      BY <1>1, <1>5, <2>4 DEF InHand
    <3>3. InHand(t)' \cap live' = {}
      BY <1>1, <3>2 DEF PoolInv, Owned
    <3>4. Owned' /\ Used' = Used
      BY <1>1, <2>1, <3>1, <3>2, <3>3, Rests DEF PoolInv, bucketVars
    <3> QED BY <1>1, <3>1, <3>4 DEF Moves, bucketVars
  <2> QED BY <1>4, <2>3, <2>4
<1> QED BY <1>9, <1>10, <1>11, <1>12, <1>13 DEF PoolInv

(* The index moves between the record in a hand and the hand.              *)
LEMMA UseStep ==
  ASSUME PoolInv, Apart, Types', NEW t \in Threads, Use(t)
  PROVE  PoolInv' /\ Moves
<1> DEFINE n == node[t]
<1>1. /\ pc[t] = "use" /\ pc' = [pc EXCEPT ![t] = "link"]
      /\ UNCHANGED <<head, next, bucketVars, live, op, expected, successor, node>>
  BY DEF Use, Goto
<1>2. Work(t)
  BY DEF Work, Take
<1>3. ASSUME NEW u \in Threads \ {t}
      PROVE  /\ pc'[u] = pc[u] /\ op'[u] = op[u] /\ expected'[u] = expected[u]
             /\ successor'[u] = successor[u] /\ node'[u] = node[u] /\ value'[u] = value[u]
  BY <1>2, Others DEF PoolInv
<1>4. n \in Records /\ op[t] \in {"fetch", "post"} /\ pc'[t] = "link" /\ t \in Holders
  BY <1>1 DEF PoolInv, Calls, Knows, Types, Holding, Holders
<1>5. /\ op[t] = "fetch" => value'[t] = data[n] /\ data[n] # None /\ value[t] = None
                            /\ data' = [data EXCEPT ![n] = None]
      /\ op[t] = "post" => value'[t] = value[t] /\ data[n] = None /\ value[t] # None
                           /\ data' = [data EXCEPT ![n] = value[t]]
  BY <1>1, <1>4 DEF Use, PoolInv, Types, Filled, Calls, Knows
<1>6. \A r \in Records \ {n} : data'[r] = data[r]
  BY <1>4, <1>5 DEF PoolInv, Types
<1>7. data'[n] = IF op[t] = "fetch" THEN None ELSE value'[t]
  BY <1>4, <1>5 DEF PoolInv, Types
<1>8. Active' = Active /\ Takers' = Takers /\ Holders' = Holders /\ ~Stolen /\ ~Stolen'
  <2>1. ~Stolen
    BY <1>1, <1>2, NobodyStole
  <2> QED BY <1>1, <1>3, <1>4, <2>1 DEF Active, Takers, Holders, Before, Holding, Stolen
<1>10. /\ Chain("available")' = Chain("available") /\ Chain("free")' = Chain("free")
       /\ \A u \in Threads : From(u)' = From(u) /\ Chain(From(u))' = Chain(From(u))
  BY <1>1 DEF Chain, Reach, Leads, From
<1>11. Calls'
  <2>1. ASSUME NEW u \in Threads \ {t} PROVE Knows(u)' /\ Refills(u)'
    <3>1. pc[u] \notin Refilling
      BY <1>2, NobodyRefills
    <3> QED BY <1>1, <1>3, <1>10, <3>1, KeepsKnowing DEF PoolInv, Calls
  <2>2. Knows(t)' /\ Refills(t)'
    BY <1>1, <1>4, <1>5 DEF Knows, Refills, Holding, Refilling
  <2>3. \A u, v \in Active' : op'[u] = op'[v]
    BY <1>1, <1>8 DEF PoolInv, Calls
  <2> QED BY <2>1, <2>2, <2>3 DEF Calls
<1>12. Room'
  BY <1>8, <1>10 DEF Room, PoolInv, Active
<1>13. Threaded'
  <2>1. \A l \in Lists : Ordered(Chain(l), head[l], next)'
    <3>1. (\A l \in Lists : Ordered(Chain(l), head[l], next))'
          <=> Ordered(Chain("available")', head'["available"], next')
              /\ Ordered(Chain("free")', head'["free"], next')
      BY DEF Lists, Ordered
    <3> QED BY <1>1, <1>10, <3>1 DEF PoolInv, Threaded, Lists
  <2> QED BY <1>1, <1>8, <1>10, <2>1 DEF PoolInv, Threaded
<1>14. n \notin Chain("available") \cup Chain("free") /\ \A u \in Holders : u # t => node[u] # n
  BY <1>4 DEF PoolInv, Threaded
<1>15. \A r \in Records \ {n} : data[r] # None => data[r] \in Pool \/ \E u \in Threads \ {t} : data[r] \in InHand(u)
  <2> SUFFICES ASSUME NEW r \in Records \ {n}, data[r] # None
               PROVE  data[r] \in Pool \/ \E u \in Threads \ {t} : data[r] \in InHand(u)
    OBVIOUS
  <2>1. CASE r \in Chain("available")
    BY <1>8, <2>1 DEF Pool
  <2>2. CASE r \in Chain("free")
    BY <2>2 DEF PoolInv, Filled
  <2>3. CASE r \notin Chain("available") \cup Chain("free")
    <3>1. PICK u \in Holders : node[u] = r
      BY <1>8, <2>3 DEF PoolInv, Threaded
    <3>2. u \in Threads \ {t} /\ pc[u] \in Holding /\ op[u] \in {"fetch", "post"}
      BY <3>1 DEF Holders, Holding, PoolInv, Types, Calls, Knows
    <3>3. data[r] \in InHand(u)
      <4>1. CASE pc[u] = "use"
        BY <3>1, <3>2, <4>1 DEF InHand, PoolInv, Filled
      <4>2. CASE pc[u] # "use"
        BY <3>1, <3>2, <4>2 DEF InHand, PoolInv, Filled
      <4> QED BY <4>1, <4>2
    <3> QED BY <3>2, <3>3
  <2> QED BY <2>1, <2>2, <2>3
<1>16. Filled'
  <2>1. \A r \in Chain("available") \cup Chain("free") : r \in Records \ {n}
    BY <1>14, ListFacts DEF PoolInv, Lists
  <2>2. ASSUME NEW u \in Holders'
        PROVE  IF pc'[u] = "use" THEN data'[node'[u]] # None <=> op'[u] = "fetch"
               ELSE data'[node'[u]] = IF op'[u] = "fetch" THEN None ELSE value'[u]
    <3>1. CASE u = t
      BY <1>1, <1>4, <1>7, <3>1
    <3>2. CASE u # t
      <4>1. u \in Holders /\ u \in Threads \ {t} /\ node[u] \in Records \ {n}
        BY <1>8, <1>14, <3>2 DEF Holders, PoolInv, Calls, Knows
      <4>2. data'[node'[u]] = data[node[u]]
        BY <1>3, <1>6, <4>1
      <4> QED BY <1>3, <4>1, <4>2 DEF PoolInv, Filled
    <3> QED BY <3>1, <3>2
  <2>3. \A r \in Records \ {n} : data[r] # None => data[r] # data'[n]
    <3>1. CASE op[t] = "fetch"
      BY <1>7, <3>1
    <3>2. CASE op[t] = "post"
      <4>1. data'[n] \in InHand(t)
        BY <1>5, <1>7, <3>2 DEF InHand
      <4> QED BY <1>15, <4>1 DEF PoolInv, Owned, Used
    <3> QED BY <1>4, <3>1, <3>2
  <2>4. \A r, q \in Records : data'[r] = data'[q] /\ data'[r] # None => r = q
    BY <1>6, <2>3 DEF PoolInv, Filled
  <2> QED BY <1>6, <1>8, <1>10, <2>1, <2>2, <2>4 DEF PoolInv, Filled
<1>17. Owned' /\ Used' = Used /\ Pool' = Pool
  <2>1. ASSUME NEW u \in Threads \ {t} PROVE InHand(u)' = InHand(u)
    <3>1. CASE pc[u] = "use" /\ op[u] = "fetch"
      <4>1. u \in Holders /\ node[u] \in Records \ {n}
        BY <1>14, <3>1 DEF Holders, Holding, PoolInv, Calls, Knows
      <4> QED BY <1>3, <1>6, <3>1, <4>1 DEF InHand
    <3>2. CASE ~(pc[u] = "use" /\ op[u] = "fetch")
      BY <1>3, <3>2 DEF InHand
    <3> QED BY <3>1, <3>2
  <2>2. Pool' = Pool
    <3>1. \A r \in Chain("available") : data'[r] = data[r]
      BY <1>6, <1>14, ListFacts DEF PoolInv, Lists
    <3>2. Pool = {data[r] : r \in Chain("available")} \ {None}
          /\ Pool' = {data'[r] : r \in Chain("available")'} \ {None}
      BY <1>8 DEF Pool
    <3> QED BY <1>10, <3>1, <3>2
  <2>3. InHand(t)' = InHand(t)
    BY <1>1, <1>4, <1>5 DEF InHand
  <2>4. InHand(t)' \cap live' = {}
    BY <1>1, <2>3 DEF PoolInv, Owned
  <2> QED BY <1>1, <2>1, <2>2, <2>3, <2>4, Rests DEF PoolInv, bucketVars
<1> QED BY <1>1, <1>11, <1>12, <1>13, <1>16, <1>17 DEF PoolInv, Moves, bucketVars

(* A record in a hand gets the head as its next: no list notices.          *)
LEMMA LinkStep ==
  ASSUME PoolInv, Apart, Types', NEW t \in Threads, InsertLoad(t)
  PROVE  PoolInv' /\ Moves
<1> DEFINE n == node[t]
<1>1. /\ pc[t] = "link" /\ pc' = [pc EXCEPT ![t] = "insert"]
      /\ next' = [next EXCEPT ![n] = head[To(t)]]
      /\ expected' = [expected EXCEPT ![t] = head[To(t)]]
      /\ UNCHANGED <<head, data, bucketVars, live, op, successor, node, value>>
  BY DEF InsertLoad, Goto
<1>2. Work(t)
  BY DEF Work, Insert
<1>3. ASSUME NEW u \in Threads \ {t}
      PROVE  /\ pc'[u] = pc[u] /\ op'[u] = op[u] /\ expected'[u] = expected[u]
             /\ successor'[u] = successor[u] /\ node'[u] = node[u] /\ value'[u] = value[u]
  BY <1>2, Others DEF PoolInv
<1>4. n \in Records /\ pc'[t] = "insert" /\ t \in Holders /\ expected'[t] = head[To(t)]
  BY <1>1 DEF PoolInv, Calls, Knows, Types, Holding, Holders
<1>5. next'[n] = head[To(t)] /\ \A r \in Records \ {n} : next'[r] = next[r]
  BY <1>1, <1>4 DEF PoolInv, Types
<1>6. n \notin Chain("available") \cup Chain("free") /\ \A u \in Holders : u # t => node[u] # n
  BY <1>4 DEF PoolInv, Threaded
<1>7. \A l \in Lists : Chain(l)' = Chain(l)
  <2> SUFFICES ASSUME NEW l \in Lists PROVE Chain(l)' = Chain(l)
    OBVIOUS
  <2>1. Chain(l) \subseteq Records \ {n} /\ head[l] \in Records \cup {Null}
    BY <1>6, ListFacts DEF PoolInv, Lists, Types
  <2>2. next \in Links /\ next' \in Links /\ \A r \in Reach(head[l], next) : next'[r] = next[r]
    BY <1>5, <2>1 DEF Chain, PoolInv, Types, Links
  <2>3. Reach(head[l], next') = Reach(head[l], next)
    BY <2>1, <2>2, Elsewhere
  <2> QED BY <1>1, <2>3 DEF Chain
<1>8. Chain("available")' = Chain("available") /\ Chain("free")' = Chain("free")
  BY <1>7 DEF Lists
<1>9. \A u \in Threads : From(u)' = From(u) /\ To(u)' = To(u) /\ Chain(From(u))' = Chain(From(u))
  BY <1>1, <1>8 DEF From, To
<1>10. Active' = Active /\ Takers' = Takers /\ Holders' = Holders /\ ~Stolen /\ ~Stolen'
  <2>1. ~Stolen
    BY <1>1, <1>2, NobodyStole
  <2> QED BY <1>1, <1>3, <1>4, <2>1 DEF Active, Takers, Holders, Before, Holding, Stolen
<1>11. Calls'
  <2>1. ASSUME NEW u \in Threads \ {t} PROVE Knows(u)' /\ Refills(u)'
    <3>1. pc[u] \notin Refilling
      BY <1>2, NobodyRefills
    <3>2. \A r \in Chain(From(u))' : next'[r] = next[r]
      BY <1>5, <1>6, <1>9, ListFacts, ListsOf DEF PoolInv, Lists
    <3>3. pc[u] = "insert" => next'[node[u]] = next[node[u]]
      BY <1>5, <1>6 DEF Holders, Holding, PoolInv, Calls, Knows
    <3> QED BY <1>1, <1>3, <1>9, <3>1, <3>2, <3>3, KeepsKnowing DEF PoolInv, Calls
  <2>2. Knows(t)' /\ Refills(t)'
    <3>1. Knows(t)
      BY DEF PoolInv, Calls
    <3> QED BY <1>1, <1>4, <1>5, <3>1 DEF Knows, Refills, Holding, Refilling
  <2>3. \A u, v \in Active' : op'[u] = op'[v]
    BY <1>1, <1>10 DEF PoolInv, Calls
  <2> QED BY <2>1, <2>2, <2>3 DEF Calls
<1>12. Room'
  BY <1>9, <1>10 DEF Room, PoolInv, Active
<1>13. Threaded'
  <2>1. \A l \in Lists : Ordered(Chain(l), head[l], next)'
    <3> SUFFICES ASSUME NEW l \in Lists PROVE Ordered(Chain(l)', head'[l], next')
      BY DEF Ordered
    <3>1. Ordered(Chain(l), head[l], next) /\ \A r \in Chain(l) : next'[r] = next[r]
      BY <1>5, <1>6, ListFacts DEF PoolInv, Threaded, Lists
    <3> QED BY <1>1, <1>7, <3>1 DEF Ordered
  <2> QED BY <1>1, <1>8, <1>10, <2>1 DEF PoolInv, Threaded
<1>14. Filled'
  <2>1. \A u \in Holders : (pc'[u] = "use" <=> pc[u] = "use")
    BY <1>1, <1>3, <1>4 DEF Holders
  <2> QED BY <1>1, <1>8, <1>10, <2>1 DEF PoolInv, Filled
<1>15. Owned' /\ Used' = Used /\ Pool' = Pool
  <2>1. \A u \in Threads : InHand(u)' = InHand(u)
    BY <1>1, <1>3, <1>4 DEF InHand
  <2>2. Pool' = Pool
    BY <1>1, <1>8, <1>10 DEF Pool
  <2> QED BY <1>1, <2>1, <2>2, Rests DEF PoolInv, bucketVars, Owned
<1> QED BY <1>1, <1>11, <1>12, <1>13, <1>14, <1>15 DEF PoolInv, Moves, bucketVars

(* insertIntoList succeeds: the next of the record is the head.            *)
LEMMA InsertStep ==
  ASSUME PoolInv, Apart, Types', NEW t \in Threads, InsertCas(t)
  PROVE  PoolInv' /\ Moves
<1> DEFINE n == node[t]
           l == To(t)
           m == From(t)
<1>1. /\ pc[t] = "insert" /\ pc' = [pc EXCEPT ![t] = "idle"] /\ op' = [op EXCEPT ![t] = "none"]
      /\ head[l] = expected[t] /\ head' = [head EXCEPT ![l] = n]
      /\ value' = [value EXCEPT ![t] = None]
      /\ live' = IF op[t] = "fetch" THEN live \cup {value[t]} ELSE live
      /\ UNCHANGED <<next, data, bucketVars>>
  BY DEF InsertCas, Goto
<1>2. Work(t) /\ l \in Lists /\ m \in Lists /\ l # m /\ Lists = {l, m} /\ Lists = {"available", "free"}
  BY ListsOf DEF Work, Insert, Lists, From, To
<1>3. ASSUME NEW u \in Threads \ {t}
      PROVE  /\ pc'[u] = pc[u] /\ op'[u] = op[u] /\ expected'[u] = expected[u]
             /\ successor'[u] = successor[u] /\ node'[u] = node[u] /\ value'[u] = value[u]
  BY <1>2, Others DEF PoolInv
<1>4. /\ n \in Records /\ next[n] = head[l] /\ op[t] \in {"fetch", "post"} /\ t \in Holders
      /\ pc'[t] = "idle" /\ op'[t] = "none" /\ value'[t] = None /\ head'[l] = n /\ head'[m] = head[m]
  <2>1. Knows(t)
    BY DEF PoolInv, Calls
  <2> QED BY <1>1, <1>2, <2>1 DEF Knows, PoolInv, Types, Holders, Holding
<1>5. data[n] = IF op[t] = "fetch" THEN None ELSE value[t]
  BY <1>1, <1>4 DEF PoolInv, Filled
<1>6. value[t] # None
  BY <1>1, <1>4 DEF PoolInv, Calls, Knows
<1>7. n \notin Chain(l) /\ n \notin Chain(m) /\ \A u \in Holders : u # t => node[u] # n
  BY <1>2, <1>4 DEF PoolInv, Threaded, From, To
<1>8. /\ op[t] = "fetch" => l = "free" /\ m = "available"
      /\ op[t] = "post" => l = "available" /\ m = "free"
  BY DEF From, To
<1>9. /\ op[t] = "fetch" => /\ Chain("free")' = Chain("free") \cup {n}
                            /\ Chain("available")' = Chain("available")
      /\ op[t] = "post" => /\ Chain("available")' = Chain("available") \cup {n}
                           /\ Chain("free")' = Chain("free")
  <2>1. next \in Links /\ head[l] \in Records \cup {Null}
    BY <1>2 DEF PoolInv, Types, Links
  <2>2. Reach(n, next) = Reach(head[l], next) \cup {n}
    <3> HIDE DEF n, l
    <3> QED BY <1>4, <2>1, PutOn
  <2>3. Reach(head'[l], next') = Chain(l) \cup {n} /\ Reach(head'[m], next') = Chain(m)
    BY <1>1, <1>4, <2>2 DEF Chain
  <2> QED BY <1>8, <2>3 DEF Chain
<1>10. /\ Active' = Active \ {t} /\ Takers' = Takers /\ Holders' = Holders \ {t} /\ t \in Active
       /\ ~Stolen /\ ~Stolen'
  <2>1. ~Stolen
    BY <1>1, <1>2, NobodyStole
  <2> QED BY <1>1, <1>3, <1>4, <2>1 DEF Active, Takers, Holders, Before, Holding, Stolen
<1>11. \A u \in Active \ {t} : From(u)' = From(u) /\ From(u) = m /\ Chain(From(u))' = Chain(From(u))
  <2> SUFFICES ASSUME NEW u \in Active \ {t}
               PROVE  From(u)' = From(u) /\ From(u) = m /\ Chain(From(u))' = Chain(From(u))
    OBVIOUS
  <2>1. op[u] = op[t] /\ op'[u] = op[u]
    BY <1>3, <1>10 DEF PoolInv, Calls, Active
  <2>2. From(u)' = From(u) /\ From(u) = m
    BY <2>1 DEF From
  <2>3. Chain(m) = Reach(head'[m], next')
    BY <1>1, <1>4 DEF Chain
  <2> QED BY <2>2, <2>3 DEF Chain
<1>12. Calls'
  <2>1. ASSUME NEW u \in Threads \ {t} PROVE Knows(u)' /\ Refills(u)'
    <3>1. pc[u] \notin Refilling
      BY <1>2, NobodyRefills
    <3>2. pc[u] = "take" => Chain(From(u))' = Chain(From(u))
      BY <1>11 DEF Active
    <3> QED BY <1>1, <1>3, <3>1, <3>2, KeepsKnowing DEF PoolInv, Calls
  <2>2. Knows(t)' /\ Refills(t)'
    BY <1>4 DEF Knows, Refills, Holding, Refilling
  <2>3. \A u, v \in Active' : op'[u] = op'[v]
    BY <1>3, <1>10 DEF PoolInv, Calls, Active
  <2> QED BY <2>1, <2>2, <2>3 DEF Calls
<1>13. Room'
  <2> SUFFICES ASSUME NEW v \in Active' PROVE Cardinality(Takers') <= Cardinality(Chain(From(v))')
    BY DEF Room
  <2>1. v \in Active \ {t} /\ Active # {v}
    BY <1>10
  <2>2. Cardinality(Takers) <= Cardinality(Chain(From(v)))
    BY <2>1 DEF PoolInv, Room
  <2> QED BY <1>10, <1>11, <2>1, <2>2
<1>14. Threaded'
  <2>1. Ordered(Chain(l), head[l], next) /\ Ordered(Chain(m), head[m], next)
    BY <1>2 DEF PoolInv, Threaded
  <2>2. Ordered(Chain(l) \cup {n}, n, next)
    <3>1. \A q \in Chain(l) : next[q] \in Chain(l) \cup {Null}
      BY <1>2, ListFacts DEF PoolInv
    <3>2. head[l] \in Chain(l) \cup {Null} /\ n # Null
      BY <1>2, <1>4, ListFacts, RecordsAre DEF PoolInv
    <3> QED BY <1>4, <1>7, <2>1, <3>1, <3>2 DEF Ordered
  <2>3. Ordered(Chain("available")', head'["available"], next')
        /\ Ordered(Chain("free")', head'["free"], next')
    <3>1. next' = next
      BY <1>1
    <3>2. CASE op[t] = "fetch"
      BY <1>4, <1>8, <1>9, <2>1, <2>2, <3>1, <3>2
    <3>3. CASE op[t] = "post"
      BY <1>4, <1>8, <1>9, <2>1, <2>2, <3>1, <3>3
    <3> QED BY <1>4, <3>2, <3>3
  <2>4. \A k \in Lists : Ordered(Chain(k), head[k], next)'
    <3>1. (\A k \in Lists : Ordered(Chain(k), head[k], next))'
          <=> Ordered(Chain("available")', head'["available"], next')
              /\ Ordered(Chain("free")', head'["free"], next')
      BY DEF Lists, Ordered
    <3> QED BY <2>3, <3>1
  <2>5. /\ Chain("available")' \cup Chain("free")' = Chain("available") \cup Chain("free") \cup {n}
        /\ Chain("available")' \cap Chain("free")' = {}
    <3>1. n \notin Chain("available") \cup Chain("free") /\ Chain("available") \cap Chain("free") = {}
      BY <1>4, <1>7, <1>8 DEF PoolInv, Threaded
    <3> QED BY <1>4, <1>9, <3>1
  <2>6. \A u \in Holders' : u \in Holders /\ u # t /\ node'[u] = node[u] /\ node[u] # n
    BY <1>3, <1>7, <1>10 DEF Holders
  <2>7. \A u \in Holders' :
          /\ node'[u] \notin Chain("available")' \cup Chain("free")'
          /\ \A v \in Holders' : node'[v] = node'[u] => v = u
    BY <2>5, <2>6 DEF PoolInv, Threaded
  <2>8. \A r \in Records :
          r \in Chain("available")' \cup Chain("free")' \/ \E u \in Holders' : node'[u] = r
    BY <1>3, <1>10, <2>5 DEF PoolInv, Threaded, Holders
  <2> QED BY <2>4, <2>5, <2>7, <2>8 DEF Threaded
<1>15. Filled'
  <2>1. \A r \in Chain("available")' : data[r] # None
    BY <1>4, <1>5, <1>6, <1>9 DEF PoolInv, Filled
  <2>2. \A r \in Chain("free")' : data[r] = None
    BY <1>4, <1>5, <1>9 DEF PoolInv, Filled
  <2>3. \A u \in Holders' : /\ u \in Holders /\ node'[u] = node[u] /\ pc'[u] = pc[u]
                            /\ op'[u] = op[u] /\ value'[u] = value[u]
    BY <1>3, <1>10 DEF Holders
  <2> QED BY <1>1, <1>10, <2>1, <2>2, <2>3 DEF PoolInv, Filled
<1>16. Owned' /\ Moves
  <2>1. \A u \in Threads \ {t} : InHand(u)' = InHand(u)
    BY <1>1, <1>3 DEF InHand
  <2>2. Pool = {data[r] : r \in Chain("available")} \ {None}
        /\ Pool' = {data[r] : r \in Chain("available")'} \ {None}
    BY <1>1, <1>10 DEF Pool
  <2>3. InHand(t) = {value[t]} /\ InHand(t)' = {}
    BY <1>1, <1>4, <1>6 DEF InHand
  <2>4. CASE op[t] = "fetch"
    <3>1. Pool' = Pool
      BY <1>9, <2>2, <2>4
    <3>2. InHand(t)' \cup live' = InHand(t) \cup live /\ InHand(t)' \cap live' = {}
      BY <1>1, <2>3, <2>4
    <3>3. Owned' /\ Used' = Used
      BY <1>1, <2>1, <3>1, <3>2, Rests DEF PoolInv, bucketVars
    <3> QED BY <1>1, <3>1, <3>3 DEF Moves, bucketVars
  <2>5. CASE op[t] = "post"
    <3> DEFINE i == value[t]
    <3>1. Pool' = Pool \cup {i}
      BY <1>5, <1>6, <1>9, <2>2, <2>5
    <3>2. InHand(t) = {i} /\ live' = live
      BY <1>1, <2>3, <2>5
    <3> HIDE DEF i
    <3>3. Owned' /\ Used' = Used \ {i} /\ i \in Used
      BY <1>1, <2>1, <2>3, <3>1, <3>2, Given DEF PoolInv, bucketVars
    <3>4. IP!Post
      BY <1>1, <3>1, <3>3 DEF IP!Post, bucketVars
    <3> QED BY <3>3, <3>4 DEF Moves, IP!Next
  <2> QED BY <1>4, <2>4, <2>5
<1> QED BY <1>12, <1>13, <1>14, <1>15, <1>16 DEF PoolInv

-----------------------------------------------------------------------------
(* The steps of a refill that change the lists: the call is alone.         *)
Rebuilds(t) ==
  CreateBuckets(t) \/ StealList(t) \/ (ReleaseBuckets(t) /\ Complete # {})

LEMMA Alone ==
  ASSUME PoolInv, Apart, Types', NEW t \in Threads, Rebuilds(t)
  PROVE  /\ Calls' /\ Room' /\ Holders = {} /\ Holders' = {}
         /\ (Stolen <=> pc[t] = "rebuild") /\ (Stolen' <=> pc'[t] = "rebuild")
         /\ head[From(t)] = Null /\ Chain(From(t)) = {}
         /\ live' = live /\ \A u \in Threads : InHand(u)' = InHand(u)
<1> USE DEF Rebuilds
<1>1. Work(t)
  BY DEF Work, Refill
<1>2. ASSUME NEW u \in Threads \ {t}
      PROVE  /\ pc'[u] = pc[u] /\ op'[u] = op[u] /\ expected'[u] = expected[u]
             /\ successor'[u] = successor[u] /\ node'[u] = node[u] /\ value'[u] = value[u]
  BY <1>1, Others DEF PoolInv
<1>3. UNCHANGED <<live, op, expected, successor, node, value>>
  BY DEF CreateBuckets, StealList, ReleaseBuckets, registers
<1>4. pc[t] \in {"create", "steal", "rebuild"} /\ pc'[t] \in {"load", "rebuild"}
  BY DEF CreateBuckets, StealList, ReleaseBuckets, Goto, PoolInv, Types
<1>5. Knows(t) /\ Refills(t) /\ pc[t] \in Refilling
  BY <1>4 DEF PoolInv, Calls, Refilling
<1>6. Active = {t} /\ head[From(t)] = Null
  BY <1>5 DEF Refills
<1>7. \A u \in Threads \ {t} : pc[u] = "idle" /\ pc'[u] = "idle"
  BY <1>2, <1>6 DEF Active
<1>8. Active' = {t}
  BY <1>4, <1>7 DEF Active
<1>9. /\ Holders = {} /\ Holders' = {}
      /\ (Stolen <=> pc[t] = "rebuild") /\ (Stolen' <=> pc'[t] = "rebuild")
  BY <1>4, <1>7 DEF Holders, Holding, Stolen
<1>10. Chain(From(t)) = {}
  BY <1>6, ListFacts, ListsOf DEF PoolInv
<1>11. \A u \in Threads : InHand(u)' = InHand(u)
  BY <1>3, <1>4, <1>7 DEF InHand
<1>12. Room'
  BY <1>8 DEF Room
<1>13. Calls'
  <2>1. ASSUME NEW u \in Threads \ {t} PROVE Knows(u)' /\ Refills(u)'
    <3>1. Knows(u)
      BY DEF PoolInv, Calls
    <3> QED BY <1>2, <1>7, <3>1 DEF Knows, Refills, Holding, Refilling
  <2>2. Knows(t)'
    BY <1>3, <1>4, <1>5 DEF Knows, Holding
  <2>3. Refills(t)'
    <3>1. CASE pc'[t] = "load"
      BY <3>1 DEF Refills, Refilling
    <3>2. CASE pc'[t] = "rebuild"
      <4>1. StealList(t) /\ op[t] = "post" /\ op'[t] = "post"
        BY <1>3, <1>4, <1>5, <3>2
           DEF CreateBuckets, StealList, ReleaseBuckets, Goto, PoolInv, Types, Refills
      <4>2. head'["available"] = Null /\ head'["free"] = head["free"]
        BY <4>1 DEF StealList, PoolInv, Types, Lists
      <4> QED BY <1>6, <1>8, <3>2, <4>1, <4>2 DEF Refills, From
    <3> QED BY <1>4, <3>1, <3>2
  <2>4. \A u, v \in Active' : op'[u] = op'[v]
    BY <1>8
  <2> QED BY <2>1, <2>2, <2>3, <2>4 DEF Calls
<1> QED BY <1>3, <1>6, <1>9, <1>10, <1>11, <1>12, <1>13

(* createBuckets: no record holds an index, and each gets one of its own.  *)
LEMMA CreateStep ==
  ASSUME PoolInv, Apart, Types', NEW t \in Threads, CreateBuckets(t)
  PROVE  PoolInv' /\ Moves
<1> DEFINE New == {NewId(k) : k \in 0 .. maxBuckets - 1}
<1>1. /\ data' = [r \in Records |-> <<NewId((r - 1) \div chunksInBucket),
                                      (r - 1) % chunksInBucket>>]
      /\ bucketsInUse' = bucketsInUse \cup New
      /\ next' = InOrder /\ head' = [available |-> 1, free |-> Null]
      /\ pc[t] = "create" /\ pc'[t] = "load" /\ op[t] = "fetch"
  BY DEF CreateBuckets, Goto, PoolInv, Types, Calls, Refills
<1>2. /\ Calls' /\ Room' /\ Holders = {} /\ Holders' = {} /\ ~Stolen /\ ~Stolen'
      /\ Chain("available") = {}
      /\ live' = live /\ \A u \in Threads : InHand(u)' = InHand(u)
  BY <1>1, Alone DEF Rebuilds, From
<1>3. Chain("free") = Records
  BY <1>2, ListFacts DEF PoolInv, Threaded, Lists
<1>4. Pool = {}
  BY <1>2 DEF Pool
<1>5. Chain("available")' = Records /\ Chain("free")' = {}
  <2>1. Reach(1, InOrder) = Records /\ Reach(Null, InOrder) = {}
    BY AllInOrder, ReachFacts
  <2> QED BY <1>1, <2>1 DEF Chain
<1>6. Threaded'
  <2>1. \A l \in Lists : Ordered(Chain(l), head[l], next)'
    <3>1. Ordered(Records, 1, InOrder) /\ Ordered({}, Null, InOrder)
      BY AllInOrder DEF Ordered
    <3>2. Ordered(Chain("available")', head'["available"], next')
          /\ Ordered(Chain("free")', head'["free"], next')
      BY <1>1, <1>5, <3>1
    <3> QED BY <3>2 DEF Lists, Ordered
  <2> QED BY <1>2, <1>5, <2>1 DEF Threaded
<1>7. maxBuckets \in Nat \ {0} /\ \A k \in 0 .. maxBuckets - 1 : k \in 0 .. maxBuckets
  BY PoolAssumption
<1>8. \A k \in 0 .. maxBuckets :
         /\ NewId(k) \in Nat /\ NewId(k) \notin bucketsInUse
         /\ \A j \in 0 .. maxBuckets : NewId(j) = NewId(k) => j = k
  BY NewIds DEF PoolInv, Types
<1>9. \A r, q \in Records : data'[r] = data'[q] => r = q
  <2> SUFFICES ASSUME NEW r \in Records, NEW q \in Records, data'[r] = data'[q] PROVE r = q
    OBVIOUS
  <2> DEFINE a == (r - 1) \div chunksInBucket
             b == (q - 1) \div chunksInBucket
             c == (r - 1) % chunksInBucket
             d == (q - 1) % chunksInBucket
  <2>1. a \in 0 .. maxBuckets - 1 /\ b \in 0 .. maxBuckets - 1 /\ (a = b /\ c = d => r = q)
    BY RecordsSplit
  <2>2. data'[r] = <<NewId(a), c>> /\ data'[q] = <<NewId(b), d>>
    BY <1>1
  <2> HIDE DEF a, b, c, d
  <2>3. NewId(a) = NewId(b) /\ c = d
    <3>1. <<NewId(a), c>> = <<NewId(b), d>>
      BY <2>2
    <3> QED BY <3>1
  <2>4. a = b
    BY <1>7, <1>8, <2>1, <2>3
  <2> QED BY <2>1, <2>3, <2>4
<1>10. \A r \in Records : data'[r] # None /\ data'[r] \in Index
  BY FreshTypes, PoolAssumption DEF PoolInv, Index, Slots
<1>11. Filled'
  BY <1>2, <1>5, <1>9, <1>10 DEF Filled
<1>12. Pool' = Indexes(New)
  <2>1. Pool' = {data'[r] : r \in Records}
    BY <1>2, <1>5, <1>10 DEF Pool
  <2>2. ASSUME NEW r \in Records PROVE data'[r] \in Indexes(New)
    <3> DEFINE a == (r - 1) \div chunksInBucket
               c == (r - 1) % chunksInBucket
    <3>1. a \in 0 .. maxBuckets - 1 /\ c \in Slots /\ data'[r] = <<NewId(a), c>>
      BY <1>1, RecordsSplit
    <3> HIDE DEF a, c
    <3> QED BY <3>1 DEF Indexes
  <2>3. ASSUME NEW k \in 0 .. maxBuckets - 1, NEW j \in Slots
        PROVE  <<NewId(k), j>> \in {data'[r] : r \in Records}
    <3>1. PICK r \in Records : (r - 1) \div chunksInBucket = k /\ (r - 1) % chunksInBucket = j
      BY RecordsSplit
    <3>2. data'[r] = <<NewId(k), j>>
      BY <1>1, <3>1
    <3> QED BY <3>2
  <2> QED BY <2>1, <2>2, <2>3 DEF Indexes
<1>13. bucketsInUse' \ bucketsInUse = New /\ bucketsInUse \ bucketsInUse' = {}
  BY <1>1, <1>7, <1>8
<1>14. Indexes({}) = {}
  BY DEF Indexes
<1> HIDE DEF New
<1>15. Owned' /\ Used' = Used
  BY <1>2, <1>4, <1>12, <1>13, <1>14, Refilled DEF PoolInv
<1>16. IP!Open
  <2>1. Pool' = IP!Indexes(bucketsInUse' \ bucketsInUse)
    BY <1>12, <1>13 DEF Indexes, IP!Indexes
  <2> QED BY <1>1, <1>4, <1>15, <2>1 DEF IP!Open
<1> QED BY <1>2, <1>6, <1>11, <1>15, <1>16 DEF PoolInv, Moves, IP!Next

(* stealList: every record holds an index, and comes into no list.         *)
LEMMA StealStep ==
  ASSUME PoolInv, Apart, Types', NEW t \in Threads, StealList(t)
  PROVE  PoolInv' /\ Moves
<1>1. /\ head' = [head EXCEPT !["available"] = Null]
      /\ pc[t] = "steal" /\ pc'[t] = "rebuild" /\ op[t] = "post"
      /\ UNCHANGED <<next, data, bucketVars>>
  BY DEF StealList, Goto, PoolInv, Types, Calls, Refills
<1>2. /\ Calls' /\ Room' /\ Holders = {} /\ Holders' = {} /\ ~Stolen /\ Stolen'
      /\ Chain("free") = {} /\ head["free"] = Null
      /\ live' = live /\ \A u \in Threads : InHand(u)' = InHand(u)
  BY <1>1, Alone DEF Rebuilds, From
<1>3. Chain("available") = Records
  BY <1>2, ListFacts DEF PoolInv, Threaded, Lists
<1>4. head'["available"] = Null /\ head'["free"] = Null
  BY <1>1, <1>2 DEF PoolInv, Types, Lists
<1>5. Chain("available")' = {} /\ Chain("free")' = {}
  <2>1. next \in Links /\ Reach(Null, next) = {}
    BY ReachFacts DEF PoolInv, Types, Links
  <2>2. Reach(head'["available"], next') = {} /\ Reach(head'["free"], next') = {}
    BY <1>1, <1>4, <2>1
  <2> QED BY <2>2 DEF Chain
<1>6. Threaded'
  <2>1. \A l \in Lists : Ordered(Chain(l), head[l], next)'
    BY <1>5 DEF Lists, Ordered
  <2> QED BY <1>2, <1>5, <2>1 DEF Threaded
<1>7. Filled'
  BY <1>1, <1>2, <1>3, <1>5 DEF PoolInv, Filled
<1>8. Pool' = Pool
  BY <1>1, <1>2, <1>3 DEF Pool
<1>9. InHand(t)' \cap live' = {}
  BY <1>2 DEF PoolInv, Owned
<1>10. Owned' /\ Used' = Used
  BY <1>1, <1>2, <1>8, <1>9, Rests DEF PoolInv, bucketVars
<1> QED BY <1>1, <1>2, <1>6, <1>7, <1>8, <1>10 DEF PoolInv, Moves, bucketVars

(* A complete bucket has each of its indexes in a record (:129-140): as    *)
(* many different ones as it has slots.                                    *)
LEMMA Whole ==
  ASSUME Types, \A r, q \in Records : data[r] = data[q] /\ data[r] # None => r = q,
         NEW b \in Complete, NEW j \in Slots
  PROVE  \E r \in Records : data[r] = <<b, j>>
<1> DEFINE D == IndexesOf(b)
           slot == [r \in D |-> data[r][2]]
<1>1. /\ D \subseteq Records /\ IsFiniteSet(D) /\ Cardinality(D) = chunksInBucket
      /\ \A r \in D : data[r] # None /\ data[r][1] = b
  <2>1. D \in SUBSET Records
    BY DEF IndexesOf
  <2>2. IsFiniteSet(D)
    <3> HIDE DEF D
    <3> QED BY <2>1, RecordsAre, FS_Subset
  <2> QED BY <2>1, <2>2 DEF Complete, IndexesOf
<1>2. \A r \in D : slot[r] \in Slots /\ data[r] = <<b, slot[r]>>
  <2> SUFFICES ASSUME NEW r \in D PROVE data[r][2] \in Slots /\ data[r] = <<b, data[r][2]>>
    OBVIOUS
  <2>1. data[r] \in Index /\ data[r][1] = b
    BY <1>1 DEF Types
  <2> QED BY <2>1 DEF Index
<1>3. \A r, q \in D : slot[r] = slot[q] => r = q
  <2> HIDE DEF slot
  <2> QED BY <1>1, <1>2
<1>4. slot \in [D -> Slots]
  BY <1>2
<1> HIDE DEF D, slot
<1>5. slot \in Injection(D, Slots)
  BY <1>3, <1>4 DEF Injection, IsInjective
<1>6. IsFiniteSet(Slots) /\ Cardinality(Slots) = chunksInBucket
  <2>1. chunksInBucket \in Nat \ {0} /\ 0 \in Int /\ chunksInBucket - 1 \in Int
    BY PoolAssumption
  <2> QED BY <2>1, FS_Interval DEF Slots
<1>7. slot \in Surjection(D, Slots)
  BY <1>1, <1>5, <1>6, FS_Injection
<1> QED BY <1>1, <1>2, <1>7 DEF Surjection

(* releaseBuckets: the records of complete buckets make up the free list,  *)
(* the others the available one; what goes was all in the pool.            *)
LEMMA ReleaseStep ==
  ASSUME PoolInv, Apart, Types', NEW t \in Threads, ReleaseBuckets(t), Complete # {}
  PROVE  PoolInv' /\ Moves
<1>1. pc[t] = "rebuild" /\ pc'[t] = "load" /\ op[t] = "post" /\ head["available"] = Null
  BY DEF ReleaseBuckets, Goto, PoolInv, Types, Calls, Refills
<1>2. /\ Calls' /\ Room' /\ Holders = {} /\ Holders' = {} /\ Stolen /\ ~Stolen'
      /\ head["free"] = Null
      /\ live' = live /\ \A u \in Threads : InHand(u)' = InHand(u)
  BY <1>1, Alone DEF Rebuilds, From
<1>3. /\ \A r \in Records : data[r] # None /\ data[r] \in Index
      /\ Gone \subseteq Records /\ Kept = Records \ Gone
      /\ \A r \in Records : r \in Gone <=> data[r][1] \in Complete
  BY <1>2 DEF PoolInv, Types, Filled, Gone, Kept
<1>4. /\ data' = [r \in Records |-> IF r \in Gone THEN None ELSE data[r]]
      /\ next' = [r \in Records |-> IF r \in Gone THEN Pushed(Gone, Null)[r]
                                    ELSE Pushed(Kept, Null)[r]]
      /\ head' = [free |-> Front(Gone, Null), available |-> Front(Kept, Null)]
      /\ next' \in Links /\ bucketsInUse' = bucketsInUse \ Complete
  BY <1>1, <1>2, Rebuilt DEF PoolInv
<1>5. /\ Chain("free")' = Gone /\ Chain("available")' = Kept
      /\ Ordered(Gone, head'["free"], next') /\ Ordered(Kept, head'["available"], next')
  <2>1. (\A r \in Gone : next'[r] = Pushed(Gone, Null)[r]) /\ \A r \in Kept : next'[r] = Pushed(Kept, Null)[r]
    BY <1>3, <1>4
  <2>2. Reach(Front(Gone, Null), next') = Gone /\ Ordered(Gone, Front(Gone, Null), next')
    BY <1>3, <1>4, <2>1, InSequence
  <2>3. Reach(Front(Kept, Null), next') = Kept /\ Ordered(Kept, Front(Kept, Null), next')
    BY <1>3, <1>4, <2>1, InSequence
  <2>4. head'["free"] = Front(Gone, Null) /\ head'["available"] = Front(Kept, Null)
    BY <1>4
  <2> QED BY <2>2, <2>3, <2>4 DEF Chain
<1>6. Threaded'
  <2>1. \A l \in Lists : Ordered(Chain(l), head[l], next)'
    <3>1. Ordered(Chain("free")', head'["free"], next')
          /\ Ordered(Chain("available")', head'["available"], next')
      BY <1>5
    <3> QED BY <3>1 DEF Lists, Ordered
  <2> QED BY <1>2, <1>3, <1>5, <2>1 DEF Threaded
<1>7. /\ \A r \in Gone : data'[r] = None
      /\ \A r \in Kept : data'[r] = data[r] /\ data'[r] # None
  BY <1>3, <1>4
<1>8. Filled'
  <2>1. \A r, q \in Records : data'[r] = data'[q] /\ data'[r] # None => r = q
    BY <1>3, <1>7 DEF PoolInv, Filled
  <2> QED BY <1>2, <1>5, <1>7, <2>1 DEF Filled
<1>9. Pool = {data[r] : r \in Records}
  BY <1>2, <1>3 DEF Pool
<1>10. Pool' = Pool \ Indexes(Complete)
  <2>1. Pool' = {data[r] : r \in Kept}
    BY <1>2, <1>5, <1>7 DEF Pool
  <2>2. \A r \in Records : data[r] \in Indexes(Complete) <=> r \in Gone
    BY <1>3 DEF Indexes, Index
  <2> QED BY <1>3, <1>9, <2>1, <2>2
<1>11. Indexes(Complete) \subseteq Pool
  <2> SUFFICES ASSUME NEW b \in Complete, NEW j \in Slots PROVE <<b, j>> \in Pool
    BY DEF Indexes
  <2>1. PICK r \in Records : data[r] = <<b, j>>
    BY Whole DEF PoolInv, Filled
  <2> QED BY <1>9, <2>1
<1>12. /\ bucketsInUse \ bucketsInUse' = Complete /\ bucketsInUse' \ bucketsInUse = {}
       /\ Indexes({}) = {} /\ bucketsInUse' \subseteq bucketsInUse
  BY <1>4 DEF Complete, Indexes
<1>13. Owned' /\ Used' = Used
  BY <1>2, <1>10, <1>11, <1>12, Refilled DEF PoolInv
<1>14. IP!Close
  BY <1>10, <1>11, <1>12, <1>13 DEF IP!Close, IP!Indexes, Indexes
<1> QED BY <1>2, <1>6, <1>8, <1>13, <1>14 DEF PoolInv, Moves, IP!Next

-----------------------------------------------------------------------------
LEMMA PoolStep ==
  ASSUME PoolInv, Apart, [Next]_vars
  PROVE  PoolInv' /\ Moves
<1>1. CASE UNCHANGED vars
  <2>1. /\ Active' = Active /\ Takers' = Takers /\ Holders' = Holders /\ Stolen' = Stolen
        /\ \A t \in Threads : InHand(t)' = InHand(t)
        /\ UNCHANGED <<listVars, bucketVars, pc, registers, live, mutex>>
    BY <1>1 DEF vars, Active, Takers, Holders, Stolen, InHand, listVars, bucketVars, registers
  <2>2. \A u \in Holders : /\ node'[u] = node[u] /\ op'[u] = op[u] /\ value'[u] = value[u]
                           /\ pc'[u] = "use" <=> pc[u] = "use"
    BY <2>1 DEF registers
  <2>3. Threaded' /\ Filled' /\ \A l \in Lists : Chain(l)' = Chain(l)
    BY <2>1, <2>2, SameLists DEF PoolInv
  <2>4. Types'
    BY <2>1 DEF PoolInv, Types, listVars, bucketVars, registers
  <2>5. \A t \in Threads : From(t)' = From(t) /\ Chain(From(t))' = Chain(From(t))
    BY <2>1, <2>3, ListsOf DEF From, registers
  <2>6. Calls'
    <3>1. \A t \in Threads : Knows(t)'
      BY <2>1, <2>5 DEF PoolInv, Calls, Knows, listVars, registers
    <3>2. \A t \in Threads : Refills(t)'
      BY <2>1, <2>5 DEF PoolInv, Calls, Refills, listVars, registers
    <3>3. \A t, u \in Active' : op'[t] = op'[u]
      BY <2>1 DEF PoolInv, Calls, registers
    <3> QED BY <3>1, <3>2, <3>3 DEF Calls
  <2>7. Room'
    BY <2>1, <2>5 DEF PoolInv, Room, Active
  <2>8. Pool' = Pool /\ Used' = Used /\ bucketsInUse' = bucketsInUse
    BY <2>1, <2>3 DEF Pool, Used, Lists, listVars, bucketVars
  <2>9. Owned'
    BY <2>1, <2>8 DEF PoolInv, Owned
  <2> QED BY <2>3, <2>4, <2>6, <2>7, <2>8, <2>9 DEF PoolInv, Moves
<1>2. CASE Next
  <2>1. PICK t \in Threads : Fetch(t) \/ Post(t) \/ Work(t)
    BY <1>2 DEF Next
  <2>2. Types'
    BY <2>1, StepTypes DEF PoolInv
  <2>3. CASE Fetch(t) \/ Post(t)
    BY <2>2, <2>3, StartStep
  <2>4. CASE Walk(t)
    BY <2>2, <2>4, WalkStep
  <2>5. CASE TakeCas(t) /\ head[From(t)] = expected[t]
    BY <2>2, <2>5, TakeStep
  <2>6. CASE Use(t)
    BY <2>2, <2>6, UseStep
  <2>7. CASE InsertLoad(t)
    BY <2>2, <2>7, LinkStep
  <2>8. CASE InsertCas(t)
    BY <2>2, <2>8, InsertStep
  <2>9. CASE CreateBuckets(t)
    BY <2>2, <2>9, CreateStep
  <2>10. CASE StealList(t)
    BY <2>2, <2>10, StealStep
  <2>11. CASE ReleaseBuckets(t) /\ Complete # {}
    BY <2>2, <2>11, ReleaseStep
  <2> QED BY <2>1, <2>3, <2>4, <2>5, <2>6, <2>7, <2>8, <2>9, <2>10, <2>11
          DEF Work, Take, Insert, Refill, Walk
<1> QED BY <1>1, <1>2

(* In every state the calls in progress are of one kind and find a record  *)
(* each, a refill is alone, the two lists and the records in hand are all  *)
(* the records, each once, and every index is in one place                 *)
(* (bucketaccounting.cpp:32-224).                                          *)
THEOREM PoolInvariant ==
  ASSUME Apart PROVE Spec => []PoolInv
<1>1. Init => PoolInv
  BY PoolInit
<1>2. PoolInv /\ [Next]_vars => PoolInv'
  BY PoolStep
<1> QED BY <1>1, <1>2, PTL DEF Spec

(* The heads, the next fields and the registers of the calls refer to      *)
(* records, and an index is a bucket and one of its slots.                 *)
THEOREM Typing ==
  ASSUME Apart PROVE Spec => []TypeOK
<1>1. PoolInv => TypeOK
  BY DEF PoolInv, Types, TypeOK, Lists
<1> QED BY <1>1, PoolInvariant, PTL

(* Every index of a bucket in use is in the pool or with one caller, and   *)
(* every record in a list or in one call's hands; so the bucket files that *)
(* releaseBuckets removes (:161-164) hold nothing a caller refers to.      *)
THEOREM NothingLost ==
  ASSUME Apart PROVE Spec => []Conserved
<1>1. PoolInv => EachRecordOnce
  <2> SUFFICES ASSUME PoolInv, ~Stolen PROVE EachRecordOnce
    BY DEF EachRecordOnce
  <2> DEFINE mine == {node[t] : t \in {u \in Threads : pc[u] \in {"use", "link", "insert"}}}
  <2>1. mine = {node[t] : t \in Holders}
    BY DEF Holders, Holding
  <2>2. mine \subseteq Records
    BY <2>1 DEF PoolInv, Calls, Knows, Holders
  <2>3. Chain("available") \subseteq Records /\ Chain("free") \subseteq Records
    BY ListFacts DEF PoolInv, Lists
  <2>4. mine \cap (Chain("available") \cup Chain("free")) = {}
    BY <2>1 DEF PoolInv, Threaded
  <2>5. mine \cup Chain("available") \cup Chain("free") = Records
    BY <2>1, <2>2, <2>3 DEF PoolInv, Threaded
  <2> QED BY <2>4, <2>5 DEF PoolInv, Threaded, EachRecordOnce
<1>2. PoolInv => Conserved
  BY <1>1 DEF PoolInv, Owned, Conserved
<1> QED BY <1>2, PoolInvariant, PTL

(* The two lists behave as a set of free indexes: fetch takes one out, post*)
(* puts one back, buckets are opened when it is empty and closed when all  *)
(* their indexes are in it.                                                *)
THEOREM ImplementsPool ==
  ASSUME Apart PROVE Spec => KeepsIndexes
<1>1. Init => IP!Init
  <2> SUFFICES ASSUME Init PROVE IP!Init
    OBVIOUS
  <2>1. Pool = {}
    <3>1. Reach(Null, InOrder) = {}
      BY AllInOrder, ReachFacts
    <3> QED BY <3>1 DEF Pool, Chain, Init, Stolen
  <2>2. \A t \in Threads : InHand(t) = {}
    BY DEF InHand, Init
  <2>3. Used = Indexes(OldBuckets)
    BY <2>2 DEF Used, Init
  <2> QED BY <2>1, <2>3 DEF IP!Init, IP!Indexes, Indexes, Init
<1>2. PoolInv /\ [Next]_vars => Moves
  BY PoolStep
<1>3. Spec => IP!Init /\ [][IP!Next]_<<Pool, Used, bucketsInUse>>
  BY <1>1, <1>2, PoolInvariant, PTL DEF Spec, Moves
<1> QED BY <1>3 DEF KeepsIndexes, IP!Spec, IP!poolVars

=============================================================================
