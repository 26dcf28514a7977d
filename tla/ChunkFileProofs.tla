---------------------------- MODULE ChunkFileProofs ----------------------------
(* Theorems about ChunkFile, for any size of chunks and of inode records.  *)
EXTENDS ChunkFile, SequenceTheorems, TLAPS

-----------------------------------------------------------------------------
(* Chunks and places. chunkSize * q is where chunk q + 1 begins.           *)
LEMMA Division ==
  ASSUME NEW n \in Nat
  PROVE  /\ n \div chunkSize \in Nat /\ n % chunkSize \in InChunk
         /\ n = chunkSize * (n \div chunkSize) + (n % chunkSize)
  BY FileAssumption DEF InChunk

LEMMA Products ==
  ASSUME NEW a \in Int, NEW b \in Int
  PROVE  /\ chunkSize * a \in Int
         /\ a <= b <=> chunkSize * a <= chunkSize * b
         /\ a < b <=> chunkSize * a + chunkSize <= chunkSize * b
  BY FileAssumption

LEMMA ChunkAt ==
  ASSUME NEW i \in Nat, NEW p \in Nat
  PROVE  i \div chunkSize = p <=> chunkSize * p <= i /\ i < chunkSize * p + chunkSize
<1> DEFINE q == i \div chunkSize
           r == i % chunkSize
<1>1. q \in Nat /\ r \in Nat /\ r < chunkSize /\ i = chunkSize * q + r /\ chunkSize \in Nat
  BY Division, FileAssumption DEF InChunk
<1>2. chunkSize * p \in Int /\ chunkSize * q \in Int
      /\ (p < q <=> chunkSize * p + chunkSize <= chunkSize * q)
      /\ (q < p <=> chunkSize * q + chunkSize <= chunkSize * p)
  BY <1>1, Products
<1> HIDE DEF q, r
<1>3. q = p <=> chunkSize * p <= i /\ i < chunkSize * p + chunkSize
  BY <1>1, <1>2
<1> QED
  BY <1>3 DEF q

LEMMA ChunksFor ==
  ASSUME NEW n \in Nat, NEW q \in Nat
  PROVE  NumChunks(n) \in Nat /\ (NumChunks(n) <= q <=> n <= chunkSize * q)
<1> DEFINE d == n \div chunkSize
           r == n % chunkSize
<1>1. d \in Nat /\ r \in Nat /\ r < chunkSize /\ n = chunkSize * d + r /\ chunkSize \in Nat
  BY Division, FileAssumption DEF InChunk
<1>2. chunkSize * q \in Int /\ chunkSize * d \in Int
      /\ (d <= q <=> chunkSize * d <= chunkSize * q)
      /\ (d < q <=> chunkSize * d + chunkSize <= chunkSize * q)
  BY <1>1, Products
<1>3. NumChunks(n) = IF r > 0 THEN d + 1 ELSE d
  BY <1>1 DEF NumChunks
<1> HIDE DEF d, r
<1> QED
  BY <1>1, <1>2, <1>3

LEMMA Monotone ==
  ASSUME NEW m \in Nat, NEW n \in Nat, m <= n
  PROVE  NumChunks(m) \in Nat /\ NumChunks(m) <= NumChunks(n)
<1>1. NumChunks(n) \in Nat
  BY ChunksFor, 0 \in Nat
<1>2. n <= chunkSize * NumChunks(n) /\ chunkSize * NumChunks(n) \in Int
  BY <1>1, ChunksFor, Products
<1>3. m <= chunkSize * NumChunks(n)
  BY <1>2
<1> QED
  BY <1>1, <1>3, ChunksFor

-----------------------------------------------------------------------------
(* The loops over a request. base is the place where the k-th chunk of the *)
(* request begins.                                                         *)
LEMMA Bases ==
  ASSUME NEW a \in Nat, NEW k \in Nat \ {0}
  PROVE  /\ chunkSize * (a + k - 1) = chunkSize * a + chunkSize * (k - 1)
         /\ (a + k - 1) * chunkSize = chunkSize * (a + k - 1)
         /\ chunkSize * (a + k) = chunkSize * (a + k - 1) + chunkSize
         /\ chunkSize * k = chunkSize * (k - 1) + chunkSize
         /\ chunkSize * a \in Nat /\ chunkSize * (k - 1) \in Nat
         /\ k > 1 => chunkSize * (k - 1) >= chunkSize
  BY FileAssumption

LEMMA Parts ==
  ASSUME NEW r, r.offset \in Nat, r.size \in Nat, NEW k \in Nat \ {0},
         NEW base, base = chunkSize * (FirstHash(r) + k - 1)
  PROVE  /\ FirstHash(r) \in Nat /\ base \in Nat
         /\ chunkSize * (FirstHash(r) + k) = base + chunkSize
         /\ r.offset < base + chunkSize
         /\ k = 1 => base <= r.offset
         /\ k > 1 => r.offset < base
         /\ NewOffset(r, k) = (IF k = 1 THEN r.offset - base ELSE 0)
         /\ Given(r, k) = base + NewOffset(r, k) - r.offset
         /\ Given(r, k + 1) = base + chunkSize - r.offset
<1> DEFINE f == FirstHash(r)
           o == r.offset
           s == chunkSize * f
           d == chunkSize * (k - 1)
<1>0. chunkSize \in Nat /\ chunkSize > 0
  BY FileAssumption
<1>1. f \in Nat /\ s \in Nat /\ s <= o /\ o < s + chunkSize
  BY Division, <1>0, Bases DEF FirstHash, InChunk
<1>2. /\ base = s + d /\ (f + k - 1) * chunkSize = base
      /\ chunkSize * (f + k) = base + chunkSize /\ d \in Nat
      /\ chunkSize * k = d + chunkSize
      /\ k > 1 => d >= chunkSize
      /\ k = 1 => d = 0
  BY <1>0, <1>1, Bases
<1>3. (f + 1 - 1) * chunkSize = s
  BY <1>0, <1>1
<1>4. NewOffset(r, k) = Greatest(o - base, 0) /\ NewOffset(r, 1) = Greatest(o - s, 0)
  BY <1>2, <1>3 DEF NewOffset
<1>5. k + 1 # 1 /\ k + 1 - 1 = k
  OBVIOUS
<1>6. /\ Given(r, k) = IF k = 1 THEN 0 ELSE d - NewOffset(r, 1)
      /\ Given(r, k + 1) = chunkSize * k - NewOffset(r, 1)
  BY <1>5 DEF Given
<1>7. o \in Nat
  OBVIOUS
<1> HIDE DEF f, o, s, d
<1>8. NewOffset(r, 1) = o - s /\ NewOffset(r, k) = IF k = 1 THEN o - base ELSE 0
  BY <1>0, <1>1, <1>2, <1>4, <1>7 DEF Greatest
<1>9. /\ Given(r, k) = base + NewOffset(r, k) - o
      /\ Given(r, k + 1) = base + chunkSize - o
  <2>1. CASE k = 1
    BY <2>1, <1>0, <1>1, <1>2, <1>6, <1>7, <1>8
  <2>2. CASE k # 1
    BY <2>2, <1>0, <1>1, <1>2, <1>6, <1>7, <1>8
  <2> QED
    BY <2>1, <2>2
<1>10. base \in Nat /\ o < base + chunkSize /\ (k = 1 => base <= o) /\ (k > 1 => o < base)
  BY <1>0, <1>1, <1>2, <1>7
<1>11. chunkSize * (f + k) = base + chunkSize
  BY <1>2
<1> QED
  BY <1>1, <1>8, <1>9, <1>10, <1>11 DEF f, o

(* What chunk k of a request gets, in places of the file. *)
LEMMA PartPlaces ==
  ASSUME NEW r, r.offset \in Nat, r.size \in Nat, NEW k \in Nat \ {0},
         NEW base, base = chunkSize * (FirstHash(r) + k - 1)
  PROVE  /\ NewOffset(r, k) \in InChunk /\ NewSize(r, k) \in Nat
         /\ NewOffset(r, k) + NewSize(r, k) <= chunkSize
         /\ Given(r, k) \in Nat
         /\ Given(r, k) + NewSize(r, k) <= Greatest(Given(r, k), r.size)
         /\ \A b \in InChunk :
              NewOffset(r, k) <= b /\ b < NewOffset(r, k) + NewSize(r, k)
                <=> r.offset <= base + b /\ base + b < r.offset + r.size
         /\ Given(r, k) + NewSize(r, k) >= r.size
              <=> r.offset + r.size <= base + chunkSize
         /\ Least(Given(r, k), r.size) + NewSize(r, k) = Least(Given(r, k + 1), r.size)
<1> DEFINE o == r.offset
           s == r.size
           n == NewOffset(r, k)
           g == Given(r, k)
           w == NewSize(r, k)
           h == Given(r, k + 1)
<1>0. chunkSize \in Nat /\ chunkSize > 0 /\ o \in Nat /\ s \in Nat
  BY FileAssumption
<1>1. /\ base \in Nat /\ o < base + chunkSize
      /\ k = 1 => base <= o
      /\ k > 1 => o < base
      /\ n = (IF k = 1 THEN o - base ELSE 0)
      /\ g = base + n - o /\ h = base + chunkSize - o
  BY Parts
<1>2. w = Least(Greatest(s - g, 0), chunkSize - n)
  BY DEF NewSize
<1> HIDE DEF o, s, n, g, w, h
<1>3. n \in Nat /\ n < chunkSize /\ g \in Nat /\ h \in Nat /\ g + (chunkSize - n) = h
      /\ (n > 0 => g = 0)
  BY <1>0, <1>1
<1>4. w \in Nat /\ n + w <= chunkSize /\ g + w <= Greatest(g, s)
  BY <1>0, <1>2, <1>3 DEF Least, Greatest
<1>5. ASSUME NEW b \in InChunk
      PROVE  n <= b /\ b < n + w <=> o <= base + b /\ base + b < o + s
  <2>1. b \in Nat /\ b < chunkSize /\ base + b = o + g - n + b /\ base \in Nat
    BY <1>0, <1>1, <1>3 DEF InChunk
  <2>2. n <= b <=> o <= base + b
    BY <2>1, <1>0, <1>3
  <2>3. w = (IF s <= g THEN 0 ELSE IF s - g < chunkSize - n THEN s - g ELSE chunkSize - n)
    BY <1>0, <1>2, <1>3 DEF Least, Greatest
  <2>4. n <= b => (b < n + w <=> base + b < o + s)
    BY <2>1, <2>3, <1>0, <1>3
  <2> QED
    BY <2>2, <2>4
<1>6. g + w >= s <=> o + s <= base + chunkSize
  BY <1>0, <1>1, <1>2, <1>3, <1>4 DEF Least, Greatest
<1>7. Least(g, s) + w = Least(h, s)
  BY <1>0, <1>2, <1>3, <1>4 DEF Least, Greatest
<1>8. n \in InChunk
  BY <1>0, <1>3 DEF InChunk
<1> QED
  BY <1>3, <1>4, <1>5, <1>6, <1>7, <1>8 DEF o, s, n, g, w, h

(* The chunks of a list that is as long as a write asks for, file.cpp:693. *)
Grown(n, c) == NumChunks(n) + (IF Unaligned(c) THEN 1 ELSE 0)

(* The chunks a write counts hold all of its bytes, and a list that is long*)
(* enough for the file it makes has them.                                  *)
LEMMA Counted ==
  ASSUME NEW c, c.offset \in Nat, c.size \in Nat \ {0}
  PROVE  /\ NumHashesInWrite(c) \in Nat \ {0}
         /\ FirstHash(c) \in Nat
         /\ c.offset + c.size <= chunkSize * (FirstHash(c) + NumHashesInWrite(c))
         /\ \A n \in Nat : /\ Grown(n, c) \in Nat
                           /\ c.offset + c.size <= n =>
                                FirstHash(c) + NumHashesInWrite(c) <= Grown(n, c)
<1> DEFINE f == FirstHash(c)
           o == c.offset
           w == c.size
           r == o % chunkSize
           q == NumChunks(w)
           u == IF Unaligned(c) THEN 1 ELSE 0
           s == chunkSize * f
           t == chunkSize * q
<1>0. chunkSize \in Nat /\ chunkSize > 0 /\ o \in Nat /\ w \in Nat /\ w > 0
  BY FileAssumption
<1>1. f \in Nat /\ r \in Nat /\ r < chunkSize /\ o = s + r /\ s \in Nat
  BY <1>0, Division, Bases DEF FirstHash, InChunk
<1>2. q \in Nat /\ w <= t /\ t \in Nat
  <2>1. q \in Nat
    BY <1>0, ChunksFor, 0 \in Nat
  <2> QED
    BY <2>1, <1>0, ChunksFor, Bases
<1>3. u = (IF r > 0 THEN 1 ELSE 0) /\ NumHashesInWrite(c) = q + u
  BY DEF Unaligned, NumHashesInWrite
<1>4. q # 0
  <2>1. ASSUME q = 0 PROVE FALSE
    <3>1. t = 0
      BY <2>1, <1>0
    <3> QED
      BY <3>1, <1>0, <1>2
  <2> QED
    BY <2>1
<1>5. chunkSize * (f + (q + u)) = s + t + (IF r > 0 THEN chunkSize ELSE 0)
  <2>1. CASE r > 0
    <3>1. u = 1
      BY <2>1, <1>3
    <3>2. chunkSize * (f + (q + 1)) = chunkSize * f + chunkSize * q + chunkSize
      BY <1>0, <1>1, <1>2
    <3> QED
      BY <3>1, <3>2, <2>1
  <2>2. CASE ~(r > 0)
    <3>1. u = 0
      BY <2>2, <1>3
    <3>2. chunkSize * (f + (q + 0)) = chunkSize * f + chunkSize * q
      BY <1>0, <1>1, <1>2
    <3> QED
      BY <3>1, <3>2, <2>2, <1>1, <1>2
  <2> QED
    BY <2>1, <2>2
<1>6. ASSUME NEW n \in Nat
      PROVE  /\ Grown(n, c) \in Nat
             /\ o + w <= n => f + (q + u) <= Grown(n, c)
  <2> DEFINE m == NumChunks(n)
             z == chunkSize * m
  <2>1. m \in Nat
    BY ChunksFor, 0 \in Nat
  <2>2. n <= z /\ z \in Nat
    BY <2>1, ChunksFor, Bases
  <2>3. Grown(n, c) = m + u /\ u \in Nat
    BY <1>3 DEF Grown
  <2>4. ASSUME o + w <= n PROVE f + q <= m
    <3>1. s < z
      BY <2>4, <2>2, <1>0, <1>1
    <3>2. f < m
      <4>1. m <= f <=> z <= s
        BY <2>1, <1>1, Products
      <4> HIDE DEF m, z, f, s
      <4> QED
        BY <3>1, <4>1, <2>1, <2>2, <1>1
    <3>3. m - f \in Nat /\ chunkSize * (m - f) = z - s
      BY <3>2, <2>1, <1>1, <1>0
    <3>4. w <= chunkSize * (m - f)
      <4> HIDE DEF m, z, f, s, r
      <4> QED
        BY <3>3, <2>4, <2>2, <1>0, <1>1
    <3>5. q <= m - f
      BY <3>3, <3>4, <1>0, ChunksFor
    <3> QED
      BY <3>5, <2>1, <1>1, <1>2
  <2> HIDE DEF m, f, q, u, o, w
  <2> QED
    BY <2>1, <2>3, <2>4, <1>1, <1>2
<1>7. o + w <= chunkSize * (f + (q + u))
  <2> HIDE DEF s, t, r, f, q, u, o, w
  <2> QED
    BY <1>0, <1>1, <1>2, <1>5
<1> QED
  BY <1>1, <1>2, <1>3, <1>4, <1>6, <1>7

-----------------------------------------------------------------------------
(* Lists of chunks.                                                        *)
LEMMA SeqOf ==
  ASSUME NEW S, NEW n \in Nat, NEW f \in [1 .. n -> S]
  PROVE  f \in Seq(S) /\ Len(f) = n
<1>1. f \in Seq(S)
  BY SeqDef
<1> QED
  BY <1>1, LenProperties

LEMMA ZerosSeq ==
  ASSUME NEW n \in Nat
  PROVE  /\ ZeroChunk \in Chunk
         /\ Zeros(n) \in Seq(Chunk) /\ Len(Zeros(n)) = n
         /\ \A k \in 1 .. n : Zeros(n)[k] = ZeroChunk
<1>1. ZeroChunk \in Chunk
  BY DEF ZeroChunk, Chunk
<1>2. Zeros(n) \in [1 .. n -> Chunk] /\ \A k \in 1 .. n : Zeros(n)[k] = ZeroChunk
  BY <1>1 DEF Zeros
<1> QED
  BY <1>1, <1>2, SeqOf

LEMMA Extended ==
  ASSUME NEW s \in Seq(Chunk), NEW n \in Nat, Len(s) <= n
  PROVE  LET t == s \o Zeros(n - Len(s))
         IN /\ t \in Seq(Chunk) /\ Len(t) = n
            /\ \A k \in 1 .. n : t[k] = IF k <= Len(s) THEN s[k] ELSE ZeroChunk
<1> DEFINE z == Zeros(n - Len(s))
<1>1. n - Len(s) \in Nat /\ Len(s) \in Nat
  BY LenProperties
<1>2. z \in Seq(Chunk) /\ Len(z) = n - Len(s)
      /\ \A k \in 1 .. n - Len(s) : z[k] = ZeroChunk
  BY <1>1, ZerosSeq
<1> HIDE DEF z
<1>3. /\ s \o z \in Seq(Chunk) /\ Len(s \o z) = Len(s) + Len(z)
      /\ \A k \in 1 .. Len(s) + Len(z) :
           (s \o z)[k] = IF k <= Len(s) THEN s[k] ELSE z[k - Len(s)]
  BY <1>2, ConcatProperties
<1>4. Len(s) + Len(z) = n
  BY <1>1, <1>2
<1>5. ASSUME NEW k \in 1 .. n
      PROVE  (s \o z)[k] = IF k <= Len(s) THEN s[k] ELSE ZeroChunk
  <2>1. CASE k <= Len(s)
    BY <2>1, <1>3, <1>4
  <2>2. CASE ~(k <= Len(s))
    <3>1. k - Len(s) \in 1 .. n - Len(s)
      BY <2>2, <1>1
    <3> QED
      BY <3>1, <2>2, <1>2, <1>3, <1>4
  <2> QED
    BY <2>1, <2>2
<1> QED
  BY <1>3, <1>4, <1>5 DEF z

LEMMA Shortened ==
  ASSUME NEW s \in Seq(Chunk), NEW n \in Nat, n <= Len(s)
  PROVE  LET t == SubSeq(s, 1, n)
         IN /\ t \in Seq(Chunk) /\ Len(t) = n
            /\ \A k \in 1 .. n : t[k] = s[k]
<1>1. Len(s) \in Nat /\ \A k \in 1 .. n : k \in 1 .. Len(s)
  BY LenProperties
<1>2. \A k \in 1 .. n : s[k] \in Chunk
  BY <1>1, ElementOfSeq
<1>3. /\ SubSeq(s, 1, n) \in Seq(Chunk)
      /\ Len(SubSeq(s, 1, n)) = IF 1 <= n THEN n - 1 + 1 ELSE 0
      /\ \A k \in 1 .. n - 1 + 1 : SubSeq(s, 1, n)[k] = s[1 + k - 1]
  BY <1>2, SubSeqProperties
<1>4. n - 1 + 1 = n /\ \A k \in 1 .. n : 1 + k - 1 = k
  OBVIOUS
<1> QED
  BY <1>3, <1>4

-----------------------------------------------------------------------------
(* What a write or a truncation may be.                                    *)
LEMMA Requests ==
  /\ \A c \in Calls :
       /\ c # None
       /\ c.size \in Nat /\ c.size <= MaxSize
       /\ \/ /\ c.op = "write" /\ c.size > 0 /\ c.offset \in Nat
             /\ c.offset + c.size <= MaxSize /\ c.value \in Bytes
          \/ c.op = "truncate"
  /\ \A r \in Reads :
       /\ r.offset \in Nat /\ r.size \in Nat /\ r.size > 0
       /\ r.offset + r.size <= MaxSize
<1>1. \A c \in Calls : c # None
  BY ValuesAssumption
<1>2. ASSUME NEW c \in Calls
      PROVE  /\ c.size \in Nat /\ c.size <= MaxSize
             /\ \/ /\ c.op = "write" /\ c.size > 0 /\ c.offset \in Nat
                   /\ c.offset + c.size <= MaxSize /\ c.value \in Bytes
                \/ c.op = "truncate"
  BY FileAssumption DEF Calls, Writes, Truncations
<1>3. ASSUME NEW r \in Reads
      PROVE  /\ r.offset \in Nat /\ r.size \in Nat /\ r.size > 0
             /\ r.offset + r.size <= MaxSize
  BY FileAssumption DEF Reads
<1> QED
  BY <1>1, <1>2, <1>3

(* A call is at a place of its own loop.                                   *)
ControlInv ==
  /\ call \in Calls \cup {None}
  /\ pc = "idle" <=> call = None
  /\ pc \in {"grow_size", "grow_list", "lock_write", "range", "store"}
       <=> call # None /\ call.op = "write"
  /\ pc \in {"lock_truncate", "cut", "size", "return"}
       <=> call # None /\ call.op = "truncate"

THEOREM Control == Spec => []ControlInv
<1>1. Init => ControlInv
  BY DEF Init, ControlInv
<1>2. ASSUME ControlInv, [Next]_vars PROVE ControlInv'
  <2> USE <1>2 DEF ControlInv
  <2>1. CASE Call
    <3>1. PICK c \in Calls : call' = c
             /\ pc' = IF c.op = "write" THEN "grow_size" ELSE "lock_truncate"
      BY <2>1 DEF Call
    <3> QED
      BY <3>1, Requests
  <2>2. CASE GrowSize \/ GrowList \/ LockWrite \/ MakeChunks \/ Store
    BY <2>2 DEF GrowSize, GrowList, LockWrite, MakeChunks, Store
  <2>3. CASE Return
    BY <2>3 DEF Return
  <2>4. CASE LockTruncate \/ Cut \/ SetSize
    BY <2>4 DEF LockTruncate, Cut, SetSize
  <2>5. CASE Close \/ Reload
    BY <2>5 DEF Close, Reload, writer
  <2>6. CASE Reading
    BY <2>6 DEF Reading, Read, LockRead, Fetch, EndRead, writer
  <2>7. CASE UNCHANGED vars
    BY <2>7 DEF vars, writer
  <2> QED
    BY <2>1, <2>2, <2>3, <2>4, <2>5, <2>6, <2>7 DEF Next, Write, Truncate
<1> QED
  BY <1>1, <1>2, PTL DEF Spec

-----------------------------------------------------------------------------
(* The chain of records (InodeChain).                                      *)
Entries == Chunk \cup {NoEntry, Old}
Records == [1 .. numInode -> Entries] \cup [1 .. numCtd -> Entries]
IsChain(records) ==
  /\ records \in Seq(Records) /\ Len(records) >= 1
  /\ \A r \in 1 .. Len(records) : records[r] \in [CtdPlaces(r) -> Entries]

(* The place of an entry: entry k is at PlaceOf(k) of record RecordOf(k),  *)
(* where WithEntries puts it, and no earlier entry has a later record.     *)
LEMMA Place ==
  ASSUME NEW k \in Nat \ {0}
  PROVE  /\ RecordOf(k) \in Nat \ {0}
         /\ PlaceOf(k) \in CtdPlaces(RecordOf(k))
         /\ k = (IF RecordOf(k) = 1 THEN PlaceOf(k)
                 ELSE numInode + (RecordOf(k) - 2) * numCtd + PlaceOf(k))
<1>0. numInode \in Nat /\ numInode > 0 /\ numCtd \in Nat /\ numCtd > 0
  BY ChainAssumption
<1>1. CASE k <= numInode
  <2>1. RecordOf(k) = 1 /\ PlaceOf(k) = k
    BY <1>1 DEF RecordOf, PlaceOf
  <2> QED
    BY <2>1, <1>0, <1>1 DEF CtdPlaces
<1>2. CASE ~(k <= numInode)
  <2> DEFINE m == k - numInode - 1
             d == m \div numCtd
             r == m % numCtd
  <2>1. m \in Nat
    BY <1>0, <1>2
  <2>2. d \in Nat /\ r \in 0 .. numCtd - 1 /\ m = d * numCtd + r
    BY <2>1, <1>0
  <2>3. RecordOf(k) = 2 + d /\ PlaceOf(k) = 1 + r
    BY <1>2 DEF RecordOf, PlaceOf
  <2> HIDE DEF d, r
  <2>4. RecordOf(k) - 2 = d /\ RecordOf(k) # 1 /\ RecordOf(k) \in Nat \ {0}
    BY <2>2, <2>3
  <2>5. PlaceOf(k) \in CtdPlaces(RecordOf(k))
    BY <2>2, <2>3, <2>4, <1>0 DEF CtdPlaces
  <2>6. k = numInode + d * numCtd + (1 + r)
    BY <2>1, <2>2, <1>0
  <2> QED
    BY <2>3, <2>4, <2>5, <2>6
<1> QED
  BY <1>1, <1>2

LEMMA RecordsOrdered ==
  ASSUME NEW k \in Nat \ {0}, NEW n \in Nat, k <= n
  PROVE  RecordOf(k) <= RecordOf(n)
<1>0. numInode \in Nat /\ numInode > 0 /\ numCtd \in Nat /\ numCtd > 0
  BY ChainAssumption
<1>1. CASE k <= numInode
  BY <1>1, Place DEF RecordOf
<1>2. CASE ~(k <= numInode)
  <2> DEFINE a == k - numInode - 1
             b == n - numInode - 1
  <2>1. a \in Nat /\ b \in Nat /\ a <= b
    BY <1>0, <1>2
  <2>2. a \div numCtd <= b \div numCtd
    <3> DEFINE p == a \div numCtd
               q == b \div numCtd
               x == a % numCtd
               y == b % numCtd
    <3>1. p \in Nat /\ q \in Nat /\ x \in 0 .. numCtd - 1 /\ y \in 0 .. numCtd - 1
          /\ a = p * numCtd + x /\ b = q * numCtd + y
      BY <2>1, <1>0
    <3>2. q < p => q * numCtd + numCtd <= p * numCtd
      BY <3>1, <1>0
    <3>3. q * numCtd \in Nat /\ p * numCtd \in Nat
      BY <3>1, <1>0
    <3> HIDE DEF p, q, x, y, a, b
    <3>4. p <= q
      BY <3>1, <3>2, <3>3, <2>1, <1>0
    <3> QED
      BY <3>4 DEF p, q
  <2>3. RecordOf(k) = 2 + a \div numCtd /\ RecordOf(n) = 2 + b \div numCtd
    BY <1>2, <1>0 DEF RecordOf
  <2>4. a \div numCtd \in Nat /\ b \div numCtd \in Nat
    BY <2>1, <1>0
  <2> HIDE DEF a, b
  <2> QED
    BY <2>2, <2>3, <2>4
<1> QED
  BY <1>1, <1>2

(* What Longer and WithEntries make: at least as many records, with the    *)
(* entries of the list at their places.                                    *)
LEMMA RestedRecords ==
  ASSUME NEW records, IsChain(records), NEW l \in Seq(Chunk), l # <<>>
  PROVE  LET after == RestInto(records, l)
         IN /\ IsChain(after)
            /\ RecordOf(Len(l) + 1) <= Len(after)
            /\ \A k \in 1 .. Len(l) : after[RecordOf(k)][PlaceOf(k)] = l[k]
<1> DEFINE w == RecordOf(Len(l) + 1)
           n == IF w > Len(records) THEN w ELSE Len(records)
           long == Longer(records, Len(l))
           after == WithEntries(long, l)
<1>0. numInode \in Nat /\ numInode > 0 /\ numCtd \in Nat /\ numCtd > 0
  BY ChainAssumption
<1>1. Len(l) \in Nat \ {0} /\ Len(records) \in Nat /\ w \in Nat \ {0}
  BY LenProperties, EmptySeq, Place DEF IsChain
<1>2. n \in Nat \ {0} /\ w <= n /\ Len(records) <= n
  BY <1>1
<1>3. long = [r \in 1 .. n |-> IF r <= Len(records) THEN records[r] ELSE EmptyRecord(r)]
  BY DEF Longer
<1> HIDE DEF w, n, long
<1>4. ASSUME NEW r \in 1 .. n PROVE long[r] \in [CtdPlaces(r) -> Entries]
  <2>1. CASE r <= Len(records)
    BY <2>1, <1>3 DEF IsChain
  <2>2. CASE ~(r <= Len(records))
    BY <2>2, <1>3 DEF EmptyRecord, Entries
  <2> QED
    BY <2>1, <2>2
<1>5. DOMAIN long = 1 .. n
  BY <1>3
<1> DEFINE Index(r, p) == IF r = 1 THEN p ELSE numInode + (r - 2) * numCtd + p
<1>6. /\ after = [r \in 1 .. n |-> [p \in CtdPlaces(r) |->
                    IF Index(r, p) <= Len(l) THEN l[Index(r, p)] ELSE long[r][p]]]
  BY <1>5 DEF WithEntries
<1>7. ASSUME NEW r \in 1 .. n, NEW p \in CtdPlaces(r)
      PROVE  Index(r, p) \in Nat \ {0}
  <2>1. CASE r = 1
    BY <2>1 DEF CtdPlaces
  <2>2. CASE r # 1
    <3>1. r - 2 \in Nat /\ p \in Nat \ {0}
      BY <2>2, <1>2 DEF CtdPlaces
    <3>2. (r - 2) * numCtd \in Nat
      BY <3>1, <1>0
    <3> QED
      BY <2>2, <3>1, <3>2, <1>0
  <2> QED
    BY <2>1, <2>2
<1> HIDE DEF Index
<1>8. ASSUME NEW r \in 1 .. n PROVE after[r] \in [CtdPlaces(r) -> Entries]
  <2>1. ASSUME NEW p \in CtdPlaces(r)
        PROVE  (IF Index(r, p) <= Len(l) THEN l[Index(r, p)] ELSE long[r][p]) \in Entries
    <3>1. CASE Index(r, p) <= Len(l)
      <4>1. Index(r, p) \in 1 .. Len(l)
        BY <3>1, <1>7, <1>1
      <4>2. l[Index(r, p)] \in Chunk
        BY <4>1, ElementOfSeq
      <4> QED
        BY <3>1, <4>2 DEF Entries
    <3>2. CASE ~(Index(r, p) <= Len(l))
      BY <3>2, <1>4
    <3> QED
      BY <3>1, <3>2
  <2>2. after[r] = [p \in CtdPlaces(r) |->
                      IF Index(r, p) <= Len(l) THEN l[Index(r, p)] ELSE long[r][p]]
    BY <1>6
  <2> HIDE DEF after
  <2> QED
    BY <2>1, <2>2
<1>9. IsChain(after) /\ Len(after) = n
  <2>1. after \in [1 .. n -> Records]
    <3>1. \A r \in 1 .. n : after[r] \in Records
      BY <1>8 DEF Records, CtdPlaces
    <3>2. DOMAIN after = 1 .. n /\ after = [r \in 1 .. n |-> after[r]]
      BY <1>6
    <3> HIDE DEF after
    <3> QED
      BY <3>1, <3>2
  <2> HIDE DEF after
  <2>2. after \in Seq(Records) /\ Len(after) = n
    BY <2>1, <1>2, SeqOf
  <2> QED
    BY <2>2, <1>2, <1>8 DEF IsChain
<1>10. ASSUME NEW k \in 1 .. Len(l) PROVE after[RecordOf(k)][PlaceOf(k)] = l[k]
  <2> DEFINE r == RecordOf(k)
             p == PlaceOf(k)
  <2>1. k \in Nat \ {0} /\ k <= Len(l) + 1 /\ Len(l) + 1 \in Nat
    BY <1>1
  <2>2. r \in Nat \ {0} /\ p \in CtdPlaces(r) /\ Index(r, p) = k
    BY <2>1, Place DEF Index
  <2>3. r <= w
    BY <2>1, RecordsOrdered DEF w
  <2> HIDE DEF r, p
  <2>4. r \in 1 .. n
    BY <2>2, <2>3, <1>1, <1>2
  <2>5. after[r] = [q \in CtdPlaces(r) |->
                      IF Index(r, q) <= Len(l) THEN l[Index(r, q)] ELSE long[r][q]]
    BY <1>6, <2>4
  <2>6. after[r][p] = l[k]
    BY <2>2, <2>5, <1>1
  <2> QED
    BY <2>6 DEF r, p
<1>11. RestInto(records, l) = after
  BY DEF RestInto, long
<1> QED
  BY <1>2, <1>9, <1>10, <1>11 DEF w

LEMMA RestedChain ==
  ASSUME NEW records, IsChain(records), NEW l \in Seq(Chunk)
  PROVE  IsChain(RestInto(records, l))
<1>1. CASE l # <<>>
  BY <1>1, RestedRecords
<1>2. CASE l = <<>>
  <2>1. RestInto(records, l) = [records EXCEPT ![1][1] = NoEntry]
    BY <1>2 DEF RestInto
  <2> DEFINE first == [records[1] EXCEPT ![1] = NoEntry]
             after == [records EXCEPT ![1] = first]
  <2>2. after = [records EXCEPT ![1][1] = NoEntry]
    OBVIOUS
  <2>3. Len(records) \in Nat /\ 1 \in 1 .. Len(records)
    BY LenProperties DEF IsChain
  <2>4. first \in [CtdPlaces(1) -> Entries]
    BY <2>3 DEF IsChain, Entries
  <2>5. first \in Records
    BY <2>4 DEF Records, CtdPlaces
  <2> HIDE DEF first
  <2>6. /\ after \in Seq(Records) /\ Len(after) = Len(records)
        /\ \A r \in 1 .. Len(records) : after[r] = IF r = 1 THEN first ELSE records[r]
    BY <2>3, <2>5, ExceptSeq DEF IsChain
  <2> HIDE DEF after
  <2>7. IsChain(after)
    BY <2>3, <2>4, <2>6 DEF IsChain
  <2> QED
    BY <2>1, <2>2, <2>7
<1> QED
  BY <1>1, <1>2

LEMMA KeptChain ==
  ASSUME NEW records, IsChain(records)
  PROVE  IsChain(Kept(records))
<1> DEFINE after == Kept(records)
           n == Len(records)
<1>1. n \in Nat /\ n >= 1 /\ DOMAIN records = 1 .. n
  BY LenProperties DEF IsChain
<1>2. ASSUME NEW r \in 1 .. n PROVE after[r] \in [CtdPlaces(r) -> Entries]
  <2>1. records[r] \in [CtdPlaces(r) -> Entries]
    BY DEF IsChain
  <2>2. after[r] = [p \in CtdPlaces(r) |->
                      IF records[r][p] = NoEntry THEN NoEntry ELSE Old]
    BY <1>1, <2>1 DEF Kept
  <2> HIDE DEF after
  <2> QED
    BY <2>2 DEF Entries
<1>3. after \in [1 .. n -> Records]
  <2>1. \A r \in 1 .. n : after[r] \in Records
    BY <1>2 DEF Records, CtdPlaces
  <2>2. DOMAIN after = 1 .. n /\ after = [r \in 1 .. n |-> after[r]]
    BY <1>1 DEF Kept
  <2> HIDE DEF after
  <2> QED
    BY <2>1, <2>2
<1> HIDE DEF after
<1>4. after \in Seq(Records) /\ Len(after) = n
  BY <1>1, <1>3, SeqOf
<1>5. IsChain(after)
  BY <1>1, <1>2, <1>4 DEF IsChain
<1> QED
  BY <1>5 DEF after

(* What rest has written is what loadHashes gives back, whatever the       *)
(* records held before.                                                    *)
LEMMA LoadRested ==
  ASSUME NEW records, IsChain(records), NEW l \in Seq(Chunk),
         NEW n \in Nat, n <= Len(l), NEW zero
  PROVE  LoadFrom(RestInto(records, l), n, zero) = [k \in 1 .. n |-> l[k]]
<1> DEFINE after == RestInto(records, l)
           Has(k) == /\ RecordOf(k) <= Len(after)
                     /\ after[RecordOf(k)][PlaceOf(k)] # NoEntry
<1>1. Len(l) \in Nat
  BY LenProperties
<1>2. ASSUME NEW k \in 1 .. n
      PROVE  Has(k) /\ after[RecordOf(k)][PlaceOf(k)] = l[k]
  <2>1. k \in 1 .. Len(l) /\ k \in Nat \ {0} /\ l # <<>>
    BY <1>1, EmptySeq
  <2>2. /\ IsChain(after)
        /\ RecordOf(Len(l) + 1) <= Len(after)
        /\ after[RecordOf(k)][PlaceOf(k)] = l[k]
    BY <2>1, RestedRecords
  <2>3. RecordOf(k) <= RecordOf(Len(l) + 1) /\ RecordOf(k) \in Nat
        /\ RecordOf(Len(l) + 1) \in Nat
    BY <2>1, <1>1, RecordsOrdered, Place
  <2>4. l[k] # NoEntry
    <3>1. l[k] \in Chunk
      BY <2>1, ElementOfSeq
    <3> QED
      BY <3>1, ValuesAssumption DEF Chunk
  <2>5. Len(after) \in Nat
    BY <2>2, LenProperties DEF IsChain
  <2> HIDE DEF after
  <2> QED
    BY <2>2, <2>3, <2>4, <2>5
<1>3. LoadFrom(after, n, zero) =
        [k \in 1 .. n |-> IF \A j \in 1 .. k : Has(j)
                          THEN after[RecordOf(k)][PlaceOf(k)] ELSE zero]
  BY DEF LoadFrom
<1>4. ASSUME NEW k \in 1 .. n PROVE \A j \in 1 .. k : j \in 1 .. n
  OBVIOUS
<1> HIDE DEF after, Has
<1>5. \A k \in 1 .. n : (IF \A j \in 1 .. k : Has(j)
                         THEN after[RecordOf(k)][PlaceOf(k)] ELSE zero) = l[k]
  BY <1>2, <1>4
<1>6. LoadFrom(after, n, zero) = [k \in 1 .. n |-> l[k]]
  BY <1>3, <1>5
<1> QED
  BY <1>6 DEF after

-----------------------------------------------------------------------------
(* The size and the list, from one pc to the next: the list is as long as  *)
(* the size says and as the write has asked for, and its chunks beyond the *)
(* size are zeros.                                                         *)
SizesInv ==
  /\ size \in 0 .. MaxSize
  /\ list \in Seq(Chunk)
  /\ Len(list) <= NumChunks(MaxSize) + 1
  /\ pc \in {"grow_list", "lock_write", "range", "store"} =>
       call.offset + call.size <= size
  /\ pc \in {"lock_write", "range", "store"} => Grown(size, call) <= Len(list)
  /\ pc \notin {"grow_list", "size"} => NumChunks(size) <= Len(list)
  /\ pc = "size" => Len(list) = NumChunks(call.size)
  /\ pc = "return" => size = call.size
  /\ pc # "size" => \A q \in NumChunks(size) + 1 .. Len(list) : list[q] = ZeroChunk

(* The chunks a write is storing: each is the chunk of the list with the   *)
(* bytes of the write put in, also after it has been stored.               *)
StoreInv ==
  /\ hashes \in Seq(Chunk) /\ stored \in 0 .. Len(hashes)
  /\ pc # "store" => hashes = <<>> /\ stored = 0
  /\ pc = "store" =>
       /\ Len(hashes) = NumHashesInWrite(call)
       /\ FirstHash(call) + Len(hashes) <= Len(list)
       /\ \A k \in 1 .. Len(hashes) :
            /\ hashes[k] = Written(call, k, list[FirstHash(call) + k])
            /\ k <= stored => list[FirstHash(call) + k] = hashes[k]

ChainInv == IsChain(chain)

FileInv == ControlInv /\ SizesInv /\ StoreInv /\ ChainInv /\ WritesFit

LEMMA WrittenChunk ==
  ASSUME NEW c \in Calls, c.op = "write", NEW k \in Nat \ {0}, NEW old \in Chunk
  PROVE  /\ Written(c, k, old) \in Chunk
         /\ Written(c, k, Written(c, k, old)) = Written(c, k, old)
<1>1. c.value \in Bytes
  BY Requests
<1> QED
  BY <1>1 DEF Written, Chunk

(* The chunks a write counts, between the list and the file.               *)
LEMMA WriteCounted ==
  ASSUME ControlInv, call # None, call.op = "write"
  PROVE  /\ call \in Calls /\ call.offset \in Nat /\ call.size \in Nat \ {0}
         /\ call.offset + call.size <= MaxSize
         /\ NumHashesInWrite(call) \in Nat \ {0} /\ FirstHash(call) \in Nat
         /\ call.offset + call.size <=
              chunkSize * (FirstHash(call) + NumHashesInWrite(call))
         /\ \A n \in Nat : /\ Grown(n, call) \in Nat
                           /\ NumChunks(n) \in Nat /\ NumChunks(n) <= Grown(n, call)
                           /\ Grown(n, call) <= NumChunks(n) + 1
                           /\ call.offset + call.size <= n =>
                                FirstHash(call) + NumHashesInWrite(call) <= Grown(n, call)
<1>1. /\ call \in Calls /\ call.offset \in Nat /\ call.size \in Nat \ {0}
      /\ call.offset + call.size <= MaxSize
  BY Requests DEF ControlInv
<1>2. \A n \in Nat : /\ NumChunks(n) \in Nat /\ NumChunks(n) <= Grown(n, call)
                     /\ Grown(n, call) <= NumChunks(n) + 1
  <2>1. \A n \in Nat : NumChunks(n) \in Nat
    BY ChunksFor, 0 \in Nat
  <2> QED
    BY <2>1 DEF Grown
<1> QED
  BY <1>1, <1>2, Counted

LEMMA GrowSizeSizes ==
  ASSUME FileInv, ControlInv', GrowSize
  PROVE  SizesInv'
<1>1. /\ pc = "grow_size" /\ pc' = "grow_list" /\ UNCHANGED <<list, call>>
      /\ size' = Greatest(size, call.offset + call.size)
  BY DEF GrowSize
<1>2. call # None /\ call.op = "write"
  BY <1>1 DEF FileInv, ControlInv
<1>3. call.offset \in Nat /\ call.size \in Nat /\ call.offset + call.size <= MaxSize
  BY <1>2, WriteCounted DEF FileInv
<1>4. size \in Nat /\ size <= MaxSize
  BY DEF FileInv, SizesInv
<1>5. size' \in 0 .. MaxSize /\ size <= size' /\ call.offset + call.size <= size'
  BY <1>1, <1>3, <1>4 DEF Greatest
<1>6. NumChunks(size) <= NumChunks(size') /\ NumChunks(size) \in Nat /\ NumChunks(size') \in Nat
  BY <1>4, <1>5, Monotone, ChunksFor
<1>7. Len(list) \in Nat
  BY LenProperties DEF FileInv, SizesInv
<1>8. \A q \in NumChunks(size') + 1 .. Len(list) : list[q] = ZeroChunk
  BY <1>1, <1>6, <1>7 DEF FileInv, SizesInv
<1> QED
  BY <1>1, <1>5, <1>8 DEF FileInv, SizesInv

LEMMA GrowListSizes ==
  ASSUME FileInv, ControlInv', GrowList
  PROVE  SizesInv' /\ (aborted' = aborted \/ aborted' = "file.cpp:701")
<1> DEFINE num == Grown(size, call)
<1>1. /\ pc = "grow_list" /\ pc' = "lock_write" /\ UNCHANGED <<size, call>>
      /\ list' = IF num > Len(list) THEN list \o Zeros(num - Len(list)) ELSE list
      /\ aborted' = IF num < Len(list) THEN "file.cpp:701" ELSE aborted
  BY DEF GrowList, Grown
<1>2. call # None /\ call.op = "write"
  BY <1>1 DEF FileInv, ControlInv
<1>3. size \in Nat /\ size <= MaxSize /\ MaxSize \in Nat
  BY FileAssumption DEF FileInv, SizesInv
<1>4. num \in Nat /\ NumChunks(size) \in Nat
      /\ NumChunks(size) <= num /\ num <= NumChunks(size) + 1
  BY <1>2, <1>3, WriteCounted DEF FileInv
<1>5. NumChunks(size) <= NumChunks(MaxSize) /\ NumChunks(MaxSize) \in Nat
  BY <1>3, Monotone, ChunksFor
<1>6. /\ list \in Seq(Chunk) /\ Len(list) <= NumChunks(MaxSize) + 1
      /\ call.offset + call.size <= size
      /\ \A q \in NumChunks(size) + 1 .. Len(list) : list[q] = ZeroChunk
  BY <1>1 DEF FileInv, SizesInv
<1>7. Len(list) \in Nat
  BY <1>6, LenProperties
<1> HIDE DEF num
<1>8. /\ list' \in Seq(Chunk) /\ num <= Len(list')
      /\ Len(list') <= NumChunks(MaxSize) + 1
      /\ \A q \in NumChunks(size) + 1 .. Len(list') : list'[q] = ZeroChunk
  <2>1. CASE num > Len(list)
    <3>1. /\ list' \in Seq(Chunk) /\ Len(list') = num
          /\ \A k \in 1 .. num : list'[k] = IF k <= Len(list) THEN list[k] ELSE ZeroChunk
      <4>1. Len(list) <= num /\ list' = list \o Zeros(num - Len(list))
        BY <2>1, <1>1, <1>4, <1>7
      <4> QED
        BY <4>1, <1>4, <1>6, Extended
    <3>2. ASSUME NEW q \in NumChunks(size) + 1 .. Len(list')
          PROVE  list'[q] = ZeroChunk
      <4>1. q \in 1 .. num /\ q \in NumChunks(size) + 1 .. num
        BY <3>1, <1>4
      <4>2. CASE q <= Len(list)
        <5>1. q \in NumChunks(size) + 1 .. Len(list)
          BY <4>1, <4>2, <1>4, <1>7
        <5> QED
          BY <5>1, <4>1, <4>2, <3>1, <1>6
      <4>3. CASE ~(q <= Len(list))
        BY <4>1, <4>3, <3>1
      <4> QED
        BY <4>2, <4>3
    <3>3. num <= NumChunks(MaxSize) + 1
      BY <1>4, <1>5
    <3> QED
      BY <3>1, <3>2, <3>3, <1>4
  <2>2. CASE ~(num > Len(list))
    BY <2>2, <1>1, <1>4, <1>6, <1>7
  <2> QED
    BY <2>1, <2>2
<1>9. NumChunks(size) <= Len(list') /\ Len(list') \in Nat
  BY <1>4, <1>8, LenProperties
<1>10. SizesInv'
  <2>1. size' = size /\ call' = call /\ pc' = "lock_write"
    BY <1>1
  <2>2. size' \in 0 .. MaxSize /\ call'.offset + call'.size <= size'
    BY <2>1, <1>3, <1>6
  <2>3. Grown(size', call') <= Len(list') /\ NumChunks(size') <= Len(list')
    BY <2>1, <1>8, <1>9 DEF num
  <2>4. \A q \in NumChunks(size') + 1 .. Len(list') : list'[q] = ZeroChunk
    BY <2>1, <1>8
  <2> QED
    BY <2>1, <2>2, <2>3, <2>4, <1>8 DEF SizesInv
<1> QED
  BY <1>1, <1>10

LEMMA CutSizes ==
  ASSUME FileInv, ControlInv', Cut
  PROVE  SizesInv'
<1> DEFINE num == NumChunks(call.size)
<1>1. /\ pc = "cut" /\ pc' = "size" /\ UNCHANGED <<size, call>>
      /\ list' = IF num < Len(list) THEN SubSeq(list, 1, num)
                 ELSE list \o Zeros(num - Len(list))
  BY DEF Cut
<1>2. call \in Calls /\ call.size \in Nat /\ call.size <= MaxSize /\ MaxSize \in Nat
  BY <1>1, Requests, FileAssumption DEF FileInv, ControlInv
<1>3. num \in Nat /\ num <= NumChunks(MaxSize) /\ NumChunks(MaxSize) \in Nat
  BY <1>2, Monotone, ChunksFor
<1>4. list \in Seq(Chunk) /\ Len(list) \in Nat
  BY LenProperties DEF FileInv, SizesInv
<1> HIDE DEF num
<1>5. list' \in Seq(Chunk) /\ Len(list') = num
  BY <1>1, <1>3, <1>4, Extended, Shortened
<1> QED
  BY <1>1, <1>3, <1>5 DEF FileInv, SizesInv, num

LEMMA ReloadSizes ==
  ASSUME FileInv, ControlInv', Reload
  PROVE  SizesInv' /\ list' = [k \in 1 .. NumChunks(size) |-> list[k]]
<1> DEFINE num == NumChunks(size)
<1>1. /\ pc = "idle" /\ UNCHANGED <<size, call, pc>>
      /\ list' = LoadFrom(RestInto(chain, list), num, ZeroChunk)
  BY DEF Reload, writer, Rested
<1>2. size \in Nat /\ size <= MaxSize /\ MaxSize \in Nat
  BY FileAssumption DEF FileInv, SizesInv
<1>3. num \in Nat /\ num <= NumChunks(MaxSize) /\ NumChunks(MaxSize) \in Nat
  BY <1>2, Monotone, ChunksFor
<1>4. list \in Seq(Chunk) /\ num <= Len(list) /\ Len(list) \in Nat
  BY <1>1, LenProperties DEF FileInv, SizesInv
<1> HIDE DEF num
<1>5. list' = [k \in 1 .. num |-> list[k]]
  BY <1>1, <1>3, <1>4, LoadRested DEF FileInv, ChainInv
<1>6. \A k \in 1 .. num : list[k] \in Chunk
  BY <1>3, <1>4, ElementOfSeq
<1>7. list' \in Seq(Chunk) /\ Len(list') = num
  <2>1. [k \in 1 .. num |-> list[k]] \in [1 .. num -> Chunk]
    BY <1>6
  <2> QED
    BY <2>1, <1>3, <1>5, SeqOf
<1>8. SizesInv'
  BY <1>1, <1>2, <1>3, <1>7 DEF FileInv, SizesInv, num
<1> QED
  BY <1>5, <1>8 DEF num

(* A chunk that begins beyond the places of a write stays as it is.        *)
LEMMA BeyondWrite ==
  ASSUME NEW c \in Calls, c.op = "write", NEW k \in Nat \ {0}, NEW old \in Chunk,
         c.offset + c.size <= chunkSize * (FirstHash(c) + k - 1)
  PROVE  Written(c, k, old) = old
<1> DEFINE base == chunkSize * (FirstHash(c) + k - 1)
<1>1. c.offset \in Nat /\ c.size \in Nat
  BY Requests
<1>2. base \in Nat
  BY <1>1, Parts
<1>3. \A b \in InChunk :
        NewOffset(c, k) <= b /\ b < NewOffset(c, k) + NewSize(c, k)
          <=> c.offset <= base + b /\ base + b < c.offset + c.size
  BY <1>1, PartPlaces
<1>4. c.offset + c.size <= base
  OBVIOUS
<1> HIDE DEF base
<1>5. ASSUME NEW b \in InChunk
      PROVE  ~(NewOffset(c, k) <= b /\ b < NewOffset(c, k) + NewSize(c, k))
  <2>1. b \in Nat
    BY FileAssumption DEF InChunk
  <2> QED
    BY <2>1, <1>1, <1>2, <1>3, <1>4
<1>6. Written(c, k, old) = [b \in InChunk |-> old[b]]
  BY <1>5 DEF Written
<1> QED
  BY <1>6 DEF Chunk

LEMMA MakeChunksStores ==
  ASSUME FileInv, ControlInv', MakeChunks
  PROVE  StoreInv' /\ aborted' = aborted
<1> DEFINE first == FirstHash(call)
           num == NumHashesInWrite(call)
           made == [k \in 1 .. num |-> Written(call, k, list[first + k])]
<1>1. /\ pc = "range" /\ pc' = "store" /\ stored' = 0 /\ UNCHANGED <<list, call>>
  BY DEF MakeChunks
<1>2. call # None /\ call.op = "write"
  BY <1>1 DEF FileInv, ControlInv
<1>3. /\ call \in Calls /\ call.offset \in Nat /\ call.size \in Nat \ {0}
      /\ num \in Nat \ {0} /\ first \in Nat
      /\ call.offset + call.size <= chunkSize * (first + num)
  BY <1>2, WriteCounted DEF FileInv
<1>4. /\ size \in Nat /\ call.offset + call.size <= size /\ Grown(size, call) <= Len(list)
      /\ list \in Seq(Chunk)
  BY <1>1, FileAssumption DEF FileInv, SizesInv
<1>5. first + num <= Len(list) /\ Len(list) \in Nat
  <2>1. first + num <= Grown(size, call) /\ Grown(size, call) \in Nat
    BY <1>2, <1>4, WriteCounted DEF FileInv
  <2>2. Len(list) \in Nat
    BY <1>4, LenProperties
  <2> HIDE DEF first, num
  <2> QED
    BY <2>1, <2>2, <1>3, <1>4
<1>6. ~(first + num > Len(list))
  <2> HIDE DEF first, num
  <2> QED
    BY <1>3, <1>5
<1>7. ~(Given(call, num) + NewSize(call, num) < call.size)
  <2> DEFINE base == chunkSize * (first + num - 1)
  <2>1. chunkSize * (first + num) = base + chunkSize
    BY <1>3, Parts
  <2>2. /\ Given(call, num) + NewSize(call, num) >= call.size
             <=> call.offset + call.size <= base + chunkSize
        /\ Given(call, num) \in Nat /\ NewSize(call, num) \in Nat
    BY <1>3, PartPlaces
  <2>3. call.offset + call.size <= base + chunkSize
    BY <2>1, <1>3
  <2> HIDE DEF base, num, first
  <2> QED
    BY <2>2, <2>3, <1>3
<1>8. hashes' = made /\ aborted' = aborted
  BY <1>6, <1>7 DEF MakeChunks
<1>9. ASSUME NEW k \in 1 .. num PROVE list[first + k] \in Chunk /\ k \in Nat \ {0}
  <2> HIDE DEF first, num
  <2>1. first + k \in 1 .. Len(list)
    BY <1>3, <1>5
  <2> QED
    BY <2>1, <1>3, <1>4, ElementOfSeq
<1>10. made \in [1 .. num -> Chunk]
  BY <1>2, <1>3, <1>9, WrittenChunk
<1>11. made \in Seq(Chunk) /\ Len(made) = num /\ num \in Nat
  <2> HIDE DEF made, num
  <2> QED
    BY <1>10, <1>3, SeqOf
<1>12. \A k \in 1 .. num : made[k] = Written(call, k, list[first + k]) /\ ~(k <= 0)
  BY <1>3
<1>13. call' = call /\ list' = list /\ hashes' = made /\ stored' = 0 /\ pc' = "store"
  BY <1>1, <1>8
<1> HIDE DEF made
<1>14. StoreInv'
  <2>1. hashes' \in Seq(Chunk) /\ stored' \in 0 .. Len(hashes')
    BY <1>11, <1>13
  <2>2. Len(hashes') = NumHashesInWrite(call') /\ FirstHash(call') + Len(hashes') <= Len(list')
    BY <1>5, <1>11, <1>13
  <2>3. ASSUME NEW k \in 1 .. Len(hashes')
        PROVE  /\ hashes'[k] = Written(call', k, list'[FirstHash(call') + k])
               /\ k <= stored' => list'[FirstHash(call') + k] = hashes'[k]
    BY <1>11, <1>12, <1>13
  <2> QED
    BY <2>1, <2>2, <2>3, <1>13 DEF StoreInv
<1> QED
  BY <1>8, <1>14

(* What one step of updateRange does to the list.                          *)
LEMMA StoreStep ==
  ASSUME FileInv, Store
  PROVE  LET k == stored + 1
             p == FirstHash(call) + k
         IN /\ call \in Calls /\ call.op = "write"
            /\ k \in 1 .. Len(hashes) /\ p \in 1 .. Len(list)
            /\ list[p] \in Chunk /\ hashes[k] = Written(call, k, list[p])
            /\ hashes[k] \in Chunk
            /\ list' \in Seq(Chunk) /\ Len(list') = Len(list)
            /\ \A j \in 1 .. Len(list) : list'[j] = IF j = p THEN hashes[k] ELSE list[j]
            /\ FirstHash(call) \in Nat /\ Len(list) \in Nat /\ Len(hashes) \in Nat
<1> DEFINE k == stored + 1
           first == FirstHash(call)
           p == first + k
<1>1. /\ pc = "store" /\ stored < Len(hashes)
      /\ list' = [list EXCEPT ![FirstHash(call) + stored + 1] = hashes[stored + 1]]
  BY DEF Store
<1>2. call # None /\ call.op = "write" /\ call \in Calls
  BY <1>1 DEF FileInv, ControlInv
<1>3. first \in Nat
  BY <1>2, WriteCounted DEF FileInv
<1>4. /\ hashes \in Seq(Chunk) /\ stored \in 0 .. Len(hashes) /\ list \in Seq(Chunk)
      /\ first + Len(hashes) <= Len(list)
      /\ \A j \in 1 .. Len(hashes) : hashes[j] = Written(call, j, list[first + j])
  BY <1>1 DEF FileInv, StoreInv, SizesInv
<1>5. Len(list) \in Nat /\ Len(hashes) \in Nat
  BY <1>4, LenProperties
<1> HIDE DEF first
<1>6. k \in 1 .. Len(hashes) /\ p \in 1 .. Len(list) /\ first + stored + 1 = p
  BY <1>1, <1>3, <1>4, <1>5
<1>7. list[p] \in Chunk /\ hashes[k] \in Chunk
  <2> HIDE DEF p, k
  <2> QED
    BY <1>4, <1>6, ElementOfSeq
<1>8. hashes[k] = Written(call, k, list[p])
  BY <1>4, <1>6
<1>9. list' = [list EXCEPT ![p] = hashes[k]]
  BY <1>1, <1>6 DEF first
<1> HIDE DEF p, k
<1>10. /\ list' \in Seq(Chunk) /\ Len(list') = Len(list)
       /\ \A j \in 1 .. Len(list) : list'[j] = IF j = p THEN hashes[k] ELSE list[j]
  BY <1>4, <1>6, <1>7, <1>9, ExceptSeq
<1> QED
  BY <1>2, <1>3, <1>5, <1>6, <1>7, <1>8, <1>10 DEF p, k, first

LEMMA StoreSizes ==
  ASSUME FileInv, ControlInv', Store
  PROVE  SizesInv' /\ StoreInv'
<1> DEFINE k == stored + 1
           first == FirstHash(call)
           p == first + k
<1>1. /\ pc = "store" /\ stored < Len(hashes) /\ stored' = k
      /\ UNCHANGED <<size, call, pc, hashes>>
  BY DEF Store
<1>2. /\ call \in Calls /\ call.op = "write"
      /\ k \in 1 .. Len(hashes) /\ p \in 1 .. Len(list)
      /\ list[p] \in Chunk /\ hashes[k] = Written(call, k, list[p])
      /\ hashes[k] \in Chunk
      /\ list' \in Seq(Chunk) /\ Len(list') = Len(list)
      /\ \A j \in 1 .. Len(list) : list'[j] = IF j = p THEN hashes[k] ELSE list[j]
      /\ first \in Nat /\ Len(list) \in Nat /\ Len(hashes) \in Nat
  BY StoreStep
<1>3. /\ size \in Nat /\ call.offset + call.size <= size
      /\ \A q \in NumChunks(size) + 1 .. Len(list) : list[q] = ZeroChunk
      /\ first + Len(hashes) <= Len(list) /\ stored \in 0 .. Len(hashes)
      /\ hashes \in Seq(Chunk)
      /\ \A j \in 1 .. Len(hashes) : /\ hashes[j] = Written(call, j, list[first + j])
                                     /\ j <= stored => list[first + j] = hashes[j]
  BY <1>1, FileAssumption DEF FileInv, SizesInv, StoreInv
<1>4. NumChunks(size) \in Nat
  BY <1>3, ChunksFor, 0 \in Nat
<1> HIDE DEF first
<1>5. ASSUME NEW q \in NumChunks(size) + 1 .. Len(list) PROVE list'[q] = ZeroChunk
  <2>1. q \in 1 .. Len(list) /\ list[q] = ZeroChunk
    BY <1>2, <1>3, <1>4
  <2>2. CASE q = p
    <3>1. first + k - 1 \in Nat /\ NumChunks(size) <= first + k - 1 /\ k \in Nat \ {0}
      BY <2>2, <1>2, <1>4
    <3>2. size <= chunkSize * (first + k - 1)
      BY <3>1, <1>3, ChunksFor
    <3>3. call.offset + call.size <= chunkSize * (first + k - 1)
      <4>1. call.offset \in Nat /\ call.size \in Nat
        BY <1>2, Requests
      <4> DEFINE a == first + k - 1
      <4>2. a \in Int
        BY <3>1
      <4> HIDE DEF a
      <4>3. chunkSize * a \in Int
        BY <4>2, Products
      <4>4. size <= chunkSize * a
        BY <3>2 DEF a
      <4>5. call.offset + call.size <= chunkSize * a
        BY <4>1, <4>3, <4>4, <1>3
      <4> QED
        BY <4>5 DEF a
    <3>4. Written(call, k, list[p]) = list[p]
      BY <3>1, <3>3, <1>2, BeyondWrite DEF first
    <3> QED
      BY <3>4, <2>1, <2>2, <1>2
  <2>3. CASE q # p
    BY <2>1, <2>3, <1>2
  <2> QED
    BY <2>2, <2>3
<1>6. SizesInv'
  <2>1. size' = size /\ call' = call /\ pc' = "store" /\ Len(list') = Len(list)
    BY <1>1, <1>2
  <2>2. /\ size \in 0 .. MaxSize /\ Len(list) <= NumChunks(MaxSize) + 1
        /\ call.offset + call.size <= size /\ Grown(size, call) <= Len(list)
        /\ NumChunks(size) <= Len(list)
    BY <1>1 DEF FileInv, SizesInv
  <2> QED
    BY <2>1, <2>2, <1>2, <1>5 DEF SizesInv
<1>7. ASSUME NEW j \in 1 .. Len(hashes)
      PROVE  /\ hashes[j] = Written(call, j, list'[first + j])
             /\ j <= k => list'[first + j] = hashes[j]
  <2>1. first + j \in 1 .. Len(list) /\ j \in Nat \ {0}
    BY <1>2, <1>3
  <2>2. CASE j = k
    <3>1. list'[first + j] = hashes[j]
      BY <2>1, <2>2, <1>2
    <3>2. hashes[j] = Written(call, j, hashes[j])
      <4>1. k \in Nat \ {0}
        BY <2>1, <2>2
      <4> HIDE DEF k, p
      <4>2. Written(call, k, Written(call, k, list[p])) = Written(call, k, list[p])
        BY <4>1, <1>2, WrittenChunk
      <4> QED
        BY <4>2, <2>2, <1>2
    <3> QED
      BY <3>1, <3>2
  <2>3. CASE j # k
    <3>1. first + j # p /\ (j <= k => j <= stored)
      BY <2>1, <2>3, <1>2, <1>3
    <3>2. list'[first + j] = list[first + j]
      BY <2>1, <3>1, <1>2
    <3> QED
      BY <3>1, <3>2, <1>3
  <2> QED
    BY <2>2, <2>3
<1>8. StoreInv'
  <2>1. /\ hashes' = hashes /\ call' = call /\ pc' = "store" /\ stored' = k
        /\ Len(list') = Len(list)
    BY <1>1, <1>2
  <2>2. Len(hashes) = NumHashesInWrite(call)
    BY <1>1 DEF FileInv, StoreInv
  <2>3. k \in 0 .. Len(hashes)
    BY <1>2
  <2> HIDE DEF k
  <2> QED
    BY <2>1, <2>2, <2>3, <1>3, <1>7 DEF StoreInv, first
<1> QED
  BY <1>6, <1>8

LEMMA FileInit ==
  ASSUME Init
  PROVE  FileInv
<1> USE DEF Init
<1>1. ControlInv /\ WritesFit
  BY DEF ControlInv, WritesFit
<1>2. <<>> \in Seq(Chunk) /\ Len(<<>>) = 0
  BY EmptySeq
<1>3. NumChunks(MaxSize) \in Nat /\ NumChunks(0) <= 0 /\ NumChunks(0) \in Nat
  BY ChunksFor, FileAssumption, 0 \in Nat
<1>4. SizesInv
  <2>1. size = 0 /\ list = <<>> /\ pc = "idle"
    OBVIOUS
  <2> QED
    BY <2>1, <1>2, <1>3, FileAssumption DEF SizesInv
<1>5. StoreInv
  BY <1>2 DEF StoreInv
<1>6. ChainInv
  <2> DEFINE first == EmptyRecord(1)
  <2>1. chain = <<first>>
    BY DEF NewChain
  <2>2. first \in [CtdPlaces(1) -> Entries]
    BY DEF EmptyRecord, Entries
  <2>3. first \in Records
    BY <2>2 DEF CtdPlaces, Records
  <2> HIDE DEF first
  <2> QED
    BY <2>1, <2>2, <2>3 DEF ChainInv, IsChain
<1> QED
  BY <1>1, <1>4, <1>5, <1>6 DEF FileInv

(* Steps that leave the file as it is, and may move the call.              *)
LEMMA FileStays ==
  ASSUME FileInv, ControlInv', UNCHANGED <<size, list, hashes, stored>>,
         \/ UNCHANGED <<call, pc>>
         \/ pc = "idle" /\ pc' \in {"grow_size", "lock_truncate"}
         \/ pc = "lock_write" /\ pc' = "range" /\ UNCHANGED call
         \/ pc = "lock_truncate" /\ pc' = "cut" /\ UNCHANGED call
         \/ pc = "return" /\ pc' = "idle"
  PROVE  SizesInv' /\ StoreInv'
<1> USE DEF FileInv
<1>1. SizesInv'
  BY DEF SizesInv
<1>2. StoreInv'
  BY DEF StoreInv
<1> QED
  BY <1>1, <1>2

LEMMA ChainStep ==
  ASSUME FileInv, [Next]_vars
  PROVE  ChainInv'
<1>1. IsChain(chain) /\ list \in Seq(Chunk)
  BY DEF FileInv, ChainInv, SizesInv
<1>2. CASE UNCHANGED chain
  BY <1>1, <1>2 DEF ChainInv
<1>3. CASE chain' = Kept(Rested)
  BY <1>1, <1>3, RestedChain, KeptChain DEF ChainInv, Rested
<1>4. UNCHANGED chain \/ chain' = Kept(Rested)
  BY DEF Next, Call, Write, GrowSize, GrowList, LockWrite, MakeChunks, Store, Return, Truncate,
         LockTruncate, Cut, SetSize, Close, Reload, Reading, Read, LockRead, Fetch, EndRead,
         vars
<1> QED
  BY <1>2, <1>3, <1>4

(* The file, whatever is done to it: its invariant holds in every step.    *)
LEMMA FileStep ==
  ASSUME FileInv, ControlInv', [Next]_vars
  PROVE  FileInv'
<1>1. ChainInv'
  BY ChainStep
<1>2. CASE Call
  <2>1. SizesInv' /\ StoreInv'
    <3>1. pc = "idle" /\ pc' \in {"grow_size", "lock_truncate"}
          /\ UNCHANGED <<size, list, hashes, stored>>
      BY <1>2 DEF Call
    <3> QED
      BY <3>1, FileStays
  <2> QED
    BY <2>1, <1>1, <1>2 DEF FileInv, Call, WritesFit
<1>3. CASE GrowSize
  <2>1. StoreInv'
    BY <1>3 DEF GrowSize, FileInv, StoreInv
  <2> QED
    BY <2>1, <1>1, <1>3, GrowSizeSizes DEF FileInv, GrowSize, WritesFit
<1>4. CASE GrowList
  <2>1. StoreInv'
    BY <1>4 DEF GrowList, FileInv, StoreInv
  <2> QED
    BY <2>1, <1>1, <1>4, GrowListSizes DEF FileInv, WritesFit
<1>5. CASE LockWrite
  <2>1. SizesInv' /\ StoreInv'
    BY <1>5, FileStays DEF LockWrite
  <2> QED
    BY <2>1, <1>1, <1>5 DEF FileInv, LockWrite, WritesFit
<1>6. CASE MakeChunks
  <2>1. SizesInv'
    BY <1>6 DEF MakeChunks, FileInv, SizesInv
  <2> QED
    BY <2>1, <1>1, <1>6, MakeChunksStores DEF FileInv, WritesFit
<1>7. CASE Store
  BY <1>1, <1>7, StoreSizes DEF FileInv, Store, WritesFit
<1>8. CASE Return
  <2>1. /\ UNCHANGED <<size, list, aborted>> /\ pc' = "idle" /\ pc \in {"store", "return"}
        /\ hashes' = <<>> /\ stored' = 0
    BY <1>8 DEF Return
  <2>2. SizesInv'
    BY <2>1 DEF FileInv, SizesInv
  <2>3. StoreInv'
    BY <2>1, EmptySeq DEF StoreInv
  <2> QED
    BY <2>1, <2>2, <2>3, <1>1 DEF FileInv, WritesFit
<1>9. CASE LockTruncate
  <2>1. SizesInv' /\ StoreInv'
    BY <1>9, FileStays DEF LockTruncate
  <2> QED
    BY <2>1, <1>1, <1>9 DEF FileInv, LockTruncate, WritesFit
<1>10. CASE Cut
  <2>1. StoreInv'
    BY <1>10 DEF Cut, FileInv, StoreInv
  <2> QED
    BY <2>1, <1>1, <1>10, CutSizes DEF FileInv, Cut, WritesFit
<1>11. CASE SetSize
  <2>1. /\ pc = "size" /\ pc' = "return" /\ size' = call.size
        /\ UNCHANGED <<list, call, hashes, stored, aborted>>
    BY <1>11 DEF SetSize
  <2>2. StoreInv'
    BY <2>1 DEF FileInv, StoreInv
  <2>3. SizesInv'
    <3>1. call \in Calls /\ call.size \in 0 .. MaxSize
      BY <2>1, Requests, FileAssumption DEF FileInv, ControlInv
    <3>2. Len(list) = NumChunks(call.size) /\ Len(list) \in Nat
      BY <2>1, LenProperties DEF FileInv, SizesInv
    <3>3. \A q \in NumChunks(size') + 1 .. Len(list') : list'[q] = ZeroChunk
      BY <2>1, <3>2
    <3>4. NumChunks(size') <= Len(list')
      BY <2>1, <3>2
    <3> QED
      BY <2>1, <3>1, <3>3, <3>4 DEF FileInv, SizesInv
  <2> QED
    BY <2>1, <2>2, <2>3, <1>1 DEF FileInv, WritesFit
<1>12. CASE Close
  <2>1. SizesInv' /\ StoreInv'
    BY <1>12, FileStays DEF Close, writer
  <2> QED
    BY <2>1, <1>1, <1>12 DEF FileInv, Close, WritesFit
<1>13. CASE Reload
  <2>1. StoreInv'
    BY <1>13 DEF Reload, writer, FileInv, StoreInv
  <2> QED
    BY <2>1, <1>1, <1>13, ReloadSizes DEF FileInv, Reload, WritesFit
<1>14. CASE Reading \/ UNCHANGED vars
  <2>1. UNCHANGED <<size, list, call, pc, hashes, stored, aborted>>
    BY <1>14 DEF Reading, Read, LockRead, Fetch, EndRead, writer, vars
  <2>2. SizesInv' /\ StoreInv'
    BY <2>1, FileStays
  <2> QED
    BY <2>1, <2>2, <1>1 DEF FileInv, WritesFit
<1> QED
  BY <1>2, <1>3, <1>4, <1>5, <1>6, <1>7, <1>8, <1>9, <1>10, <1>11, <1>12, <1>13, <1>14
     DEF Next, Write, Truncate

THEOREM FileInvariant == Spec => []FileInv
<1>1. Init => FileInv
  BY FileInit
<1>2. FileInv /\ ControlInv' /\ [Next]_vars => FileInv'
  BY FileStep
<1>3. Spec => []ControlInv
  BY Control
<1> QED
  BY <1>1, <1>2, <1>3, PTL DEF Spec

-----------------------------------------------------------------------------
(* A write at any offset and of any size finds the chunks it counts, and   *)
(* they take all of its bytes: the assertions at file.cpp:717 and 746 of   *)
(* writeInner never fail.                                                  *)
THEOREM WritesAlwaysFit == Spec => []WritesFit
<1>1. FileInv => WritesFit
  BY DEF FileInv
<1> QED
  BY <1>1, FileInvariant, PTL

(* Whatever the inode records held before, the list of hashes that rest    *)
(* has written is the one loadHashes gives back.                           *)
THEOREM ChainIsTheList == Spec => []ChainKeepsList
<1>1. FileInv => ChainKeepsList
  <2> SUFFICES ASSUME FileInv, pc = "idle"
               PROVE  LoadFrom(Rested, NumChunks(size), ZeroChunk) =
                        [k \in 1 .. NumChunks(size) |->
                           IF k <= Len(list) THEN list[k] ELSE ZeroChunk]
    BY DEF ChainKeepsList
  <2> DEFINE n == NumChunks(size)
  <2>1. size \in Nat /\ list \in Seq(Chunk) /\ n <= Len(list) /\ IsChain(chain)
    BY FileAssumption DEF FileInv, SizesInv, ChainInv
  <2>2. n \in Nat /\ Len(list) \in Nat
    BY <2>1, ChunksFor, LenProperties, 0 \in Nat
  <2> HIDE DEF n
  <2>3. LoadFrom(Rested, n, ZeroChunk) = [k \in 1 .. n |-> list[k]]
    BY <2>1, <2>2, LoadRested DEF Rested
  <2>4. \A k \in 1 .. n : k <= Len(list)
    BY <2>1, <2>2
  <2>5. LoadFrom(Rested, n, ZeroChunk) =
          [k \in 1 .. n |-> IF k <= Len(list) THEN list[k] ELSE ZeroChunk]
    BY <2>3, <2>4
  <2> QED
    BY <2>5 DEF n
<1> QED
  BY <1>1, FileInvariant, PTL

-----------------------------------------------------------------------------
(* The bytes a list of chunks stands for.                                  *)
ByteIn(l, i) ==
  LET p == i \div chunkSize + 1
  IN IF p <= Len(l) THEN l[p][i % chunkSize] ELSE NUL

AllPlaces == 0 .. MaxSize - 1

LEMMA BytesOfList ==
  /\ bytes = [i \in AllPlaces |-> ByteIn(list, i)]
  /\ bytes' = [i \in AllPlaces |-> ByteIn(list', i)]
  /\ \A i : ByteAt(i) = ByteIn(list, i)
  BY DEF bytes, ByteAt, ByteIn, AllPlaces

LEMMA SameList ==
  UNCHANGED list => UNCHANGED bytes
  BY DEF bytes, ByteAt

LEMMA ChunkOf ==
  ASSUME NEW i \in Nat
  PROVE  /\ i \div chunkSize \in Nat /\ i % chunkSize \in InChunk
         /\ chunkSize * (i \div chunkSize) \in Nat
         /\ i = chunkSize * (i \div chunkSize) + (i % chunkSize)
         /\ chunkSize * (i \div chunkSize) <= i
<1> DEFINE q == i \div chunkSize
           r == i % chunkSize
           s == chunkSize * q
<1>1. q \in Nat /\ r \in InChunk /\ i = s + r
  BY Division
<1>2. s \in Nat
  BY <1>1, Bases
<1>3. r \in Nat
  BY <1>1, FileAssumption DEF InChunk
<1> HIDE DEF s
<1>4. s <= i
  BY <1>1, <1>2, <1>3
<1> QED
  BY <1>1, <1>2, <1>4 DEF s

(* Chunks of zeros at the end of a list are no bytes.                      *)
LEMMA ZeroTail ==
  ASSUME NEW s \in Seq(Chunk), NEW t \in Seq(Chunk), Len(s) <= Len(t),
         \A k \in 1 .. Len(s) : t[k] = s[k],
         \A k \in Len(s) + 1 .. Len(t) : t[k] = ZeroChunk,
         NEW i \in Nat
  PROVE  ByteIn(t, i) = ByteIn(s, i)
<1> DEFINE p == i \div chunkSize + 1
<1>1. p \in Nat \ {0} /\ i % chunkSize \in InChunk /\ Len(s) \in Nat /\ Len(t) \in Nat
  <2>1. i \div chunkSize \in Nat /\ i % chunkSize \in InChunk
    BY ChunkOf
  <2>2. Len(s) \in Nat /\ Len(t) \in Nat
    BY LenProperties
  <2> QED
    BY <2>1, <2>2
<1>2. CASE p <= Len(s)
  BY <1>1, <1>2 DEF ByteIn
<1>3. CASE ~(p <= Len(s)) /\ p <= Len(t)
  <2>1. t[p] = ZeroChunk
    BY <1>1, <1>3
  <2> QED
    BY <2>1, <1>1, <1>3 DEF ByteIn, ZeroChunk
<1>4. CASE ~(p <= Len(t))
  <2>1. ~(p <= Len(s))
    BY <1>1, <1>4
  <2> QED
    BY <1>4, <2>1 DEF ByteIn
<1> QED
  BY <1>2, <1>3, <1>4

(* A list that is cut keeps every byte below the size it is cut to.        *)
LEMMA CutBytes ==
  ASSUME NEW s \in Seq(Chunk), NEW m \in Nat, NEW t \in Seq(Chunk),
         Len(t) = NumChunks(m), NumChunks(m) <= Len(s),
         \A k \in 1 .. Len(t) : t[k] = s[k],
         NEW i \in Nat
  PROVE  ByteIn(t, i) = ByteIn(s, i) \/ (m <= i /\ ByteIn(t, i) = NUL)
<1> DEFINE q == i \div chunkSize
           z == chunkSize * q
<1>1. q \in Nat /\ z \in Nat /\ z <= i /\ Len(s) \in Nat /\ Len(t) \in Nat
  BY ChunkOf, LenProperties
<1>2. CASE q + 1 <= Len(t)
  <2>1. q + 1 <= Len(s) /\ t[q + 1] = s[q + 1]
    BY <1>1, <1>2
  <2> QED
    BY <1>2, <2>1 DEF ByteIn
<1>3. CASE ~(q + 1 <= Len(t))
  <2>1. NumChunks(m) <= q
    BY <1>1, <1>3
  <2>2. m <= z
    BY <2>1, <1>1, ChunksFor
  <2>3. m <= i
    <3> HIDE DEF z
    <3> QED
      BY <2>2, <1>1
  <2> QED
    BY <1>3, <2>3 DEF ByteIn
<1> QED
  BY <1>2, <1>3

(* A chunk a write has made holds, at each of its places, the byte of the  *)
(* write if the write covers the place, and the old one if not.            *)
LEMMA WrittenBytes ==
  ASSUME NEW c \in Calls, c.op = "write", NEW i \in Nat, NEW old,
         i \div chunkSize + 1 > FirstHash(c)
  PROVE  LET k == i \div chunkSize + 1 - FirstHash(c)
         IN /\ k \in Nat \ {0}
            /\ Written(c, k, old)[i % chunkSize] =
                 IF c.offset <= i /\ i < c.offset + c.size THEN c.value
                 ELSE old[i % chunkSize]
<1> DEFINE q == i \div chunkSize
           f == FirstHash(c)
           k == q + 1 - f
           b == i % chunkSize
           base == chunkSize * q
<1>1. /\ q \in Nat /\ b \in InChunk /\ i = base + b
      /\ c.offset \in Nat /\ c.size \in Nat
  BY ChunkOf, Requests
<1>2. f \in Nat
  BY <1>1, Parts, 1 \in Nat \ {0}
<1>3. k \in Nat \ {0} /\ f + k - 1 = q
  <2> HIDE DEF f, q
  <2> QED
    BY <1>1, <1>2 DEF f, q
<1>4. base = chunkSize * (FirstHash(c) + k - 1)
  BY <1>3
<1> HIDE DEF k, base
<1>5. NewOffset(c, k) <= b /\ b < NewOffset(c, k) + NewSize(c, k)
        <=> c.offset <= base + b /\ base + b < c.offset + c.size
  BY <1>1, <1>3, <1>4, PartPlaces
<1>6. Written(c, k, old)[b] =
        IF c.offset <= i /\ i < c.offset + c.size THEN c.value ELSE old[b]
  BY <1>1, <1>5 DEF Written
<1> QED
  BY <1>3, <1>6 DEF k, q, f, b

(* What each step makes of the bytes. They change where the write in       *)
(* progress covers them, or to NUL where the truncation in progress cuts.  *)
LEMMA StoreBytes ==
  ASSUME FileInv, Store, NEW i \in AllPlaces
  PROVE  \/ ByteIn(list', i) = ByteIn(list, i)
         \/ /\ call.op = "write" /\ call.offset <= i /\ i < call.offset + call.size
            /\ ByteIn(list', i) = call.value
<1> DEFINE k == stored + 1
           first == FirstHash(call)
           p == first + k
           q == i \div chunkSize + 1
<1>1. /\ call \in Calls /\ call.op = "write"
      /\ k \in 1 .. Len(hashes) /\ p \in 1 .. Len(list)
      /\ list[p] \in Chunk /\ hashes[k] = Written(call, k, list[p])
      /\ Len(list') = Len(list)
      /\ \A j \in 1 .. Len(list) : list'[j] = IF j = p THEN hashes[k] ELSE list[j]
      /\ first \in Nat /\ Len(list) \in Nat /\ Len(hashes) \in Nat
  BY StoreStep
<1>2. i \in Nat /\ q \in Nat \ {0}
  <2>1. i \in Nat
    BY FileAssumption DEF AllPlaces
  <2> QED
    BY <2>1, ChunkOf
<1> HIDE DEF first
<1>3. CASE q = p
  <2>1. q > first /\ q - first = k
    BY <1>1, <1>3
  <2>2. Written(call, k, list[p])[i % chunkSize] =
          IF call.offset <= i /\ i < call.offset + call.size THEN call.value
          ELSE list[p][i % chunkSize]
    <3>1. i \div chunkSize + 1 > FirstHash(call)
          /\ i \div chunkSize + 1 - FirstHash(call) = k
      <4> HIDE DEF k, q
      <4>1. q > FirstHash(call) /\ q - FirstHash(call) = k
        BY <2>1 DEF first
      <4>2. i \div chunkSize + 1 = q
        BY DEF q
      <4>3. i \div chunkSize \in Nat /\ FirstHash(call) \in Nat
        BY <1>1, <1>2, ChunkOf DEF first
      <4> QED
        BY <4>1, <4>2, <4>3
    <3> HIDE DEF k, p
    <3>2. Written(call, i \div chunkSize + 1 - FirstHash(call), list[p])[i % chunkSize] =
            IF call.offset <= i /\ i < call.offset + call.size THEN call.value
            ELSE list[p][i % chunkSize]
      BY <3>1, <1>1, <1>2, WrittenBytes
    <3> QED
      BY <3>1, <3>2
  <2>3. ByteIn(list', i) = Written(call, k, list[p])[i % chunkSize]
        /\ ByteIn(list, i) = list[p][i % chunkSize]
    BY <1>1, <1>3 DEF ByteIn
  <2> QED
    BY <2>2, <2>3, <1>1
<1>4. CASE q # p
  <2>1. CASE q <= Len(list)
    <3>1. list'[q] = list[q]
      BY <2>1, <1>1, <1>2, <1>4
    <3> QED
      BY <3>1, <1>1 DEF ByteIn
  <2>2. CASE ~(q <= Len(list))
    BY <2>2, <1>1 DEF ByteIn
  <2> QED
    BY <2>1, <2>2
<1> QED
  BY <1>3, <1>4

(* When all of its chunks are stored, the places of a write hold its bytes.*)
LEMMA StoredBytes ==
  ASSUME FileInv, pc = "store", stored = Len(hashes), NEW i \in AllPlaces,
         call.offset <= i, i < call.offset + call.size
  PROVE  ByteIn(list, i) = call.value
<1> DEFINE f == FirstHash(call)
           num == NumHashesInWrite(call)
           q == i \div chunkSize
           k == q + 1 - f
<1>1. call # None /\ call.op = "write" /\ call \in Calls
  BY DEF FileInv, ControlInv
<1>2. /\ call.offset \in Nat /\ call.size \in Nat \ {0} /\ f \in Nat /\ num \in Nat \ {0}
      /\ call.offset + call.size <= chunkSize * (f + num)
  BY <1>1, WriteCounted DEF FileInv
<1>3. /\ i \in Nat /\ q \in Nat /\ chunkSize * q \in Nat /\ chunkSize * q <= i
      /\ i < chunkSize * q + chunkSize
  <2>1. i \in Nat
    BY FileAssumption DEF AllPlaces
  <2>2. i \div chunkSize = q
    OBVIOUS
  <2>3. q \in Nat /\ chunkSize * q \in Nat
    BY <2>1, ChunkOf
  <2> QED
    BY <2>1, <2>2, <2>3, ChunkAt
<1>4. f <= q
  <2>1. chunkSize * f <= call.offset /\ chunkSize * f \in Nat
    <3>1. call.offset \div chunkSize = f
      BY DEF FirstHash
    <3>2. chunkSize * f \in Nat
      BY <1>2, Bases
    <3> QED
      BY <3>1, <3>2, <1>2, ChunkAt
  <2>2. q < f => chunkSize * q + chunkSize <= chunkSize * f
    BY <1>2, <1>3, Products
  <2> DEFINE a == chunkSize * f
             b == chunkSize * q
             o == call.offset
  <2>3. a <= o /\ a \in Nat /\ (q < f => b + chunkSize <= a) /\ b \in Nat
        /\ i < b + chunkSize /\ o <= i /\ o \in Nat /\ i \in Nat /\ chunkSize \in Nat
    BY <2>1, <2>2, <1>2, <1>3, FileAssumption
  <2> HIDE DEF a, b, o, f, q
  <2>4. ~(q < f)
    BY <2>3
  <2> QED
    BY <2>4, <1>2, <1>3
<1>5. q < f + num
  <2> DEFINE a == chunkSize * (f + num)
             b == chunkSize * q
             e == call.offset + call.size
  <2>1. f + num <= q => a <= b
    BY <1>2, <1>3, Products
  <2>2. a \in Int
    BY <1>2, Products
  <2>3. e <= a /\ i < e /\ b <= i /\ b \in Nat /\ e \in Nat
    BY <1>2, <1>3
  <2> HIDE DEF a, b, e, f, num, q
  <2>4. ~(f + num <= q)
    BY <2>1, <2>2, <2>3, <1>3
  <2> QED
    BY <2>4, <1>2, <1>3
<1>6. k \in 1 .. num /\ f + k = q + 1
  <2> HIDE DEF f, num, q
  <2> QED
    BY <1>2, <1>3, <1>4, <1>5
<1>7. /\ Len(hashes) = num /\ f + num <= Len(list)
      /\ \A j \in 1 .. num : /\ hashes[j] = Written(call, j, list[f + j])
                             /\ j <= stored => list[f + j] = hashes[j]
      /\ Len(list) \in Nat
  BY LenProperties DEF FileInv, StoreInv, SizesInv
<1>8. k <= stored /\ q + 1 <= Len(list)
  <2> HIDE DEF k, f, num, q
  <2> QED
    BY <1>2, <1>3, <1>5, <1>6, <1>7
<1>9. list[q + 1] = hashes[k] /\ hashes[k] = Written(call, k, list[q + 1])
  <2>1. list[f + k] = hashes[k] /\ hashes[k] = Written(call, k, list[f + k])
    BY <1>6, <1>7, <1>8
  <2> QED
    BY <2>1, <1>6
<1>10. ByteIn(list, i) = list[q + 1][i % chunkSize]
  BY <1>8 DEF ByteIn
<1>11. Written(call, k, list[q + 1])[i % chunkSize] = call.value
  <2>1. i \div chunkSize + 1 > FirstHash(call)
    <3>1. q + 1 > f
      <4> HIDE DEF q, f
      <4> QED
        BY <1>2, <1>3, <1>4
    <3> QED
      BY <3>1
  <2>2. call.offset <= i /\ i < call.offset + call.size
    OBVIOUS
  <2> QED
    BY <2>1, <2>2, <1>1, <1>3, WrittenBytes
<1> QED
  BY <1>9, <1>10, <1>11

LEMMA CutStepBytes ==
  ASSUME FileInv, ControlInv', Cut, NEW i \in AllPlaces
  PROVE  \/ ByteIn(list', i) = ByteIn(list, i)
         \/ call.op = "truncate" /\ call.size <= i /\ ByteIn(list', i) = NUL
<1> DEFINE num == NumChunks(call.size)
<1>1. /\ pc = "cut" /\ pc' = "size" /\ call' = call
      /\ list' = IF num < Len(list) THEN SubSeq(list, 1, num)
                 ELSE list \o Zeros(num - Len(list))
  BY DEF Cut
<1>2. call \in Calls /\ call.op = "truncate" /\ call.size \in Nat
  BY <1>1, Requests DEF FileInv, ControlInv
<1>3. list \in Seq(Chunk) /\ Len(list) \in Nat /\ num \in Nat /\ i \in Nat
  <2>1. list \in Seq(Chunk) /\ Len(list) \in Nat
    BY LenProperties DEF FileInv, SizesInv
  <2>2. num \in Nat
    BY <1>2, ChunksFor, 0 \in Nat
  <2> QED
    BY <2>1, <2>2, FileAssumption DEF AllPlaces
<1>4. CASE num < Len(list)
  <2> DEFINE t == SubSeq(list, 1, num)
  <2>1. t \in Seq(Chunk) /\ Len(t) = num /\ \A k \in 1 .. num : t[k] = list[k]
    BY <1>3, <1>4, Shortened
  <2> HIDE DEF t
  <2>2. ByteIn(t, i) = ByteIn(list, i) \/ (call.size <= i /\ ByteIn(t, i) = NUL)
    BY <2>1, <1>2, <1>3, <1>4, CutBytes
  <2>3. list' = t
    BY <1>1, <1>4 DEF t
  <2> QED
    BY <2>2, <2>3, <1>2
<1>5. CASE ~(num < Len(list))
  <2> DEFINE t == list \o Zeros(num - Len(list))
  <2>1. Len(list) <= num
    BY <1>3, <1>5
  <2>2. /\ t \in Seq(Chunk) /\ Len(t) = num
        /\ \A k \in 1 .. num : t[k] = IF k <= Len(list) THEN list[k] ELSE ZeroChunk
    BY <2>1, <1>3, Extended
  <2> HIDE DEF t, num
  <2>3. /\ \A k \in 1 .. Len(list) : t[k] = list[k]
        /\ \A k \in Len(list) + 1 .. num : t[k] = ZeroChunk
    BY <2>1, <2>2, <1>3
  <2>4. ByteIn(t, i) = ByteIn(list, i)
    BY <2>1, <2>2, <2>3, <1>3, ZeroTail
  <2>5. list' = t
    BY <1>1, <1>5 DEF t
  <2> QED
    BY <2>4, <2>5
<1> QED
  BY <1>4, <1>5

(* Growing the list with zeros and loading it again change no byte.        *)
LEMMA GrowListBytes ==
  ASSUME FileInv, ControlInv', GrowList, NEW i \in AllPlaces
  PROVE  ByteIn(list', i) = ByteIn(list, i)
<1> DEFINE num == Grown(size, call)
           t == list \o Zeros(num - Len(list))
<1>1. pc = "grow_list" /\ list' = IF num > Len(list) THEN t ELSE list
  BY DEF GrowList, Grown
<1>2. call # None /\ call.op = "write"
  BY <1>1 DEF FileInv, ControlInv
<1>3. list \in Seq(Chunk) /\ size \in Nat
  BY FileAssumption DEF FileInv, SizesInv
<1>4. Len(list) \in Nat /\ num \in Nat /\ i \in Nat
  <2>1. Len(list) \in Nat
    BY <1>3, LenProperties
  <2>2. num \in Nat
    BY <1>2, <1>3, WriteCounted DEF FileInv
  <2> QED
    BY <2>1, <2>2, FileAssumption DEF AllPlaces
<1> HIDE DEF num
<1>5. CASE num > Len(list)
  <2>1. Len(list) <= num
    BY <1>4, <1>5
  <2>2. /\ t \in Seq(Chunk) /\ Len(t) = num
        /\ \A k \in 1 .. num : t[k] = IF k <= Len(list) THEN list[k] ELSE ZeroChunk
    BY <2>1, <1>3, <1>4, Extended
  <2> HIDE DEF t
  <2>3. /\ \A k \in 1 .. Len(list) : t[k] = list[k]
        /\ \A k \in Len(list) + 1 .. num : t[k] = ZeroChunk
    BY <2>1, <2>2, <1>4
  <2>4. ByteIn(t, i) = ByteIn(list, i)
    BY <2>1, <2>2, <2>3, <1>3, <1>4, ZeroTail
  <2>5. list' = t
    BY <1>1, <1>5
  <2> QED
    BY <2>4, <2>5
<1>6. CASE ~(num > Len(list))
  BY <1>1, <1>6
<1> QED
  BY <1>5, <1>6

LEMMA ReloadBytes ==
  ASSUME FileInv, ControlInv', Reload, NEW i \in AllPlaces
  PROVE  ByteIn(list', i) = ByteIn(list, i)
<1> DEFINE num == NumChunks(size)
           t == [k \in 1 .. num |-> list[k]]
<1>1. list' = t /\ pc = "idle"
  BY ReloadSizes DEF Reload
<1>2. /\ list \in Seq(Chunk) /\ size \in Nat /\ num <= Len(list)
      /\ \A q \in num + 1 .. Len(list) : list[q] = ZeroChunk
  BY <1>1, FileAssumption DEF FileInv, SizesInv
<1>3. Len(list) \in Nat /\ num \in Nat /\ i \in Nat
  BY <1>2, LenProperties, ChunksFor, FileAssumption, 0 \in Nat DEF AllPlaces
<1> HIDE DEF num
<1>4. \A k \in 1 .. num : list[k] \in Chunk
  BY <1>2, <1>3, ElementOfSeq
<1>5. t \in [1 .. num -> Chunk] /\ \A k \in 1 .. num : t[k] = list[k]
  BY <1>4
<1> HIDE DEF t
<1>6. t \in Seq(Chunk) /\ Len(t) = num
  BY <1>3, <1>5, SeqOf
<1>7. ByteIn(list, i) = ByteIn(t, i)
  BY <1>2, <1>3, <1>5, <1>6, ZeroTail
<1> QED
  BY <1>1, <1>7

LEMMA SetLengthStep ==
  ASSUME FileInv, GrowSize \/ SetSize
  PROVE  BF!SetLength
<1>1. UNCHANGED <<list, call>>
  BY DEF GrowSize, SetSize
<1>2. UNCHANGED bytes
  BY <1>1, SameList
<1>3. CASE GrowSize
  <2>1. pc = "grow_size" /\ size' = Greatest(size, call.offset + call.size)
    BY <1>3 DEF GrowSize
  <2>2. call # None /\ call.op = "write"
    BY <2>1 DEF FileInv, ControlInv
  <2>3. call.offset + call.size \in Nat /\ size \in Nat
    <3>1. call.offset \in Nat /\ call.size \in Nat
      BY <2>2, WriteCounted DEF FileInv
    <3>2. size \in Nat
      BY FileAssumption DEF FileInv, SizesInv
    <3> QED
      BY <3>1, <3>2
  <2>4. size' = BF!LengthAfter(call, size)
    BY <2>1, <2>2, <2>3 DEF Greatest, BF!LengthAfter
  <2> QED
    BY <1>1, <1>2, <2>2, <2>4 DEF BF!SetLength
<1>4. CASE SetSize
  <2>1. pc = "size" /\ size' = call.size
    BY <1>4 DEF SetSize
  <2>2. call # None /\ call.op = "truncate"
    BY <2>1 DEF FileInv, ControlInv
  <2>3. size' = BF!LengthAfter(call, size)
    BY <2>1, <2>2 DEF BF!LengthAfter
  <2> QED
    BY <1>1, <1>2, <2>2, <2>3 DEF BF!SetLength
<1> QED
  BY <1>3, <1>4

LEMMA EndStep ==
  ASSUME FileInv, Return
  PROVE  BF!End
<1>1. UNCHANGED <<list, size>> /\ call' = None
  BY DEF Return
<1>2. UNCHANGED bytes
  BY <1>1, SameList
<1>3. CASE pc = "store" /\ stored = Len(hashes)
  <2>1. call # None /\ call.op = "write"
    BY <1>3 DEF FileInv, ControlInv
  <2>2. call.offset + call.size \in Nat /\ size \in Nat /\ call.offset + call.size <= size
    <3>1. call.offset \in Nat /\ call.size \in Nat
      BY <2>1, WriteCounted DEF FileInv
    <3>2. size \in Nat /\ call.offset + call.size <= size
      BY <1>3, FileAssumption DEF FileInv, SizesInv
    <3> QED
      BY <3>1, <3>2
  <2>3. size = BF!LengthAfter(call, size)
    BY <2>1, <2>2 DEF BF!LengthAfter
  <2>4. ASSUME NEW i \in AllPlaces, BF!Covers(call, i) PROVE bytes[i] = call.value
    BY <2>4, <1>3, StoredBytes, BytesOfList DEF BF!Covers
  <2>5. BF!Done(call)
    BY <2>3, <2>4 DEF BF!Done, AllPlaces
  <2> QED
    BY <1>1, <1>2, <2>1, <2>5 DEF BF!End
<1>4. CASE pc = "return"
  <2>1. call # None /\ call.op = "truncate" /\ size = call.size
    BY <1>4 DEF FileInv, ControlInv, SizesInv
  <2>2. BF!Done(call)
    BY <2>1 DEF BF!Done, BF!Covers, BF!LengthAfter
  <2> QED
    BY <1>1, <1>2, <2>1, <2>2 DEF BF!End
<1> QED
  BY <1>3, <1>4 DEF Return

(* Every step of the file is one of ByteFile, or none.                     *)
LEMMA ByteStep ==
  ASSUME FileInv, ControlInv', [Next]_vars
  PROVE  [BF!Next]_BF!fileVars
<1>1. CASE Call
  <2>1. pc = "idle" /\ UNCHANGED <<list, size>> /\ \E c \in Calls : call' = c
    BY <1>1 DEF Call
  <2>2. call = None
    BY <2>1 DEF FileInv, ControlInv
  <2> QED
    BY <2>1, <2>2, SameList DEF BF!Begin, BF!Next
<1>2. CASE GrowSize \/ SetSize
  BY <1>2, SetLengthStep DEF BF!Next
<1>3. CASE Return
  BY <1>3, EndStep DEF BF!Next
<1>4. CASE Store
  <2>1. UNCHANGED <<size, call>> /\ call # None
    BY <1>4 DEF Store, FileInv, ControlInv
  <2>2. ASSUME NEW i \in AllPlaces
        PROVE  bytes'[i] = bytes[i] \/ (BF!Covers(call, i) /\ bytes'[i] = call.value)
    BY <1>4, StoreBytes, BytesOfList DEF BF!Covers
  <2>3. BF!Change
    BY <2>1, <2>2 DEF BF!Change, AllPlaces
  <2> QED
    BY <2>3 DEF BF!Next
<1>5. CASE Cut
  <2>1. UNCHANGED <<size, call>> /\ call # None
    BY <1>5 DEF Cut, FileInv, ControlInv
  <2>2. ASSUME NEW i \in AllPlaces
        PROVE  \/ bytes'[i] = bytes[i]
               \/ call.op = "truncate" /\ call.size <= i /\ bytes'[i] = NUL
    BY <1>5, CutStepBytes, BytesOfList
  <2>3. BF!Change
    BY <2>1, <2>2 DEF BF!Change, AllPlaces
  <2> QED
    BY <2>3 DEF BF!Next
<1>6. CASE GrowList \/ Reload
  <2>1. UNCHANGED <<size, call>>
    BY <1>6 DEF GrowList, Reload, writer
  <2>2. \A i \in AllPlaces : ByteIn(list', i) = ByteIn(list, i)
    BY <1>6, GrowListBytes, ReloadBytes
  <2>3. UNCHANGED bytes
    BY <2>2, BytesOfList
  <2> QED
    BY <2>1, <2>3 DEF BF!fileVars
<1>7. CASE LockWrite \/ MakeChunks \/ LockTruncate \/ Close \/ Reading \/ UNCHANGED vars
  <2>1. UNCHANGED <<size, call, list>>
    BY <1>7 DEF LockWrite, MakeChunks, LockTruncate, Close, Reading, Read, LockRead, Fetch,
                EndRead, writer, vars
  <2> QED
    BY <2>1, SameList DEF BF!fileVars
<1> QED
  BY <1>1, <1>2, <1>3, <1>4, <1>5, <1>6, <1>7 DEF Next, Write, Truncate

(* Whatever its offset and its size, for any size of chunks: a write puts  *)
(* its bytes where they belong and changes no other, a truncation keeps    *)
(* every byte below the new size, and a file that is closed and loaded     *)
(* again has the bytes it had (writeInner, truncateInner, rest and         *)
(* loadHashes implement ByteFile).                                         *)
THEOREM ImplementsBytes == Spec => KeepsBytes
<1>1. Init => BF!Init
  <2> SUFFICES ASSUME Init PROVE BF!Init
    OBVIOUS
  <2>1. list = <<>> /\ size = 0 /\ call = None
    BY DEF Init
  <2>2. ASSUME NEW i \in AllPlaces PROVE ByteIn(list, i) = NUL
    <3>1. i \in Nat
      BY FileAssumption DEF AllPlaces
    <3>2. i \div chunkSize \in Nat /\ Len(list) = 0
      BY <3>1, <2>1, ChunkOf, EmptySeq
    <3>3. ~(i \div chunkSize + 1 <= Len(list))
      BY <3>2
    <3> QED
      BY <3>3 DEF ByteIn
  <2>3. bytes = [i \in 0 .. MaxSize - 1 |-> NUL]
    BY <2>2, BytesOfList DEF AllPlaces
  <2> QED
    BY <2>1, <2>3 DEF BF!Init
<1>2. FileInv /\ ControlInv' /\ [Next]_vars => [BF!Next]_BF!fileVars
  BY ByteStep
<1>3. Spec => []FileInv /\ []ControlInv
  BY FileInvariant, Control
<1> QED
  BY <1>1, <1>2, <1>3, PTL DEF Spec, KeepsBytes, BF!Spec

-----------------------------------------------------------------------------
(* The reader.                                                             *)
ReaderTypes ==
  /\ rpc \in {"idle", "lock", "fetch"}
  /\ DOMAIN seen = AllPlaces
  /\ numHashesInRead \in Nat /\ fetched \in 0 .. numHashesInRead
  /\ got \in Seq(Bytes \cup {NUL})
  /\ rpc # "fetch" => numHashesInRead = 0 /\ got = <<>>
  /\ rpc # "idle" => reader \in Reads

(* Nobody is in a unique section beside a read that fetches, and the list  *)
(* does not lose the chunks it is going to fetch.                          *)
ShareInv ==
  rpc = "fetch" =>
    /\ ~InUnique
    /\ numHashesInRead > 0 => FirstHash(reader) + numHashesInRead <= Len(list)

InRead(i) == reader.offset <= i /\ i < reader.offset + reader.size

(* What the file holds at a place of the read, and what it is being given, *)
(* has been seen.                                                          *)
SeesInv ==
  rpc # "idle" => \A i \in AllPlaces : InRead(i) =>
                    ByteIn(list, i) \in seen[i] /\ Outcomes(call, i) \subseteq seen[i]

(* What has been fetched fills the buffer from its beginning.              *)
FetchInv ==
  rpc = "fetch" =>
    /\ Len(got) = Least(Given(reader, fetched + 1), reader.size)
    /\ \A b \in 1 .. Len(got) : got[b] \in seen[reader.offset + b - 1]

(* A read of its own is within the file, and counts chunks enough.         *)
AloneInv ==
  alone /\ rpc # "idle" =>
    /\ call = None
    /\ reader.offset + reader.size <= size
    /\ rpc = "fetch" /\ ~Unaligned(reader) => numHashesInRead = NumChunks(reader.size)

ReaderInv == ReaderTypes /\ ShareInv /\ SeesInv /\ FetchInv /\ AloneInv

LEMMA ReaderInit ==
  ASSUME Init
  PROVE  ReaderInv
<1>1. ReaderTypes
  BY EmptySeq DEF Init, ReaderTypes, AllPlaces
<1> QED
  BY <1>1 DEF Init, ReaderInv, ShareInv, SeesInv, FetchInv, AloneInv

LEMMA ReaderFields ==
  ASSUME NEW r \in Reads
  PROVE  /\ r.offset \in Nat /\ r.size \in Nat \ {0} /\ r.offset + r.size <= MaxSize
         /\ FirstHash(r) \in Nat
         /\ \A i \in Nat : r.offset <= i /\ i < r.offset + r.size => i \in AllPlaces
<1>1. r.offset \in Nat /\ r.size \in Nat \ {0} /\ r.offset + r.size <= MaxSize
  BY Requests
<1>2. FirstHash(r) \in Nat
  BY <1>1, Parts, 1 \in Nat \ {0}
<1> QED
  BY <1>1, <1>2, FileAssumption DEF AllPlaces

(* The steps of the writer, as a read sees them: what is seen only grows,  *)
(* and the file changes only to what the call is about to make of it.      *)
LEMMA WriterBeside ==
  ASSUME FileInv, ReaderInv, ControlInv', [Next]_vars, rpc # "idle",
         UNCHANGED <<rpc, reader>>, NEW i \in AllPlaces
  PROVE  /\ seen[i] \subseteq seen'[i]
         /\ ByteIn(list', i) \in {ByteIn(list, i)} \cup Outcomes(call, i)
         /\ Outcomes(call', i) \subseteq seen'[i] \cup Outcomes(call, i)
<1>1. DOMAIN seen = AllPlaces
  BY DEF ReaderInv, ReaderTypes
<1>2. CASE Call
  <2>1. UNCHANGED list
    BY <1>2 DEF Call
  <2>2. PICK c \in Calls : /\ call' = c
                           /\ seen' = [j \in DOMAIN seen |->
                                         IF rpc = "idle" THEN {} ELSE seen[j] \cup Outcomes(c, j)]
    BY <1>2 DEF Call
  <2>3. seen'[i] = seen[i] \cup Outcomes(c, i)
    BY <1>1, <2>2
  <2> QED
    BY <2>1, <2>2, <2>3
<1>3. ASSUME UNCHANGED seen, call' = call \/ call' = None
      PROVE  /\ seen[i] \subseteq seen'[i]
             /\ Outcomes(call', i) \subseteq seen'[i] \cup Outcomes(call, i)
  BY <1>3 DEF Outcomes
<1>4. CASE Store
  <2>1. UNCHANGED <<seen, call>> /\ call # None
    BY <1>4 DEF Store, readVars, FileInv, ControlInv
  <2> QED
    BY <2>1, <1>3, <1>4, StoreBytes DEF Outcomes
<1>5. CASE Cut
  <2>1. UNCHANGED <<seen, call>> /\ call # None
    BY <1>5 DEF Cut, readVars, FileInv, ControlInv
  <2> QED
    BY <2>1, <1>3, <1>5, CutStepBytes DEF Outcomes
<1>6. CASE GrowList
  <2>1. UNCHANGED <<seen, call>>
    BY <1>6 DEF GrowList, readVars
  <2> QED
    BY <2>1, <1>3, <1>6, GrowListBytes
<1>7. CASE GrowSize \/ LockWrite \/ MakeChunks \/ Return \/ LockTruncate \/ SetSize \/ Close
           \/ UNCHANGED vars
  <2>1. UNCHANGED <<seen, list>> /\ (call' = call \/ call' = None)
    BY <1>7 DEF GrowSize, LockWrite, MakeChunks, Return, LockTruncate, SetSize, Close, writer,
                readVars, vars
  <2> QED
    BY <2>1, <1>3
<1>8. ~Reload /\ ~Read
  BY DEF Reload, Read
<1>9. CASE LockRead \/ Fetch \/ EndRead
  <2>1. UNCHANGED <<seen, list, call>>
    BY <1>9 DEF LockRead, Fetch, EndRead, writer
  <2> QED
    BY <2>1, <1>3
<1> QED
  BY <1>2, <1>4, <1>5, <1>6, <1>7, <1>8, <1>9 DEF Next, Write, Truncate, Reading

LEMMA ReadStep ==
  ASSUME FileInv, ReaderInv, Read
  PROVE  ReaderInv'
<1>1. PICK r \in Reads :
        /\ r.offset < size
        /\ reader' = [r EXCEPT !.size = Least(size - r.offset, r.size)]
        /\ seen' = [i \in DOMAIN seen |->
                      IF r.offset <= i /\ i < r.offset + r.size
                        THEN {ByteAt(i)} \cup Outcomes(call, i) ELSE {}]
  BY DEF Read
<1>2. /\ rpc = "idle" /\ rpc' = "lock" /\ alone' = (call = None)
      /\ UNCHANGED <<size, list, call, pc, numHashesInRead, fetched, got>>
  BY DEF Read, writer
<1>3. size \in Nat /\ size <= MaxSize /\ MaxSize \in Nat
  BY FileAssumption DEF FileInv, SizesInv
<1>4. /\ r.offset \in 0 .. MaxSize - 1 /\ r.size \in 1 .. MaxSize
      /\ r.offset \in Nat /\ r.size \in Nat \ {0} /\ r.offset + r.size <= MaxSize
      /\ r = [offset |-> r.offset, size |-> r.size]
  BY Requests DEF Reads
<1> DEFINE s == Least(size - r.offset, r.size)
<1>5. s \in 1 .. MaxSize /\ s <= r.size /\ r.offset + s <= size
  BY <1>1, <1>3, <1>4 DEF Least
<1>6. reader'.offset = r.offset /\ reader'.size = s
      /\ reader' \in [offset : 0 .. MaxSize - 1, size : 1 .. MaxSize]
  <2> HIDE DEF s
  <2>1. reader' = [r EXCEPT !.size = s]
    BY <1>1 DEF s
  <2> QED
    BY <2>1, <1>4, <1>5
<1> HIDE DEF s
<1>7. reader' \in Reads
  <2>1. reader'.offset + reader'.size <= MaxSize
    BY <1>3, <1>4, <1>5, <1>6
  <2> QED
    BY <2>1, <1>6 DEF Reads
<1>8. DOMAIN seen = AllPlaces /\ ReaderTypes
  BY DEF ReaderInv, ReaderTypes
<1>9. ReaderTypes'
  <2>1. DOMAIN seen' = AllPlaces
    BY <1>1, <1>8
  <2> QED
    BY <2>1, <1>2, <1>7, <1>8 DEF ReaderTypes
<1>10. SeesInv'
  <2>1. ASSUME NEW i \in AllPlaces, InRead(i)'
        PROVE  ByteIn(list', i) \in seen'[i] /\ Outcomes(call', i) \subseteq seen'[i]
    <3>1. r.offset <= i /\ i < r.offset + s
      BY <2>1, <1>6 DEF InRead
    <3>2. i \in Int
      BY DEF AllPlaces
    <3>3. i < r.offset + r.size
      BY <3>1, <3>2, <1>4, <1>5
    <3>4. seen'[i] = {ByteAt(i)} \cup Outcomes(call, i)
      BY <3>1, <3>3, <1>1, <1>8
    <3> QED
      BY <3>4, <1>2, BytesOfList
  <2> QED
    BY <2>1 DEF SeesInv
<1>11. AloneInv'
  <2>1. alone' => call' = None
    BY <1>2
  <2>2. reader'.offset + reader'.size <= size'
    BY <1>2, <1>5, <1>6
  <2> QED
    BY <2>1, <2>2, <1>2 DEF AloneInv
<1> QED
  BY <1>2, <1>9, <1>10, <1>11 DEF ReaderInv, ShareInv, FetchInv

LEMMA LockReadStep ==
  ASSUME FileInv, ReaderInv, LockRead
  PROVE  ReaderInv'
<1> DEFINE first == FirstHash(reader)
           n == NumChunks(reader.size)
<1>1. /\ rpc = "lock" /\ rpc' = "fetch" /\ ~InUnique
      /\ numHashesInRead' = Least(n, Greatest(Len(list) - first, 0))
      /\ UNCHANGED <<size, list, call, pc, reader, fetched, got, seen, alone>>
  BY DEF LockRead, writer
<1>2. /\ reader \in Reads /\ fetched = 0 /\ got = <<>> /\ ReaderTypes
  BY <1>1 DEF ReaderInv, ReaderTypes
<1>3. reader.offset \in Nat /\ reader.size \in Nat \ {0} /\ first \in Nat
  BY <1>2, ReaderFields
<1>4. n \in Nat /\ list \in Seq(Chunk) /\ Len(list) \in Nat
  BY <1>3, ChunksFor, LenProperties, 0 \in Nat DEF FileInv, SizesInv
<1> HIDE DEF first, n
<1>5. /\ numHashesInRead' \in Nat /\ numHashesInRead' <= n
      /\ numHashesInRead' > 0 => first + numHashesInRead' <= Len(list)
      /\ first + n <= Len(list) => numHashesInRead' = n
  BY <1>1, <1>3, <1>4 DEF Least, Greatest
<1>6. ReaderTypes'
  BY <1>1, <1>2, <1>5 DEF ReaderTypes
<1>7. ShareInv'
  <2>1. ~InUnique'
    BY <1>1 DEF InUnique
  <2>2. numHashesInRead' > 0 => FirstHash(reader') + numHashesInRead' <= Len(list')
    BY <1>1, <1>5 DEF first
  <2> QED
    BY <2>1, <2>2 DEF ShareInv
<1>8. SeesInv'
  BY <1>1 DEF ReaderInv, SeesInv, InRead
<1>9. FetchInv'
  <2>1. Len(got') = 0 /\ Given(reader', fetched' + 1) = 0
    BY <1>1, <1>2, EmptySeq DEF Given
  <2>2. Least(0, reader.size) = 0
    BY <1>3 DEF Least
  <2>3. \A b \in 1 .. Len(got') : FALSE
    BY <2>1
  <2> QED
    BY <2>1, <2>2, <2>3, <1>1 DEF FetchInv
<1>10. AloneInv'
  <2> SUFFICES ASSUME alone
               PROVE  /\ call = None /\ reader.offset + reader.size <= size
                      /\ ~Unaligned(reader) => numHashesInRead' = n
    BY <1>1 DEF AloneInv, n
  <2>1. call = None /\ reader.offset + reader.size <= size
    BY <1>1 DEF ReaderInv, AloneInv
  <2>2. ASSUME ~Unaligned(reader) PROVE numHashesInRead' = n
    <3>1. pc = "idle" /\ NumChunks(size) <= Len(list) /\ size \in Nat
      BY <2>1, FileAssumption DEF FileInv, ControlInv, SizesInv
    <3>2. Grown(size, reader) = NumChunks(size) /\ NumHashesInWrite(reader) = n
      <4>1. NumChunks(size) \in Nat
        BY <3>1, ChunksFor, 0 \in Nat
      <4> QED
        BY <4>1, <2>2, <1>4 DEF Grown, NumHashesInWrite, n
    <3>3. first + n <= NumChunks(size)
      BY <3>1, <3>2, <2>1, <1>3, Counted DEF first
    <3>4. NumChunks(size) \in Nat
      BY <3>1, ChunksFor, 0 \in Nat
    <3>5. first + n <= Len(list)
      BY <3>1, <3>3, <3>4, <1>3, <1>4
    <3> QED
      BY <3>5, <1>5
  <2> QED
    BY <2>1, <2>2
<1> QED
  BY <1>6, <1>7, <1>8, <1>9, <1>10 DEF ReaderInv

LEMMA EndReadStep ==
  ASSUME FileInv, ReaderInv, EndRead
  PROVE  ReaderInv'
<1>1. /\ rpc' = "idle" /\ numHashesInRead' = 0 /\ fetched' = 0 /\ got' = <<>>
      /\ seen' = [i \in DOMAIN seen |-> {}]
  BY DEF EndRead
<1>2. ReaderTypes'
  BY <1>1, EmptySeq DEF ReaderInv, ReaderTypes
<1> QED
  BY <1>1, <1>2 DEF ReaderInv, ShareInv, SeesInv, FetchInv, AloneInv

(* The part of the buffer chunk k gives: the bytes of the file at the      *)
(* places that follow what was fetched.                                    *)
LEMMA FetchedBytes ==
  ASSUME NEW r \in Reads, NEW k \in Nat \ {0}, NEW j \in 1 .. NewSize(r, k)
  PROVE  LET i == r.offset + Least(Given(r, k), r.size) + j - 1
         IN /\ i \in Nat /\ r.offset <= i /\ i < r.offset + r.size
            /\ i \div chunkSize = FirstHash(r) + k - 1
            /\ i % chunkSize = NewOffset(r, k) + j - 1
<1> DEFINE o == r.offset
           s == r.size
           n == NewOffset(r, k)
           w == NewSize(r, k)
           g == Given(r, k)
           q == FirstHash(r) + k - 1
           base == chunkSize * q
           i == o + Least(g, s) + j - 1
           b == n + j - 1
<1>0. chunkSize \in Nat /\ chunkSize > 0
  BY FileAssumption
<1>1. o \in Nat /\ s \in Nat \ {0} /\ FirstHash(r) \in Nat
  BY ReaderFields
<1>2. /\ n \in InChunk /\ w \in Nat /\ n + w <= chunkSize /\ g \in Nat
      /\ g + w <= Greatest(g, s)
      /\ Least(g, s) + w = Least(Given(r, k + 1), s)
      /\ base \in Nat /\ g = base + n - o
  BY <1>1, PartPlaces, Parts
<1>3. q \in Nat
  BY <1>1
<1>4. j \in Nat /\ 1 <= j /\ j <= w
  BY <1>2
<1> HIDE DEF o, s, n, w, g, q, base
<1>5. n \in Nat
  BY <1>0, <1>2 DEF InChunk
<1>6. g < s /\ Least(g, s) = g /\ g + w <= s
  BY <1>1, <1>2, <1>4 DEF Least, Greatest
<1>7. i = base + b /\ b \in Nat /\ b < chunkSize /\ i \in Nat /\ o <= i /\ i < o + s
  BY <1>0, <1>1, <1>2, <1>4, <1>5, <1>6
<1> HIDE DEF i, b
<1>8. base <= i /\ i < base + chunkSize
  BY <1>0, <1>2, <1>7
<1>9. i \div chunkSize = q
  BY <1>3, <1>7, <1>8, ChunkAt DEF base
<1>10. i % chunkSize = b
  <2>1. i = chunkSize * (i \div chunkSize) + (i % chunkSize) /\ i % chunkSize \in Nat
    <3>1. i = chunkSize * (i \div chunkSize) + (i % chunkSize) /\ i % chunkSize \in InChunk
      BY <1>7, Division
    <3> QED
      BY <3>1, <1>0 DEF InChunk
  <2>2. i = base + (i % chunkSize)
    BY <2>1, <1>9 DEF base
  <2> QED
    BY <2>1, <2>2, <1>2, <1>7
<1> QED
  BY <1>7, <1>9, <1>10 DEF i, b, q, o, s, n, g

LEMMA FetchStep ==
  ASSUME FileInv, ReaderInv, Fetch
  PROVE  ReaderInv'
<1> DEFINE k == fetched + 1
           first == FirstHash(reader)
           c == list[first + k]
           w == NewSize(reader, k)
           part == [b \in 1 .. w |-> c[NewOffset(reader, k) + b - 1]]
<1>1. /\ rpc = "fetch" /\ fetched < numHashesInRead /\ fetched' = k
      /\ got' = got \o part
      /\ UNCHANGED <<size, list, call, pc, reader, rpc, numHashesInRead, seen, alone>>
  BY DEF Fetch, writer
<1>2. /\ reader \in Reads /\ ReaderTypes
      /\ numHashesInRead \in Nat /\ fetched \in 0 .. numHashesInRead
      /\ got \in Seq(Bytes \cup {NUL})
  BY <1>1 DEF ReaderInv, ReaderTypes
<1>3. k \in Nat \ {0} /\ k <= numHashesInRead /\ numHashesInRead > 0
  BY <1>1, <1>2
<1>4. reader.offset \in Nat /\ reader.size \in Nat \ {0} /\ first \in Nat
  BY <1>2, ReaderFields
<1>5. first + numHashesInRead <= Len(list) /\ list \in Seq(Chunk) /\ Len(list) \in Nat
  BY <1>1, <1>3, LenProperties DEF ReaderInv, ShareInv, FileInv, SizesInv
<1>6. first + k \in 1 .. Len(list) /\ first + k \in Nat
  <2> HIDE DEF k, first
  <2> QED
    BY <1>2, <1>3, <1>4, <1>5
<1>7. c \in Chunk
  <2> HIDE DEF k, first
  <2> QED
    BY <1>5, <1>6, ElementOfSeq
<1>8. w \in Nat /\ Least(Given(reader, k), reader.size) + w
                     = Least(Given(reader, k + 1), reader.size)
  BY <1>3, <1>4, PartPlaces
<1>9. Len(got) = Least(Given(reader, k), reader.size)
      /\ \A b \in 1 .. Len(got) : got[b] \in seen[reader.offset + b - 1]
  BY <1>1 DEF ReaderInv, FetchInv
<1>10. Len(got) \in Nat
  BY <1>2, LenProperties
(* What the j-th byte of this part is.                                     *)
<1>11. ASSUME NEW j \in 1 .. w
       PROVE  /\ part[j] \in Bytes \cup {NUL}
              /\ part[j] \in seen[reader.offset + (Len(got) + j) - 1]
  <2> DEFINE i == reader.offset + Least(Given(reader, k), reader.size) + j - 1
  <2>1. /\ i \in Nat /\ reader.offset <= i /\ i < reader.offset + reader.size
        /\ i \div chunkSize = first + k - 1
        /\ i % chunkSize = NewOffset(reader, k) + j - 1
    BY <1>2, <1>3, FetchedBytes
  <2> HIDE DEF i
  <2>2. i \in AllPlaces /\ InRead(i)
    BY <2>1, <1>2, ReaderFields DEF InRead
  <2>3. ByteIn(list, i) \in seen[i]
    BY <2>2, <1>1 DEF ReaderInv, SeesInv
  <2>4. i \div chunkSize + 1 = first + k /\ first + k <= Len(list)
    <3> HIDE DEF k, first
    <3> QED
      BY <2>1, <1>3, <1>4, <1>6
  <2>5. ByteIn(list, i) = c[i % chunkSize]
    BY <2>4 DEF ByteIn
  <2>6. part[j] = c[i % chunkSize]
    BY <2>1
  <2>7. c[i % chunkSize] \in Bytes \cup {NUL}
    BY <2>1, <1>7, ChunkOf DEF Chunk
  <2>8. i = reader.offset + (Len(got) + j) - 1
    <3>1. i = reader.offset + Len(got) + j - 1
      BY <1>9 DEF i
    <3> QED
      BY <3>1, <1>4, <1>8, <1>10
  <2> HIDE DEF part, c
  <2> QED
    BY <2>3, <2>5, <2>6, <2>7, <2>8
<1>12. part \in Seq(Bytes \cup {NUL}) /\ Len(part) = w
  <2>1. part \in [1 .. w -> Bytes \cup {NUL}]
    <3>1. DOMAIN part = 1 .. w /\ part = [j \in 1 .. w |-> part[j]]
      OBVIOUS
    <3> HIDE DEF part
    <3> QED
      BY <3>1, <1>11
  <2> HIDE DEF part, w
  <2> QED
    BY <2>1, <1>8, SeqOf
<1> HIDE DEF part, c, w, first
<1>13. /\ got' \in Seq(Bytes \cup {NUL}) /\ Len(got') = Len(got) + w
       /\ \A b \in 1 .. Len(got) + w :
            got'[b] = IF b <= Len(got) THEN got[b] ELSE part[b - Len(got)]
  BY <1>1, <1>2, <1>12, ConcatProperties
<1>14. ASSUME NEW b \in 1 .. Len(got) + w
       PROVE  got'[b] \in seen[reader.offset + b - 1]
  <2>1. CASE b <= Len(got)
    <3>1. b \in 1 .. Len(got)
      BY <2>1, <1>10
    <3> QED
      BY <3>1, <2>1, <1>9, <1>13
  <2>2. CASE ~(b <= Len(got))
    <3> DEFINE j == b - Len(got)
    <3>1. j \in 1 .. w /\ Len(got) + j = b
      BY <2>2, <1>8, <1>10
    <3> HIDE DEF j
    <3>2. part[j] \in seen[reader.offset + (Len(got) + j) - 1]
      BY <3>1, <1>11
    <3>3. got'[b] = part[j]
      BY <2>2, <1>13 DEF j
    <3> QED
      BY <3>1, <3>2, <3>3
  <2> QED
    BY <2>1, <2>2
<1>15. FetchInv'
  <2>1. Len(got') = Least(Given(reader, k + 1), reader.size)
    BY <1>8, <1>9, <1>13
  <2> HIDE DEF k
  <2> QED
    BY <2>1, <1>1, <1>13, <1>14 DEF FetchInv
<1>16. ReaderTypes'
  <2>1. fetched' \in 0 .. numHashesInRead'
    BY <1>1, <1>2
  <2>2. rpc' = "fetch"
    BY <1>1
  <2> QED
    BY <2>1, <2>2, <1>1, <1>2, <1>13 DEF ReaderTypes
<1>17. ShareInv' /\ SeesInv' /\ AloneInv'
  BY <1>1 DEF ReaderInv, ShareInv, InUnique, SeesInv, InRead, AloneInv
<1> QED
  BY <1>15, <1>16, <1>17 DEF ReaderInv

(* The steps of the writer, and those that change nothing.                 *)
LEMMA BesideStep ==
  ASSUME FileInv, ReaderInv, ControlInv', [Next]_vars, ~Reading
  PROVE  ReaderInv'
<1>1. /\ UNCHANGED <<reader, rpc, numHashesInRead, fetched, got>>
      /\ DOMAIN seen' = DOMAIN seen
  BY DEF Next, Call, Write, GrowSize, GrowList, LockWrite, MakeChunks, Store, Return, Truncate,
         LockTruncate, Cut, SetSize, Close, Reload, vars, readVars
<1>2. ReaderTypes'
  BY <1>1 DEF ReaderInv, ReaderTypes
<1>3. ASSUME rpc # "idle", NEW i \in AllPlaces
      PROVE  /\ seen[i] \subseteq seen'[i]
             /\ ByteIn(list', i) \in {ByteIn(list, i)} \cup Outcomes(call, i)
             /\ Outcomes(call', i) \subseteq seen'[i] \cup Outcomes(call, i)
  BY <1>1, <1>3, WriterBeside
<1>4. SeesInv'
  <2> SUFFICES ASSUME rpc # "idle", NEW i \in AllPlaces, InRead(i)
               PROVE  ByteIn(list', i) \in seen'[i] /\ Outcomes(call', i) \subseteq seen'[i]
    BY <1>1 DEF SeesInv, InRead
  <2>1. ByteIn(list, i) \in seen[i] /\ Outcomes(call, i) \subseteq seen[i]
    BY DEF ReaderInv, SeesInv
  <2> QED
    BY <2>1, <1>3
<1>5. FetchInv'
  <2> SUFFICES ASSUME rpc = "fetch"
               PROVE  /\ Len(got) = Least(Given(reader, fetched + 1), reader.size)
                      /\ \A b \in 1 .. Len(got) : got[b] \in seen'[reader.offset + b - 1]
    BY <1>1 DEF FetchInv
  <2>1. /\ Len(got) = Least(Given(reader, fetched + 1), reader.size)
        /\ \A b \in 1 .. Len(got) : got[b] \in seen[reader.offset + b - 1]
        /\ reader \in Reads /\ fetched \in Nat /\ got \in Seq(Bytes \cup {NUL})
    BY DEF ReaderInv, FetchInv, ReaderTypes
  <2>2. ASSUME NEW b \in 1 .. Len(got) PROVE got[b] \in seen'[reader.offset + b - 1]
    <3>1. Len(got) <= reader.size /\ Len(got) \in Nat
          /\ reader.offset \in Nat /\ reader.size \in Nat
      <4>1. reader.offset \in Nat /\ reader.size \in Nat
        BY <2>1, ReaderFields
      <4>2. Given(reader, fetched + 1) \in Nat
        BY <2>1, <4>1, PartPlaces, fetched + 1 \in Nat \ {0}
      <4> QED
        BY <2>1, <4>1, <4>2 DEF Least
    <3>2. reader.offset + b - 1 \in Nat /\ reader.offset <= reader.offset + b - 1
          /\ reader.offset + b - 1 < reader.offset + reader.size
      BY <3>1
    <3>3. reader.offset + b - 1 \in AllPlaces
      BY <2>1, <3>2, ReaderFields
    <3> QED
      BY <2>1, <3>3, <1>3
  <2> QED
    BY <2>1, <2>2
<1>6. ShareInv'
  <2> SUFFICES ASSUME rpc = "fetch"
               PROVE  /\ ~InUnique'
                      /\ numHashesInRead > 0 =>
                           FirstHash(reader) + numHashesInRead <= Len(list')
    BY <1>1 DEF ShareInv
  <2>1. /\ ~InUnique
        /\ numHashesInRead > 0 => FirstHash(reader) + numHashesInRead <= Len(list)
        /\ reader \in Reads /\ numHashesInRead \in Nat
    BY DEF ReaderInv, ShareInv, ReaderTypes
  <2>2. ~Cut /\ ~Reload /\ ~SetSize
    BY <2>1 DEF Cut, Reload, SetSize, InUnique
  <2>3. CASE GrowList
    <3>1. Len(list) <= Len(list') /\ Len(list) \in Nat /\ Len(list') \in Nat
      <4> DEFINE num == Grown(size, call)
      <4>1. list \in Seq(Chunk) /\ size \in Nat /\ call # None /\ call.op = "write"
        BY <2>3, FileAssumption DEF FileInv, SizesInv, ControlInv, GrowList
      <4>2. num \in Nat /\ Len(list) \in Nat
        BY <4>1, WriteCounted, LenProperties DEF FileInv
      <4>3. list' = IF num > Len(list) THEN list \o Zeros(num - Len(list)) ELSE list
        BY <2>3 DEF GrowList, Grown
      <4> HIDE DEF num
      <4>4. CASE num > Len(list)
        <5>1. Len(list) <= num /\ list' = list \o Zeros(num - Len(list))
          BY <4>2, <4>3, <4>4
        <5>2. Len(list') = num
          BY <5>1, <4>1, <4>2, Extended
        <5> QED
          BY <5>1, <5>2, <4>2
      <4>5. CASE ~(num > Len(list))
        BY <4>2, <4>3, <4>5
      <4> QED
        BY <4>4, <4>5
    <3>2. ~InUnique'
      BY <2>3 DEF GrowList, InUnique
    <3>3. FirstHash(reader) \in Nat
      BY <2>1, ReaderFields
    <3> QED
      BY <3>1, <3>2, <3>3, <2>1
  <2>4. CASE Store
    <3>1. Len(list') = Len(list)
      BY <2>4, StoreStep
    <3>2. ~InUnique'
      BY <2>4, <2>1 DEF Store, InUnique
    <3> QED
      BY <3>1, <3>2, <2>1
  <2>5. CASE Call \/ GrowSize \/ LockWrite \/ MakeChunks \/ Return \/ LockTruncate \/ Close
             \/ UNCHANGED vars
    <3>1. UNCHANGED list
      BY <2>5 DEF Call, GrowSize, LockWrite, MakeChunks, Return, LockTruncate, Close, writer, vars
    <3>2. ~InUnique'
      <4>1. CASE Call \/ GrowSize \/ Return
        BY <4>1 DEF Call, GrowSize, Return, InUnique
      <4>2. CASE LockWrite
        BY <4>2 DEF LockWrite, InUnique, InShared
      <4>3. CASE MakeChunks
        BY <4>3, <2>1 DEF MakeChunks, InUnique
      <4>4. CASE LockTruncate
        BY <4>4 DEF LockTruncate, InShared
      <4>5. CASE Close \/ UNCHANGED vars
        BY <4>5, <2>1 DEF Close, writer, vars, InUnique
      <4> QED
        BY <4>1, <4>2, <4>3, <4>4, <4>5, <2>5
    <3> QED
      BY <3>1, <3>2, <2>1
  <2> QED
    BY <2>2, <2>3, <2>4, <2>5 DEF Next, Write, Truncate
<1>7. AloneInv'
  <2>1. CASE Call
    BY <2>1, <1>1 DEF Call, AloneInv
  <2>2. CASE GrowSize \/ GrowList \/ LockWrite \/ MakeChunks \/ Store \/ Return \/ LockTruncate
             \/ Cut \/ SetSize
    <3>1. call # None /\ UNCHANGED alone
      BY <2>2 DEF GrowSize, GrowList, LockWrite, MakeChunks, Store, Return, LockTruncate, Cut,
                  SetSize, readVars, FileInv, ControlInv
    <3> QED
      BY <3>1, <1>1 DEF ReaderInv, AloneInv
  <2>3. CASE Close \/ Reload \/ UNCHANGED vars
    <3>1. UNCHANGED <<alone, call, size>>
      BY <2>3 DEF Close, Reload, writer, readVars, vars
    <3> QED
      BY <3>1, <1>1 DEF ReaderInv, AloneInv
  <2> QED
    BY <2>1, <2>2, <2>3 DEF Next, Write, Truncate
<1> QED
  BY <1>2, <1>4, <1>5, <1>6, <1>7 DEF ReaderInv

THEOREM ReaderInvariant == Spec => []ReaderInv
<1>1. Init => ReaderInv
  BY ReaderInit
<1>2. FileInv /\ ControlInv' /\ ReaderInv /\ [Next]_vars => ReaderInv'
  BY ReadStep, LockReadStep, FetchStep, EndReadStep, BesideStep DEF Reading
<1> QED
  BY <1>1, <1>2, FileInvariant, Control, PTL DEF Spec

(* A read beside a write or a truncation returns at each place what the    *)
(* file held there, or was being given, while it ran, and never the byte   *)
(* of another place; one that runs alone from the beginning of a chunk     *)
(* fills its buffer up to the end of the file (file.cpp:577-647).          *)
THEOREM ReadsAreRight == Spec => []ReadsWhatWasThere
<1>1. FileInv /\ ReaderInv => ReadsWhatWasThere
  <2> SUFFICES ASSUME FileInv, ReaderInv PROVE ReadsWhatWasThere
    OBVIOUS
  <2>1. \A b \in 1 .. Len(got) : got[b] \in seen[reader.offset + b - 1]
    <3>1. CASE rpc = "fetch"
      BY <3>1 DEF ReaderInv, FetchInv
    <3>2. CASE rpc # "fetch"
      <4>1. Len(got) = 0
        BY <3>2, EmptySeq DEF ReaderInv, ReaderTypes
      <4>2. \A b \in 1 .. Len(got) : FALSE
        BY <4>1
      <4> QED
        BY <4>2
    <3> QED
      BY <3>1, <3>2
  <2>2. ASSUME ReadDone, alone, ~Unaligned(reader) PROVE Len(got) = reader.size
    <3> DEFINE n == NumChunks(reader.size)
               o == reader.offset
               s == reader.size
               f == FirstHash(reader)
               e == chunkSize * (f + n)
               g == Given(reader, n + 1)
    <3>1. /\ rpc = "fetch" /\ fetched = numHashesInRead /\ numHashesInRead = n
          /\ reader \in Reads /\ Len(got) = Least(Given(reader, fetched + 1), s)
      BY <2>2 DEF ReadDone, ReaderInv, ReaderTypes, AloneInv, FetchInv
    <3>2. o \in Nat /\ s \in Nat \ {0} /\ f \in Nat
      BY <3>1, ReaderFields
    <3>3. n \in Nat
      BY <3>2, ChunksFor, 0 \in Nat
    <3>4. NumHashesInWrite(reader) = n
      BY <2>2, <3>3 DEF NumHashesInWrite
    <3>5. n \in Nat \ {0} /\ o + s <= e
      BY <3>2, <3>4, Counted
    <3>6. g = e - o
      <4> DEFINE base == chunkSize * (f + n - 1)
      <4>1. base \in Nat /\ e = base + chunkSize /\ g = base + chunkSize - o
        BY <3>2, <3>5, Parts
      <4>2. chunkSize \in Nat
        BY FileAssumption
      <4> HIDE DEF base, e, g, o
      <4> QED
        BY <4>1, <4>2, <3>2
    <3>7. e \in Int
      BY <3>2, <3>3, Products
    <3>8. Len(got) = Least(g, s)
      BY <3>1
    <3> HIDE DEF o, s, e, g
    <3>9. Len(got) = s
      BY <3>2, <3>5, <3>6, <3>7, <3>8 DEF Least
    <3> QED
      BY <3>9 DEF s
  <2> QED
    BY <2>1, <2>2 DEF ReadsWhatWasThere, AlignedReadFull
<1> QED
  BY <1>1, FileInvariant, ReaderInvariant, PTL

(* What the variables hold; the size and the list stay within the bounds   *)
(* of the calls.                                                           *)
THEOREM Typing == Spec => []TypeOK
<1>1. FileInv /\ ReaderInv => TypeOK
  BY DEF FileInv, ControlInv, SizesInv, StoreInv, ReaderInv, ReaderTypes, TypeOK
<1> QED
  BY <1>1, FileInvariant, ReaderInvariant, PTL
===============================================================================
