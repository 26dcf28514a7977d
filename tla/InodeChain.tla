------------------------------ MODULE InodeChain ------------------------------
(***************************************************************************)
(* The list of chunks of a file on disk: an inode record that holds the    *)
(* first numInode entries and a chain of inode_ctd records, linked by      *)
(* nextID, that hold numCtd each (inode.h: 495 and 508). chain is the      *)
(* sequence of these records, an entry is a chunk, or NoEntry for index 0. *)
(* The chain never gets shorter, and entries behind the end of the list    *)
(* stay: the size of the file says how many count.                         *)
(***************************************************************************)
EXTENDS Integers, Sequences

CONSTANTS numInode, numCtd, NoEntry

ASSUME ChainAssumption == numInode \in Nat \ {0} /\ numCtd \in Nat \ {0}

CtdPlaces(r) == IF r = 1 THEN 1 .. numInode ELSE 1 .. numCtd
EmptyRecord(r) == [p \in CtdPlaces(r) |-> NoEntry]
NewChain == <<EmptyRecord(1)>>

(* The record of entry k, and its place in it (idx against imax). *)
RecordOf(k) == IF k <= numInode THEN 1 ELSE 2 + (k - numInode - 1) \div numCtd
PlaceOf(k) == IF k <= numInode THEN k ELSE 1 + ((k - numInode - 1) % numCtd)

(* createCtd: records of zeros, made when a record is full, so that there  *)
(* is one more than needed when the list ends with a full record.          *)
Longer(chain, n) ==
  LET wanted == RecordOf(n + 1) IN
  [r \in 1 .. (IF wanted > Len(chain) THEN wanted ELSE Len(chain)) |->
     IF r <= Len(chain) THEN chain[r] ELSE EmptyRecord(r)]

WithEntries(chain, entries) ==
  [r \in DOMAIN chain |->
     [p \in CtdPlaces(r) |->
        LET k == IF r = 1 THEN p ELSE numInode + (r - 2) * numCtd + p IN
        IF k <= Len(entries) THEN entries[k] ELSE chain[r][p]]]

(* Faulty: a record that is full is not stored when the next one is made.  *)
RestLastRecordOnly(chain, list) ==
  LET long == Longer(chain, Len(list)) IN
  [WithEntries(long, list) EXCEPT ![1] = long[1]]

(* file::rest. Of an empty list only the first entry is cleared. *)
RestInto(chain, list) ==
  IF list = <<>> THEN [chain EXCEPT ![1][1] = NoEntry]
  ELSE WithEntries(Longer(chain, Len(list)), list)

(* file::loadHashes: the entries up to the size, the first 0 or the end of *)
(* the chain; what is missing then is a chunk of zeros.                    *)
LoadFrom(chain, n, zero) ==
  LET Has(k) == /\ RecordOf(k) <= Len(chain)
                /\ chain[RecordOf(k)][PlaceOf(k)] # NoEntry IN
  [k \in 1 .. n |-> IF \A j \in 1 .. k : Has(j) THEN chain[RecordOf(k)][PlaceOf(k)]
                    ELSE zero]
=============================================================================
