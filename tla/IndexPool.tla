------------------------------ MODULE IndexPool ------------------------------
(***************************************************************************)
(* What the pool of free bucket indexes promises: every index of an open   *)
(* bucket is either free or in use, it is handed out to one client at a    *)
(* time, and a bucket is closed only while none of its indexes is in use.  *)
(***************************************************************************)
CONSTANTS Slots, OldBuckets

VARIABLES pool, used, open

poolVars == <<pool, used, open>>

Indexes(B) == B \X Slots

Init ==
  /\ pool = {}
  /\ used = Indexes(OldBuckets)
  /\ open = OldBuckets

Fetch ==
  \E i \in pool :
    /\ pool' = pool \ {i}
    /\ used' = used \cup {i}
    /\ UNCHANGED open

Post ==
  \E i \in used :
    /\ used' = used \ {i}
    /\ pool' = pool \cup {i}
    /\ UNCHANGED open

(* New buckets are opened only when nothing is free. *)
Open ==
  /\ pool = {}
  /\ open \subseteq open'
  /\ pool' = Indexes(open' \ open)
  /\ UNCHANGED used

Close ==
  /\ open' \subseteq open
  /\ Indexes(open \ open') \subseteq pool
  /\ pool' = pool \ Indexes(open \ open')
  /\ UNCHANGED used

Next == Fetch \/ Post \/ Open \/ Close

Spec == Init /\ [][Next]_poolVars
=============================================================================
