------------------------- MODULE MCBucketAccounting -------------------------
(* Small instances of BucketAccounting. *)
EXTENDS BucketAccounting

CONSTANTS t1, t2

TwoThreads == {t1, t2}
=============================================================================
