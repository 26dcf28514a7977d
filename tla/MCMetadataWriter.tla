-------------------------- MODULE MCMetadataWriter --------------------------
(* Small instances of MetadataWriter. *)
EXTENDS MetadataWriter, TLC

CONSTANTS c1, c2, w1, w2, d1, d2
=============================================================================
