--------------------------- MODULE MCOutboxRelay ---------------------------
(***************************************************************************)
(* A producer for TLC: rows of one order's partition.                      *)
(***************************************************************************)
EXTENDS OutboxRelay

CONSTANTS r1, r2, r3

OnePartition == [r \in Rows |-> 1]
=============================================================================
