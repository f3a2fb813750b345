----------------------------- MODULE MCBulkhead -----------------------------
(* Three callers over one slot and a queue of one: one more than fits.     *)
EXTENDS Bulkhead, TLC

CONSTANTS c1, c2, c3
=============================================================================
