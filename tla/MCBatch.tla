------------------------------ MODULE MCBatch ------------------------------
(* BatchScheduler with four calls and batches of two.                         *)
EXTENDS BatchScheduler

CONSTANTS r1, r2, r3, r4
=============================================================================
