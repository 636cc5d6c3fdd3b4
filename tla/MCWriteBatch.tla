------------------------------ MODULE MCWriteBatch ------------------------------
(* Small instances of WriteBatch for TLC: two batched writes and a lending one. *)
EXTENDS WriteBatch

TheCallers == {"c", "d", "l"}
TheLenders == {"l"}
================================================================================
