----------------------------- MODULE MCSupervise -----------------------------
(* A small instance of Supervise for TLC: three nodes, two of them required. *)
EXTENDS Supervise
=============================================================================
