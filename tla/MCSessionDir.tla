---------------------------- MODULE MCSessionDir ----------------------------
(* Small instances of SessionDir for TLC: safety with every command,       *)
(* liveness with fewer of them, all of them without symmetry.              *)
EXTENDS SessionDir
=============================================================================
