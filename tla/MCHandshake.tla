---------------------------- MODULE MCHandshake ----------------------------
(* Both verbs, with and without a directory of the operator's. *)
EXTENDS Handshake
=============================================================================
