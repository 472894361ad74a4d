--------------------------- MODULE MCNodeStartup ---------------------------
(* A required and an optional node with everything, and a required plain one. *)
EXTENDS NodeStartup
=============================================================================
