--------------------------- MODULE MCAtomicWrite ---------------------------
(* Two processes, p1 and p2, and a third that gets the pid of the first.   *)
EXTENDS AtomicWrite
MCPidOf == [p \in Procs |-> IF p = "p2" THEN 2 ELSE 1]
=============================================================================
