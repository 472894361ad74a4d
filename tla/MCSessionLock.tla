--------------------------- MODULE MCSessionLock ---------------------------
(* Small instances of SessionLock for TLC.                                 *)
EXTENDS SessionLock, TLC

\* Workers are interchangeable and so are probes.
LockSymmetry == Permutations(Workers) \cup Permutations(Probes)
=============================================================================
