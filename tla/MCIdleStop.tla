----------------------------- MODULE MCIdleStop -----------------------------
(* Small instances of IdleStop for TLC.                                    *)
EXTENDS IdleStop, TLC

IdleSymmetry == Permutations(Conns)
=============================================================================
