CONSTANTS
    Workers = {w1, w2, w3}
    Probes = {p1, p2}
    None = None
SPECIFICATION Spec
SYMMETRY LockSymmetry
CHECK_DEADLOCK FALSE
INVARIANTS RecordFollowsLock ExclusionUnlessRaced HolderIsConfirmed
