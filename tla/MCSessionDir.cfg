CONSTANTS
    Workers = {w1, w2}
    Probes = {p1}
    None = None
    Verbs = {"stop", "run", "status"}
SPECIFICATION DirSpec
CHECK_DEADLOCK FALSE
INVARIANTS
    ResolvedMeansGone
    OwnerUndisturbed
PROPERTIES
    AbsentMeansNobody
    SignalledMeansEnded
