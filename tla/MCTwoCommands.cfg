CONSTANTS
    Workers = {w1}
    Probes = {p1, p2}
    None = None
    Verbs = {"stop", "run", "status"}
SPECIFICATION FairDirSpec
CHECK_DEADLOCK FALSE
INVARIANTS
    ResolvedMeansGone
PROPERTIES
    StopEndsDaemon
