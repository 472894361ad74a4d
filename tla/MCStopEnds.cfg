CONSTANTS
    Workers = {w1, w2}
    Probes = {p1}
    None = None
    Verbs = {"stop"}
SPECIFICATION FairDirSpec
CHECK_DEADLOCK FALSE
PROPERTIES
    StopEndsDaemon
