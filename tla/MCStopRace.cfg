CONSTANTS
    Workers = {w1, w2}
    Probes = {p1}
    None = None
    Verbs = {"stop"}
SPECIFICATION DirSpec
CHECK_DEADLOCK FALSE
PROPERTIES
    StopDeletesOnlyDead
