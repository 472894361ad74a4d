CONSTANTS
    Workers = {w1}
    Probes = {p1, p2}
    None = None
SPECIFICATION Spec
CHECK_DEADLOCK FALSE
INVARIANT MatchMeansHolder
