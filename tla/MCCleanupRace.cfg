CONSTANTS
    Workers = {w1, w2}
    Probes = {}
    None = None
    Verbs = {"stop", "run", "status"}
SPECIFICATION DirSpec
CHECK_DEADLOCK FALSE
INVARIANTS
    LiveDataKept
