CONSTANTS
    Workers = {w1, w2, w3}
    Probes = {}
    None = None
SPECIFICATION Spec
CHECK_DEADLOCK FALSE
INVARIANT Exclusion
