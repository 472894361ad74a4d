CONSTANTS
    Conns = {c1, c2}
    KubeConns = {k1}
    Seconds = 2
    Jitter = 1
    MaxTime = 26
SPECIFICATION Spec
SYMMETRY IdleSymmetry
CHECK_DEADLOCK FALSE
INVARIANTS StopsOnlyWhenQuiet StopsPromptly
