CONSTANTS
    Conns = {}
    KubeConns = {k1}
    Seconds = 1
    Jitter = 0
    MaxTime = 10
SPECIFICATION Spec
CHECK_DEADLOCK FALSE
INVARIANTS
    KubeConnectionPreventsStop
