CONSTANTS
    Conns = {c1}
    KubeConns = {}
    Seconds = 2
    Jitter = 0
    MaxTime = 20
SPECIFICATION Spec
CHECK_DEADLOCK FALSE
INVARIANTS
    TimerStartsWhenUp
