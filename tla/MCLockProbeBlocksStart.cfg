CONSTANTS
    Workers = {w1, w2}
    Probes = {p1}
    None = None
SPECIFICATION Spec
CHECK_DEADLOCK FALSE
PROPERTY ActiveMeansDaemon
