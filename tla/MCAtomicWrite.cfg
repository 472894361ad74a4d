SPECIFICATION FairAwSpec
CONSTANTS
    Procs = {"p1", "p2", "p3"}
    Pids = {1, 2}
    PidOf <- MCPidOf
    Files = {f}
    Size = 2
    MaxCalls = 1
    None = None
INVARIANTS ReadsAreWhole LeftoverExplained
PROPERTIES CallsReturn KeepsPromise
CHECK_DEADLOCK FALSE
