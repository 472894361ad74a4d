SPECIFICATION AwSpec
CONSTANTS
    Procs = {"p1", "p3"}
    Pids = {1}
    PidOf <- MCPidOf
    Files = {f, g}
    Size = 1
    MaxCalls = 2
    None = None
INVARIANTS LeftoverExplained
CHECK_DEADLOCK FALSE
