SPECIFICATION AwSpec
CONSTANTS
    Procs = {"p1"}
    Pids = {1}
    PidOf <- MCPidOf
    Files = {f}
    Size = 1
    MaxCalls = 1
    None = None
INVARIANTS StaleTempMeansCrash
CHECK_DEADLOCK FALSE
