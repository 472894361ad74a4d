CONSTANTS
    Nodes = {n1, n2, n3}
    Required = {n1, n2}
    None = None
SPECIFICATION FairSpec
CHECK_DEADLOCK FALSE
INVARIANTS LossKeepsData DegradedStaysUp ExplainedBeforeRelease
PROPERTIES
    RequiredLossTerminates
    KeepsContract
