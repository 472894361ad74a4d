SPECIFICATION KcSpec
CONSTANTS
    Names = {"a", "b", "new", ""}
    Empty = ""
    NewName = "new"
    None = None
    Odd = Odd
    Bad = Bad
    Local = Local
    Hosts = {"h1", "h2", "h3"}
    Inputs <- MCInputs
INVARIANTS ReferencesFollow OneIdentity ParseDominates NeverWeakened OutputIsTrue
CHECK_DEADLOCK FALSE
