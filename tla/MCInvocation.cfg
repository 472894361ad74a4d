SPECIFICATION InvSpec
CONSTANTS
    None = None
    Others = {"HOME"}
    OutputVars = {None, "bad name", "TF_VAR_tunstrap", "TUNSTRAP_INPUT", "HOME", "TUNSTRAP_PID", "KUBECONFIG", "KUBE_CONFIG_PATHS"}
    Invocations <- MCInvocations
INVARIANTS PayloadStaysBehind ChildEnvSound NothingOverwritten InputHonoured BypassIsGrammatical PlanPositionalWarned
CHECK_DEADLOCK FALSE
