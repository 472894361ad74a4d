------------------------------ MODULE TofuArgs ------------------------------
(***************************************************************************)
(* How tunstrap_tofu reads a tofu command line.  A token stands for its    *)
(* class: "init" for every command that needs no cluster, "output" for     *)
(* every other one without a saved plan, "-var" for _PLAN_INPUT_VALUE_FLAGS,*)
(* "-x" for any other flag (-chdir=DIR too), "tfplan" for *.tfplan.        *)
(***************************************************************************)
EXTENDS Naturals, Sequences

PlainTokens == {"init", "plan", "apply", "show", "output", "tfplan"}
DashTokens == {"-chdir", "-help", "-x", "-var", "-out", "-out=", "-out=f",
               "-plan", "-plan=", "-plan=f", "--"}
Tokens == PlainTokens \cup DashTokens

BypassCommands == {"init"}      \* init, version, validate, fmt

\* Mistake: the first word is the subcommand.
FirstWord(argv) ==
    IF \E i \in DOMAIN argv : argv[i] \in PlainTokens
    THEN CHOOSE i \in DOMAIN argv :
            argv[i] \in PlainTokens /\ \A j \in 1 .. i - 1 : argv[j] \notin PlainTokens
    ELSE 0

\* _find_subcommand_index; 0 when there is none.
SubcommandIndex(argv) ==
    LET from[i \in 1 .. Len(argv) + 2] ==
            IF i > Len(argv) THEN 0
            ELSE IF argv[i] = "-help" THEN 0
            ELSE IF argv[i] = "-chdir" THEN from[i + 2]
            ELSE IF argv[i] \in DashTokens THEN from[i + 1]
            ELSE i
    IN  from[1]

ShouldBypass(argv) ==
    LET i == SubcommandIndex(argv) IN i # 0 => argv[i] \in BypassCommands

-----------------------------------------------------------------------------
\* The loop of _has_plan_output and _has_show_plan_flag returns at the first
\* token that decides; flag, empty, given are "-out", "-out=", "-out=f".
Decides(args, i, flag, empty, given) ==
    \/ args[i] \in {empty, given}
    \/ args[i] = flag /\ i < Len(args) /\ args[i + 1] \in PlainTokens

HasFlagValue(args, flag, empty, given) ==
    \E i \in DOMAIN args :
        /\ Decides(args, i, flag, empty, given) /\ args[i] # empty
        /\ \A j \in 1 .. i - 1 : ~ Decides(args, j, flag, empty, given)

\* Mistake: the value of a flag is looked at like any other word.
PlanInputAnywhere(args) == \E i \in DOMAIN args : args[i] = "tfplan"

\* _has_plan_input
HasPlanInput(args) ==
    LET from[i \in 1 .. Len(args) + 2] ==
            IF i > Len(args) THEN FALSE
            ELSE IF args[i] = "-var" THEN from[i + 2]
            ELSE IF args[i] = "tfplan" THEN TRUE
            ELSE from[i + 1]
    IN  from[1]

\* _saved_plan_warning returns a warning.
SavedPlan(argv) ==
    LET i == SubcommandIndex(argv)
        args == SubSeq(argv, i + 1, Len(argv))
    IN  /\ i # 0
        /\ \A j \in DOMAIN args : args[j] # "--"
        /\ \/ argv[i] = "plan" /\ HasFlagValue(args, "-out", "-out=", "-out=f")
           \/ argv[i] = "show" /\ HasFlagValue(args, "-plan", "-plan=", "-plan=f")
           \/ argv[i] \in {"apply", "show"} /\ HasPlanInput(args)

-----------------------------------------------------------------------------
(* The grammar: a flag of the set takes the next token for its value, unless *)
(* the flag is a value itself.                                              *)

Values(s, flags) ==
    CHOOSE V \in SUBSET DOMAIN s :
        \A i \in DOMAIN s : i \in V <=> i > 1 /\ i - 1 \notin V /\ s[i - 1] \in flags

\* The token that tofu takes for the subcommand: the first that is neither a
\* flag nor a value, unless a help flag comes before it.
Grammatical(argv, i) ==
    LET V == Values(argv, {"-chdir"}) IN
    /\ i \in DOMAIN argv \ V /\ argv[i] \in PlainTokens
    /\ \A j \in 1 .. i - 1 : j \in V \/ argv[j] \in DashTokens \ {"-help"}

PlanPositional(args) ==
    \E i \in DOMAIN args \ Values(args, {"-var"}) : args[i] = "tfplan"
=============================================================================
