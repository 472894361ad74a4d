----------------------------- MODULE Invocation -----------------------------
(***************************************************************************)
(* start, run and tunstrap_tofu from the command line to the environment   *)
(* of the child: which input channel is read, what is refused before       *)
(* anything is spawned, and what the worker and the child command inherit. *)
(*                                                                         *)
(* A node or item name is the sequence of its words between hyphens, so a  *)
(* name rendered with hyphens is the concatenation of its parts.           *)
(***************************************************************************)
EXTENDS TofuArgs

CONSTANTS
    None,
    Others,         \* environment variables the program does not know
    OutputVars,     \* names --output-var may be given
    Invocations     \* what is invoked, in which environment

KubeNames == {"KUBECONFIG", "KUBE_CONFIG_PATH", "KUBE_CONFIG_PATHS"}
Scalars == {"TUNSTRAP_SESSION_DIR", "TUNSTRAP_PID", "TUNSTRAP_OUTPUT_FILE"}
RunEnvKeys == Scalars \cup KubeNames
Vars == RunEnvKeys \cup {"TUNSTRAP_INPUT", "TF_VAR_tunstrap"} \cup Others

\* A value, of which only its origin matters; paths are those of a kube value.
Value(origin) == [origin |-> origin, paths |-> <<>>]
Absent == Value("absent")

ConnectionFlags == {"connection", "password"}   \* --ssh-key .. --fetch
DaemonFlags == {"daemon", "materialize"}        \* --auto-stop-.., --grace-.., --log-file

Names == Seq(STRING)
Lists == Seq(Names \X Names)       \* of (node, item) pairs

ASSUME InvAssumption ==
    /\ None \notin Vars \cup {"bad name"}
    /\ OutputVars \subseteq Vars \cup {None, "bad name"}
    /\ \A i \in Invocations :
        /\ i.verb \in {"proxy", "run", "start"} /\ i.argv \in Seq(Tokens)
        /\ i.flags \subseteq ConnectionFlags \cup DaemonFlags
        /\ i.input_env \in Vars \cup {None} /\ i.output_var \in OutputVars
        /\ i.environ \in [Vars -> {"absent", "inherited", "blank", "broken", "payload"}]
        /\ i.stdin \in {"blank", "broken", "payload"}
        /\ i.payload.kube \in Lists /\ i.payload.fetch \in Lists
        /\ i.named.kube \in Seq(Names) /\ i.named.fetch \in Seq(Names)

VARIABLES
    inv,        \* the invocation (never changed)
    pc,
    opts,       \* the arguments of _run_command
    cmd,        \* the child command
    warned,     \* _saved_plan_warning was written
    schema,
    worker,     \* the worker's environment
    child       \* the child's, or what --output env exports

invVars == <<inv, pc, opts, cmd, warned, schema, worker, child>>

environ == [v \in Vars |-> Value(inv.environ[v])]
Nothing == [v \in Vars |-> Absent]
NoSchema == [channel |-> None, kube |-> <<>>, fetch |-> <<>>, flags |-> {}, materialize |-> FALSE]

Options(i) ==
    [flags |-> i.flags, input_env |-> i.input_env, output_var |-> i.output_var,
     args |-> i.args, suppress |-> FALSE]

InvInit ==
    /\ inv \in Invocations
    /\ pc = inv.verb
    /\ opts = Options(inv)
    /\ cmd = <<>> /\ warned = FALSE /\ schema = NoSchema
    /\ worker = Nothing /\ child = Nothing

-----------------------------------------------------------------------------
(* tofu_proxy.main                                                         *)

ExecTofu ==
    /\ pc = "proxy"
    /\ inv.environ["TUNSTRAP_INPUT"] \in {"absent", "blank"} \/ ShouldBypass(inv.argv)
    /\ pc' = "exec"
    /\ cmd' = <<"tofu">> \o inv.argv /\ child' = environ
    /\ UNCHANGED <<inv, opts, warned, schema, worker>>

RunTunnelled ==
    /\ pc = "proxy"
    /\ inv.environ["TUNSTRAP_INPUT"] \notin {"absent", "blank"}
    /\ ~ ShouldBypass(inv.argv)
    /\ pc' = "run"
    /\ warned' = SavedPlan(inv.argv)
    /\ opts' = [flags |-> {}, input_env |-> "TUNSTRAP_INPUT", output_var |-> "TF_VAR_tunstrap",
                args |-> <<"tofu">> \o inv.argv, suppress |-> TRUE]
    /\ UNCHANGED <<inv, cmd, schema, worker, child>>

-----------------------------------------------------------------------------
(* The input channels                                                      *)

\* _split_run_args, given an argument: one more "--" at the head is dropped.
ChildCommand(o) ==
    LET rest == IF o.input_env = None THEN Tail(o.args) ELSE o.args
    IN  IF rest # <<>> /\ Head(rest) = "--" THEN Tail(rest) ELSE rest

\* Mistake: two targets are compared by node and by name.
CollisionsByPart(list, prefix) ==
    \E i, j \in DOMAIN list : i # j /\ list[i] = list[j]

Rendered(prefix, item) == <<prefix>> \o item[1] \o item[2]

\* Two of the list's (node, item) pairs have one rendered name.
Collisions(list, prefix) ==
    \E i, j \in DOMAIN list : i # j /\ Rendered(prefix, list[i]) = Rendered(prefix, list[j])

\* InputSchema: _validate_kube_identity_names_are_unique, for identities, then
\* for the files of both kinds.
Valid(kube, fetch) ==
    /\ ~ Collisions(kube, "tunstrap")
    /\ ~ Collisions(kube, "kube") /\ ~ Collisions(fetch, "fetch")

Refuse(how) == pc' = how /\ UNCHANGED <<inv, opts, cmd, warned, schema, worker, child>>

\* Mistake: materialization is left to the payload.
FromPayloadAsIs(content, channel, forced) ==
    IF content = "payload" /\ Valid(inv.payload.kube, inv.payload.fetch)
    THEN /\ schema' = [channel |-> channel, kube |-> inv.payload.kube, fetch |-> inv.payload.fetch,
                       flags |-> {}, materialize |-> inv.payload.materialize]
         /\ pc' = "spawn"
    ELSE pc' = "refused" /\ UNCHANGED schema

\* build_schema_from_env, build_schema_from_stdin
FromPayload(content, channel, forced) ==
    IF content = "payload" /\ Valid(inv.payload.kube, inv.payload.fetch)
    THEN /\ schema' = [channel |-> channel, kube |-> inv.payload.kube, fetch |-> inv.payload.fetch,
                       flags |-> {}, materialize |-> forced \/ inv.payload.materialize]
         /\ pc' = "spawn"
    ELSE pc' = "refused" /\ UNCHANGED schema

\* build_flag_schema: one node; parse_endpoint, the key file or parse_named may
\* refuse (well says none does), the last a name given twice, too.
FromFlags(forced) ==
    LET list(items) == [i \in DOMAIN items |-> <<<<"node">>, items[i]>>] IN
    IF inv.named.well /\ Valid(list(inv.named.kube), list(inv.named.fetch))
    THEN /\ schema' = [channel |-> "flags", kube |-> list(inv.named.kube),
                       fetch |-> list(inv.named.fetch), flags |-> opts.flags,
                       materialize |-> forced \/ "materialize" \in opts.flags]
         /\ pc' = "spawn"
    ELSE pc' = "refused" /\ UNCHANGED schema

\* _reject_flags_under_input_env
Redundant(o) == o.flags \cap (ConnectionFlags \cup DaemonFlags) # {}

\* _validate_output_var
BadOutputVar(o) ==
    \/ o.output_var = "bad name"
    \/ o.output_var # None /\ o.output_var \in RunEnvKeys \cup {o.input_env}

NoCommand(o) == (o.input_env = None /\ o.args = <<>>) \/ ChildCommand(o) = <<>>

\* run: _split_run_args, the flags, the schema, the output variable, in this
\* order.
RunOptions ==
    /\ pc = "run"
    /\ IF NoCommand(opts) \/ (opts.input_env # None /\ Redundant(opts))
       THEN Refuse("usage")
       ELSE /\ IF opts.input_env # None
               THEN FromPayload(inv.environ[opts.input_env], "env", TRUE)
               ELSE FromFlags(TRUE)
            /\ cmd' = ChildCommand(opts)
            /\ UNCHANGED <<inv, opts, warned, worker, child>>

\* Mistake: only a valid input on stdin is a second input.
SecondInputValid(o) == "password" \notin o.flags /\ inv.stdin = "payload"

\* With a connection argument, stdin may hold the password or nothing.
SecondInput(o) == "password" \notin o.flags /\ inv.stdin # "blank"

\* start: build_start_schema
StartOptions ==
    /\ pc = "start"
    /\ IF inv.connection
       THEN IF SecondInput(opts)
            THEN Refuse("usage")
            ELSE FromFlags(inv.format = "env") /\ UNCHANGED <<inv, opts, cmd, warned, worker, child>>
       ELSE IF opts.flags \cap ConnectionFlags # {}
            THEN Refuse("usage")
            ELSE /\ FromPayload(inv.stdin, "stdin", inv.format = "env")
                 /\ UNCHANGED <<inv, opts, cmd, warned, worker, child>>

-----------------------------------------------------------------------------
(* The environments                                                        *)

Pop(env, names) == [v \in Vars |-> IF v \in names THEN Absent ELSE env[v]]

Set(env, names, value) == [v \in Vars |-> IF v \in names THEN value ELSE env[v]]

\* Mistake: the worker inherits everything.
SpawnWhole ==
    /\ pc = "spawn"
    /\ IF inv.verb # "start" /\ BadOutputVar(opts)
       THEN Refuse("usage")
       ELSE /\ worker' = environ
            /\ pc' = "daemon"
            /\ UNCHANGED <<inv, opts, cmd, warned, schema, child>>

\* _validate_output_var's place, then spawn_daemon with _worker_env(input_env)
Spawn ==
    /\ pc = "spawn"
    /\ IF inv.verb # "start" /\ BadOutputVar(opts)
       THEN Refuse("usage")
       ELSE /\ worker' = Pop(environ, {opts.input_env})
            /\ pc' = "daemon"
            /\ UNCHANGED <<inv, opts, cmd, warned, schema, child>>

\* _kube_channel_keys, and no key without a file
KubeKeys(n) ==
    CASE n = 0 -> {} [] n = 1 -> {"KUBECONFIG", "KUBE_CONFIG_PATH"}
      [] OTHER -> {"KUBECONFIG", "KUBE_CONFIG_PATHS"}

KubeEnv(env, paths) ==
    Set(env, KubeKeys(Len(paths)), [origin |-> "kube", paths |-> paths])

\* _build_child_env: the input and inherited kube names go, then the session
\* scalars, the kube channel and the output variable come, in this order.
ChildEnv(env, o, paths) ==
    LET scrubbed == Pop(Pop(env, {o.input_env}), KubeNames)
        session == Set(scrubbed, Scalars, Value("session"))
        kube == KubeEnv(session, paths)
        quiet == Pop(kube, IF o.suppress THEN {"KUBECONFIG"} ELSE {})
    IN  Set(quiet, {o.output_var}, Value("output"))

\* The lists that keep the order of list and leave some of it out.
Subsequences(list) ==
    UNION {{[i \in 1 .. n |-> list[at[i]]] :
                at \in {a \in [1 .. n -> DOMAIN list] :
                         \A i, j \in 1 .. n : i < j => a[i] < a[j]}} : n \in 0 .. Len(list)}

\* The daemon is up with the targets that did not fail.
Targets == Subsequences(schema.kube)

\* materialized_file_name of each target that has a path
Paths(targets) == [i \in DOMAIN targets |-> Rendered("kube", targets[i])]

\* run: _build_child_env; start --output env: the exports, over nothing.
Launch ==
    /\ pc = "daemon" /\ pc' = "child"
    /\ \E targets \in Targets :
        child' = IF inv.verb # "start" THEN ChildEnv(environ, opts, Paths(targets))
                 ELSE IF inv.format = "env"
                 THEN KubeEnv(Set(Nothing, Scalars, Value("session")), Paths(targets))
                 ELSE Nothing
    /\ UNCHANGED <<inv, opts, cmd, warned, schema, worker>>

InvNext == ExecTofu \/ RunTunnelled \/ RunOptions \/ StartOptions \/ Spawn \/ Launch

InvSpec == InvInit /\ [][InvNext]_invVars

-----------------------------------------------------------------------------
Origins ==
    {"absent", "inherited", "blank", "broken", "payload", "session", "kube", "output"}

InvTypeOK ==
    /\ inv \in Invocations
    /\ pc \in {"proxy", "run", "start", "exec", "usage", "refused", "spawn", "daemon", "child"}
    /\ opts.flags \subseteq ConnectionFlags \cup DaemonFlags
    /\ opts.input_env \in Vars \cup {None} /\ opts.output_var \in OutputVars \cup {"TF_VAR_tunstrap"}
    /\ warned \in BOOLEAN
    /\ pc \in {"spawn", "daemon", "child"} => schema.channel \in {"env", "stdin", "flags"}
    /\ pc \in {"exec", "spawn", "daemon", "child"} /\ inv.verb # "start" => cmd # <<>>
    /\ \A e \in {worker, child} : DOMAIN e = Vars /\ \A v \in Vars : e[v].origin \in Origins

Running == pc = "child" /\ inv.verb # "start"

\* "ssh private key reaches no child variable": when the payload was in the
\* variable run was told of, neither the worker nor the child has it, whatever
\* else the two were given.
PayloadStaysBehind ==
    opts.input_env # None
    /\ (\A v \in Vars \ {opts.input_env} : inv.environ[v] # "payload") =>
        \A v \in Vars : /\ worker[v] # Value("payload")
                        /\ (Running => child[v] # Value("payload"))

\* The child sees the kubeconfigs of this session or none: nothing inherited,
\* never both of the variables of which one hides the other, and the one that
\* names several files when there are several.
KubeChannelSound ==
    Running =>
        /\ \A v \in KubeNames : child[v].origin \in {"absent", "kube"}
        /\ "absent" \in {child["KUBE_CONFIG_PATH"].origin, child["KUBE_CONFIG_PATHS"].origin}
        /\ opts.suppress => child["KUBECONFIG"] = Absent
        /\ Len(child["KUBE_CONFIG_PATH"].paths) <= 1

\* Two targets never share a file or an identity (both are rendered from the
\* same parts), so that merging the files hides no cluster; nor two files.
NothingOverwritten ==
    pc = "child" =>
        /\ \A v \in KubeNames : \A i, j \in DOMAIN child[v].paths :
              i # j => child[v].paths[i] # child[v].paths[j]
        /\ \A i, j \in DOMAIN schema.fetch :
              i # j => Rendered("fetch", schema.fetch[i]) # Rendered("fetch", schema.fetch[j])

\* An accepted --output-var takes nothing from the child that it has without.
OutputVarHarmless ==
    Running =>
        \A v \in RunEnvKeys : child[v].origin # "output" /\ (v \in Scalars => child[v] = Value("session"))

\* What --input-env makes redundant is refused, so no flag is ever ignored;
\* start ignores the daemon flags when it reads its input from stdin.
NoFlagIgnored ==
    pc \in {"spawn", "daemon", "child"} =>
        \/ schema.flags = opts.flags
        \/ inv.verb = "start" /\ schema.channel = "stdin" /\ opts.flags \subseteq DaemonFlags

\* One channel: the input was in one place only, and it was read from there.
\* (run leaves stdin to its child, and the environment to --input-env.)
OneChannel ==
    pc \in {"spawn", "daemon", "child"} =>
        CASE schema.channel = "stdin" -> inv.stdin = "payload" /\ ~ inv.connection
          [] schema.channel = "env" -> inv.environ[opts.input_env] = "payload"
          [] OTHER -> inv.verb = "start" => inv.stdin = "blank" \/ "password" \in opts.flags

\* render_kube_env never finds a target without a path: whoever exports kube
\* variables has had the files written.
ExportedFilesExist ==
    pc = "child" /\ (\E v \in KubeNames : child[v].origin = "kube") => schema.materialize

\* The child's environment is the session's: its kube files, which exist, its
\* scalars, and no user variable in their place.
ChildEnvSound == KubeChannelSound /\ OutputVarHarmless /\ ExportedFilesExist

\* Of several places an input can be in, one is read, and none that was filled
\* in is passed over without a word.
InputHonoured == NoFlagIgnored /\ OneChannel

\* tofu gets the arguments of the proxy untouched, tunnelled or not.
ArgvUntouched ==
    inv.verb = "proxy" /\ pc \in {"exec", "child"} => cmd = <<"tofu">> \o inv.argv

\* With an input, the proxy leaves out the tunnel exactly for a command that
\* tofu would read as one of the bypassed ones, or as none.
BypassIsGrammatical ==
    inv.verb = "proxy" /\ inv.environ["TUNSTRAP_INPUT"] \notin {"absent", "blank"} =>
        (pc = "exec" => \A i \in DOMAIN inv.argv :
                            Grammatical(inv.argv, i) => inv.argv[i] \in BypassCommands)
        /\ (pc = "run" => \E i \in DOMAIN inv.argv :
                            Grammatical(inv.argv, i) /\ inv.argv[i] \notin BypassCommands)

\* apply is warned about exactly when a positional argument is a plan file, not
\* when the value of a flag looks like one.
PlanPositionalWarned ==
    inv.verb = "proxy" /\ pc = "run" =>
        \A i \in DOMAIN inv.argv :
            LET args == SubSeq(inv.argv, i + 1, Len(inv.argv)) IN
            Grammatical(inv.argv, i) /\ inv.argv[i] = "apply" =>
                (warned <=> PlanPositional(args) /\ \A j \in DOMAIN args : args[j] # "--")
=============================================================================
