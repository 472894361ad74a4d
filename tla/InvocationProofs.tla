-------------------------- MODULE InvocationProofs --------------------------
(***************************************************************************)
(* For every set of invocations: what the worker and the child inherit,    *)
(* which channel is read, that no flag is ignored, what the proxy's scan   *)
(* of a command line of any length finds, and that no two files of the     *)
(* targets that survived have one name.                                    *)
(*                                                                         *)
(* The scans are recursive functions, so what they compute is proved by    *)
(* induction.  The library's induction theorems take a predicate for a     *)
(* parameter, which the provers cannot instantiate; WFMin, that a set has  *)
(* a minimal element, takes a set, and gives the two forms used here,      *)
(* Upwards and Downwards.                                                  *)
(***************************************************************************)
EXTENDS Invocation, WellFoundedInduction, TLAPS

ProxyOptions ==
    [flags |-> {}, input_env |-> "TUNSTRAP_INPUT", output_var |-> "TF_VAR_tunstrap",
     args |-> <<"tofu">> \o inv.argv, suppress |-> TRUE]

\* Whose arguments they are.
OptsInv ==
    /\ inv \in Invocations
    /\ pc \in {"proxy", "run", "start", "exec", "usage", "refused", "spawn", "daemon", "child"}
    /\ pc = "start" => inv.verb = "start"
    /\ pc = "run" => inv.verb # "start"
    /\ pc \in {"proxy", "exec"} => inv.verb = "proxy"
    /\ inv.verb = "proxy" /\ pc \notin {"proxy", "exec"} => opts = ProxyOptions
    /\ inv.verb # "proxy" \/ pc \in {"proxy", "exec"} => opts = Options(inv)

EnvSchema ==
    /\ schema.channel = "env" /\ inv.verb # "start"
    /\ opts.input_env # None /\ inv.environ[opts.input_env] = "payload"
    /\ schema.flags = {} /\ opts.flags = {} /\ schema.materialize

StdinSchema ==
    /\ schema.channel = "stdin" /\ inv.verb = "start"
    /\ ~ inv.connection /\ inv.stdin = "payload"
    /\ schema.flags = {} /\ opts.flags \subseteq DaemonFlags
    /\ inv.format = "env" => schema.materialize

FlagSchema ==
    /\ schema.channel = "flags" /\ schema.flags = opts.flags
    /\ inv.verb = "start" => inv.stdin = "blank" \/ "password" \in opts.flags
    /\ inv.verb # "start" \/ inv.format = "env" => schema.materialize

\* Where the schema came from.
SchemaInv == pc \in {"spawn", "daemon", "child"} => EnvSchema \/ StdinSchema \/ FlagSchema

CmdInv ==
    /\ inv.verb = "proxy" /\ pc \in {"exec", "spawn", "daemon", "child"} =>
          cmd = <<"tofu">> \o inv.argv
    /\ inv.verb # "start" /\ pc \in {"exec", "spawn", "daemon", "child"} => cmd # <<>>
    /\ warned \in BOOLEAN

\* What Launch hands over, whichever files there are.
Given(paths) ==
    IF inv.verb # "start" THEN ChildEnv(environ, opts, paths)
    ELSE IF inv.format = "env" THEN KubeEnv(Set(Nothing, Scalars, Value("session")), paths)
    ELSE Nothing

WorkerInv ==
    /\ pc \notin {"daemon", "child"} => worker = Nothing
    /\ pc \in {"daemon", "child"} =>
        /\ worker = Pop(environ, {opts.input_env})
        /\ inv.verb # "start" => ~ BadOutputVar(opts)

ChildInv ==
    /\ pc = "child" => \E paths : child = Given(paths)
    /\ pc = "exec" => child = environ
    /\ pc \notin {"exec", "child"} => child = Nothing

InvInv == OptsInv /\ SchemaInv /\ CmdInv /\ WorkerInv /\ ChildInv

-----------------------------------------------------------------------------
\* A sequence that was given a head has it.
LEMMA HeadOfPrefixed ==
    ASSUME NEW S, NEW s \in Seq(S), NEW x
    PROVE  <<x>> \o s # <<>> /\ Head(<<x>> \o s) = x
<1>1. s \in Seq(S \cup {x}) /\ <<x>> \in Seq(S \cup {x}) OBVIOUS
<1> QED BY <1>1

\* The proxy's command line goes through _split_run_args as it is: it starts
\* with tofu, which is no separator.
LEMMA TofuIsNoSeparator ==
    ASSUME NEW argv \in Seq(Tokens), NEW o, o.input_env # None, o.args = <<"tofu">> \o argv
    PROVE  ChildCommand(o) = <<"tofu">> \o argv
<1>1. Head(<<"tofu">> \o argv) = "tofu" BY HeadOfPrefixed
<1>2. "tofu" # "--" OBVIOUS
<1> QED BY <1>1, <1>2 DEF ChildCommand

\* What build_flag_schema and the payload builders leave, refused or accepted.
LEMMA FlagOutcome ==
    ASSUME NEW forced, FromFlags(forced)
    PROVE  \/ pc' = "refused" /\ UNCHANGED schema
           \/ /\ pc' = "spawn" /\ schema'.channel = "flags" /\ schema'.flags = opts.flags
              /\ schema'.materialize = (forced \/ "materialize" \in opts.flags)
<1>1. CASE pc' = "refused" /\ UNCHANGED schema BY <1>1
<1>2. CASE /\ pc' = "spawn"
           /\ \E kube, fetch :
                 schema' = [channel |-> "flags", kube |-> kube, fetch |-> fetch,
                            flags |-> opts.flags,
                            materialize |-> forced \/ "materialize" \in opts.flags]
  BY <1>2
<1> QED BY <1>1, <1>2, Zenon DEF FromFlags

LEMMA PayloadOutcome ==
    ASSUME NEW content, NEW channel, NEW forced, FromPayload(content, channel, forced)
    PROVE  \/ pc' = "refused" /\ UNCHANGED schema
           \/ /\ pc' = "spawn" /\ content = "payload"
              /\ schema'.channel = channel /\ schema'.flags = {}
              /\ schema'.materialize = (forced \/ inv.payload.materialize)
<1>1. CASE pc' = "refused" /\ UNCHANGED schema BY <1>1
<1>2. CASE /\ pc' = "spawn" /\ content = "payload"
           /\ \E kube, fetch :
                 schema' = [channel |-> channel, kube |-> kube, fetch |-> fetch, flags |-> {},
                            materialize |-> forced \/ inv.payload.materialize]
  BY <1>2
<1> QED BY <1>1, <1>2, Zenon DEF FromPayload

\* An invocation, as InvAssumption gives it.
LEMMA InvocationType ==
    ASSUME OptsInv
    PROVE  /\ inv.verb \in {"proxy", "run", "start"} /\ inv.argv \in Seq(Tokens)
           /\ inv.flags \subseteq ConnectionFlags \cup DaemonFlags
           /\ inv.environ \in [Vars -> {"absent", "inherited", "blank", "broken", "payload"}]
           /\ inv.input_env \in Vars \cup {None}
           /\ None \notin Vars
BY InvAssumption DEF OptsInv

LEMMA InitInv == InvInit => InvInv
<1> SUFFICES ASSUME InvInit PROVE InvInv OBVIOUS
<1>1. OptsInv BY InvAssumption DEF InvInit, OptsInv
<1>2. pc \in {"proxy", "run", "start"} BY InvAssumption DEF InvInit
<1> QED BY <1>1, <1>2 DEF InvInit, InvInv, SchemaInv, CmdInv, WorkerInv, ChildInv

-----------------------------------------------------------------------------
LEMMA StepExecTofu == InvInv /\ ExecTofu => InvInv'
<1> SUFFICES ASSUME InvInv, ExecTofu PROVE InvInv' OBVIOUS
<1>1. inv.argv \in Seq(Tokens) BY InvocationType DEF InvInv
<1>2. <<"tofu">> \o inv.argv # <<>> BY <1>1, HeadOfPrefixed
<1>3. environ' = environ BY DEF ExecTofu, environ
<1> QED BY <1>2, <1>3 DEF InvInv, ExecTofu, OptsInv, SchemaInv, CmdInv, WorkerInv, ChildInv

LEMMA StepRunTunnelled == InvInv /\ RunTunnelled => InvInv'
<1> SUFFICES ASSUME InvInv, RunTunnelled PROVE InvInv' OBVIOUS
<1>1. warned' \in BOOLEAN BY DEF RunTunnelled, SavedPlan
<1> QED
  BY <1>1 DEF InvInv, RunTunnelled, OptsInv, SchemaInv, CmdInv, WorkerInv, ChildInv, ProxyOptions

\* A refusal keeps everything but pc, and asks nothing of the rest.
LEMMA StepRefuse ==
    ASSUME InvInv, NEW how \in {"usage", "refused"}, Refuse(how),
           pc \notin {"proxy", "exec", "daemon", "child"}
    PROVE  InvInv'
BY DEF InvInv, Refuse, OptsInv, SchemaInv, CmdInv, WorkerInv, ChildInv, ProxyOptions, Options

\* As well when the payload or a flag is refused.
LEMMA StepRefused ==
    ASSUME InvInv, pc' = "refused", pc \in {"run", "start"},
           UNCHANGED <<inv, opts, warned, schema, worker, child>>
    PROVE  InvInv'
BY DEF InvInv, OptsInv, SchemaInv, CmdInv, WorkerInv, ChildInv, ProxyOptions, Options

\* Both channels of a valid input.
LEMMA StepBuilt ==
    ASSUME InvInv, pc' = "spawn", UNCHANGED <<inv, opts, worker, child>>, pc \in {"run", "start"},
           (EnvSchema \/ StdinSchema \/ FlagSchema)', CmdInv'
    PROVE  InvInv'
BY DEF InvInv, OptsInv, SchemaInv, WorkerInv, ChildInv, ProxyOptions, Options

LEMMA StepRunOptions == InvInv /\ RunOptions => InvInv'
<1> SUFFICES ASSUME InvInv, RunOptions PROVE InvInv' OBVIOUS
<1> USE DEF InvInv
<1>0. pc = "run" /\ inv.verb # "start" BY DEF RunOptions, OptsInv
<1>1. CASE NoCommand(opts) \/ (opts.input_env # None /\ Redundant(opts))
  <2>1. Refuse("usage") BY <1>1 DEF RunOptions
  <2> QED BY <2>1, <1>0, StepRefuse
<1>2. CASE ~ (NoCommand(opts) \/ (opts.input_env # None /\ Redundant(opts)))
  <2>1. /\ IF opts.input_env # None THEN FromPayload(inv.environ[opts.input_env], "env", TRUE)
           ELSE FromFlags(TRUE)
        /\ cmd' = ChildCommand(opts) /\ UNCHANGED <<inv, opts, warned, worker, child>>
    BY <1>2 DEF RunOptions
  <2>2. CmdInv'
    <3>0. ChildCommand(opts) # <<>> /\ UNCHANGED warned BY <1>2 DEF NoCommand, RunOptions
    <3> SUFFICES ASSUME inv.verb = "proxy" PROVE cmd' = <<"tofu">> \o inv.argv
      BY <2>1, <3>0 DEF CmdInv
    <3>1. opts = ProxyOptions BY <1>0 DEF OptsInv
    <3>2. opts.args = <<"tofu">> \o inv.argv /\ opts.input_env # None
      BY <3>1, InvocationType DEF ProxyOptions, Vars
    <3> QED BY <3>2, <2>1, TofuIsNoSeparator, InvocationType
  <2>3. CASE opts.input_env # None
    <3>0. opts.flags \subseteq ConnectionFlags \cup DaemonFlags
      BY <1>0, InvocationType DEF OptsInv, ProxyOptions, Options
    <3>1. opts.flags = {} BY <3>0, <1>2, <2>3 DEF Redundant
    <3>2. FromPayload(inv.environ[opts.input_env], "env", TRUE) BY <2>1, <2>3
    <3>3. CASE pc' = "refused" /\ UNCHANGED schema BY <3>3, <2>1, <1>0, StepRefused
    <3>4. CASE /\ inv.environ[opts.input_env] = "payload" /\ pc' = "spawn"
               /\ schema'.channel = "env" /\ schema'.flags = {} /\ schema'.materialize
      <4>1. EnvSchema' BY <3>4, <3>1, <2>3, <2>1, <1>0 DEF EnvSchema
      <4> QED BY <4>1, <3>4, <2>1, <2>2, <1>0, StepBuilt
    <3> QED BY <3>2, <3>3, <3>4, PayloadOutcome
  <2>4. CASE opts.input_env = None
    <3>1. FromFlags(TRUE) BY <2>1, <2>4
    <3>2. CASE pc' = "refused" /\ UNCHANGED schema BY <3>2, <2>1, <1>0, StepRefused
    <3>3. CASE /\ pc' = "spawn" /\ schema'.channel = "flags" /\ schema'.flags = opts.flags
               /\ schema'.materialize
      <4>1. FlagSchema' BY <3>3, <2>1, <1>0 DEF FlagSchema
      <4> QED BY <4>1, <3>3, <2>1, <2>2, <1>0, StepBuilt
    <3> QED BY <3>1, <3>2, <3>3, FlagOutcome
  <2> QED BY <2>3, <2>4
<1> QED BY <1>1, <1>2

LEMMA StepStartOptions == InvInv /\ StartOptions => InvInv'
<1> SUFFICES ASSUME InvInv, StartOptions PROVE InvInv' OBVIOUS
<1> USE DEF InvInv
<1>0. pc = "start" /\ inv.verb = "start" BY DEF StartOptions, OptsInv
<1>1. CASE Refuse("usage") BY <1>1, <1>0, StepRefuse
<1>2. CASE /\ inv.connection /\ ~ SecondInput(opts) /\ FromFlags(inv.format = "env")
           /\ UNCHANGED <<inv, opts, cmd, warned, worker, child>>
  <2>0. CmdInv /\ inv' = inv /\ warned' = warned BY <1>2
  <2>1. CmdInv' BY <2>0, <1>0 DEF CmdInv
  <2>2. CASE pc' = "refused" /\ UNCHANGED schema BY <2>2, <1>2, <1>0, StepRefused
  <2>3. CASE /\ pc' = "spawn" /\ schema'.channel = "flags" /\ schema'.flags = opts.flags
             /\ inv.format = "env" => schema'.materialize
    <3>1. FlagSchema' BY <2>3, <1>2, <1>0 DEF FlagSchema, SecondInput
    <3> QED BY <3>1, <2>3, <2>1, <1>2, <1>0, StepBuilt
  <2> QED BY <1>2, <2>2, <2>3, FlagOutcome
<1>3. CASE /\ ~ inv.connection /\ opts.flags \cap ConnectionFlags = {}
           /\ FromPayload(inv.stdin, "stdin", inv.format = "env")
           /\ UNCHANGED <<inv, opts, cmd, warned, worker, child>>
  <2>0. CmdInv /\ inv' = inv /\ warned' = warned BY <1>3
  <2>1. CmdInv' BY <2>0, <1>0 DEF CmdInv
  <2>2. CASE pc' = "refused" /\ UNCHANGED schema BY <2>2, <1>3, <1>0, StepRefused
  <2>3. CASE /\ pc' = "spawn" /\ schema'.channel = "stdin" /\ schema'.flags = {}
             /\ inv.stdin = "payload" /\ (inv.format = "env" => schema'.materialize)
    <3>0. opts.flags \subseteq ConnectionFlags \cup DaemonFlags
      BY <1>0, InvocationType DEF OptsInv, Options
    <3>1. StdinSchema' BY <2>3, <1>3, <1>0, <3>0 DEF StdinSchema
    <3> QED BY <3>1, <2>3, <2>1, <1>3, <1>0, StepBuilt
  <2> QED BY <1>3, <2>2, <2>3, PayloadOutcome
<1> QED BY <1>1, <1>2, <1>3 DEF StartOptions

LEMMA StepSpawn == InvInv /\ Spawn => InvInv'
<1> SUFFICES ASSUME InvInv, Spawn PROVE InvInv' OBVIOUS
<1>0. pc = "spawn" BY DEF Spawn
<1>1. CASE Refuse("usage") BY <1>1, <1>0, StepRefuse
<1>2. CASE /\ inv.verb # "start" => ~ BadOutputVar(opts)
           /\ worker' = Pop(environ, {opts.input_env}) /\ pc' = "daemon"
           /\ UNCHANGED <<inv, opts, cmd, warned, schema, child>>
  <2>1. OptsInv' /\ CmdInv' /\ ChildInv'
    BY <1>0, <1>2 DEF InvInv, OptsInv, CmdInv, ChildInv, ProxyOptions
  <2>2. SchemaInv'
    BY <1>0, <1>2 DEF InvInv, SchemaInv, EnvSchema, StdinSchema, FlagSchema
  <2>3. environ' = environ BY <1>2 DEF environ
  <2>4. WorkerInv' BY <1>2, <2>3 DEF WorkerInv, BadOutputVar, Pop
  <2> QED BY <2>1, <2>2, <2>4 DEF InvInv
<1> QED BY <1>1, <1>2 DEF Spawn

LEMMA StepLaunch == InvInv /\ Launch => InvInv'
<1> SUFFICES ASSUME InvInv, Launch PROVE InvInv' OBVIOUS
<1>0. /\ pc = "daemon" /\ pc' = "child" /\ UNCHANGED <<inv, opts, cmd, warned, schema, worker>>
      /\ \E paths : child' = Given(paths)
  BY DEF Launch, Given
<1>1. OptsInv' /\ CmdInv' BY <1>0 DEF InvInv, OptsInv, CmdInv, ProxyOptions
<1>2. SchemaInv' BY <1>0 DEF InvInv, SchemaInv, EnvSchema, StdinSchema, FlagSchema
<1>3. environ' = environ BY <1>0 DEF environ
<1>4. WorkerInv' BY <1>0, <1>3 DEF InvInv, WorkerInv, BadOutputVar, Pop
<1>5. ChildInv'
  <2>1. \A paths : Given(paths)' = Given(paths) BY <1>0, <1>3 DEF Given
  <2> QED BY <1>0, <2>1 DEF ChildInv
<1> QED BY <1>1, <1>2, <1>4, <1>5 DEF InvInv

\* Every step keeps what the properties follow from.
THEOREM InvocationInvariant == InvSpec => []InvInv
<1>1. InvInv /\ [InvNext]_invVars => InvInv'
  <2> SUFFICES ASSUME InvInv, [InvNext]_invVars PROVE InvInv' OBVIOUS
  <2>1. CASE InvNext
    BY <2>1, StepExecTofu, StepRunTunnelled, StepRunOptions, StepStartOptions, StepSpawn,
       StepLaunch DEF InvNext
  <2>2. CASE UNCHANGED invVars
    <3>1. UNCHANGED <<inv, pc, opts, cmd, warned, schema, worker, child>> BY <2>2 DEF invVars
    <3>2. OptsInv' /\ CmdInv' BY <3>1 DEF InvInv, OptsInv, CmdInv, ProxyOptions
    <3>3. SchemaInv' BY <3>1 DEF InvInv, SchemaInv, EnvSchema, StdinSchema, FlagSchema
    <3>4. environ' = environ BY <3>1 DEF environ
    <3>5. WorkerInv' BY <3>1, <3>4 DEF InvInv, WorkerInv, BadOutputVar, Pop
    <3>6. \A paths : Given(paths)' = Given(paths) BY <3>1, <3>4 DEF Given
    <3>7. ChildInv' BY <3>1, <3>4, <3>6 DEF InvInv, ChildInv
    <3> QED BY <3>2, <3>3, <3>5, <3>7 DEF InvInv
  <2> QED BY <2>1, <2>2
<1> QED BY <1>1, InitInv, PTL DEF InvSpec
-----------------------------------------------------------------------------
\* What a mapping of names holds after Pop and Set.
LEMMA PopOf ==
    ASSUME NEW env, NEW names, NEW v \in Vars
    PROVE  Pop(env, names)[v] = IF v \in names THEN Absent ELSE env[v]
BY DEF Pop

LEMMA SetOfNames ==
    ASSUME NEW env, NEW names, NEW value, NEW v \in Vars
    PROVE  Set(env, names, value)[v] = IF v \in names THEN value ELSE env[v]
BY DEF Set

\* The child's environment, name by name.
LEMMA ChildOf ==
    ASSUME NEW env, NEW o, NEW paths, NEW v \in Vars
    PROVE  ChildEnv(env, o, paths)[v] =
             IF v = o.output_var THEN Value("output")
             ELSE IF o.suppress /\ v = "KUBECONFIG" THEN Absent
             ELSE IF v \in KubeKeys(Len(paths)) THEN [origin |-> "kube", paths |-> paths]
             ELSE IF v \in Scalars THEN Value("session")
             ELSE IF v \in KubeNames \cup {o.input_env} THEN Absent
             ELSE env[v]
<1> DEFINE a == Pop(Pop(env, {o.input_env}), KubeNames)
           b == Set(a, Scalars, Value("session"))
           c == KubeEnv(b, paths)
           d == Pop(c, IF o.suppress THEN {"KUBECONFIG"} ELSE {})
<1>1. ChildEnv(env, o, paths)[v] = IF v = o.output_var THEN Value("output") ELSE d[v]
  BY SetOfNames DEF ChildEnv
<1>2. d[v] = IF o.suppress /\ v = "KUBECONFIG" THEN Absent ELSE c[v] BY PopOf
<1>3. c[v] = IF v \in KubeKeys(Len(paths)) THEN [origin |-> "kube", paths |-> paths] ELSE b[v]
  BY SetOfNames DEF KubeEnv
<1>4. b[v] = IF v \in Scalars THEN Value("session") ELSE a[v] BY SetOfNames
<1>5. a[v] = IF v \in KubeNames \cup {o.input_env} THEN Absent ELSE env[v] BY PopOf
<1> HIDE DEF a, b, c, d
<1> QED BY <1>1, <1>2, <1>3, <1>4, <1>5

\* Whatever its name, it has one of five values, the shell's only under a name
\* that is not the input's; a scalar is the session's unless the output
\* variable has its name.
LEMMA ChildIsOneOf ==
    ASSUME NEW env, NEW o, NEW paths, NEW v \in Vars
    PROVE  /\ \/ ChildEnv(env, o, paths)[v] \in
                    {Value("output"), Absent, [origin |-> "kube", paths |-> paths],
                     Value("session")}
              \/ ChildEnv(env, o, paths)[v] = env[v] /\ v # o.input_env
           /\ v \in Scalars \ KubeKeys(Len(paths)) /\ v \notin {o.output_var, "KUBECONFIG"} =>
                 ChildEnv(env, o, paths)[v] = Value("session")
<1> DEFINE c == ChildEnv(env, o, paths)[v]
           k == [origin |-> "kube", paths |-> paths]
<1>1. c = IF v = o.output_var THEN Value("output")
          ELSE IF o.suppress /\ v = "KUBECONFIG" THEN Absent
          ELSE IF v \in KubeKeys(Len(paths)) THEN k
          ELSE IF v \in Scalars THEN Value("session")
          ELSE IF v \in KubeNames \cup {o.input_env} THEN Absent
          ELSE env[v]
  BY ChildOf
<1> HIDE DEF c, k
<1>2. c \in {Value("output"), Absent, k, Value("session")} \/ (c = env[v] /\ v # o.input_env)
  BY <1>1
<1>3. v \in Scalars \ KubeKeys(Len(paths)) /\ v \notin {o.output_var, "KUBECONFIG"} =>
        c = Value("session")
  BY <1>1
<1> QED BY <1>2, <1>3 DEF c, k

\* What the shell had, with nothing of the session.
LEMMA Inherited ==
    ASSUME OptsInv, NEW v \in Vars
    PROVE  /\ environ[v] = Value(inv.environ[v])
           /\ inv.environ[v] \in {"absent", "inherited", "blank", "broken", "payload"}
BY InvocationType DEF environ

\* tofu gets the arguments of the proxy untouched, whatever they are.
THEOREM ProxyKeepsArgv == InvSpec => []ArgvUntouched
<1>1. InvInv => ArgvUntouched BY DEF InvInv, CmdInv, ArgvUntouched
<1> QED BY <1>1, InvocationInvariant, PTL

\* One channel is read and no flag is passed over, for every combination of them.
THEOREM InputIsHonoured == InvSpec => []InputHonoured
<1>1. InvInv => NoFlagIgnored
  BY DEF InvInv, SchemaInv, EnvSchema, StdinSchema, FlagSchema, NoFlagIgnored
<1>2. InvInv => OneChannel
  BY DEF InvInv, SchemaInv, EnvSchema, StdinSchema, FlagSchema, OneChannel
<1> QED BY <1>1, <1>2, InvocationInvariant, PTL DEF InputHonoured

\* The payload stays with run: for every environment, every option and every
\* output variable, neither the worker nor the child inherits it.
THEOREM SecretStaysBehind == InvSpec => []PayloadStaysBehind
<1>1. InvInv => PayloadStaysBehind
  <2> SUFFICES ASSUME InvInv, opts.input_env # None,
                      \A u \in Vars \ {opts.input_env} : inv.environ[u] # "payload",
                      NEW v \in Vars
               PROVE  /\ worker[v] # Value("payload")
                      /\ Running => child[v] # Value("payload")
    BY DEF PayloadStaysBehind
  <2>0. OptsInv BY DEF InvInv
  <2>1. /\ environ[v] = Value("payload") => v = opts.input_env
        /\ Absent # Value("payload") /\ Value("session") # Value("payload")
        /\ Value("output") # Value("payload")
        /\ \A paths : [origin |-> "kube", paths |-> paths] # Value("payload")
    <3>1. /\ Absent.origin = "absent"
          /\ \A origin : Value(origin).origin = origin
          /\ \A paths : [origin |-> "kube", paths |-> paths].origin = "kube"
      BY DEF Value, Absent
    <3>2. environ[v] = Value("payload") => v = opts.input_env
      <4>1. environ[v] = Value(inv.environ[v]) BY <2>0, Inherited
      <4>2. environ[v] = Value("payload") => inv.environ[v] = "payload"
        BY <4>1 DEF Value
      <4> QED BY <4>2
    <3>3. /\ "absent" # "payload" /\ "session" # "payload"
          /\ "output" # "payload" /\ "kube" # "payload"
      OBVIOUS
    <3> QED BY <3>1, <3>2, <3>3, Zenon
  <2>2. worker[v] # Value("payload")
    <3>1. CASE pc \in {"daemon", "child"}
      <4>1. worker = Pop(environ, {opts.input_env}) BY <3>1 DEF InvInv, WorkerInv
      <4> QED BY <4>1, <2>1, PopOf
    <3>2. CASE pc \notin {"daemon", "child"}
      <4>1. worker = Nothing BY <3>2 DEF InvInv, WorkerInv
      <4> QED BY <4>1, <2>1 DEF Nothing
    <3> QED BY <3>1, <3>2
  <2>3. ASSUME Running PROVE child[v] # Value("payload")
    <3>1. PICK paths : child = ChildEnv(environ, opts, paths)
      BY <2>3 DEF InvInv, ChildInv, Given, Running
    <3>2. \/ child[v] \in {Value("output"), Absent, [origin |-> "kube", paths |-> paths],
                            Value("session")}
          \/ child[v] = environ[v] /\ v # opts.input_env
      <4>1. \/ ChildEnv(environ, opts, paths)[v] \in
                  {Value("output"), Absent, [origin |-> "kube", paths |-> paths], Value("session")}
            \/ ChildEnv(environ, opts, paths)[v] = environ[v] /\ v # opts.input_env
        BY ChildIsOneOf
      <4> QED BY <3>1, <4>1, Zenon
    <3>3. [origin |-> "kube", paths |-> paths] # Value("payload") BY <2>1
    <3> QED BY <3>2, <3>3, <2>1, Zenon
  <2> QED BY <2>2, <2>3
<1> QED BY <1>1, InvocationInvariant, PTL

\* The environment of the child is the session's, for any number of files and
\* any accepted output variable.
THEOREM ChildEnvCorrect == InvSpec => []ChildEnvSound
<1>1. InvInv => KubeChannelSound /\ OutputVarHarmless
  <2> SUFFICES ASSUME InvInv, Running PROVE KubeChannelSound /\ OutputVarHarmless
    BY DEF KubeChannelSound, OutputVarHarmless
  <2>1. PICK paths : child = ChildEnv(environ, opts, paths)
    BY DEF InvInv, ChildInv, Given, Running
  <2>2. /\ RunEnvKeys \subseteq Vars
        /\ KubeNames \subseteq RunEnvKeys /\ Scalars \subseteq RunEnvKeys
        /\ Scalars \cap KubeNames = {}
    BY DEF Vars, RunEnvKeys, Scalars, KubeNames
  <2>3. opts.output_var \notin RunEnvKeys
    <3>1. ~ BadOutputVar(opts) BY DEF InvInv, WorkerInv, Running
    <3>2. None \notin Vars BY InvAssumption
    <3> QED BY <3>1, <3>2, <2>2 DEF BadOutputVar
  <2>4. KubeKeys(Len(paths)) \subseteq KubeNames BY DEF KubeKeys, KubeNames
  <2>5. \A v \in KubeNames :
          child[v] = IF opts.suppress /\ v = "KUBECONFIG" THEN Absent
                     ELSE IF v \in KubeKeys(Len(paths)) THEN [origin |-> "kube", paths |-> paths]
                     ELSE Absent
    <3> SUFFICES ASSUME NEW v \in KubeNames
                 PROVE  child[v] = IF opts.suppress /\ v = "KUBECONFIG" THEN Absent
                     ELSE IF v \in KubeKeys(Len(paths)) THEN [origin |-> "kube", paths |-> paths]
                     ELSE Absent
      OBVIOUS
    <3>1. v \in Vars /\ v \notin Scalars /\ v # opts.output_var BY <2>2, <2>3
    <3> QED BY <3>1, <2>1, ChildOf
  <2>6. \A v \in Scalars : child[v] = Value("session")
    <3> SUFFICES ASSUME NEW v \in Scalars PROVE child[v] = Value("session") OBVIOUS
    <3>1. v \in Vars /\ v \notin KubeKeys(Len(paths)) /\ v # opts.output_var /\ v # "KUBECONFIG"
      BY <2>2, <2>3, <2>4 DEF KubeNames
    <3>3. ChildEnv(environ, opts, paths)[v] = Value("session") BY <3>1, ChildIsOneOf
    <3> QED BY <3>3, <2>1
  <2>7. KubeChannelSound
    <3>1. \A v \in KubeNames : child[v].origin \in {"absent", "kube"}
      BY <2>5 DEF Absent, Value
    <3>2. "absent" \in {child["KUBE_CONFIG_PATH"].origin, child["KUBE_CONFIG_PATHS"].origin}
      BY <2>5 DEF Absent, Value, KubeKeys, KubeNames
    <3>3. opts.suppress => child["KUBECONFIG"] = Absent BY <2>5 DEF KubeNames
    <3>4. Len(child["KUBE_CONFIG_PATH"].paths) <= 1
      <4>1. Len(<<>>) = 0 OBVIOUS
      <4>2. "KUBE_CONFIG_PATH" \in KubeKeys(Len(paths)) => Len(paths) = 1 BY DEF KubeKeys
      <4>3. child["KUBE_CONFIG_PATH"].paths =
               IF "KUBE_CONFIG_PATH" \in KubeKeys(Len(paths)) THEN paths ELSE <<>>
        BY <2>5 DEF Absent, Value, KubeNames
      <4>4. CASE "KUBE_CONFIG_PATH" \in KubeKeys(Len(paths))
        <5>1. Len(paths) = 1 /\ child["KUBE_CONFIG_PATH"].paths = paths BY <4>4, <4>2, <4>3
        <5> QED BY <5>1
      <4>5. CASE "KUBE_CONFIG_PATH" \notin KubeKeys(Len(paths))
        <5>1. child["KUBE_CONFIG_PATH"].paths = <<>> BY <4>5, <4>3
        <5> QED BY <5>1, <4>1
      <4> QED BY <4>4, <4>5
    <3> QED BY <3>1, <3>2, <3>3, <3>4 DEF KubeChannelSound
  <2>8. OutputVarHarmless
    <3>1. \A v \in KubeNames : child[v].origin # "output" BY <2>5 DEF Absent, Value
    <3>2. \A v \in Scalars : child[v].origin # "output" BY <2>6 DEF Value
    <3> QED BY <3>1, <3>2, <2>6 DEF OutputVarHarmless, RunEnvKeys
  <2> QED BY <2>7, <2>8
<1>2. InvInv => ExportedFilesExist
  <2> SUFFICES ASSUME InvInv, pc = "child", NEW v \in KubeNames, child[v].origin = "kube"
               PROVE  schema.materialize
    BY DEF ExportedFilesExist
  <2>1. EnvSchema \/ StdinSchema \/ FlagSchema BY DEF InvInv, SchemaInv
  <2>2. CASE inv.verb # "start" BY <2>1, <2>2 DEF EnvSchema, StdinSchema, FlagSchema
  <2>3. CASE inv.verb = "start"
    <3>1. inv.format = "env"
      <4>1. v \in Vars BY DEF Vars, RunEnvKeys
      <4>2. Nothing[v].origin # "kube" BY <4>1 DEF Nothing, Absent, Value
      <4> QED BY <2>3, <4>2 DEF InvInv, ChildInv, Given
    <3> QED BY <3>1, <2>1, <2>3 DEF EnvSchema, StdinSchema, FlagSchema
  <2> QED BY <2>2, <2>3
<1> QED BY <1>1, <1>2, InvocationInvariant, PTL DEF ChildEnvSound

\* Type correctness.
THEOREM InvTypeCorrect == InvSpec => []InvTypeOK
<1>1. InvInv => InvTypeOK
  <2> SUFFICES ASSUME InvInv PROVE InvTypeOK OBVIOUS
  <2>0. OptsInv BY DEF InvInv
  <2>1. /\ opts.flags \subseteq ConnectionFlags \cup DaemonFlags
        /\ opts.input_env \in Vars \cup {None}
        /\ opts.output_var \in OutputVars \cup {"TF_VAR_tunstrap"}
    <3>1. CASE opts = ProxyOptions BY <3>1 DEF ProxyOptions, Vars
    <3>2. CASE opts = Options(inv) BY <3>2, <2>0, InvAssumption DEF OptsInv, Options
    <3> QED BY <2>0, <3>1, <3>2 DEF OptsInv
  <2>2. pc \in {"spawn", "daemon", "child"} => schema.channel \in {"env", "stdin", "flags"}
    BY DEF InvInv, SchemaInv, EnvSchema, StdinSchema, FlagSchema
  <2>3. \A v \in Vars : environ[v].origin \in Origins /\ Nothing[v].origin \in Origins
    <3> SUFFICES ASSUME NEW v \in Vars
                 PROVE  environ[v].origin \in Origins /\ Nothing[v].origin \in Origins
      OBVIOUS
    <3>1. environ[v] = Value(inv.environ[v]) BY <2>0, Inherited
    <3>4. environ[v].origin = inv.environ[v] BY <3>1 DEF Value
    <3>2. inv.environ[v] \in Origins BY <2>0, Inherited DEF Origins
    <3>3. Nothing[v].origin \in Origins BY DEF Nothing, Absent, Value, Origins
    <3> QED BY <3>2, <3>3, <3>4
  <2>4. DOMAIN worker = Vars /\ \A v \in Vars : worker[v].origin \in Origins
    <3>1. CASE worker = Nothing BY <3>1, <2>3 DEF Nothing
    <3>2. CASE worker = Pop(environ, {opts.input_env})
      BY <3>2, <2>3 DEF Pop, Absent, Value, Origins
    <3> QED BY <3>1, <3>2 DEF InvInv, WorkerInv
  <2>5. DOMAIN child = Vars /\ \A v \in Vars : child[v].origin \in Origins
    <3>1. CASE child = Nothing \/ child = environ BY <3>1, <2>3 DEF Nothing, environ
    <3>2. ASSUME NEW paths, child = ChildEnv(environ, opts, paths)
          PROVE  DOMAIN child = Vars /\ \A v \in Vars : child[v].origin \in Origins
      <4>1. DOMAIN child = Vars BY <3>2 DEF ChildEnv, Set
      <4>2. ASSUME NEW v \in Vars PROVE child[v].origin \in Origins
        <5>1. child[v] \in {Value("output"), Absent, [origin |-> "kube", paths |-> paths],
                            Value("session")} \/ child[v] = environ[v]
          <6>1. \/ ChildEnv(environ, opts, paths)[v] \in
                      {Value("output"), Absent, [origin |-> "kube", paths |-> paths], Value("session")}
                \/ ChildEnv(environ, opts, paths)[v] = environ[v] /\ v # opts.input_env
            BY ChildIsOneOf
          <6> QED BY <3>2, <6>1, Zenon
        <5> QED BY <5>1, <2>3 DEF Value, Absent, Origins
      <4> QED BY <4>1, <4>2
    <3>3. ASSUME NEW paths, child = KubeEnv(Set(Nothing, Scalars, Value("session")), paths)
          PROVE  DOMAIN child = Vars /\ \A v \in Vars : child[v].origin \in Origins
      <4>1. DOMAIN child = Vars BY <3>3 DEF KubeEnv, Set
      <4>2. ASSUME NEW v \in Vars PROVE child[v].origin \in Origins
        <5>1. child[v] \in {[origin |-> "kube", paths |-> paths], Value("session"), Nothing[v]}
          BY <3>3, SetOfNames DEF KubeEnv
        <5> QED BY <5>1, <2>3 DEF Value, Origins
      <4> QED BY <4>1, <4>2
    <3> QED BY <3>1, <3>2, <3>3 DEF InvInv, ChildInv, Given
  <2>6. /\ warned \in BOOLEAN
        /\ pc \in {"exec", "spawn", "daemon", "child"} /\ inv.verb # "start" => cmd # <<>>
    BY DEF InvInv, CmdInv
  <2> QED BY <2>0, <2>1, <2>2, <2>4, <2>5, <2>6 DEF InvTypeOK, OptsInv
<1> QED BY <1>1, InvocationInvariant, PTL
-----------------------------------------------------------------------------
(* Induction, and the recursive functions of TofuArgs.                       *)

\* < as the set of its pairs: library facts about a relation apply to it, where
\* those about a predicate cannot be used.
LEMMA LessThanWellFounded ==
    IsWellFoundedOn({p \in Nat \X Nat : p[1] < p[2]}, Nat)
<1>1. {p \in Nat \X Nat : p[1] < p[2]} \cap (Nat \X Nat) \subseteq OpToRel(<, Nat)
  BY DEF OpToRel
<1> QED BY <1>1, NatLessThanWellFounded, IsWellFoundedOnSubrelation

\* Every set of numbers that is not empty has a least one.
LEMMA Least ==
    ASSUME NEW T \in SUBSET Nat, T # {}
    PROVE  \E x \in T : \A y \in T : x <= y
<1> DEFINE R == {p \in Nat \X Nat : p[1] < p[2]}
<1>1. \E x \in T : \A y \in T : <<y, x>> \notin R
  <2>1. IsWellFoundedOn(R, Nat) BY LessThanWellFounded
  <2> HIDE DEF R
  <2> QED BY <2>1, WFMin
<1>2. PICK x \in T : \A y \in T : <<y, x>> \notin R BY <1>1
<1>3. ASSUME NEW y \in T PROVE x <= y
  <2>1. <<y, x>> \notin R BY <1>2
  <2>2. x \in Nat /\ y \in Nat OBVIOUS
  <2>3. ~ y < x BY <2>1, <2>2
  <2> QED BY <2>2, <2>3
<1> QED BY <1>3

\* Induction over a set, upwards and from n down.
LEMMA Upwards ==
    ASSUME NEW S, 0 \in S, \A k \in Nat : k \in S => k + 1 \in S
    PROVE  Nat \subseteq S
<1> SUFFICES ASSUME Nat \ S # {} PROVE FALSE OBVIOUS
<1>1. PICK x \in Nat \ S : \A y \in Nat \ S : x <= y
  <2>1. Nat \ S \in SUBSET Nat OBVIOUS
  <2> QED BY <2>1, Least
<1>2. x \in Nat /\ x # 0 /\ x - 1 \in Nat OBVIOUS
<1>3. x - 1 \in S BY <1>1, <1>2
<1>4. x - 1 + 1 \in S BY <1>2, <1>3
<1> QED BY <1>2, <1>4

LEMMA Downwards ==
    ASSUME NEW n \in Nat, NEW S,
           \A i \in 1 .. n : (\A j \in i + 1 .. n : j \in S) => i \in S
    PROVE  1 .. n \subseteq S
<1> DEFINE T == {k \in Nat : k < n /\ n - k \notin S}
<1> SUFFICES ASSUME NEW i \in 1 .. n, i \notin S PROVE FALSE OBVIOUS
<1>1. n - i \in T OBVIOUS
<1>2. PICK x \in T : \A y \in T : x <= y
  <2>1. T \in SUBSET Nat OBVIOUS
  <2> HIDE DEF T
  <2> QED BY <1>1, <2>1, Least
<1>3. n - x \in 1 .. n /\ n - x \notin S OBVIOUS
<1>4. ASSUME NEW j \in (n - x) + 1 .. n PROVE j \in S
  <2>1. n - j \in Nat /\ n - j < x /\ n - (n - j) = j BY <1>3
  <2>2. n - j \notin T BY <2>1, <1>2
  <2> QED BY <2>1, <2>2
<1> QED BY <1>3, <1>4
\* A scan of n tokens: at each it stops with a verdict, or goes on one or two
\* further, until the end.
IsScan(f, n, end, jump, verdict) ==
    f = [i \in 1 .. n + 2 |->
            IF i > n THEN end ELSE IF jump[i] = 0 THEN verdict[i] ELSE f[i + jump[i]]]

\* Such a function exists, so that the recursive definitions of TofuArgs define
\* what they say.
LEMMA ScanExists ==
    ASSUME NEW n \in Nat, NEW end, NEW jump \in [1 .. n -> 0 .. 2], NEW verdict
    PROVE  \E f : IsScan(f, n, end, jump, verdict)
<1> DEFINE Right(f, i) ==
               f[i] = IF i > n THEN end
                      ELSE IF jump[i] = 0 THEN verdict[i] ELSE f[i + jump[i]]
           Found(f, k) ==
               /\ DOMAIN f = 1 .. n + 2 /\ f = [i \in 1 .. n + 2 |-> f[i]]
               /\ \A i \in 1 .. n + 2 : i > n - k => Right(f, i)
           S == {k \in Nat : k <= n => \E f : Found(f, k)}
<1>1. 0 \in S
  <2>1. Found([i \in 1 .. n + 2 |-> end], 0) OBVIOUS
  <2> QED BY <2>1
<1>2. ASSUME NEW k \in Nat, k \in S PROVE k + 1 \in S
  <2> SUFFICES ASSUME k + 1 <= n PROVE \E f : Found(f, k + 1) OBVIOUS
  <2>1. PICK f : Found(f, k) BY <1>2
  <2> DEFINE at == n - k
             g == [i \in 1 .. n + 2 |->
                      IF i = at THEN IF jump[at] = 0 THEN verdict[at] ELSE f[at + jump[at]]
                      ELSE f[i]]
  <2>2. at \in 1 .. n /\ jump[at] \in 0 .. 2 OBVIOUS
  <2>3. \A i \in 1 .. n + 2 : i # at => g[i] = f[i] OBVIOUS
  <2>4. Right(g, at)
    <3>1. CASE jump[at] = 0 BY <3>1, <2>2
    <3>2. CASE jump[at] # 0
      <4>1. at + jump[at] \in 1 .. n + 2 /\ at + jump[at] # at BY <3>2, <2>2
      <4>2. g[at + jump[at]] = f[at + jump[at]] BY <4>1, <2>3
      <4>3. g[at] = f[at + jump[at]] BY <3>2, <2>2
      <4> QED BY <4>2, <4>3, <3>2, <2>2
    <3> QED BY <3>1, <3>2
  <2>5. ASSUME NEW i \in 1 .. n + 2, i > at PROVE Right(g, i)
    <3>1. Right(f, i) BY <2>1, <2>5
    <3>2. g[i] = f[i] BY <2>3, <2>5
    <3>3. CASE i > n BY <3>1, <3>2, <3>3
    <3>4. CASE i <= n
      <4>1. jump[i] \in 0 .. 2 /\ i + jump[i] \in 1 .. n + 2 /\ i + jump[i] # at
        BY <3>4, <2>2, <2>5
      <4>2. g[i + jump[i]] = f[i + jump[i]] BY <4>1, <2>3
      <4> QED BY <3>1, <3>2, <3>4, <4>2
    <3> QED BY <3>3, <3>4
  <2>6. DOMAIN g = 1 .. n + 2 /\ g = [i \in 1 .. n + 2 |-> g[i]] OBVIOUS
  <2> HIDE DEF g, Right
  <2>7. \A i \in 1 .. n + 2 : i > n - (k + 1) => i = at \/ i > at BY <2>2
  <2>8. Found(g, k + 1) BY <2>4, <2>5, <2>6, <2>7
  <2> QED BY <2>8
<1>3. n \in S
  <2> HIDE DEF S
  <2> QED BY <1>1, <1>2, Upwards
<1>4. PICK f : Found(f, n) BY <1>3
<1>5. \A i \in 1 .. n + 2 : i > n - n BY <1>4
<1>6. \A i \in 1 .. n + 2 : Right(f, i) BY <1>4, <1>5
<1>7. IsScan(f, n, end, jump, verdict) BY <1>4, <1>6 DEF IsScan
<1> QED BY <1>7

\* _find_subcommand_index scans the command line.
LEMMA SubcommandScan ==
    ASSUME NEW argv \in Seq(Tokens)
    PROVE  \E f : /\ SubcommandIndex(argv) = f[1]
                  /\ f = [i \in 1 .. Len(argv) + 2 |->
                             IF i > Len(argv) THEN 0
                             ELSE IF argv[i] = "-help" THEN 0
                             ELSE IF argv[i] = "-chdir" THEN f[i + 2]
                             ELSE IF argv[i] \in DashTokens THEN f[i + 1]
                             ELSE i]
<1> DEFINE from[i \in 1 .. Len(argv) + 2] ==
               IF i > Len(argv) THEN 0
               ELSE IF argv[i] = "-help" THEN 0
               ELSE IF argv[i] = "-chdir" THEN from[i + 2]
               ELSE IF argv[i] \in DashTokens THEN from[i + 1]
               ELSE i
           jump == [i \in 1 .. Len(argv) |->
                       IF argv[i] = "-help" THEN 0 ELSE IF argv[i] = "-chdir" THEN 2
                       ELSE IF argv[i] \in DashTokens THEN 1 ELSE 0]
           verdict == [i \in 1 .. Len(argv) |-> IF argv[i] = "-help" THEN 0 ELSE i]
<1>1. Len(argv) \in Nat /\ jump \in [1 .. Len(argv) -> 0 .. 2] OBVIOUS
<1>2. PICK f : IsScan(f, Len(argv), 0, jump, verdict)
  <2> HIDE DEF jump, verdict
  <2> QED BY <1>1, ScanExists
<1>3. f = [i \in 1 .. Len(argv) + 2 |->
              IF i > Len(argv) THEN 0
              ELSE IF jump[i] = 0 THEN verdict[i] ELSE f[i + jump[i]]]
  BY <1>2 DEF IsScan
<1>4. \A i \in 1 .. Len(argv) + 2 :
         (IF i > Len(argv) THEN 0 ELSE IF jump[i] = 0 THEN verdict[i] ELSE f[i + jump[i]]) =
         IF i > Len(argv) THEN 0
         ELSE IF argv[i] = "-help" THEN 0
         ELSE IF argv[i] = "-chdir" THEN f[i + 2]
         ELSE IF argv[i] \in DashTokens THEN f[i + 1]
         ELSE i
  BY <1>1
<1>5. f = [i \in 1 .. Len(argv) + 2 |->
              IF i > Len(argv) THEN 0
              ELSE IF argv[i] = "-help" THEN 0
              ELSE IF argv[i] = "-chdir" THEN f[i + 2]
              ELSE IF argv[i] \in DashTokens THEN f[i + 1]
              ELSE i]
  <2> HIDE DEF jump, verdict
  <2> QED BY <1>3, <1>4, Zenon
<1>6. from = [i \in 1 .. Len(argv) + 2 |->
                 IF i > Len(argv) THEN 0
                 ELSE IF argv[i] = "-help" THEN 0
                 ELSE IF argv[i] = "-chdir" THEN from[i + 2]
                 ELSE IF argv[i] \in DashTokens THEN from[i + 1]
                 ELSE i]
  BY <1>5, Zenon
<1>7. SubcommandIndex(argv) = from[1] BY DEF SubcommandIndex
<1> QED BY <1>6, <1>7, Zenon

\* _has_plan_input scans the arguments.
LEMMA PlanInputScan ==
    ASSUME NEW args, Len(args) \in Nat
    PROVE  \E f : /\ HasPlanInput(args) = f[1]
                  /\ f = [i \in 1 .. Len(args) + 2 |->
                             IF i > Len(args) THEN FALSE
                             ELSE IF args[i] = "-var" THEN f[i + 2]
                             ELSE IF args[i] = "tfplan" THEN TRUE
                             ELSE f[i + 1]]
<1> DEFINE from[i \in 1 .. Len(args) + 2] ==
               IF i > Len(args) THEN FALSE
               ELSE IF args[i] = "-var" THEN from[i + 2]
               ELSE IF args[i] = "tfplan" THEN TRUE
               ELSE from[i + 1]
           jump == [i \in 1 .. Len(args) |->
                       IF args[i] = "-var" THEN 2 ELSE IF args[i] = "tfplan" THEN 0 ELSE 1]
           verdict == [i \in 1 .. Len(args) |-> TRUE]
<1>1. jump \in [1 .. Len(args) -> 0 .. 2] OBVIOUS
<1>2. PICK f : IsScan(f, Len(args), FALSE, jump, verdict)
  <2> HIDE DEF jump, verdict
  <2> QED BY <1>1, ScanExists
<1>3. f = [i \in 1 .. Len(args) + 2 |->
              IF i > Len(args) THEN FALSE
              ELSE IF jump[i] = 0 THEN verdict[i] ELSE f[i + jump[i]]]
  BY <1>2 DEF IsScan
<1>4. ASSUME NEW i \in 1 .. Len(args) + 2
      PROVE  (IF i > Len(args) THEN FALSE
              ELSE IF jump[i] = 0 THEN verdict[i] ELSE f[i + jump[i]]) =
             IF i > Len(args) THEN FALSE
             ELSE IF args[i] = "-var" THEN f[i + 2]
             ELSE IF args[i] = "tfplan" THEN TRUE
             ELSE f[i + 1]
  <2>1. CASE i > Len(args) BY <2>1, Zenon
  <2>2. CASE ~ i > Len(args)
    <3>1. i \in 1 .. Len(args) /\ 0 # 1 /\ 0 # 2 BY <2>2
    <3>2. verdict[i] = TRUE BY <3>1, Zenon
    <3>3. jump[i] = IF args[i] = "-var" THEN 2 ELSE IF args[i] = "tfplan" THEN 0 ELSE 1 BY <3>1
    <3> HIDE DEF jump, verdict
    <3>4. CASE args[i] = "-var" BY <3>4, <3>3, <3>1, <2>2, Zenon
    <3>5. CASE args[i] = "tfplan"
      <4>1. args[i] # "-var" BY <3>5
      <4> QED BY <4>1, <3>5, <3>3, <3>2, <2>2, Zenon
    <3>6. CASE args[i] # "-var" /\ args[i] # "tfplan" BY <3>6, <3>3, <3>1, <2>2, Zenon
    <3> QED BY <3>4, <3>5, <3>6
  <2> QED BY <2>1, <2>2
<1>5. f = [i \in 1 .. Len(args) + 2 |->
              IF i > Len(args) THEN FALSE
              ELSE IF args[i] = "-var" THEN f[i + 2]
              ELSE IF args[i] = "tfplan" THEN TRUE
              ELSE f[i + 1]]
  <2> HIDE DEF jump, verdict
  <2> QED BY <1>3, <1>4, Zenon
<1>6. from = [i \in 1 .. Len(args) + 2 |->
                 IF i > Len(args) THEN FALSE
                 ELSE IF args[i] = "-var" THEN from[i + 2]
                 ELSE IF args[i] = "tfplan" THEN TRUE
                 ELSE from[i + 1]]
  BY <1>5, Zenon
<1>7. HasPlanInput(args) = from[1] BY DEF HasPlanInput
<1> QED BY <1>6, <1>7, Zenon

\* The tokens that are values, as Values chooses them: the grammar is not
\* vacuous.
IsValues(V, s, flags, n) ==
    \A i \in 1 .. n : i \in V <=> i > 1 /\ i - 1 \notin V /\ s[i - 1] \in flags

LEMMA ValuesExist ==
    ASSUME NEW s, NEW flags, Len(s) \in Nat, DOMAIN s = 1 .. Len(s)
    PROVE  Values(s, flags) \in SUBSET DOMAIN s /\ IsValues(Values(s, flags), s, flags, Len(s))
<1> DEFINE S == {k \in Nat : \E V \in SUBSET (1 .. k) : IsValues(V, s, flags, k)}
<1>1. 0 \in S
  <2>1. {} \in SUBSET (1 .. 0) /\ IsValues({}, s, flags, 0) BY DEF IsValues
  <2> QED BY <2>1
<1>2. ASSUME NEW k \in Nat, k \in S PROVE k + 1 \in S
  <2>1. PICK V \in SUBSET (1 .. k) : IsValues(V, s, flags, k) BY <1>2
  <2> DEFINE W == IF k + 1 > 1 /\ k \notin V /\ s[k] \in flags THEN V \cup {k + 1} ELSE V
  <2>2. \A i \in 1 .. k : i \in W <=> i \in V OBVIOUS
  <2>3. k + 1 \in W <=> k + 1 > 1 /\ k \notin W /\ s[k] \in flags OBVIOUS
  <2>4. W \in SUBSET (1 .. k + 1) OBVIOUS
  <2> HIDE DEF W
  <2>5. ASSUME NEW i \in 1 .. k PROVE i \in W <=> i > 1 /\ i - 1 \notin W /\ s[i - 1] \in flags
    <3>1. i \in V <=> i > 1 /\ i - 1 \notin V /\ s[i - 1] \in flags BY <2>1 DEF IsValues
    <3>2. i > 1 => i - 1 \in 1 .. k OBVIOUS
    <3> QED BY <3>1, <3>2, <2>2
  <2>6. \A i \in 1 .. k + 1 : i \in 1 .. k \/ (i = k + 1 /\ i - 1 = k) OBVIOUS
  <2>7. IsValues(W, s, flags, k + 1) BY <2>3, <2>5, <2>6 DEF IsValues
  <2> QED BY <2>4, <2>7
<1>3. Len(s) \in S
  <2> HIDE DEF S
  <2> QED BY <1>1, <1>2, Upwards
<1>4. \E V \in SUBSET DOMAIN s :
         \A i \in DOMAIN s : i \in V <=> i > 1 /\ i - 1 \notin V /\ s[i - 1] \in flags
  BY <1>3 DEF IsValues
<1>5. /\ Values(s, flags) \in SUBSET DOMAIN s
      /\ \A i \in DOMAIN s : i \in Values(s, flags) <=>
            i > 1 /\ i - 1 \notin Values(s, flags) /\ s[i - 1] \in flags
  <2> HIDE DEF S
  <2> QED BY <1>4 DEF Values
<1> QED BY <1>5 DEF IsValues

\* At most one token is the subcommand.
LEMMA GrammaticalUnique ==
    ASSUME NEW argv \in Seq(Tokens), NEW i, NEW k, Grammatical(argv, i), Grammatical(argv, k)
    PROVE  i = k
<1> DEFINE V == Values(argv, {"-chdir"})
<1>1. /\ i \in 1 .. Len(argv) /\ k \in 1 .. Len(argv)
      /\ i \notin V /\ k \notin V
      /\ argv[i] \in PlainTokens /\ argv[k] \in PlainTokens
      /\ \A j \in 1 .. i - 1 : j \in V \/ argv[j] \in DashTokens \ {"-help"}
      /\ \A j \in 1 .. k - 1 : j \in V \/ argv[j] \in DashTokens \ {"-help"}
  BY DEF Grammatical
<1>2. PlainTokens \cap DashTokens = {} BY DEF PlainTokens, DashTokens
<1> HIDE DEF V
<1>3. ~ i < k
  <2>1. i < k => i \in 1 .. k - 1 BY <1>1
  <2> QED BY <2>1, <1>1, <1>2
<1>4. ~ k < i
  <2>1. k < i => k \in 1 .. i - 1 BY <1>1
  <2> QED BY <2>1, <1>1, <1>2
<1> QED BY <1>1, <1>3, <1>4

\* A flag that is no value makes the next token one, and the one after it none.
LEMMA ValueFollows ==
    ASSUME NEW n \in Nat, NEW s, NEW flags, NEW V \in SUBSET (1 .. n), IsValues(V, s, flags, n),
           NEW i \in 1 .. n, i \notin V
    PROVE  /\ s[i] \in flags => (i + 1 <= n => i + 1 \in V) /\ i + 2 \notin V
           /\ s[i] \notin flags => i + 1 \notin V
<1>1. i + 1 <= n => (i + 1 \in V <=> s[i] \in flags)
  <2>1. i + 1 <= n => i + 1 \in 1 .. n /\ i + 1 > 1 /\ (i + 1) - 1 = i OBVIOUS
  <2> QED BY <2>1 DEF IsValues
<1>2. i + 2 <= n => (i + 2 \in V => i + 1 \notin V)
  <2>1. i + 2 <= n => i + 2 \in 1 .. n /\ (i + 2) - 1 = i + 1 OBVIOUS
  <2> QED BY <2>1 DEF IsValues
<1>3. \A j \in Nat : j > n => j \notin V OBVIOUS
<1>4. i + 1 \in Nat /\ i + 2 \in Nat /\ (i + 1 <= n \/ i + 1 > n) /\ (i + 2 <= n \/ i + 2 > n)
      /\ (i + 2 <= n => i + 1 <= n)
  OBVIOUS
<1> QED BY <1>1, <1>2, <1>3, <1>4

\* The scan of _find_subcommand_index finds the token the grammar takes for the
\* subcommand, or none when there is none.
LEMMA SubcommandIsGrammatical ==
    ASSUME NEW argv \in Seq(Tokens)
    PROVE  /\ SubcommandIndex(argv) # 0 => Grammatical(argv, SubcommandIndex(argv))
           /\ SubcommandIndex(argv) = 0 => \A k \in DOMAIN argv : ~ Grammatical(argv, k)
<1> DEFINE n == Len(argv)
           V == Values(argv, {"-chdir"})
           Passes(j) == j \in V \/ argv[j] \in DashTokens \ {"-help"}
           Reached(i) == i \notin V /\ \A j \in 1 .. n : j < i => Passes(j)
           G(k) == Grammatical(argv, k)
<1>1. n \in Nat /\ DOMAIN argv = 1 .. n /\ \A i \in 1 .. n : argv[i] \in Tokens OBVIOUS
<1>2. V \in SUBSET (1 .. n) /\ IsValues(V, argv, {"-chdir"}, n) BY <1>1, ValuesExist
<1>3. /\ Tokens = PlainTokens \cup DashTokens /\ PlainTokens \cap DashTokens = {}
      /\ "-help" \in DashTokens /\ "-chdir" \in DashTokens \ {"-help"}
  BY DEF Tokens, PlainTokens, DashTokens
<1>4. \A i \in 1 .. n : G(i) <=> Reached(i) /\ argv[i] \in PlainTokens
  <2>1. \A i \in 1 .. n : \A j : j \in 1 .. i - 1 <=> j \in 1 .. n /\ j < i BY <1>1
  <2> QED BY <2>1, <1>1 DEF Grammatical
<1>5. PICK f : /\ SubcommandIndex(argv) = f[1]
               /\ f = [i \in 1 .. n + 2 |->
                          IF i > n THEN 0
                          ELSE IF argv[i] = "-help" THEN 0
                          ELSE IF argv[i] = "-chdir" THEN f[i + 2]
                          ELSE IF argv[i] \in DashTokens THEN f[i + 1]
                          ELSE i]
  BY SubcommandScan
<1>6. \A i \in 1 .. n + 2 :
         f[i] = IF i > n THEN 0
                ELSE IF argv[i] = "-help" THEN 0
                ELSE IF argv[i] = "-chdir" THEN f[i + 2]
                ELSE IF argv[i] \in DashTokens THEN f[i + 1]
                ELSE i
  BY <1>5
<1> DEFINE Found(i) == (f[i] # 0 => G(f[i])) /\ (f[i] = 0 => \A k \in 1 .. n : ~ G(k))
           S == {i \in 1 .. n + 2 : Reached(i) => Found(i)}
<1> HIDE DEF V, n, G
<1>7. ASSUME NEW i \in 1 .. n + 2, \A j \in i + 1 .. n + 2 : j \in S PROVE i \in S
  <2> SUFFICES ASSUME Reached(i) PROVE Found(i) OBVIOUS
  <2>1. \A j \in 1 .. n : j < i => ~ G(j) BY <1>3, <1>4
  <2>2. CASE i > n
    <3>1. f[i] = 0 BY <1>6, <2>2
    <3>2. \A j \in 1 .. n : j < i BY <2>2, <1>1
    <3> QED BY <3>1, <3>2, <2>1
  <2>3. CASE i \in 1 .. n /\ argv[i] = "-help"
    <3>1. f[i] = 0 BY <1>1, <1>6, <2>3
    <3>2. ~ Passes(i) /\ argv[i] \notin PlainTokens BY <1>3, <2>3
    <3>3. ASSUME NEW j \in 1 .. n PROVE ~ G(j)
      <4>1. j < i \/ j = i \/ i < j BY <2>3, <1>1
      <4> QED BY <4>1, <3>2, <2>1, <2>3, <1>4
    <3> QED BY <3>1, <3>3
  <2>4. CASE i \in 1 .. n /\ argv[i] = "-chdir"
    <3>1. argv[i] # "-help" /\ ~ i > n BY <1>1, <2>4
    <3>2. f[i] = f[i + 2] /\ i + 2 \in i + 1 .. n + 2 BY <1>1, <1>6, <2>4, <3>1
    <3>3. Reached(i + 2)
      <4>1. (i + 1 <= n => i + 1 \in V) /\ i + 2 \notin V BY <1>1, <1>2, <2>4, ValueFollows
      <4>2. Passes(i) BY <1>3, <2>4
      <4>3. \A j \in 1 .. n : j < i + 2 => j < i \/ j = i \/ (j = i + 1 /\ i + 1 <= n)
        BY <1>1, <2>4
      <4> QED BY <4>1, <4>2, <4>3
    <3> QED BY <3>2, <3>3, <1>7
  <2>5. CASE i \in 1 .. n /\ argv[i] \in DashTokens \ {"-help", "-chdir"}
    <3>1. ~ i > n BY <1>1, <2>5
    <3>2. f[i] = f[i + 1] /\ i + 1 \in i + 1 .. n + 2 BY <1>1, <1>6, <2>5, <3>1
    <3>3. Reached(i + 1)
      <4>1. i + 1 \notin V BY <1>1, <1>2, <2>5, ValueFollows
      <4>2. \A j \in 1 .. n : j < i + 1 => j < i \/ j = i BY <1>1, <2>5
      <4> QED BY <4>1, <4>2, <2>5
    <3> QED BY <3>2, <3>3, <1>7
  <2>6. CASE i \in 1 .. n /\ argv[i] \in PlainTokens
    <3>1. ~ i > n /\ i # 0 /\ argv[i] \notin DashTokens BY <1>1, <1>3, <2>6
    <3>2. f[i] = i BY <1>3, <1>6, <2>6, <3>1
    <3> QED BY <3>1, <3>2, <2>6, <1>4
  <2>7. i > n \/ (i \in 1 .. n /\ argv[i] \in PlainTokens \cup DashTokens) BY <1>1, <1>3
  <2> QED BY <2>2, <2>3, <2>4, <2>5, <2>6, <2>7
<1>8. 1 \in S
  <2>1. n + 2 \in Nat /\ 1 \in 1 .. n + 2 BY <1>1
  <2> HIDE DEF S
  <2> QED BY <2>1, <1>7, Downwards
<1>9. Reached(1)
  <2>1. 1 \notin V BY <1>2 DEF IsValues
  <2>2. \A j \in 1 .. n : ~ j < 1 BY <1>1
  <2> QED BY <2>1, <2>2
<1> QED BY <1>1, <1>5, <1>8, <1>9 DEF G

\* The scan of _has_plan_input finds a plan file exactly among the arguments
\* that are no value of a flag.
LEMMA PlanInputIsPositional ==
    ASSUME NEW args, Len(args) \in Nat, DOMAIN args = 1 .. Len(args)
    PROVE  HasPlanInput(args) <=> PlanPositional(args)
<1> DEFINE n == Len(args)
           V == Values(args, {"-var"})
           File(k) == k \notin V /\ args[k] = "tfplan"
<1>1. n \in Nat OBVIOUS
<1>2. V \in SUBSET (1 .. n) /\ IsValues(V, args, {"-var"}, n) BY ValuesExist
<1>3. PlanPositional(args) <=> \E k \in 1 .. n : File(k) BY DEF PlanPositional
<1>4. PICK f : /\ HasPlanInput(args) = f[1]
               /\ f = [i \in 1 .. n + 2 |->
                          IF i > n THEN FALSE
                          ELSE IF args[i] = "-var" THEN f[i + 2]
                          ELSE IF args[i] = "tfplan" THEN TRUE
                          ELSE f[i + 1]]
  BY PlanInputScan
<1> HIDE DEF n, V
<1>5. ASSUME NEW i \in 1 .. n + 2
      PROVE  f[i] = IF i > n THEN FALSE
                    ELSE IF args[i] = "-var" THEN f[i + 2]
                    ELSE IF args[i] = "tfplan" THEN TRUE
                    ELSE f[i + 1]
  BY <1>4, Zenon
<1> DEFINE Ahead(i) == \E k \in 1 .. n : k >= i /\ File(k)
           S == {i \in 1 .. n + 2 : i \notin V => (f[i] <=> Ahead(i))}
<1>6. ASSUME NEW i \in 1 .. n + 2, \A j \in i + 1 .. n + 2 : j \in S PROVE i \in S
  <2> SUFFICES ASSUME i \notin V PROVE f[i] <=> Ahead(i) OBVIOUS
  <2>1. CASE i > n
    <3>1. ~ Ahead(i) BY <1>1, <2>1
    <3>2. f[i] = FALSE BY <1>5, <2>1, Zenon
    <3> QED BY <3>1, <3>2, Zenon
  <2>2. CASE i \in 1 .. n /\ args[i] = "-var"
    <3>1. ~ i > n /\ i + 2 \in i + 1 .. n + 2 BY <1>1, <2>2
    <3>2. f[i] = f[i + 2] BY <1>5, <2>2, <3>1, Zenon
    <3>3. (i + 1 <= n => i + 1 \in V) /\ i + 2 \notin V BY <1>1, <1>2, <2>2, ValueFollows
    <3>4. Ahead(i) <=> Ahead(i + 2)
      <4>1. args[i] # "tfplan" BY <2>2
      <4>2. \A k \in 1 .. n : k >= i <=> k = i \/ (k = i + 1 /\ i + 1 <= n) \/ k >= i + 2
        BY <1>1, <2>2
      <4> QED BY <4>1, <4>2, <3>3
    <3>5. f[i + 2] <=> Ahead(i + 2) BY <1>6, <3>1, <3>3, Zenon
    <3> QED BY <3>2, <3>4, <3>5, Zenon
  <2>3. CASE i \in 1 .. n /\ args[i] = "tfplan"
    <3>1. ~ i > n /\ args[i] # "-var" BY <1>1, <2>3
    <3>2. f[i] = TRUE BY <1>5, <2>3, <3>1, Zenon
    <3>3. Ahead(i) BY <1>1, <2>3
    <3> QED BY <3>2, <3>3, Zenon
  <2>4. CASE i \in 1 .. n /\ args[i] \notin {"-var", "tfplan"}
    <3>1. /\ ~ i > n /\ i + 1 \in i + 1 .. n + 2
          /\ args[i] # "-var" /\ args[i] # "tfplan"
      BY <1>1, <2>4
    <3>2. f[i] = f[i + 1] BY <1>5, <3>1, Zenon
    <3>3. i + 1 \notin V BY <1>1, <1>2, <2>4, ValueFollows
    <3>4. Ahead(i) <=> Ahead(i + 1)
      <4>1. \A k \in 1 .. n : k >= i <=> k = i \/ k >= i + 1 BY <1>1, <2>4
      <4> QED BY <4>1, <3>1
    <3>5. f[i + 1] <=> Ahead(i + 1) BY <1>6, <3>1, <3>3, Zenon
    <3> QED BY <3>2, <3>4, <3>5, Zenon
  <2>5. i > n \/ i \in 1 .. n BY <1>1
  <2> QED BY <2>1, <2>2, <2>3, <2>4, <2>5
<1>7. 1 \in S
  <2>1. n + 2 \in Nat /\ 1 \in 1 .. n + 2 BY <1>1
  <2> HIDE DEF S
  <2> QED BY <2>1, <1>6, Downwards
<1>8. 1 \notin V BY <1>2 DEF IsValues
<1>9. Ahead(1) <=> \E k \in 1 .. n : File(k) BY <1>1
<1>10. f[1] <=> Ahead(1) BY <1>7, <1>8, Zenon
<1> QED BY <1>3, <1>4, <1>9, <1>10, Zenon

-----------------------------------------------------------------------------
(* What the proxy made of its command line.                                 *)

ParserInv ==
    /\ pc = "exec" =>
          inv.environ["TUNSTRAP_INPUT"] \in {"absent", "blank"} \/ ShouldBypass(inv.argv)
    /\ pc = "run" /\ inv.verb = "proxy" =>
          ~ ShouldBypass(inv.argv) /\ (warned <=> SavedPlan(inv.argv))

\* Where the steps after the proxy's lead.
LEMMA LaterSteps ==
    ASSUME RunOptions \/ StartOptions \/ Spawn \/ Launch
    PROVE  pc' \notin {"run", "exec"} /\ inv' = inv
<1>1. CASE RunOptions
  <2>1. CASE Refuse("usage") BY <2>1 DEF Refuse
  <2>2. CASE /\ IF opts.input_env # None
                THEN FromPayload(inv.environ[opts.input_env], "env", TRUE) ELSE FromFlags(TRUE)
             /\ UNCHANGED <<inv, opts, warned, worker, child>>
    BY <2>2, FlagOutcome, PayloadOutcome
  <2> QED BY <1>1, <2>1, <2>2 DEF RunOptions
<1>2. CASE StartOptions
  <2>1. CASE Refuse("usage") BY <2>1 DEF Refuse
  <2>2. CASE FromFlags(inv.format = "env") /\ UNCHANGED <<inv, opts, cmd, warned, worker, child>>
    BY <2>2, FlagOutcome
  <2>3. CASE /\ FromPayload(inv.stdin, "stdin", inv.format = "env")
             /\ UNCHANGED <<inv, opts, cmd, warned, worker, child>>
    BY <2>3, PayloadOutcome
  <2> QED BY <1>2, <2>1, <2>2, <2>3 DEF StartOptions
<1>3. CASE Spawn BY <1>3 DEF Spawn, Refuse
<1>4. CASE Launch BY <1>4 DEF Launch
<1> QED BY <1>1, <1>2, <1>3, <1>4

\* The proxy's verdicts stay what they were.
THEOREM ParserInvariant == InvSpec => []ParserInv
<1>1. InvInit => ParserInv BY InvAssumption DEF InvInit, ParserInv
<1>2. ParserInv /\ [InvNext]_invVars => ParserInv'
  <2> SUFFICES ASSUME ParserInv, [InvNext]_invVars PROVE ParserInv' OBVIOUS
  <2>1. CASE ExecTofu BY <2>1 DEF ExecTofu, ParserInv
  <2>2. CASE RunTunnelled BY <2>2, Zenon DEF RunTunnelled, ParserInv
  <2>3. CASE RunOptions \/ StartOptions \/ Spawn \/ Launch
    BY <2>3, LaterSteps DEF ParserInv
  <2>4. CASE UNCHANGED invVars BY <2>4 DEF invVars, ParserInv
  <2> QED BY <2>1, <2>2, <2>3, <2>4 DEF InvNext
<1> QED BY <1>1, <1>2, PTL DEF InvSpec

\* The proxy leaves out the tunnel exactly as the grammar says, for a command
\* line of any length.
THEOREM BypassCorrect == InvSpec => []BypassIsGrammatical
<1>1. InvInv /\ ParserInv => BypassIsGrammatical
  <2> SUFFICES ASSUME InvInv, ParserInv, inv.verb = "proxy",
                      inv.environ["TUNSTRAP_INPUT"] \notin {"absent", "blank"}
               PROVE  /\ pc = "exec" => \A i \in DOMAIN inv.argv :
                            Grammatical(inv.argv, i) => inv.argv[i] \in BypassCommands
                      /\ pc = "run" => \E i \in DOMAIN inv.argv :
                            Grammatical(inv.argv, i) /\ inv.argv[i] \notin BypassCommands
    BY DEF BypassIsGrammatical
  <2> DEFINE at == SubcommandIndex(inv.argv)
  <2>1. inv.argv \in Seq(Tokens) BY InvocationType DEF InvInv
  <2>2. /\ at # 0 => Grammatical(inv.argv, at)
        /\ at = 0 => \A k \in DOMAIN inv.argv : ~ Grammatical(inv.argv, k)
    BY <2>1, SubcommandIsGrammatical
  <2>3. ShouldBypass(inv.argv) <=> (at # 0 => inv.argv[at] \in BypassCommands)
    BY DEF ShouldBypass
  <2> HIDE DEF at
  <2>4. ASSUME pc = "exec", NEW i \in DOMAIN inv.argv, Grammatical(inv.argv, i)
        PROVE  inv.argv[i] \in BypassCommands
    <3>1. at # 0 BY <2>2, <2>4
    <3>2. i = at BY <3>1, <2>1, <2>2, <2>4, GrammaticalUnique
    <3>3. ShouldBypass(inv.argv) BY <2>4 DEF ParserInv
    <3> QED BY <3>1, <3>2, <3>3, <2>3
  <2>5. ASSUME pc = "run"
        PROVE  \E i \in DOMAIN inv.argv :
                  Grammatical(inv.argv, i) /\ inv.argv[i] \notin BypassCommands
    <3>1. ~ ShouldBypass(inv.argv) BY <2>5 DEF ParserInv
    <3>2. at # 0 /\ inv.argv[at] \notin BypassCommands BY <3>1, <2>3
    <3>3. Grammatical(inv.argv, at) BY <3>2, <2>2
    <3>4. at \in DOMAIN inv.argv BY <3>3 DEF Grammatical
    <3> QED BY <3>2, <3>3, <3>4
  <2> QED BY <2>4, <2>5
<1> QED BY <1>1, InvocationInvariant, ParserInvariant, PTL

\* The warning about an apply is right for every list of arguments.
THEOREM PlanWarningCorrect == InvSpec => []PlanPositionalWarned
<1>1. InvInv /\ ParserInv => PlanPositionalWarned
  <2> SUFFICES ASSUME InvInv, ParserInv, inv.verb = "proxy", pc = "run",
                      NEW i \in DOMAIN inv.argv,
                      Grammatical(inv.argv, i), inv.argv[i] = "apply"
               PROVE  LET args == SubSeq(inv.argv, i + 1, Len(inv.argv)) IN
                      warned <=> PlanPositional(args) /\ \A j \in DOMAIN args : args[j] # "--"
    BY DEF PlanPositionalWarned
  <2> DEFINE argv == inv.argv
             args == SubSeq(argv, i + 1, Len(argv))
             Dashes == \A j \in DOMAIN args : args[j] # "--"
  <2>1. argv \in Seq(Tokens) BY InvocationType DEF InvInv
  <2>2. i = SubcommandIndex(argv)
    <3>1. SubcommandIndex(argv) # 0 BY <2>1, SubcommandIsGrammatical
    <3>2. Grammatical(argv, SubcommandIndex(argv)) BY <3>1, <2>1, SubcommandIsGrammatical
    <3> QED BY <3>2, <2>1, GrammaticalUnique
  <2>3. i \in 1 .. Len(argv) /\ i # 0 BY <2>1
  <2>4. args \in Seq(Tokens) BY <2>1, <2>3
  <2>5. Len(args) \in Nat /\ DOMAIN args = 1 .. Len(args) BY <2>4
  <2>6. HasPlanInput(args) <=> PlanPositional(args)
    <3> HIDE DEF args
    <3> QED BY <2>5, PlanInputIsPositional
  <2>7. SavedPlan(argv) <=> i # 0 /\ Dashes /\ HasPlanInput(args)
    <3>1. "apply" # "plan" /\ "apply" # "show" /\ "apply" \in {"apply", "show"} OBVIOUS
    <3> QED BY <2>2, <3>1, Zenon DEF SavedPlan
  <2>8. warned <=> SavedPlan(argv) BY Zenon DEF ParserInv
  <2> QED BY <2>3, <2>6, <2>7, <2>8, Zenon
<1> QED BY <1>1, InvocationInvariant, ParserInvariant, PTL

-----------------------------------------------------------------------------
(* The files.                                                               *)

\* No two entries of a schema share a file.
Distinct(s) ==
    /\ DOMAIN s.kube \subseteq Nat
    /\ ~ Collisions(s.kube, "kube") /\ ~ Collisions(s.fetch, "fetch")

\* Every accepted schema is like that, and what is exported is the files of
\* targets of it, in their order.
FilesInv ==
    /\ pc \in {"spawn", "daemon", "child"} => Distinct(schema)
    /\ pc = "child" => \E targets \in Targets : child = Given(Paths(targets))

\* Whatever the channel, what is accepted has been validated.
LEMMA AcceptedIsValid ==
    ASSUME OptsInv, RunOptions \/ StartOptions
    PROVE  \/ pc' \in {"usage", "refused"}
           \/ pc' = "spawn" /\ Distinct(schema')
<1> DEFINE Accepted == pc' = "spawn" /\ Distinct(schema')
           list(items) == [i \in DOMAIN items |-> <<<<"node">>, items[i]>>]
<1>1. DOMAIN inv.payload.kube \subseteq Nat /\ DOMAIN inv.named.kube \subseteq Nat
  <2>1. inv \in Invocations BY DEF OptsInv
  <2>2. inv.payload.kube \in Lists /\ inv.named.kube \in Seq(Names) BY <2>1, InvAssumption, Zenon
  <2>3. \A S : \A s \in Seq(S) : DOMAIN s \subseteq Nat OBVIOUS
  <2> QED BY <2>2, <2>3, Zenon DEF Lists
<1>2. DOMAIN list(inv.named.kube) \subseteq Nat BY <1>1
<1>3. ASSUME NEW content, NEW channel, NEW forced, FromPayload(content, channel, forced)
      PROVE  pc' = "refused" \/ Accepted
  <2>1. CASE pc' = "refused" BY <2>1
  <2>2. CASE /\ pc' = "spawn" /\ Valid(inv.payload.kube, inv.payload.fetch)
             /\ schema' = [channel |-> channel, kube |-> inv.payload.kube,
                           fetch |-> inv.payload.fetch, flags |-> {},
                           materialize |-> forced \/ inv.payload.materialize]
    <3>1. schema'.kube = inv.payload.kube /\ schema'.fetch = inv.payload.fetch BY <2>2
    <3> QED BY <3>1, <2>2, <1>1 DEF Valid, Distinct
  <2> QED BY <1>3, <2>1, <2>2, Zenon DEF FromPayload
<1>4. ASSUME NEW forced, FromFlags(forced) PROVE pc' = "refused" \/ Accepted
  <2>1. CASE pc' = "refused" BY <2>1
  <2>2. ASSUME NEW kube, NEW fetch, pc' = "spawn", Valid(kube, fetch), DOMAIN kube \subseteq Nat,
               schema' = [channel |-> "flags", kube |-> kube, fetch |-> fetch,
                          flags |-> opts.flags,
                          materialize |-> forced \/ "materialize" \in opts.flags]
        PROVE  Accepted
    <3>1. schema'.kube = kube /\ schema'.fetch = fetch BY <2>2
    <3> QED BY <3>1, <2>2 DEF Valid, Distinct
  <2> HIDE DEF Accepted
  <2> QED BY <1>4, <1>2, <2>1, <2>2, Zenon DEF FromFlags
<1> HIDE DEF Accepted, list
<1>5. Refuse("usage") => pc' = "usage" BY DEF Refuse
<1>6. RunOptions => pc' \in {"usage", "refused"} \/ Accepted
  BY <1>3, <1>4, <1>5 DEF RunOptions
<1>7. StartOptions => pc' \in {"usage", "refused"} \/ Accepted
  BY <1>3, <1>4, <1>5 DEF StartOptions
<1> QED BY <1>6, <1>7 DEF Accepted

\* Accepted lists stay what they are, and Launch exports surviving targets.
THEOREM FilesInvariant == InvSpec => []FilesInv
<1>1. InvInit => FilesInv BY InvAssumption DEF InvInit, FilesInv
<1>2. InvInv /\ FilesInv /\ [InvNext]_invVars => FilesInv'
  <2> SUFFICES ASSUME InvInv, FilesInv, [InvNext]_invVars PROVE FilesInv' OBVIOUS
  <2>0. Distinct(schema)' <=> Distinct(schema')
    <3>1. \A list, prefix : Collisions(list, prefix)' <=> Collisions(list, prefix)
      BY DEF Collisions, Rendered
    <3> QED BY <3>1 DEF Distinct
  <2>1. CASE ExecTofu BY <2>1 DEF ExecTofu, FilesInv
  <2>2. CASE RunTunnelled BY <2>2 DEF RunTunnelled, FilesInv
  <2>3. CASE RunOptions \/ StartOptions
    <3>1. pc' # "child" BY <2>3, AcceptedIsValid DEF InvInv
    <3>2. pc' = "spawn" => Distinct(schema') BY <2>3, AcceptedIsValid DEF InvInv
    <3>3. pc' \notin {"daemon"} BY <2>3, AcceptedIsValid DEF InvInv
    <3> QED BY <3>1, <3>2, <3>3, <2>0 DEF FilesInv
  <2>4. CASE Spawn
    <3>1. pc = "spawn" /\ pc' # "child" /\ schema' = schema BY <2>4 DEF Spawn, Refuse
    <3> QED BY <3>1, <2>0 DEF FilesInv
  <2>5. CASE Launch
    <3>1. /\ pc = "daemon" /\ UNCHANGED <<inv, opts, schema>>
          /\ \E targets \in Targets : child' = Given(Paths(targets))
      BY <2>5 DEF Launch, Given
    <3>2. environ' = environ BY <3>1 DEF environ
    <3>3. Targets' = Targets BY <3>1 DEF Targets, Subsequences
    <3>4. \A targets : Given(Paths(targets))' = Given(Paths(targets))
      BY <3>1, <3>2 DEF Given, Paths, Rendered
    <3> QED BY <3>1, <3>3, <3>4, <2>0 DEF FilesInv
  <2>6. CASE UNCHANGED invVars
    <3>1. UNCHANGED <<inv, pc, opts, schema, child>> BY <2>6 DEF invVars
    <3>2. environ' = environ BY <3>1 DEF environ
    <3>3. Targets' = Targets BY <3>1 DEF Targets, Subsequences
    <3>4. \A targets : Given(Paths(targets))' = Given(Paths(targets))
      BY <3>1, <3>2 DEF Given, Paths, Rendered
    <3> QED BY <3>1, <3>3, <3>4, <2>0 DEF FilesInv
  <2> QED BY <2>1, <2>2, <2>3, <2>4, <2>5, <2>6 DEF InvNext
<1> QED BY <1>1, <1>2, InvocationInvariant, PTL DEF InvSpec

\* The files of surviving targets are as different as those of all targets.
LEMMA SubsequenceDistinct ==
    ASSUME NEW list, DOMAIN list \subseteq Nat, ~ Collisions(list, "kube"),
           NEW targets \in Subsequences(list)
    PROVE  \A i, j \in DOMAIN Paths(targets) : i # j => Paths(targets)[i] # Paths(targets)[j]
<1>1. PICK n \in 0 .. Len(list) :
         targets \in {[i \in 1 .. n |-> list[at[i]]] :
                         at \in {a \in [1 .. n -> DOMAIN list] :
                                    \A i, j \in 1 .. n : i < j => a[i] < a[j]}}
  BY DEF Subsequences
<1>2. PICK at \in [1 .. n -> DOMAIN list] :
         /\ \A i, j \in 1 .. n : i < j => at[i] < at[j]
         /\ targets = [i \in 1 .. n |-> list[at[i]]]
  BY <1>1
<1>3. ASSUME NEW i \in 1 .. n, NEW j \in 1 .. n, i # j
      PROVE  Rendered("kube", targets[i]) # Rendered("kube", targets[j])
  <2>1. at[i] \in DOMAIN list /\ at[j] \in DOMAIN list BY <1>2
  <2>2. at[i] # at[j]
    <3>1. at[i] \in Nat /\ at[j] \in Nat BY <2>1
    <3>2. i < j \/ j < i BY <1>3
    <3> QED BY <3>1, <3>2, <1>2
  <2>3. targets[i] = list[at[i]] /\ targets[j] = list[at[j]] BY <1>2
  <2> QED BY <2>1, <2>2, <2>3 DEF Collisions
<1>4. DOMAIN Paths(targets) = 1 .. n BY <1>2 DEF Paths
<1> QED BY <1>3, <1>4 DEF Paths

\* No kubeconfig of a target and no fetched file overwrites another, whatever
\* the names, and whichever targets failed.
THEOREM FilesDistinct == InvSpec => []NothingOverwritten
<1>1. FilesInv => NothingOverwritten
  <2> SUFFICES ASSUME FilesInv, pc = "child" PROVE NothingOverwritten BY DEF NothingOverwritten
  <2>1. /\ DOMAIN schema.kube \subseteq Nat
        /\ ~ Collisions(schema.kube, "kube") /\ ~ Collisions(schema.fetch, "fetch")
    BY DEF FilesInv, Distinct
  <2>2. PICK targets \in Targets : child = Given(Paths(targets)) BY DEF FilesInv
  <2>3. \A i, j \in DOMAIN Paths(targets) : i # j => Paths(targets)[i] # Paths(targets)[j]
    BY <2>1, <2>2, SubsequenceDistinct DEF Targets
  <2>4. ASSUME NEW v \in KubeNames PROVE child[v].paths \in {<<>>, Paths(targets)}
    <3> DEFINE paths == Paths(targets)
               k == [origin |-> "kube", paths |-> paths]
    <3>1. v \in Vars BY DEF Vars, RunEnvKeys
    <3>2. k.paths = paths /\ Absent.paths = <<>> /\ \A o : Value(o).paths = <<>>
      BY DEF Absent, Value
    <3>3. environ[v].paths = <<>> /\ Nothing[v] = Absent
      BY <3>1, <3>2 DEF environ, Nothing
    <3>4. CASE child = ChildEnv(environ, opts, paths)
      <4>1. \/ ChildEnv(environ, opts, paths)[v] \in {Value("output"), Absent, k, Value("session")}
            \/ ChildEnv(environ, opts, paths)[v] = environ[v] /\ v # opts.input_env
        BY <3>1, ChildIsOneOf
      <4> HIDE DEF paths, k
      <4> QED BY <3>2, <3>3, <3>4, <4>1 DEF paths
    <3>5. CASE child = KubeEnv(Set(Nothing, Scalars, Value("session")), paths)
      <4>1. child[v] \in {k, Value("session"), Nothing[v]} BY <3>1, <3>5, SetOfNames DEF KubeEnv
      <4> HIDE DEF paths, k
      <4> QED BY <3>2, <3>3, <4>1 DEF paths
    <3>6. CASE child = Nothing BY <3>6, <3>2, <3>3
    <3> QED BY <2>2, <3>4, <3>5, <3>6 DEF Given
  <2>5. \A i, j \in DOMAIN schema.fetch :
           i # j => Rendered("fetch", schema.fetch[i]) # Rendered("fetch", schema.fetch[j])
    BY <2>1 DEF Collisions
  <2>6. DOMAIN <<>> = {} OBVIOUS
  <2> QED BY <2>3, <2>4, <2>5, <2>6 DEF NothingOverwritten
<1> QED BY <1>1, FilesInvariant, PTL

=============================================================================
