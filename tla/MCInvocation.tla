---------------------------- MODULE MCInvocation ----------------------------
(* Families of invocations for TLC.                                        *)
EXTENDS Invocation

Environ(input, kubeconfig, path, home) ==
    [v \in Vars |->
        CASE v = "TUNSTRAP_INPUT" -> input
          [] v = "KUBECONFIG" -> kubeconfig
          [] v = "HOME" -> home
          [] v \in {"KUBE_CONFIG_PATH", "KUBE_CONFIG_PATHS"} -> path
          [] OTHER -> "absent"]

One == {Environ("payload", "inherited", "absent", "inherited")}

\* Names whose hyphens fall in different places.
A == <<"a">>
AB == <<"a", "b">>
Pairs == {<<A, <<"b", "c">>>>, <<AB, <<"c">>>>, <<AB, A>>}
PairLists == {<<>>} \cup {<<x>> : x \in Pairs} \cup {<<x, y>> : x \in Pairs, y \in Pairs}
Payloads ==
    [kube : {p \in PairLists : \A i, j \in DOMAIN p : i # j => p[i] # p[j]},
     fetch : {<<>>, <<<<A, AB>>, <<AB, A>>>>, <<<<A, <<"b", "c">>>>, <<AB, <<"c">>>>>>},
     materialize : BOOLEAN]
SmallPayloads == [kube : {<<<<A, AB>>>>}, fetch : {<<>>}, materialize : {FALSE}]

Named == [kube : {<<>>, <<A>>, <<A, AB>>, <<A, A>>}, fetch : {<<>>, <<A>>}, well : BOOLEAN]
SmallNamed == [kube : {<<A, AB>>}, fetch : {<<>>}, well : {TRUE}]

\* Every command line of tofu of n tokens.
MCProxy(n, tokens) ==
    [verb : {"proxy"}, argv : [1 .. n -> tokens], args : {<<>>}, flags : {{}}, input_env : {None},
     output_var : {None}, environ : One, stdin : {"blank"}, payload : SmallPayloads,
     named : SmallNamed, connection : {FALSE}, format : {"json"}]

\* run and the proxy in every environment, with every pair of variables.
MCEnvironments ==
    [verb : {"proxy", "run"}, argv : {<<"plan">>, <<"init">>}, args : {<<"tofu">>, <<"conn", "tofu">>},
     flags : {{}}, input_env : {None, "TUNSTRAP_INPUT", "KUBECONFIG"}, output_var : OutputVars,
     environ : {Environ(i, k, p, h) : i \in {"absent", "blank", "broken", "payload"},
                                      k \in {"absent", "inherited", "payload"},
                                      p \in {"absent", "inherited"}, h \in {"absent", "inherited"}},
     stdin : {"payload"}, payload : [kube : PairLists, fetch : {<<>>}, materialize : {FALSE}],
     named : SmallNamed, connection : {FALSE}, format : {"json"}]

\* Every combination of the flags and channels of run and of start.
MCOptions ==
    [verb : {"run", "start"}, argv : {<<>>},
     args : {<<>>, <<"--">>, <<"conn">>, <<"conn", "--">>, <<"conn", "--", "tofu", "--", "x">>},
     flags : SUBSET (ConnectionFlags \cup DaemonFlags), input_env : {None}, output_var : {None},
     environ : One, stdin : {"blank", "broken", "payload"}, payload : SmallPayloads, named : Named,
     connection : BOOLEAN, format : {"json", "env"}]

MCRedundant ==
    [verb : {"run"}, argv : {<<>>}, args : {<<>>, <<"--">>, <<"tofu">>, <<"--", "tofu", "--", "x">>},
     flags : SUBSET (ConnectionFlags \cup DaemonFlags), input_env : {"TUNSTRAP_INPUT", "HOME"},
     output_var : OutputVars, environ : One, stdin : {"blank"}, payload : SmallPayloads,
     named : SmallNamed, connection : {FALSE}, format : {"json"}]

\* Every payload.
MCPayloads ==
    [verb : {"run", "start"}, argv : {<<>>}, args : {<<"tofu">>}, flags : {{}},
     input_env : {None, "TUNSTRAP_INPUT"}, output_var : {None}, environ : One, stdin : {"payload"},
     payload : Payloads, named : SmallNamed, connection : {FALSE}, format : {"json", "env"}]

MCInvocations ==
    {i \in MCProxy(0, Tokens) \cup MCProxy(1, Tokens) \cup MCProxy(2, Tokens) \cup MCProxy(3, Tokens)
           \cup MCProxy(4, {"init", "apply", "plan", "tfplan", "-chdir", "-var", "-x", "-out", "--"})
           \cup MCEnvironments \cup MCOptions \cup MCRedundant \cup MCPayloads :
        i.verb = "start" => i.input_env = None}
=============================================================================
