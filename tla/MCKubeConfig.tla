---------------------------- MODULE MCKubeConfig ----------------------------
(* Documents of up to two contexts, clusters and users for TLC.            *)
EXTENDS KubeConfig

UpTo2(S) == {<<>>} \cup {<<x>> : x \in S} \cup {<<x, y>> : x \in S, y \in S}
Just(S) == {<<x>> : x \in S}

Context(n, c, u) == [name |-> n, cluster |-> c, user |-> u]
User(n, c) == [name |-> n, creds |-> c]

Plain == [tls_server_name : {None}, insecure_fallback : {FALSE}]
Cert(s) == [dns : {<<>>}, ips : {<<s>>}]

\* Every way two contexts refer to two clusters and users, names used twice
\* and the reserved name included.
MCShapes ==
    [doc : [current : {"a", "new"},
            contexts : UpTo2([name : {"a", "b", "new"}, cluster : {"a", "b", "new"}, user : {"a", "b"}]),
            clusters : UpTo2([name : {"a", "b", "new"}, server : {"h1"}, ca : {"pem"}, skip : {FALSE}, tls : {None}]),
            users : {<<User("a", "pem")>>, <<User("b", "pem"), User("a", "pem")>>, <<User("new", "pem"), User("a", "pem")>>}],
     target : Plain, cert : Cert("h1")]

\* One context, and every value that parse_kubeconfig or rename_identities
\* looks at.
MCDefects ==
    [doc : [current : {"a", "", None, Odd},
            contexts : Just([name : {"a", "", Odd}, cluster : {"a", "", None, Odd}, user : {"a", "", None, Odd}]),
            clusters : Just([name : {"a", "", None}, server : {"h1", None, Bad}, ca : {"pem", "", Odd},
                             skip : {FALSE}, tls : {None}]),
            users : Just([name : {"a", "", None}, creds : {"pem", Odd}])],
     target : Plain, cert : Cert("h2")]

\* One document, with every target and every certificate.
MCServers ==
    [doc : [current : {"a"},
            contexts : {<<Context("b", "b", "a"), Context("a", "a", "a")>>},
            clusters : {<<[name |-> "b", server |-> "h2", ca |-> "pem", skip |-> FALSE, tls |-> "h2"], k>> :
                        k \in [name : {"a"}, server : {"h1", "h2"}, ca : {"pem", ""}, skip : BOOLEAN,
                               tls : {None, "h1"}]},
            users : {<<User("a", "pem")>>}],
     target : [tls_server_name : {None, "h1", "h2"}, insecure_fallback : BOOLEAN],
     cert : [dns : UpTo2({"h1", "h2"}), ips : UpTo2({"h1", "h3"})]]

MCInputs == MCShapes \cup MCDefects \cup MCServers
=============================================================================
