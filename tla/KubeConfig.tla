----------------------------- MODULE KubeConfig -----------------------------
(***************************************************************************)
(* What kube.py does to one fetched kubeconfig: parse_kubeconfig selects   *)
(* the current context, _resolve_tls decides how the server is verified,   *)
(* patch_view and rename_identities rewrite the live document in place.    *)
(* rename_identities is public: it may also get a document nobody parsed.  *)
(*                                                                         *)
(* A list entry that is not a mapping is an entry whose name is Odd, a     *)
(* context without a body one whose references are None: neither is ever   *)
(* found or changed.  A list that is no list is empty.                     *)
(***************************************************************************)
EXTENDS Naturals, Sequences

CONSTANTS
    Names,      \* strings that name something; Empty is ""
    Empty,
    NewName,    \* tunstrap-<node>-<target>
    None, Odd,  \* an absent value, a value that is no string
    Hosts,      \* https servers, and the names in certificates
    Bad,        \* a server that _split_host_port refuses
    Local,      \* https://127.0.0.1:<local port>
    Inputs      \* what is fetched: [doc, target, cert]

Texts == Names \cup {None, Odd}

Contexts == [name : Texts, cluster : Texts, user : Texts]
Clusters == [name : Texts, server : Hosts \cup {None, Bad, Local},
             ca : {"pem", "", Odd}, skip : BOOLEAN, tls : Hosts \cup {None}]
Users == [name : Texts, creds : {"pem", Odd}]

Documents == [current : Texts, contexts : Seq(Contexts),
              clusters : Seq(Clusters), users : Seq(Users)]
Targets == [tls_server_name : Hosts \cup {None}, insecure_fallback : BOOLEAN]
Certs == [dns : Seq(Hosts), ips : Seq(Hosts)]

ASSUME KcAssumption ==
    /\ {Empty, NewName} \subseteq Names /\ Empty # NewName
    /\ None \notin Names \cup Hosts \cup {Odd} /\ Odd \notin Names
    /\ {Bad, Local} \cap (Hosts \cup {None}) = {}
    /\ Inputs \subseteq [doc : Documents, target : Targets, cert : Certs]

VARIABLES
    input,      \* what was fetched and asked for (never changed)
    doc,        \* the live ruamel document
    stage,
    view,       \* KubeconfigView: the entries of the current context
    tls,        \* what _resolve_tls returned: [name, insecure]
    out         \* the KubeTargetOutput and the contexts disclosed

kcVars == <<input, doc, stage, view, tls, out>>

orig == input.doc
NoView == [context |-> 0, cluster |-> 0, user |-> 0, ca |-> "", ignored |-> {}]
NoTls == [name |-> None, insecure |-> FALSE]
NoOut == [identity |-> None, tls |-> None, ca |-> "", ignored |-> {}]

KcInit ==
    /\ input \in Inputs /\ doc = input.doc
    /\ stage \in {"fetched", "direct"}
    /\ view = NoView /\ tls = NoTls /\ out = NoOut

-----------------------------------------------------------------------------
\* _find_named(items, name) returns the entry i.
Found(items, name, i) ==
    /\ i \in DOMAIN items /\ items[i].name = name
    /\ \A j \in DOMAIN items : j < i => items[j].name # name

Bears(items, name) == \E i \in DOMAIN items : items[i].name = name

\* The current context is c, its cluster k and its user u.
Triple(d, c, k, u) ==
    /\ Found(d.contexts, d.current, c)
    /\ Found(d.clusters, d.contexts[c].cluster, k)
    /\ Found(d.users, d.contexts[c].user, u)

Strings(S) == S \subseteq Names
Truthy(S) == S \subseteq Names \ {Empty}

\* Mistake: the user is left for rename_identities to find.
ParsesNoUser(d, c, k, u) ==
    /\ Found(d.contexts, d.current, c)
    /\ Found(d.clusters, d.contexts[c].cluster, k)
    /\ Truthy({d.current, d.contexts[c].cluster, d.contexts[c].user})
    /\ d.clusters[k].server # None /\ d.clusters[k].ca # Odd

\* parse_kubeconfig returns a view.
Parses(d, c, k, u) ==
    /\ Triple(d, c, k, u)
    /\ Truthy({d.current, d.contexts[c].cluster, d.contexts[c].user})
    /\ d.clusters[k].server # None
    /\ d.clusters[k].ca # Odd /\ d.users[u].creds # Odd

\* Mistake: what is ignored is every entry other than the first.
IgnoredRest(d, c) == {d.contexts[i].name : i \in 2 .. Len(d.contexts)}

\* _ignored_contexts: the names other than the current one.
Ignored(d, c) == {d.contexts[i].name : i \in DOMAIN d.contexts} \ {d.current}

Miss == stage' = "missed" /\ UNCHANGED <<doc, view, tls, out>>

\* ... and _split_host_port accepts its server.
Usable(d, c, k, u) == Parses(d, c, k, u) /\ d.clusters[k].server # Bad

Parse ==
    /\ stage = "fetched"
    /\ UNCHANGED input
    /\ \/ \E c \in DOMAIN doc.contexts, k \in DOMAIN doc.clusters, u \in DOMAIN doc.users :
              /\ Usable(doc, c, k, u)
              /\ view' = [context |-> c, cluster |-> k, user |-> u,
                          ca |-> doc.clusters[k].ca, ignored |-> Ignored(doc, c)]
              /\ stage' = "parsed" /\ UNCHANGED <<doc, tls, out>>
       \/ /\ \A c \in DOMAIN doc.contexts, k \in DOMAIN doc.clusters, u \in DOMAIN doc.users :
                 ~ Usable(doc, c, k, u)
          /\ Miss

-----------------------------------------------------------------------------
SetOf(s) == {s[i] : i \in DOMAIN s}

\* choose_tls_server_name
Chosen(host, cert) ==
    IF host \in SetOf(cert.dns) \cup SetOf(cert.ips) THEN host
    ELSE IF cert.dns # <<>> THEN cert.dns[1]
    ELSE IF cert.ips # <<>> THEN cert.ips[1]
    ELSE None

\* Mistake: insecure_fallback is looked at before the certificate.
ResolvedEarly(target, host, cert) ==
    IF target.tls_server_name # None
    THEN [name |-> target.tls_server_name, insecure |-> FALSE]
    ELSE IF target.insecure_fallback THEN [name |-> None, insecure |-> TRUE]
    ELSE [name |-> Chosen(host, cert), insecure |-> FALSE]

\* _resolve_tls; the probe sees the certificate through the local forward.
Resolved(target, host, cert) ==
    IF target.tls_server_name # None
    THEN [name |-> target.tls_server_name, insecure |-> FALSE]
    ELSE [name |-> Chosen(host, cert),
          insecure |-> Chosen(host, cert) = None /\ target.insecure_fallback]

Resolve ==
    /\ stage = "parsed"
    /\ UNCHANGED input
    /\ LET r == Resolved(input.target, doc.clusters[view.cluster].server, input.cert)
       IN  IF r.name = None /\ ~r.insecure
           THEN Miss
           ELSE tls' = r /\ stage' = "resolved" /\ UNCHANGED <<doc, view, out>>

\* The cluster body after patch_view.
Patched(body) ==
    IF tls.insecure
    THEN [body EXCEPT !.server = Local, !.skip = TRUE, !.ca = "", !.tls = None]
    ELSE [body EXCEPT !.server = Local, !.tls = tls.name]

Patch ==
    /\ stage = "resolved"
    /\ doc' = [doc EXCEPT !.clusters[view.cluster] = Patched(doc.clusters[view.cluster])]
    /\ stage' = "patched"
    /\ UNCHANGED <<input, view, tls, out>>

-----------------------------------------------------------------------------
\* Mistake: _sweep_shared_refs looks at the clusters only.
SweptClusters(e, cluster, user) ==
    [e EXCEPT !.cluster = IF @ = cluster THEN NewName ELSE @]

\* _sweep_shared_refs, for one context other than the selected one.
Swept(e, cluster, user) ==
    [e EXCEPT !.cluster = IF @ = cluster THEN NewName ELSE @,
              !.user = IF @ = user THEN NewName ELSE @]

\* Mistake: the guard does not look at the users.
RenamesUnguarded(d, c, k, u) ==
    /\ Strings({d.current}) /\ Triple(d, c, k, u)
    /\ Strings({d.contexts[c].cluster, d.contexts[c].user})
    /\ ~ (Bears(d.contexts, NewName) \/ Bears(d.clusters, NewName))

\* rename_identities gets as far as its first assignment.  The guard looks at
\* the names of the entries only, never at references.
Renames(d, c, k, u) ==
    /\ Strings({d.current}) /\ Triple(d, c, k, u)
    /\ Strings({d.contexts[c].cluster, d.contexts[c].user})
    /\ ~ (Bears(d.contexts, NewName) \/ Bears(d.clusters, NewName) \/ Bears(d.users, NewName))

Renamed(d, c, k, u) ==
    LET context == d.contexts[c] IN
    [d EXCEPT
        !.current = NewName,
        !.contexts = [i \in DOMAIN d.contexts |->
            IF i = c THEN [name |-> NewName, cluster |-> NewName, user |-> NewName]
            ELSE Swept(d.contexts[i], context.cluster, context.user)],
        !.clusters[k].name = NewName,
        !.users[u].name = NewName]

\* Then run_kube_targets dumps the document and makes the output.
Rename ==
    /\ stage \in {"patched", "direct"}
    /\ UNCHANGED <<input, view, tls>>
    /\ \/ \E c \in DOMAIN doc.contexts, k \in DOMAIN doc.clusters, u \in DOMAIN doc.users :
              /\ Renames(doc, c, k, u)
              /\ doc' = Renamed(doc, c, k, u)
              /\ stage' = IF stage = "direct" THEN "renamed" ELSE "done"
              /\ out' = IF stage = "direct" THEN out
                        ELSE [identity |-> NewName,
                              tls |-> IF tls.insecure THEN None ELSE tls.name,
                              ca |-> IF tls.insecure THEN "" ELSE view.ca,
                              ignored |-> view.ignored]
       \/ /\ \A c \in DOMAIN doc.contexts, k \in DOMAIN doc.clusters, u \in DOMAIN doc.users :
                 ~ Renames(doc, c, k, u)
          /\ stage' = IF stage = "direct" THEN "refused" ELSE "collision"
          /\ UNCHANGED <<doc, out>>

KcNext == Parse \/ Resolve \/ Patch \/ Rename

KcSpec == KcInit /\ [][KcNext]_kcVars

-----------------------------------------------------------------------------
RenamedStages == {"renamed", "done"}

KcTypeOK ==
    /\ input \in Inputs
    /\ doc \in Documents
    /\ stage \in {"fetched", "direct", "parsed", "resolved", "patched", "missed",
                  "refused", "collision"} \cup RenamedStages
    /\ view \in [context : Nat, cluster : Nat, user : Nat, ca : {"pem", ""}, ignored : SUBSET Texts]
    /\ tls \in [name : Hosts \cup {None}, insecure : BOOLEAN]
    /\ out \in [identity : {None, NewName}, tls : Hosts \cup {None},
                ca : {"pem", ""}, ignored : SUBSET Texts]

\* A reference means the same entry before and after the renaming, or nothing
\* both times.
SameReference(before, ref, after, ref2) ==
    ref \in Names \ {NewName} =>
        \A i \in DOMAIN before : Found(before, ref, i) <=> Found(after, ref2, i)

\* "a document in which several contexts share one cluster or user stays
\* internally consistent": every context, selected or not, means the same
\* cluster and user as before.  (A dangling reference to the new name is the
\* exception: nothing looks for it and the renaming resolves it.)
ReferencesFollow ==
    stage \in RenamedStages =>
        \A i \in DOMAIN orig.contexts :
            LET b == orig.contexts[i]  a == doc.contexts[i] IN
            /\ SameReference(orig.clusters, b.cluster, doc.clusters, a.cluster)
            /\ SameReference(orig.users, b.user, doc.users, a.user)

Unique(items, i) == items[i].name = NewName /\ \A j \in DOMAIN items : items[j].name = NewName => j = i

\* The identity that is handed out names exactly one context, cluster and user,
\* those of the current context of the fetched file.
OneIdentity ==
    stage \in RenamedStages =>
        \E c \in DOMAIN orig.contexts, k \in DOMAIN orig.clusters, u \in DOMAIN orig.users :
            /\ Triple(orig, c, k, u) /\ Triple(doc, c, k, u)
            /\ doc.current = NewName
            /\ Unique(doc.contexts, c) /\ Unique(doc.clusters, k) /\ Unique(doc.users, u)

\* rename_identities: "The sole raise reachable from run_kube_targets is ... the
\* reserved-namespace collision".
ParseDominates ==
    stage = "collision" =>
        \/ Bears(orig.contexts, NewName) \/ Bears(orig.clusters, NewName)
        \/ Bears(orig.users, NewName)

Body(c) == <<c.server, c.ca, c.skip, c.tls>>

\* "Other clusters are untouched", and what the output says of the server is
\* what the file says that is written for kubectl.
OutputAgrees ==
    stage = "done" =>
        \A k \in DOMAIN doc.clusters :
            IF Found(doc.clusters, out.identity, k)
            THEN /\ doc.clusters[k].server = Local
                 /\ <<doc.clusters[k].ca, doc.clusters[k].tls>> = <<out.ca, out.tls>>
            ELSE Body(doc.clusters[k]) = Body(orig.clusters[k])

\* Verification is only ever turned off for a target that asked for it, whose
\* server shows no name at all, and the authority goes with it; otherwise the
\* name that is verified is the one asked for or one of the certificate.
NeverWeakened ==
    stage \in {"patched", "done"} =>
        \A k \in DOMAIN doc.clusters :
            LET b == orig.clusters[k]  a == doc.clusters[k]  t == input.target
                names == SetOf(input.cert.dns) \cup SetOf(input.cert.ips)
            IN  IF a.skip # b.skip
                THEN /\ t.tls_server_name = None /\ t.insecure_fallback /\ names = {}
                     /\ a.ca = "" /\ a.tls = None
                ELSE a.server # b.server /\ ~ tls.insecure =>
                     /\ a.ca = b.ca
                     /\ a.tls \in IF t.tls_server_name # None THEN {t.tls_server_name} ELSE names

\* The operator is told of every context, by name, that the renaming changed
\* and that is not the current one, and told nothing of a file that failed.
RewritesDisclosed ==
    IF stage = "done"
    THEN \A i \in DOMAIN doc.contexts :
             \/ doc.contexts[i] = orig.contexts[i]
             \/ orig.contexts[i].name \in out.ignored \cup {orig.current}
    ELSE out.ignored = {}

\* The operator is told the truth about the file: which server it names with
\* which trust, and which of its contexts were changed.
OutputIsTrue == OutputAgrees /\ RewritesDisclosed
=============================================================================
