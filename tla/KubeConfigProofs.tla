-------------------------- MODULE KubeConfigProofs --------------------------
(***************************************************************************)
(* The rewriting of a kubeconfig is right for every document: any number   *)
(* of contexts, clusters and users, under any names.  The argument is that *)
(* _find_named returns one entry, that patch_view changes no name, and     *)
(* that after the guard of rename_identities the new name stands on one    *)
(* entry of each list; so whatever found an entry before still finds it.   *)
(***************************************************************************)
EXTENDS KubeConfig, TLAPS

-----------------------------------------------------------------------------
(* Lists of named entries *)

\* _find_named returns at most one entry.
LEMMA FoundOnce ==
    ASSUME NEW s, DOMAIN s \subseteq Nat, NEW name, NEW i, NEW j,
           Found(s, name, i), Found(s, name, j)
    PROVE  i = j
<1>1. i \in Nat /\ j \in Nat BY DEF Found
<1>2. ~(i < j) /\ ~(j < i) BY DEF Found
<1> QED BY <1>1, <1>2

\* Only the names of the entries matter to _find_named.
LEMMA FoundByName ==
    ASSUME NEW s, NEW t, DOMAIN t = DOMAIN s,
           \A j \in DOMAIN s : t[j].name = s[j].name,
           NEW name, NEW i
    PROVE  Found(t, name, i) <=> Found(s, name, i)
BY DEF Found

\* The entry k that was found as old is renamed in a list that does not have
\* the new name: every reference, with old replaced, finds what it found.
LEMMA ReferenceFollows ==
    ASSUME NEW s, DOMAIN s \subseteq Nat, NEW t, DOMAIN t = DOMAIN s,
           NEW old, NEW k, Found(s, old, k), ~ Bears(s, NewName),
           \A j \in DOMAIN s : t[j].name = IF j = k THEN NewName ELSE s[j].name,
           NEW ref, ref # NewName, NEW i
    PROVE  Found(s, ref, i) <=> Found(t, IF ref = old THEN NewName ELSE ref, i)
<1>1. \A j \in DOMAIN s : s[j].name # NewName BY DEF Bears
<1>2. k \in DOMAIN s /\ s[k].name = old BY DEF Found
<1>3. CASE ref = old
    <2>1. Found(t, NewName, k) BY <1>1, <1>2 DEF Found
    <2>2. Found(t, NewName, i) => i = k BY <1>1 DEF Found
    <2>3. Found(s, old, i) => i = k BY FoundOnce
    <2> QED BY <1>3, <2>1, <2>2, <2>3
<1>4. CASE ref # old
    <2>1. \A j \in DOMAIN s : t[j].name = ref <=> s[j].name = ref BY <1>2, <1>4
    <2> QED BY <1>4, <2>1 DEF Found
<1> QED BY <1>3, <1>4

\* ... and the new name stands on k alone.
LEMMA NewNameUnique ==
    ASSUME NEW s, DOMAIN s \subseteq Nat, NEW t, DOMAIN t = DOMAIN s,
           NEW k \in DOMAIN s, ~ Bears(s, NewName),
           \A j \in DOMAIN s : t[j].name = IF j = k THEN NewName ELSE s[j].name
    PROVE  /\ Unique(t, k)
           /\ \A i : Found(t, NewName, i) <=> i = k
<1>1. \A j \in DOMAIN s : s[j].name # NewName BY DEF Bears
<1>2. ASSUME NEW j \in DOMAIN s PROVE t[j].name = NewName <=> j = k
    <2>1. CASE j = k BY <2>1
    <2>2. CASE j # k BY <1>1, <2>2
    <2> QED BY <2>1, <2>2
<1>3. Unique(t, k) BY <1>2 DEF Unique
<1>4. ASSUME NEW i, Found(t, NewName, i) PROVE i = k BY <1>2, <1>4 DEF Found
<1>5. Found(t, NewName, k) 
    <2>1. \A j \in DOMAIN t : j < k => t[j].name # NewName BY <1>2
    <2> QED BY <1>2, <2>1 DEF Found
<1> QED BY <1>3, <1>4, <1>5

-----------------------------------------------------------------------------
(* Documents *)

\* What the fetched document, the target and the certificate are made of.
LEMMA InputParts ==
    ASSUME NEW x \in Inputs
    PROVE  x.doc \in Documents /\ x.target \in Targets /\ x.cert \in Certs
BY KcAssumption

\* The parts of a document.
LEMMA DocumentParts ==
    ASSUME NEW d \in Documents
    PROVE  /\ d.contexts \in Seq(Contexts) /\ d.clusters \in Seq(Clusters) /\ d.users \in Seq(Users)
           /\ d = [current |-> d.current, contexts |-> d.contexts,
                   clusters |-> d.clusters, users |-> d.users]
           /\ DOMAIN d.contexts \subseteq Nat /\ DOMAIN d.clusters \subseteq Nat
           /\ DOMAIN d.users \subseteq Nat
           /\ \A i \in DOMAIN d.contexts : d.contexts[i] \in Contexts
           /\ \A i \in DOMAIN d.clusters : d.clusters[i] \in Clusters
           /\ \A i \in DOMAIN d.users : d.users[i] \in Users
BY DEF Documents

\* What rename_identities leaves in each list.
LEMMA RenamedParts ==
    ASSUME NEW d \in Documents, NEW c \in DOMAIN d.contexts,
           NEW k \in DOMAIN d.clusters, NEW u \in DOMAIN d.users,
           NEW r, r = Renamed(d, c, k, u)
    PROVE  /\ r.current = NewName
           /\ r.contexts = [i \in DOMAIN d.contexts |->
                  IF i = c THEN [name |-> NewName, cluster |-> NewName, user |-> NewName]
                  ELSE Swept(d.contexts[i], d.contexts[c].cluster, d.contexts[c].user)]
           /\ r.clusters = [d.clusters EXCEPT ![k].name = NewName]
           /\ r.users = [d.users EXCEPT ![u].name = NewName]
           /\ r = [current |-> r.current, contexts |-> r.contexts,
                   clusters |-> r.clusters, users |-> r.users]
<1>1. d = [current |-> d.current, contexts |-> d.contexts,
           clusters |-> d.clusters, users |-> d.users]
    BY DocumentParts
<1> QED BY <1>1 DEF Renamed

\* The names and references of a renamed document.
LEMMA RenamedNames ==
    ASSUME NEW d \in Documents, NEW c \in DOMAIN d.contexts,
           NEW k \in DOMAIN d.clusters, NEW u \in DOMAIN d.users,
           NEW r, r = Renamed(d, c, k, u)
    PROVE  /\ r.current = NewName
           /\ DOMAIN r.contexts = DOMAIN d.contexts
           /\ DOMAIN r.clusters = DOMAIN d.clusters
           /\ DOMAIN r.users = DOMAIN d.users
           /\ \A i \in DOMAIN d.contexts :
                  /\ r.contexts[i].name = IF i = c THEN NewName ELSE d.contexts[i].name
                  /\ r.contexts[i].cluster =
                         IF d.contexts[i].cluster = d.contexts[c].cluster
                         THEN NewName ELSE d.contexts[i].cluster
                  /\ r.contexts[i].user =
                         IF d.contexts[i].user = d.contexts[c].user
                         THEN NewName ELSE d.contexts[i].user
           /\ \A i \in DOMAIN d.clusters :
                  /\ r.clusters[i].name = IF i = k THEN NewName ELSE d.clusters[i].name
                  /\ Body(r.clusters[i]) = Body(d.clusters[i])
           /\ \A i \in DOMAIN d.users :
                  r.users[i].name = IF i = u THEN NewName ELSE d.users[i].name
<1>1. /\ r.current = NewName
      /\ r.contexts = [i \in DOMAIN d.contexts |->
             IF i = c THEN [name |-> NewName, cluster |-> NewName, user |-> NewName]
             ELSE Swept(d.contexts[i], d.contexts[c].cluster, d.contexts[c].user)]
      /\ r.clusters = [d.clusters EXCEPT ![k].name = NewName]
      /\ r.users = [d.users EXCEPT ![u].name = NewName]
      /\ r = [current |-> r.current, contexts |-> r.contexts,
              clusters |-> r.clusters, users |-> r.users]
    BY RenamedParts
<1>2. /\ \A i \in DOMAIN d.contexts : d.contexts[i] \in Contexts
      /\ \A i \in DOMAIN d.clusters : d.clusters[i] \in Clusters
      /\ \A i \in DOMAIN d.users : d.users[i] \in Users
    BY DocumentParts
<1>3. /\ DOMAIN r.contexts = DOMAIN d.contexts
      /\ DOMAIN r.clusters = DOMAIN d.clusters
      /\ DOMAIN r.users = DOMAIN d.users
    BY <1>1
<1>4. ASSUME NEW i \in DOMAIN d.contexts
      PROVE  /\ r.contexts[i].name = IF i = c THEN NewName ELSE d.contexts[i].name
             /\ r.contexts[i].cluster =
                    IF d.contexts[i].cluster = d.contexts[c].cluster
                    THEN NewName ELSE d.contexts[i].cluster
             /\ r.contexts[i].user =
                    IF d.contexts[i].user = d.contexts[c].user
                    THEN NewName ELSE d.contexts[i].user
    <2>1. CASE i = c
        <3>1. r.contexts[i] = [name |-> NewName, cluster |-> NewName, user |-> NewName]
            BY <1>1, <2>1
        <3> QED BY <2>1, <3>1
    <2>2. CASE i # c
        <3>1. r.contexts[i] = Swept(d.contexts[i], d.contexts[c].cluster, d.contexts[c].user)
            BY <1>1, <2>2
        <3> QED BY <1>2, <2>2, <3>1 DEF Swept, Contexts
    <2> QED BY <2>1, <2>2
<1>5. ASSUME NEW i \in DOMAIN d.clusters
      PROVE  /\ r.clusters[i].name = IF i = k THEN NewName ELSE d.clusters[i].name
             /\ Body(r.clusters[i]) = Body(d.clusters[i])
    <2>1. CASE i = k
        <3>1. r.clusters[k] = [d.clusters[k] EXCEPT !.name = NewName] BY <1>1
        <3> QED BY <1>2, <2>1, <3>1 DEF Clusters, Body
    <2>2. CASE i # k
        <3>1. r.clusters[i] = d.clusters[i] BY <1>1, <2>2
        <3> QED BY <2>2, <3>1
    <2> QED BY <2>1, <2>2
<1>6. ASSUME NEW i \in DOMAIN d.users
      PROVE  r.users[i].name = IF i = u THEN NewName ELSE d.users[i].name
    <2>1. CASE i = u
        <3>1. r.users[u] = [d.users[u] EXCEPT !.name = NewName] BY <1>1
        <3> QED BY <1>2, <2>1, <3>1 DEF Users
    <2>2. CASE i # u
        <3>1. r.users[i] = d.users[i] BY <1>1, <2>2
        <3> QED BY <2>2, <3>1
    <2> QED BY <2>1, <2>2
<1> QED BY <1>1, <1>3, <1>4, <1>5, <1>6

\* A renamed document is a document.
LEMMA RenamedType ==
    ASSUME NEW d \in Documents, NEW c \in DOMAIN d.contexts,
           NEW k \in DOMAIN d.clusters, NEW u \in DOMAIN d.users,
           NEW r, r = Renamed(d, c, k, u)
    PROVE  r \in Documents
<1>1. NewName \in Texts BY KcAssumption DEF Texts
<1>2. /\ r.current = NewName
      /\ r.contexts = [i \in DOMAIN d.contexts |->
             IF i = c THEN [name |-> NewName, cluster |-> NewName, user |-> NewName]
             ELSE Swept(d.contexts[i], d.contexts[c].cluster, d.contexts[c].user)]
      /\ r.clusters = [d.clusters EXCEPT ![k].name = NewName]
      /\ r.users = [d.users EXCEPT ![u].name = NewName]
      /\ r = [current |-> r.current, contexts |-> r.contexts,
              clusters |-> r.clusters, users |-> r.users]
    BY RenamedParts
<1>3. /\ d.contexts \in Seq(Contexts) /\ d.clusters \in Seq(Clusters) /\ d.users \in Seq(Users)
      /\ \A i \in DOMAIN d.contexts : d.contexts[i] \in Contexts
      /\ d.clusters[k] \in Clusters /\ d.users[u] \in Users
    BY DocumentParts
<1>4. r.contexts \in Seq(Contexts)
    <2>1. \A i \in DOMAIN d.contexts :
              Swept(d.contexts[i], d.contexts[c].cluster, d.contexts[c].user) \in Contexts
        BY <1>1, <1>3 DEF Contexts, Swept
    <2>2. [name |-> NewName, cluster |-> NewName, user |-> NewName] \in Contexts
        BY <1>1 DEF Contexts
    <2>3. DOMAIN d.contexts = 1 .. Len(d.contexts) /\ Len(d.contexts) \in Nat BY <1>3
    <2> QED BY <1>2, <2>1, <2>2, <2>3
<1>5. r.clusters \in Seq(Clusters)
    <2>1. [d.clusters[k] EXCEPT !.name = NewName] \in Clusters BY <1>1, <1>3 DEF Clusters
    <2>2. r.clusters = [d.clusters EXCEPT ![k] = [d.clusters[k] EXCEPT !.name = NewName]] BY <1>2
    <2> HIDE DEF Clusters
    <2> QED BY <1>3, <2>1, <2>2
<1>6. r.users \in Seq(Users)
    <2>1. [d.users[u] EXCEPT !.name = NewName] \in Users BY <1>1, <1>3 DEF Users
    <2>2. r.users = [d.users EXCEPT ![u] = [d.users[u] EXCEPT !.name = NewName]] BY <1>2
    <2> QED BY <1>3, <2>1, <2>2
<1> QED BY <1>1, <1>2, <1>4, <1>5, <1>6 DEF Documents

\* What a context of a renamed document means is what it meant before.
LEMMA RenamedFollows ==
    ASSUME NEW d \in Documents, NEW c \in DOMAIN d.contexts,
           NEW k \in DOMAIN d.clusters, NEW u \in DOMAIN d.users,
           Renames(d, c, k, u), NEW r, r = Renamed(d, c, k, u),
           NEW i \in DOMAIN d.contexts
    PROVE  /\ SameReference(d.clusters, d.contexts[i].cluster, r.clusters, r.contexts[i].cluster)
           /\ SameReference(d.users, d.contexts[i].user, r.users, r.contexts[i].user)
<1>1. /\ Found(d.clusters, d.contexts[c].cluster, k) /\ ~ Bears(d.clusters, NewName)
      /\ Found(d.users, d.contexts[c].user, u) /\ ~ Bears(d.users, NewName)
    BY DEF Renames, Triple
<1>2. DOMAIN d.clusters \subseteq Nat /\ DOMAIN d.users \subseteq Nat BY DocumentParts
<1>3. /\ DOMAIN r.clusters = DOMAIN d.clusters /\ DOMAIN r.users = DOMAIN d.users
      /\ r.contexts[i].cluster = IF d.contexts[i].cluster = d.contexts[c].cluster
                                 THEN NewName ELSE d.contexts[i].cluster
      /\ r.contexts[i].user = IF d.contexts[i].user = d.contexts[c].user
                              THEN NewName ELSE d.contexts[i].user
      /\ \A j \in DOMAIN d.clusters :
             r.clusters[j].name = IF j = k THEN NewName ELSE d.clusters[j].name
      /\ \A j \in DOMAIN d.users :
             r.users[j].name = IF j = u THEN NewName ELSE d.users[j].name
    BY RenamedNames
<1>4. ASSUME NEW ref \in Names \ {NewName}, NEW j \in DOMAIN d.clusters
      PROVE  Found(d.clusters, ref, j)
                <=> Found(r.clusters, IF ref = d.contexts[c].cluster THEN NewName ELSE ref, j)
    BY <1>1, <1>2, <1>3, ReferenceFollows
<1>5. ASSUME NEW ref \in Names \ {NewName}, NEW j \in DOMAIN d.users
      PROVE  Found(d.users, ref, j)
                <=> Found(r.users, IF ref = d.contexts[c].user THEN NewName ELSE ref, j)
    BY <1>1, <1>2, <1>3, ReferenceFollows
<1> HIDE DEF Found
<1> QED BY <1>3, <1>4, <1>5 DEF SameReference

\* The new name stands on the renamed entries alone, and they are the triple
\* of the renamed document.
LEMMA RenamedIdentity ==
    ASSUME NEW d \in Documents, NEW c \in DOMAIN d.contexts,
           NEW k \in DOMAIN d.clusters, NEW u \in DOMAIN d.users,
           Renames(d, c, k, u), NEW r, r = Renamed(d, c, k, u)
    PROVE  /\ r.current = NewName /\ Triple(r, c, k, u)
           /\ Unique(r.contexts, c) /\ Unique(r.clusters, k) /\ Unique(r.users, u)
           /\ \A i : Found(r.clusters, NewName, i) <=> i = k
<1>1. ~ Bears(d.contexts, NewName) /\ ~ Bears(d.clusters, NewName) /\ ~ Bears(d.users, NewName)
    BY DEF Renames
<1>2. /\ DOMAIN d.contexts \subseteq Nat /\ DOMAIN d.clusters \subseteq Nat
      /\ DOMAIN d.users \subseteq Nat
    BY DocumentParts
<1>3. /\ DOMAIN r.contexts = DOMAIN d.contexts
      /\ DOMAIN r.clusters = DOMAIN d.clusters /\ DOMAIN r.users = DOMAIN d.users
      /\ \A j \in DOMAIN d.contexts :
             r.contexts[j].name = IF j = c THEN NewName ELSE d.contexts[j].name
      /\ \A j \in DOMAIN d.clusters :
             r.clusters[j].name = IF j = k THEN NewName ELSE d.clusters[j].name
      /\ \A j \in DOMAIN d.users :
             r.users[j].name = IF j = u THEN NewName ELSE d.users[j].name
      /\ r.contexts[c].cluster = NewName /\ r.contexts[c].user = NewName
    BY RenamedNames
<1>4. Unique(r.contexts, c) /\ Found(r.contexts, NewName, c)
    BY <1>1, <1>2, <1>3, NewNameUnique
<1>5. Unique(r.clusters, k) /\ \A i : Found(r.clusters, NewName, i) <=> i = k
    BY <1>1, <1>2, <1>3, NewNameUnique
<1>6. Unique(r.users, u) /\ Found(r.users, NewName, u)
    BY <1>1, <1>2, <1>3, NewNameUnique
<1>7. r.current = NewName BY RenamedNames
<1>8. Found(r.clusters, NewName, k) BY <1>5
<1>9. Triple(r, c, k, u) BY <1>3, <1>4, <1>6, <1>7, <1>8 DEF Triple
<1> QED BY <1>4, <1>5, <1>6, <1>7, <1>9

-----------------------------------------------------------------------------
(* The invariant *)

\* The document of the current view after patch_view.
PatchedDoc == [orig EXCEPT !.clusters[view.cluster] = Patched(orig.clusters[view.cluster])]

InDomains(d, c, k, u) ==
    c \in DOMAIN d.contexts /\ k \in DOMAIN d.clusters /\ u \in DOMAIN d.users

\* The view is that of the file as it was fetched, whatever was rewritten since.
ViewInv ==
    stage \in {"parsed", "resolved", "patched", "collision", "done"} =>
        /\ InDomains(orig, view.context, view.cluster, view.user)
        /\ Usable(orig, view.context, view.cluster, view.user)
        /\ view.ca = orig.clusters[view.cluster].ca
        /\ view.ignored = Ignored(orig, view.context)

TlsInv ==
    stage \in {"resolved", "patched", "collision", "done"} =>
        /\ tls = Resolved(input.target, orig.clusters[view.cluster].server, input.cert)
        /\ tls.name = None => tls.insecure

\* The document is the fetched one, patched and renamed as far as it has come.
DocInv ==
    /\ stage \in {"fetched", "direct", "parsed", "resolved", "missed", "refused"} => doc = orig
    /\ stage \in {"patched", "collision"} => doc = PatchedDoc
    /\ stage = "collision" =>
           ~ Renames(PatchedDoc, view.context, view.cluster, view.user)
    /\ stage = "renamed" =>
           \E c \in DOMAIN orig.contexts, k \in DOMAIN orig.clusters, u \in DOMAIN orig.users :
               Renames(orig, c, k, u) /\ doc = Renamed(orig, c, k, u)
    /\ stage = "done" =>
           /\ Renames(PatchedDoc, view.context, view.cluster, view.user)
           /\ doc = Renamed(PatchedDoc, view.context, view.cluster, view.user)

OutInv ==
    out = IF stage = "done"
          THEN [identity |-> NewName,
                tls |-> IF tls.insecure THEN None ELSE tls.name,
                ca |-> IF tls.insecure THEN "" ELSE view.ca,
                ignored |-> view.ignored]
          ELSE NoOut

KcInv == KcTypeOK /\ ViewInv /\ TlsInv /\ DocInv /\ OutInv

\* patch_view rewrites one body and no name.
LEMMA PatchedParts ==
    ASSUME orig \in Documents, view.cluster \in DOMAIN orig.clusters,
           tls \in [name : Hosts \cup {None}, insecure : BOOLEAN],
           NEW p, p = PatchedDoc
    PROVE  /\ p \in Documents
           /\ p.current = orig.current /\ p.contexts = orig.contexts /\ p.users = orig.users
           /\ DOMAIN p.clusters = DOMAIN orig.clusters
           /\ \A i \in DOMAIN orig.clusters :
                  /\ p.clusters[i].name = orig.clusters[i].name
                  /\ i # view.cluster => p.clusters[i] = orig.clusters[i]
           /\ p.clusters[view.cluster] = Patched(orig.clusters[view.cluster])
<1> DEFINE b == orig.clusters[view.cluster]
           q == Patched(b)
<1>1. orig = [current |-> orig.current, contexts |-> orig.contexts,
              clusters |-> orig.clusters, users |-> orig.users]
    BY DocumentParts
<1>2. /\ orig.clusters \in Seq(Clusters) /\ b \in Clusters
      /\ orig.contexts \in Seq(Contexts) /\ orig.users \in Seq(Users)
    BY DocumentParts
<1>3. orig.current \in Texts BY DEF Documents
<1>4. q \in Clusters /\ q.name = b.name
    BY <1>2 DEF Clusters, Patched
<1> HIDE DEF q, b
<1>5. p = [current |-> orig.current, contexts |-> orig.contexts,
           clusters |-> [orig.clusters EXCEPT ![view.cluster] = q], users |-> orig.users]
    BY <1>1 DEF PatchedDoc, q, b
<1>6. /\ p.current = orig.current /\ p.contexts = orig.contexts /\ p.users = orig.users
      /\ p.clusters = [orig.clusters EXCEPT ![view.cluster] = q]
    BY <1>5
<1>7. p.clusters \in Seq(Clusters) BY <1>2, <1>4, <1>6
<1>8. p \in Documents BY <1>2, <1>3, <1>5, <1>6, <1>7 DEF Documents
<1>9. DOMAIN p.clusters = DOMAIN orig.clusters /\ p.clusters[view.cluster] = q
    BY <1>2, <1>6
<1>10. ASSUME NEW i \in DOMAIN orig.clusters
       PROVE  /\ p.clusters[i].name = orig.clusters[i].name
              /\ i # view.cluster => p.clusters[i] = orig.clusters[i]
    BY <1>2, <1>4, <1>6 DEF b
<1> QED BY <1>6, <1>8, <1>9, <1>10 DEF q, b

\* So the patched document has the same triples and the same new names.
LEMMA PatchedTriple ==
    ASSUME orig \in Documents, view.cluster \in DOMAIN orig.clusters,
           tls \in [name : Hosts \cup {None}, insecure : BOOLEAN],
           NEW p, p = PatchedDoc, NEW c, NEW k, NEW u
    PROVE  /\ Triple(p, c, k, u) <=> Triple(orig, c, k, u)
           /\ Bears(p.clusters, NewName) <=> Bears(orig.clusters, NewName)
<1>1. /\ p.current = orig.current /\ p.contexts = orig.contexts /\ p.users = orig.users
      /\ DOMAIN p.clusters = DOMAIN orig.clusters
      /\ \A i \in DOMAIN orig.clusters : p.clusters[i].name = orig.clusters[i].name
    BY PatchedParts
<1>2. ASSUME NEW name, NEW i PROVE Found(p.clusters, name, i) <=> Found(orig.clusters, name, i)
    BY <1>1, FoundByName
<1>3. Bears(p.clusters, NewName) <=> Bears(orig.clusters, NewName) BY <1>1 DEF Bears
<1> QED BY <1>1, <1>2, <1>3 DEF Triple

\* A document has one triple.
LEMMA TripleOnce ==
    ASSUME NEW d \in Documents, NEW c, NEW k, NEW u, NEW c2, NEW k2, NEW u2,
           Triple(d, c, k, u), Triple(d, c2, k2, u2)
    PROVE  c = c2 /\ k = k2 /\ u = u2
<1>1. c = c2 BY DocumentParts, FoundOnce DEF Triple
<1>2. k = k2 /\ u = u2 BY <1>1, DocumentParts, FoundOnce DEF Triple
<1> QED BY <1>1, <1>2

\* Every host name that the certificate shows is a host name.
LEMMA CertNames ==
    ASSUME NEW cert \in Certs
    PROVE  /\ SetOf(cert.dns) \subseteq Hosts /\ SetOf(cert.ips) \subseteq Hosts
           /\ cert.dns # <<>> => cert.dns[1] \in SetOf(cert.dns)
           /\ cert.ips # <<>> => cert.ips[1] \in SetOf(cert.ips)
           /\ cert.dns = <<>> => SetOf(cert.dns) = {}
           /\ cert.ips = <<>> => SetOf(cert.ips) = {}
<1>1. cert.dns \in Seq(Hosts) /\ cert.ips \in Seq(Hosts) BY DEF Certs
<1>2. ASSUME NEW s \in Seq(Hosts)
      PROVE  /\ SetOf(s) \subseteq Hosts
             /\ s # <<>> => s[1] \in SetOf(s)
             /\ s = <<>> => SetOf(s) = {}
    <2>1. DOMAIN s = 1 .. Len(s) /\ Len(s) \in Nat /\ \A i \in DOMAIN s : s[i] \in Hosts OBVIOUS
    <2>2. s # <<>> => 1 \in DOMAIN s BY <2>1
    <2> QED BY <2>1, <2>2 DEF SetOf
<1> QED BY <1>1, <1>2

\* choose_tls_server_name chooses a name of the certificate, if there is one.
LEMMA ChosenIsShown ==
    ASSUME NEW cert \in Certs, NEW host
    PROVE  LET names == SetOf(cert.dns) \cup SetOf(cert.ips) IN
           /\ names = {} => Chosen(host, cert) = None
           /\ names # {} => Chosen(host, cert) \in names
           /\ names \subseteq Hosts /\ Chosen(host, cert) \in Hosts \cup {None}
<1> HIDE DEF SetOf
<1> QED BY CertNames DEF Chosen

\* _resolve_tls turns verification off in one case only.
LEMMA ResolvedFacts ==
    ASSUME NEW t \in Targets, NEW cert \in Certs, NEW host,
           NEW r, r = Resolved(t, host, cert)
    PROVE  LET names == SetOf(cert.dns) \cup SetOf(cert.ips) IN
           /\ r \in [name : Hosts \cup {None}, insecure : BOOLEAN]
           /\ r.insecure => t.tls_server_name = None /\ t.insecure_fallback /\ names = {}
           /\ ~ r.insecure /\ r.name # None =>
                  r.name \in IF t.tls_server_name # None THEN {t.tls_server_name} ELSE names
<1> DEFINE names == SetOf(cert.dns) \cup SetOf(cert.ips)
<1>1. t.tls_server_name \in Hosts \cup {None} /\ t.insecure_fallback \in BOOLEAN BY DEF Targets
<1>2. None \notin Hosts BY KcAssumption
<1>3. /\ names = {} => Chosen(host, cert) = None
      /\ names # {} => Chosen(host, cert) \in names
      /\ names \subseteq Hosts /\ Chosen(host, cert) \in Hosts \cup {None}
    BY ChosenIsShown
<1> HIDE DEF names
<1>4. CASE t.tls_server_name # None
    <2>1. r = [name |-> t.tls_server_name, insecure |-> FALSE] BY <1>4 DEF Resolved
    <2> QED BY <1>1, <1>4, <2>1
<1>5. CASE t.tls_server_name = None
    <2> DEFINE fallback == Chosen(host, cert) = None /\ t.insecure_fallback
    <2>1. r = [name |-> Chosen(host, cert), insecure |-> fallback]
        BY <1>5, Zenon DEF Resolved
    <2>2. r.insecure => Chosen(host, cert) = None /\ t.insecure_fallback
        <3>1. r.insecure = fallback BY <2>1
        <3> HIDE DEF fallback
        <3>2. r.insecure => fallback BY <3>1, Zenon
        <3> QED BY <3>2 DEF fallback
    <2>3. r.insecure \in BOOLEAN BY <2>1
    <2>4. r \in [name : Hosts \cup {None}, insecure : BOOLEAN] BY <1>3, <2>1
    <2>5. r.insecure => names = {} BY <1>2, <1>3, <2>2
    <2>6. r.name # None => r.name \in names BY <1>3, <2>1
    <2> QED BY <1>5, <2>2, <2>4, <2>5, <2>6 DEF names
<1> QED BY <1>4, <1>5 DEF names

-----------------------------------------------------------------------------
(* The invariant is inductive *)

Early == {"fetched", "direct"}
Stages == {"fetched", "direct", "parsed", "resolved", "patched", "missed",
           "refused", "collision"} \cup RenamedStages

\* What a state that satisfies the type invariant is made of.
LEMMA TypeParts ==
    ASSUME KcTypeOK
    PROVE  /\ orig \in Documents /\ input.target \in Targets /\ input.cert \in Certs
           /\ doc \in Documents
           /\ tls \in [name : Hosts \cup {None}, insecure : BOOLEAN]
BY InputParts DEF KcTypeOK, orig

\* Init establishes it.
LEMMA KcInitInv == KcInit => KcInv
<1> SUFFICES ASSUME KcInit PROVE KcInv OBVIOUS
<1>1. input \in Inputs /\ doc = orig /\ stage \in Early /\ view = NoView /\ tls = NoTls /\ out = NoOut
    BY DEF KcInit, orig, Early
<1>2. KcTypeOK
    <2>1. doc \in Documents BY <1>1, InputParts DEF orig
    <2>2. view \in [context : Nat, cluster : Nat, user : Nat, ca : {"pem", ""}, ignored : SUBSET Texts]
        BY <1>1 DEF NoView
    <2>3. tls \in [name : Hosts \cup {None}, insecure : BOOLEAN] BY <1>1 DEF NoTls
    <2>4. out \in [identity : {None, NewName}, tls : Hosts \cup {None},
                   ca : {"pem", ""}, ignored : SUBSET Texts]
        BY <1>1 DEF NoOut
    <2> QED BY <1>1, <2>1, <2>2, <2>3, <2>4 DEF KcTypeOK, Early
<1>3. ViewInv /\ TlsInv /\ DocInv /\ OutInv
    BY <1>1 DEF Early, ViewInv, TlsInv, DocInv, OutInv
<1> QED BY <1>2, <1>3 DEF KcInv

\* A missed target leaves the document alone.
LEMMA MissStep ==
    ASSUME KcInv, stage \in {"fetched", "parsed"}, Miss, UNCHANGED input
    PROVE  KcInv'
<1>1. stage' = "missed" /\ UNCHANGED <<doc, view, tls, out, input>> BY DEF Miss
<1>2. KcTypeOK' BY <1>1 DEF KcInv, KcTypeOK
<1>3. doc = orig /\ out = NoOut BY DEF KcInv, DocInv, OutInv
<1>4. ViewInv' /\ TlsInv' /\ DocInv' /\ OutInv'
    BY <1>1, <1>3 DEF ViewInv, TlsInv, DocInv, OutInv, orig, RenamedStages
<1> QED BY <1>2, <1>4 DEF KcInv

LEMMA ParseStep == ASSUME KcInv, Parse PROVE KcInv'
<1> USE DEF KcInv
<1>1. stage = "fetched" /\ input' = input /\ doc = orig /\ out = NoOut
    BY DEF Parse, DocInv, OutInv
<1>2. CASE Miss BY <1>1, <1>2, MissStep
<1>3. CASE \E c \in DOMAIN doc.contexts, k \in DOMAIN doc.clusters, u \in DOMAIN doc.users :
               /\ Usable(doc, c, k, u)
               /\ view' = [context |-> c, cluster |-> k, user |-> u,
                           ca |-> doc.clusters[k].ca, ignored |-> Ignored(doc, c)]
               /\ stage' = "parsed" /\ UNCHANGED <<doc, tls, out>>
    <2>1. PICK c \in DOMAIN doc.contexts, k \in DOMAIN doc.clusters, u \in DOMAIN doc.users :
               /\ Usable(doc, c, k, u)
               /\ view' = [context |-> c, cluster |-> k, user |-> u,
                           ca |-> doc.clusters[k].ca, ignored |-> Ignored(doc, c)]
               /\ stage' = "parsed" /\ UNCHANGED <<doc, tls, out>>
        BY <1>3
    <2>2. view'.context = c /\ view'.cluster = k /\ view'.user = u
          /\ view'.ca = doc.clusters[k].ca /\ view'.ignored = Ignored(doc, c)
        BY <2>1
    <2>3. orig' = orig BY <1>1 DEF orig
    <2>4. ViewInv' BY <1>1, <2>1, <2>2, <2>3 DEF ViewInv, InDomains
    <2>5. DocInv' BY <1>1, <2>1, <2>3 DEF DocInv
    <2>6. OutInv' /\ TlsInv' BY <1>1, <2>1 DEF OutInv, TlsInv
    <2>7. KcTypeOK'
        <3>1. doc \in Documents BY TypeParts
        <3>2. c \in Nat /\ k \in Nat /\ u \in Nat BY <3>1, DocumentParts
        <3>3. Ignored(doc, c) \subseteq Texts
            <4>1. \A i \in DOMAIN doc.contexts : doc.contexts[i].name \in Texts
                BY <3>1, DocumentParts DEF Contexts
            <4> QED BY <4>1 DEF Ignored
        <3>4. doc.clusters[k].ca \in {"pem", ""}
            <4>1. doc.clusters[k] \in Clusters BY <3>1, DocumentParts
            <4> QED BY <2>1, <4>1 DEF Clusters, Usable, Parses
        <3>5. view' \in [context : Nat, cluster : Nat, user : Nat,
                         ca : {"pem", ""}, ignored : SUBSET Texts]
            BY <2>1, <3>2, <3>3, <3>4
        <3> QED BY <1>1, <2>1, <3>5 DEF KcTypeOK
    <2> QED BY <2>4, <2>5, <2>6, <2>7
<1> QED BY <1>2, <1>3 DEF Parse

LEMMA ResolveStep == ASSUME KcInv, Resolve PROVE KcInv'
<1> DEFINE r == Resolved(input.target, doc.clusters[view.cluster].server, input.cert)
<1>1. stage = "parsed" /\ input' = input /\ doc = orig /\ out = NoOut
    BY DEF KcInv, Resolve, DocInv, OutInv
<1>2. CASE Miss BY <1>1, <1>2, MissStep
<1>3. CASE ~ (r.name = None /\ ~ r.insecure) /\ tls' = r /\ stage' = "resolved"
           /\ UNCHANGED <<doc, view, out>>
    <2>1. orig' = orig BY <1>1 DEF orig
    <2>2. r \in [name : Hosts \cup {None}, insecure : BOOLEAN]
        BY TypeParts, ResolvedFacts DEF KcInv
    <2>3. KcTypeOK' BY <1>1, <1>3, <2>2 DEF KcInv, KcTypeOK
    <2>4. ViewInv' BY <1>1, <1>3, <2>1 DEF KcInv, ViewInv
    <2>5. TlsInv' BY <1>1, <1>3, <2>1 DEF TlsInv
    <2>6. DocInv' /\ OutInv' BY <1>1, <1>3, <2>1 DEF DocInv, OutInv
    <2> QED BY <2>3, <2>4, <2>5, <2>6 DEF KcInv
<1> QED BY <1>2, <1>3 DEF Resolve

LEMMA PatchStep == ASSUME KcInv, Patch PROVE KcInv'
<1>1. /\ stage = "resolved" /\ stage' = "patched" /\ UNCHANGED <<input, view, tls, out>>
      /\ doc = orig /\ out = NoOut
      /\ doc' = [doc EXCEPT !.clusters[view.cluster] = Patched(doc.clusters[view.cluster])]
    BY DEF KcInv, Patch, DocInv, OutInv
<1>2. orig' = orig BY <1>1 DEF orig
<1>3. doc' = PatchedDoc /\ PatchedDoc' = PatchedDoc
    BY <1>1, <1>2 DEF PatchedDoc, Patched
<1>4. view.cluster \in DOMAIN orig.clusters BY <1>1 DEF KcInv, ViewInv, InDomains
<1>5. doc' \in Documents BY <1>3, <1>4, TypeParts, PatchedParts DEF KcInv
<1>6. KcTypeOK' BY <1>1, <1>5 DEF KcInv, KcTypeOK
<1>7. ViewInv' BY <1>1, <1>2 DEF KcInv, ViewInv
<1>8. TlsInv' BY <1>1, <1>2 DEF KcInv, TlsInv
<1>9. DocInv' /\ OutInv' BY <1>1, <1>3 DEF DocInv, OutInv
<1> QED BY <1>6, <1>7, <1>8, <1>9 DEF KcInv

LEMMA RenameStep == ASSUME KcInv, Rename PROVE KcInv'
<1>1. /\ UNCHANGED <<input, view, tls>> /\ stage \in {"patched", "direct"}
      /\ doc \in Documents /\ out = NoOut
    BY TypeParts DEF Rename, KcInv, OutInv
<1>2. orig' = orig /\ PatchedDoc' = PatchedDoc BY <1>1 DEF orig, PatchedDoc, Patched
<1>3. ViewInv /\ TlsInv /\ DocInv /\ KcTypeOK BY DEF KcInv
<1>4. CASE \E c \in DOMAIN doc.contexts, k \in DOMAIN doc.clusters, u \in DOMAIN doc.users :
               /\ Renames(doc, c, k, u)
               /\ doc' = Renamed(doc, c, k, u)
               /\ stage' = IF stage = "direct" THEN "renamed" ELSE "done"
               /\ out' = IF stage = "direct" THEN out
                         ELSE [identity |-> NewName,
                               tls |-> IF tls.insecure THEN None ELSE tls.name,
                               ca |-> IF tls.insecure THEN "" ELSE view.ca,
                               ignored |-> view.ignored]
    <2>1. PICK c \in DOMAIN doc.contexts, k \in DOMAIN doc.clusters, u \in DOMAIN doc.users :
               /\ Renames(doc, c, k, u)
               /\ doc' = Renamed(doc, c, k, u)
               /\ stage' = IF stage = "direct" THEN "renamed" ELSE "done"
               /\ out' = IF stage = "direct" THEN out
                         ELSE [identity |-> NewName,
                               tls |-> IF tls.insecure THEN None ELSE tls.name,
                               ca |-> IF tls.insecure THEN "" ELSE view.ca,
                               ignored |-> view.ignored]
        BY <1>4
    <2>2. doc' \in Documents BY <1>1, <2>1, RenamedType
    <2>3. CASE stage = "direct"
        <3>1. stage' = "renamed" /\ out' = NoOut BY <1>1, <2>1, <2>3
        <3>2. doc = orig BY <1>3, <2>3 DEF DocInv
        <3>3. KcTypeOK' BY <1>1, <1>3, <2>2, <3>1 DEF KcTypeOK, RenamedStages
        <3>4. DocInv'
            <4>1. Renames(orig, c, k, u) /\ doc' = Renamed(orig, c, k, u) BY <2>1, <3>2
            <4> QED BY <1>2, <2>1, <3>1, <3>2, <4>1 DEF DocInv
        <3>5. ViewInv' /\ TlsInv' /\ OutInv' BY <3>1 DEF ViewInv, TlsInv, OutInv
        <3> QED BY <3>3, <3>4, <3>5 DEF KcInv
    <2>4. CASE stage = "patched"
        <3>1. /\ stage' = "done"
              /\ out' = [identity |-> NewName,
                         tls |-> IF tls.insecure THEN None ELSE tls.name,
                         ca |-> IF tls.insecure THEN "" ELSE view.ca,
                         ignored |-> view.ignored]
            BY <2>1, <2>4
        <3>2. doc = PatchedDoc BY <1>3, <2>4 DEF DocInv
        <3>3. Usable(orig, view.context, view.cluster, view.user)
              /\ view.cluster \in DOMAIN orig.clusters
            BY <1>3, <2>4 DEF ViewInv, InDomains
        <3>4. c = view.context /\ k = view.cluster /\ u = view.user
            <4>1. Triple(orig, view.context, view.cluster, view.user) BY <3>3 DEF Usable, Parses
            <4>2. Triple(doc, c, k, u) BY <2>1 DEF Renames
            <4>3. Triple(doc, view.context, view.cluster, view.user)
                BY <1>3, <3>2, <3>3, <4>1, PatchedTriple, TypeParts
            <4> QED BY <1>1, <4>2, <4>3, TripleOnce
        <3>5. out' \in [identity : {None, NewName}, tls : Hosts \cup {None},
                        ca : {"pem", ""}, ignored : SUBSET Texts]
            <4>1. /\ view.ca \in {"pem", ""} /\ view.ignored \in SUBSET Texts
                  /\ tls.name \in Hosts \cup {None}
                BY <1>3 DEF KcTypeOK
            <4> QED BY <3>1, <4>1
        <3>6. KcTypeOK' BY <1>1, <1>3, <2>2, <3>1, <3>5 DEF KcTypeOK, RenamedStages
        <3>7. DocInv'
            <4>1. Renames(PatchedDoc, view.context, view.cluster, view.user)
                  /\ doc' = Renamed(PatchedDoc, view.context, view.cluster, view.user)
                BY <2>1, <3>2, <3>4
            <4> QED BY <1>1, <1>2, <3>1, <4>1 DEF DocInv
        <3>8. ViewInv' BY <1>1, <1>2, <1>3, <2>4 DEF ViewInv
        <3>9. TlsInv' BY <1>1, <1>2, <1>3, <2>4 DEF TlsInv
        <3>10. OutInv' BY <1>1, <3>1 DEF OutInv
        <3> QED BY <3>6, <3>7, <3>8, <3>9, <3>10 DEF KcInv
    <2> QED BY <1>1, <2>3, <2>4
<1>5. CASE /\ \A c \in DOMAIN doc.contexts, k \in DOMAIN doc.clusters, u \in DOMAIN doc.users :
                  ~ Renames(doc, c, k, u)
           /\ stage' = IF stage = "direct" THEN "refused" ELSE "collision"
           /\ UNCHANGED <<doc, out>>
    <2>1. KcTypeOK' BY <1>1, <1>3, <1>5 DEF KcTypeOK
    <2>2. CASE stage = "direct"
        <3>1. stage' = "refused" /\ doc' = orig BY <1>3, <1>5, <2>2 DEF DocInv
        <3>2. DocInv' BY <1>2, <3>1 DEF DocInv
        <3>3. ViewInv' /\ TlsInv' /\ OutInv' BY <1>1, <1>5, <3>1 DEF ViewInv, TlsInv, OutInv
        <3> QED BY <2>1, <3>2, <3>3 DEF KcInv
    <2>3. CASE stage = "patched"
        <3>1. stage' = "collision" /\ doc = PatchedDoc /\ doc' = PatchedDoc
            BY <1>3, <1>5, <2>3 DEF DocInv
        <3>2. ~ Renames(PatchedDoc, view.context, view.cluster, view.user)
            <4>1. InDomains(orig, view.context, view.cluster, view.user)
                BY <1>3, <2>3 DEF ViewInv
            <4>2. InDomains(doc, view.context, view.cluster, view.user)
                BY <1>3, <3>1, <4>1, PatchedParts, TypeParts DEF InDomains
            <4> QED BY <1>5, <3>1, <4>2 DEF InDomains
        <3>3. DocInv' BY <1>1, <1>2, <3>1, <3>2 DEF DocInv
        <3>4. ViewInv' BY <1>1, <1>2, <1>3, <2>3 DEF ViewInv
        <3>5. TlsInv' BY <1>1, <1>2, <1>3, <2>3 DEF TlsInv
        <3>6. OutInv' BY <1>1, <1>5, <3>1 DEF OutInv
        <3> QED BY <2>1, <3>3, <3>4, <3>5, <3>6 DEF KcInv
    <2> QED BY <1>1, <2>2, <2>3
<1> QED BY <1>4, <1>5 DEF Rename

LEMMA KcStutter == ASSUME KcInv, UNCHANGED kcVars PROVE KcInv'
<1>1. /\ input' = input /\ doc' = doc /\ stage' = stage /\ view' = view
      /\ tls' = tls /\ out' = out
    BY DEF kcVars
<1>2. orig' = orig /\ PatchedDoc' = PatchedDoc BY <1>1 DEF orig, PatchedDoc, Patched
<1>3. KcTypeOK' BY <1>1 DEF KcInv, KcTypeOK
<1>4. ViewInv' /\ TlsInv' /\ OutInv' BY <1>1, <1>2 DEF KcInv, ViewInv, TlsInv, OutInv
<1>5. DocInv' BY <1>1, <1>2 DEF KcInv, DocInv
<1> QED BY <1>3, <1>4, <1>5 DEF KcInv

\* The strengthened invariant holds in every reachable state.
THEOREM KcInvariant == KcSpec => []KcInv
<1>1. KcInv /\ [KcNext]_kcVars => KcInv'
    BY ParseStep, ResolveStep, PatchStep, RenameStep, KcStutter DEF KcNext
<1> QED BY KcInitInv, <1>1, PTL DEF KcSpec

-----------------------------------------------------------------------------
(* What follows from it *)

\* What the written document is made of.
LEMMA DoneParts ==
    ASSUME KcInv, stage = "done"
    PROVE  \E p \in Documents :
              /\ p = PatchedDoc
              /\ InDomains(p, view.context, view.cluster, view.user)
              /\ Renames(p, view.context, view.cluster, view.user)
              /\ doc = Renamed(p, view.context, view.cluster, view.user)
<1>1. InDomains(orig, view.context, view.cluster, view.user) BY DEF KcInv, ViewInv
<1>2. PatchedDoc \in Documents /\ InDomains(PatchedDoc, view.context, view.cluster, view.user)
    BY <1>1, TypeParts, PatchedParts DEF KcInv, InDomains
<1>3. Renames(PatchedDoc, view.context, view.cluster, view.user)
      /\ doc = Renamed(PatchedDoc, view.context, view.cluster, view.user)
    BY DEF KcInv, DocInv
<1> QED BY <1>2, <1>3

\* ReferencesFollow: for every document, each context means the cluster and
\* the user it meant before.
THEOREM EveryReferenceFollows == KcSpec => []ReferencesFollow
<1>1. ASSUME KcInv, stage \in RenamedStages, NEW i \in DOMAIN orig.contexts
      PROVE  /\ SameReference(orig.clusters, orig.contexts[i].cluster,
                              doc.clusters, doc.contexts[i].cluster)
             /\ SameReference(orig.users, orig.contexts[i].user,
                              doc.users, doc.contexts[i].user)
    <2>1. orig \in Documents BY <1>1, TypeParts DEF KcInv
    <2>2. CASE stage = "renamed"
        <3>1. PICK c \in DOMAIN orig.contexts, k \in DOMAIN orig.clusters, u \in DOMAIN orig.users :
                  Renames(orig, c, k, u) /\ doc = Renamed(orig, c, k, u)
            BY <1>1, <2>2 DEF KcInv, DocInv
        <3> QED BY <1>1, <2>1, <3>1, RenamedFollows
    <2>3. CASE stage = "done"
        <3>1. PICK p \in Documents :
                  /\ p = PatchedDoc
                  /\ InDomains(p, view.context, view.cluster, view.user)
                  /\ Renames(p, view.context, view.cluster, view.user)
                  /\ doc = Renamed(p, view.context, view.cluster, view.user)
            BY <1>1, <2>3, DoneParts
        <3>2. view.cluster \in DOMAIN orig.clusters
            BY <1>1, <2>3 DEF KcInv, ViewInv, InDomains
        <3>3. /\ p.contexts = orig.contexts /\ p.users = orig.users
              /\ DOMAIN p.clusters = DOMAIN orig.clusters
              /\ \A j \in DOMAIN orig.clusters : p.clusters[j].name = orig.clusters[j].name
            BY <1>1, <3>1, <3>2, TypeParts, PatchedParts DEF KcInv
        <3>4. /\ SameReference(p.clusters, p.contexts[i].cluster,
                               doc.clusters, doc.contexts[i].cluster)
              /\ SameReference(p.users, p.contexts[i].user,
                               doc.users, doc.contexts[i].user)
            BY <1>1, <3>1, <3>3, RenamedFollows DEF InDomains
        <3>5. ASSUME NEW name, NEW j
              PROVE  Found(p.clusters, name, j) <=> Found(orig.clusters, name, j)
            BY <3>3, FoundByName
        <3> QED BY <3>3, <3>4, <3>5 DEF SameReference
    <2> QED BY <1>1, <2>2, <2>3 DEF RenamedStages
<1>2. KcInv => ReferencesFollow BY <1>1 DEF ReferencesFollow
<1> QED BY <1>2, KcInvariant, PTL

\* OneIdentity: for every document, the new name names one context, cluster
\* and user, those of the current context of the fetched file.
THEOREM IdentityIsOne == KcSpec => []OneIdentity
<1>1. ASSUME KcInv, stage \in RenamedStages
      PROVE  \E c \in DOMAIN orig.contexts, k \in DOMAIN orig.clusters, u \in DOMAIN orig.users :
                /\ Triple(orig, c, k, u) /\ Triple(doc, c, k, u)
                /\ doc.current = NewName
                /\ Unique(doc.contexts, c) /\ Unique(doc.clusters, k) /\ Unique(doc.users, u)
    <2>1. orig \in Documents BY <1>1, TypeParts DEF KcInv
    <2>2. CASE stage = "renamed"
        <3>1. PICK c \in DOMAIN orig.contexts, k \in DOMAIN orig.clusters, u \in DOMAIN orig.users :
                  Renames(orig, c, k, u) /\ doc = Renamed(orig, c, k, u)
            BY <1>1, <2>2 DEF KcInv, DocInv
        <3>2. /\ doc.current = NewName /\ Triple(doc, c, k, u)
              /\ Unique(doc.contexts, c) /\ Unique(doc.clusters, k) /\ Unique(doc.users, u)
            BY <2>1, <3>1, RenamedIdentity
        <3>3. Triple(orig, c, k, u) BY <3>1 DEF Renames
        <3> QED BY <3>2, <3>3
    <2>3. CASE stage = "done"
        <3>1. PICK p \in Documents :
                  /\ p = PatchedDoc
                  /\ InDomains(p, view.context, view.cluster, view.user)
                  /\ Renames(p, view.context, view.cluster, view.user)
                  /\ doc = Renamed(p, view.context, view.cluster, view.user)
            BY <1>1, <2>3, DoneParts
        <3>2. InDomains(orig, view.context, view.cluster, view.user)
              /\ Usable(orig, view.context, view.cluster, view.user)
            BY <1>1, <2>3 DEF KcInv, ViewInv
        <3>3. Triple(orig, view.context, view.cluster, view.user) BY <3>2 DEF Usable, Parses
        <3>4. /\ doc.current = NewName /\ Triple(doc, view.context, view.cluster, view.user)
              /\ Unique(doc.contexts, view.context) /\ Unique(doc.clusters, view.cluster)
              /\ Unique(doc.users, view.user)
            BY <3>1, RenamedIdentity DEF InDomains
        <3> QED BY <3>2, <3>3, <3>4 DEF InDomains
    <2> QED BY <1>1, <2>2, <2>3 DEF RenamedStages
<1>2. KcInv => OneIdentity BY <1>1 DEF OneIdentity
<1> QED BY <1>2, KcInvariant, PTL

\* ParseDominates: after parse_kubeconfig, rename_identities refuses a file
\* for the reserved name only.
THEOREM OnlyCollisionRefused == KcSpec => []ParseDominates
<1>1. ASSUME KcInv, stage = "collision"
      PROVE  Bears(orig.contexts, NewName) \/ Bears(orig.clusters, NewName)
                \/ Bears(orig.users, NewName)
    <2>1. InDomains(orig, view.context, view.cluster, view.user)
          /\ Usable(orig, view.context, view.cluster, view.user)
        BY <1>1 DEF KcInv, ViewInv
    <2>2. /\ Triple(orig, view.context, view.cluster, view.user)
          /\ Strings({orig.current}) 
          /\ Strings({orig.contexts[view.context].cluster, orig.contexts[view.context].user})
        BY <2>1 DEF Usable, Parses, Truthy, Strings
    <2>3. PICK p : p = PatchedDoc OBVIOUS
    <2>4. ~ Renames(p, view.context, view.cluster, view.user)
        BY <1>1, <2>3 DEF KcInv, DocInv
    <2>5. /\ orig \in Documents /\ view.cluster \in DOMAIN orig.clusters
          /\ tls \in [name : Hosts \cup {None}, insecure : BOOLEAN]
        BY <1>1, <2>1, TypeParts DEF KcInv, InDomains
    <2>6. p.current = orig.current /\ p.contexts = orig.contexts /\ p.users = orig.users
        BY <2>3, <2>5, PatchedParts
    <2>7. /\ Triple(p, view.context, view.cluster, view.user)
          /\ Bears(p.clusters, NewName) <=> Bears(orig.clusters, NewName)
        BY <2>2, <2>3, <2>5, PatchedTriple
    <2> HIDE DEF Triple, Bears, Strings
    <2> QED BY <2>2, <2>4, <2>6, <2>7 DEF Renames
<1>2. KcInv => ParseDominates BY <1>1 DEF ParseDominates
<1> QED BY <1>2, KcInvariant, PTL

\* What patch_view leaves in one cluster.
LEMMA PatchedBody ==
    ASSUME NEW b \in Clusters, tls \in [name : Hosts \cup {None}, insecure : BOOLEAN],
           NEW q, q = Patched(b)
    PROVE  /\ q.server = Local
           /\ q.tls = IF tls.insecure THEN None ELSE tls.name
           /\ q.ca = IF tls.insecure THEN "" ELSE b.ca
           /\ q.skip # b.skip => tls.insecure
BY DEF Clusters, Patched

\* Body by body, the document on its way and at the end is the fetched one
\* except for the selected cluster.
LEMMA Bodies ==
    ASSUME KcInv, stage \in {"patched", "done"}
    PROVE  /\ DOMAIN doc.clusters = DOMAIN orig.clusters /\ view.cluster \in DOMAIN orig.clusters
           /\ \A i \in DOMAIN orig.clusters :
                 /\ i # view.cluster => Body(doc.clusters[i]) = Body(orig.clusters[i])
                 /\ i = view.cluster =>
                       Body(doc.clusters[i]) = Body(Patched(orig.clusters[i]))
<1>1. /\ orig \in Documents /\ view.cluster \in DOMAIN orig.clusters
      /\ tls \in [name : Hosts \cup {None}, insecure : BOOLEAN]
    BY TypeParts DEF KcInv, ViewInv, InDomains
<1>2. PICK p : p = PatchedDoc OBVIOUS
<1>3. /\ DOMAIN p.clusters = DOMAIN orig.clusters
      /\ \A i \in DOMAIN orig.clusters :
             i # view.cluster => p.clusters[i] = orig.clusters[i]
      /\ p.clusters[view.cluster] = Patched(orig.clusters[view.cluster])
    BY <1>1, <1>2, PatchedParts
<1>4. DOMAIN doc.clusters = DOMAIN p.clusters
      /\ \A i \in DOMAIN p.clusters : Body(doc.clusters[i]) = Body(p.clusters[i])
    <2>1. CASE stage = "patched"
        <3>1. doc = p BY <1>2, <2>1 DEF KcInv, DocInv
        <3> QED BY <3>1
    <2>2. CASE stage = "done"
        <3>1. PICK p2 \in Documents :
                  /\ p2 = PatchedDoc
                  /\ Renames(p2, view.context, view.cluster, view.user)
                  /\ InDomains(p2, view.context, view.cluster, view.user)
                  /\ doc = Renamed(p2, view.context, view.cluster, view.user)
            BY <2>2, DoneParts
        <3>2. p = p2 BY <1>2, <3>1
        <3> QED BY <3>1, <3>2, RenamedNames DEF InDomains
    <2> QED BY <2>1, <2>2
<1> QED BY <1>1, <1>3, <1>4

\* OutputAgrees: for every document, the file that is written says what the
\* output says, and the other clusters are untouched.
THEOREM OutputIsTheFile == KcSpec => []OutputAgrees
<1>1. ASSUME KcInv, stage = "done", NEW k \in DOMAIN doc.clusters
      PROVE  IF Found(doc.clusters, out.identity, k)
             THEN /\ doc.clusters[k].server = Local
                  /\ <<doc.clusters[k].ca, doc.clusters[k].tls>> = <<out.ca, out.tls>>
             ELSE Body(doc.clusters[k]) = Body(orig.clusters[k])
    <2>1. PICK p \in Documents :
              /\ p = PatchedDoc
              /\ InDomains(p, view.context, view.cluster, view.user)
              /\ Renames(p, view.context, view.cluster, view.user)
              /\ doc = Renamed(p, view.context, view.cluster, view.user)
        BY <1>1, DoneParts
    <2>2. Found(doc.clusters, NewName, k) <=> k = view.cluster
        <3>1. PICK c \in DOMAIN p.contexts, j \in DOMAIN p.clusters, u \in DOMAIN p.users :
                  /\ j = view.cluster /\ Renames(p, c, j, u) /\ doc = Renamed(p, c, j, u)
            BY <2>1 DEF InDomains
        <3>2. \A i : Found(doc.clusters, NewName, i) <=> i = j
            BY <3>1, RenamedIdentity
        <3> QED BY <3>1, <3>2
    <2>3. /\ out.identity = NewName
          /\ out.tls = IF tls.insecure THEN None ELSE tls.name
          /\ out.ca = IF tls.insecure THEN "" ELSE view.ca
        BY <1>1 DEF KcInv, OutInv
    <2>4. /\ k \in DOMAIN orig.clusters
          /\ k # view.cluster => Body(doc.clusters[k]) = Body(orig.clusters[k])
          /\ k = view.cluster => Body(doc.clusters[k]) = Body(Patched(orig.clusters[k]))
        BY <1>1, Bodies
    <2>5. CASE k = view.cluster
        <3>1. /\ orig.clusters[k] \in Clusters
              /\ tls \in [name : Hosts \cup {None}, insecure : BOOLEAN]
            BY <1>1, <2>4, TypeParts, DocumentParts DEF KcInv
        <3>2. view.ca = orig.clusters[k].ca BY <1>1, <2>5 DEF KcInv, ViewInv
        <3>3. PICK q : q = Patched(orig.clusters[k]) OBVIOUS
        <3>4. /\ q.server = Local
              /\ q.tls = IF tls.insecure THEN None ELSE tls.name
              /\ q.ca = IF tls.insecure THEN "" ELSE orig.clusters[k].ca
            BY <3>1, <3>3, PatchedBody
        <3>5. /\ doc.clusters[k].server = q.server /\ doc.clusters[k].ca = q.ca
              /\ doc.clusters[k].tls = q.tls
            BY <2>4, <2>5, <3>3 DEF Body
        <3> QED BY <2>2, <2>3, <2>5, <3>2, <3>4, <3>5
    <2>6. CASE k # view.cluster BY <2>2, <2>3, <2>4, <2>6
    <2> QED BY <2>5, <2>6
<1>2. KcInv => OutputAgrees BY <1>1 DEF OutputAgrees
<1> QED BY <1>2, KcInvariant, PTL

\* NeverWeakened: for every document, target and certificate.
THEOREM VerificationKept == KcSpec => []NeverWeakened
<1>1. ASSUME KcInv, stage \in {"patched", "done"}, NEW k \in DOMAIN doc.clusters,
             NEW names, names = SetOf(input.cert.dns) \cup SetOf(input.cert.ips)
      PROVE  /\ doc.clusters[k].skip # orig.clusters[k].skip =>
                   /\ input.target.tls_server_name = None
                   /\ input.target.insecure_fallback /\ names = {}
                   /\ doc.clusters[k].ca = "" /\ doc.clusters[k].tls = None
             /\ doc.clusters[k].server # orig.clusters[k].server /\ ~ tls.insecure =>
                   /\ doc.clusters[k].ca = orig.clusters[k].ca
                   /\ doc.clusters[k].tls \in IF input.target.tls_server_name # None
                                              THEN {input.target.tls_server_name} ELSE names
    <2>1. /\ k \in DOMAIN orig.clusters
          /\ k # view.cluster => Body(doc.clusters[k]) = Body(orig.clusters[k])
          /\ k = view.cluster => Body(doc.clusters[k]) = Body(Patched(orig.clusters[k]))
        BY <1>1, Bodies
    <2>2. CASE k # view.cluster
        <3>1. doc.clusters[k].skip = orig.clusters[k].skip
              /\ doc.clusters[k].server = orig.clusters[k].server
            BY <2>1, <2>2 DEF Body
        <3> QED BY <3>1
    <2>3. CASE k = view.cluster
        <3>1. /\ orig.clusters[k] \in Clusters
              /\ input.target \in Targets /\ input.cert \in Certs
              /\ tls \in [name : Hosts \cup {None}, insecure : BOOLEAN]
            BY <1>1, <2>1, TypeParts, DocumentParts DEF KcInv
        <3>2. PICK q : q = Patched(orig.clusters[k]) OBVIOUS
        <3>3. /\ q.tls = IF tls.insecure THEN None ELSE tls.name
              /\ q.ca = IF tls.insecure THEN "" ELSE orig.clusters[k].ca
              /\ q.skip # orig.clusters[k].skip => tls.insecure
            BY <3>1, <3>2, PatchedBody
        <3>4. /\ doc.clusters[k].ca = q.ca /\ doc.clusters[k].tls = q.tls
              /\ doc.clusters[k].skip = q.skip
            BY <2>1, <2>3, <3>2 DEF Body
        <3>5. /\ tls = Resolved(input.target, orig.clusters[view.cluster].server, input.cert)
              /\ tls.name = None => tls.insecure
            BY <1>1 DEF KcInv, TlsInv
        <3>6. /\ tls.insecure => input.target.tls_server_name = None
                                    /\ input.target.insecure_fallback /\ names = {}
              /\ ~ tls.insecure /\ tls.name # None =>
                     tls.name \in IF input.target.tls_server_name # None
                                  THEN {input.target.tls_server_name} ELSE names
            <4>1. PICK t \in Targets, cert \in Certs : t = input.target /\ cert = input.cert
                BY <3>1
            <4>2. PICK host : tls = Resolved(t, host, cert) BY <3>5, <4>1
            <4>3. /\ tls.insecure => t.tls_server_name = None /\ t.insecure_fallback
                                        /\ SetOf(cert.dns) \cup SetOf(cert.ips) = {}
                  /\ ~ tls.insecure /\ tls.name # None =>
                         tls.name \in IF t.tls_server_name # None THEN {t.tls_server_name}
                                      ELSE SetOf(cert.dns) \cup SetOf(cert.ips)
                BY <4>2, ResolvedFacts
            <4> QED BY <1>1, <4>1, <4>3
        <3> QED BY <3>3, <3>4, <3>5, <3>6
    <2> QED BY <2>2, <2>3
<1>2. KcInv => NeverWeakened BY <1>1 DEF NeverWeakened
<1> QED BY <1>2, KcInvariant, PTL

\* RewritesDisclosed: for every document.
THEOREM EveryRewriteDisclosed == KcSpec => []RewritesDisclosed
<1>1. ASSUME KcInv, stage = "done", NEW i \in DOMAIN doc.contexts
      PROVE  orig.contexts[i].name \in out.ignored \cup {orig.current}
    <2>1. PICK p \in Documents :
              /\ p = PatchedDoc
              /\ InDomains(p, view.context, view.cluster, view.user)
              /\ doc = Renamed(p, view.context, view.cluster, view.user)
        BY <1>1, DoneParts
    <2>2. view.cluster \in DOMAIN orig.clusters BY <1>1 DEF KcInv, ViewInv, InDomains
    <2>3. p.contexts = orig.contexts
        BY <1>1, <2>1, <2>2, TypeParts, PatchedParts DEF KcInv
    <2>4. DOMAIN doc.contexts = DOMAIN p.contexts BY <2>1, RenamedNames DEF InDomains
    <2>5. out.ignored = Ignored(orig, view.context)
        BY <1>1 DEF KcInv, OutInv, ViewInv
    <2> QED BY <2>3, <2>4, <2>5 DEF Ignored
<1>2. ASSUME KcInv, stage # "done" PROVE out.ignored = {}
    BY <1>2 DEF KcInv, OutInv, NoOut
<1>3. KcInv => RewritesDisclosed BY <1>1, <1>2 DEF RewritesDisclosed
<1> QED BY <1>3, KcInvariant, PTL

\* KcTypeOK, for every value of the constants.
THEOREM KcTypeCorrect == KcSpec => []KcTypeOK
<1>1. KcInv => KcTypeOK BY DEF KcInv
<1> QED BY <1>1, KcInvariant, PTL

\* What is reported of the file is true of it, for any document.
THEOREM OutputMatchesFile == KcSpec => []OutputIsTrue
BY OutputIsTheFile, EveryRewriteDisclosed, PTL DEF OutputIsTrue
=============================================================================
