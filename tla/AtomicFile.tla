----------------------------- MODULE AtomicFile -----------------------------
(***************************************************************************)
(* What session.atomic_write promises a reader of tunnel-data/: a name has *)
(* no file or one complete version, versions appear whole and at once, and *)
(* a version that was replaced or removed never comes back.                *)
(***************************************************************************)
CONSTANTS Files, Versions, None

VARIABLES
    content,    \* the version that is read under a name
    published   \* the versions there have been

Init ==
    /\ content = [f \in Files |-> None]
    /\ published = {}

Publish(f, v) ==
    /\ v \notin published
    /\ content' = [content EXCEPT ![f] = v]
    /\ published' = published \cup {v}

Remove(f) ==
    /\ content[f] # None
    /\ content' = [content EXCEPT ![f] = None]
    /\ UNCHANGED published

Next == \E f \in Files : Remove(f) \/ \E v \in Versions : Publish(f, v)

Spec == Init /\ [][Next]_<<content, published>>
=============================================================================
