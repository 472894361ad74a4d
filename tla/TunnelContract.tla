--------------------------- MODULE TunnelContract ---------------------------
(***************************************************************************)
(* What a running daemon promises about its SSH connections (README, the   *)
(* self-termination section, and _worker._dispose_session): a lost         *)
(* connection may be reported, and only a lost one; once a required one is *)
(* reported the daemon ends and keeps the session data; a daemon that ends *)
(* for any other reason deletes them.  How it notices, in which order and  *)
(* with which tasks, is left to Supervise.                                 *)
(***************************************************************************)
CONSTANTS
    Nodes,      \* the nodes that started
    Required    \* those the input marks as required

VARIABLES
    down,       \* nodes whose connection the network took away
    reported,   \* nodes the daemon has noted as lost
    outcome     \* "up", or how the daemon ended

contractVars == <<down, reported, outcome>>

Init ==
    /\ down \in SUBSET Nodes
    /\ reported = {}
    /\ outcome = "up"

Lose(n) ==
    /\ outcome = "up" /\ n \notin down
    /\ down' = down \cup {n}
    /\ UNCHANGED <<reported, outcome>>

Report(n) ==
    /\ outcome = "up" /\ n \in down \ reported
    /\ reported' = reported \cup {n}
    /\ UNCHANGED <<down, outcome>>

\* The daemon ended itself over a required tunnel: the data stay.
Terminate ==
    /\ outcome = "up" /\ reported \cap Required # {}
    /\ outcome' = "preserved"
    /\ UNCHANGED <<down, reported>>

\* It was asked to stop, or was idle: the data go.
Stop ==
    /\ outcome = "up" /\ reported \cap Required = {}
    /\ outcome' = "deleted"
    /\ UNCHANGED <<down, reported>>

Crash ==
    /\ outcome = "up"
    /\ outcome' = "crashed"
    /\ UNCHANGED <<down, reported>>

Next ==
    \/ \E n \in Nodes : Lose(n) \/ Report(n)
    \/ Terminate \/ Stop \/ Crash

Spec == Init /\ [][Next]_contractVars

\* A reported required loss does end the daemon.
FairSpec == Spec /\ WF_contractVars(Terminate)
=============================================================================
