------------------------------ MODULE Supervise ------------------------------
(***************************************************************************)
(* The worker from its success message to its end (tunstrap/_worker.py):   *)
(* _supervise, one _tunnel_loss_watchdog per started node, _record_losses  *)
(* and _dispose_session.                                                   *)
(*                                                                         *)
(* Every action is one callback of the asyncio event loop, or something    *)
(* that happens to the process from outside.  The loop runs callbacks in   *)
(* the order they became ready: a watchdog that was ready before the       *)
(* supervisor was woken runs before it (`ahead`), a later one after it.    *)
(***************************************************************************)
EXTENDS Naturals

CONSTANTS
    Nodes,      \* manager.live_nodes(): the nodes that started
    Required,   \* those with required = true
    None        \* no loss record

ASSUME SuperviseAssumption == Required \subseteq Nodes

VARIABLES
    conn,       \* per node: "up", "dropped" by the network, "closed" by stop_all
    task,       \* per node: the state of its watchdog task
    stopEvent,  \* stop_event.is_set(); the supervisor has been woken
    ahead,      \* watchdogs that were ready before the supervisor was woken
    phase,      \* where _supervise is
    losses,     \* watch.losses (each node is in it at most once)
    record,     \* tunnel-loss.json: None, or [nodes, terminal]
    data,       \* whether tunnel-data/ is there
    asked,      \* history: a signal or the idle watchdog asked for the stop
    wrote,      \* history: the last write of the record succeeded
    inTime      \* history: a required connection dropped before stop_event was set

superVars == <<conn, task, stopEvent, ahead, phase, losses, record, data,
               asked, wrote, inTime>>

Phases == {"waiting", "closing", "disposing", "released", "ended", "crashed"}

\* Phases in which the event loop goes on while _supervise waits.
Looping == {"waiting", "closing"}

\* Some connections may have dropped since their node started.
Init ==
    /\ conn \in [Nodes -> {"up", "dropped"}]
    /\ task = [n \in Nodes |-> "new"]
    /\ stopEvent = FALSE
    /\ ahead = {}
    /\ phase = "waiting"
    /\ losses = {}
    /\ record = None
    /\ data = TRUE
    /\ asked = FALSE
    /\ wrote = TRUE
    /\ inTime = \E n \in Required : conn[n] = "dropped"

-----------------------------------------------------------------------------
\* Watchdogs that wait in the loop's ready queue.
Ready(t) == {n \in Nodes : t[n] \in {"new", "woken"}}

\* stop_event.set(), which wakes the supervisor the first time; t is the state
\* the watchdogs are left in.
SetStop(t) ==
    /\ stopEvent' = TRUE
    /\ ahead' = IF stopEvent THEN ahead \cap Ready(t) ELSE Ready(t)

\* SSHConnection._cleanup sets the close event that wakes the watchdog.
Woken(n) == [task EXCEPT ![n] = IF @ = "waiting" THEN "woken" ELSE @]

\* The network takes the connection away.
Drop(n) ==
    /\ phase \in Looping /\ conn[n] = "up"
    /\ conn' = [conn EXCEPT ![n] = "dropped"]
    /\ task' = Woken(n)
    /\ inTime' = (inTime \/ (n \in Required /\ ~stopEvent))
    /\ UNCHANGED <<stopEvent, ahead, phase, losses, record, data, asked, wrote>>

\* It is the turn of node n's watchdog in the ready queue.
HasTurn(n) == phase \in Looping /\ (phase = "waiting" /\ stopEvent => n \in ahead)

\* The first step of a watchdog whose connection is up: it waits.
Wait(n) ==
    /\ HasTurn(n) /\ task[n] = "new" /\ conn[n] = "up"
    /\ task' = [task EXCEPT ![n] = "waiting"]
    /\ ahead' = ahead \ {n}
    /\ UNCHANGED <<conn, stopEvent, phase, losses, record, data, asked, wrote, inTime>>

\* _record_losses: the whole list again, atomically; an error is swallowed.
RecordLosses(ls) ==
    /\ wrote' \in BOOLEAN
    /\ record' = IF wrote' THEN [nodes |-> ls, terminal |-> ls \cap Required # {}]
                 ELSE record

\* Mistake: the record holds the latest loss only.
LostRecordsLatest(n) ==
    /\ HasTurn(n) /\ task[n] \in {"new", "woken"} /\ conn[n] # "up"
    /\ task' = [task EXCEPT ![n] = "done"]
    /\ losses' = losses \cup {n}
    /\ RecordLosses({n})
    /\ IF n \in Required THEN SetStop(task')
       ELSE ahead' = ahead \ {n} /\ UNCHANGED stopEvent
    /\ UNCHANGED <<conn, phase, data, asked, inTime>>

\* Mistake: every loss stops the daemon.
LostAlwaysStops(n) ==
    /\ HasTurn(n) /\ task[n] \in {"new", "woken"} /\ conn[n] # "up"
    /\ task' = [task EXCEPT ![n] = "done"]
    /\ losses' = losses \cup {n}
    /\ RecordLosses(losses')
    /\ SetStop(task')
    /\ UNCHANGED <<conn, phase, data, asked, inTime>>

\* Mistake: a failing write ends the watchdog before it sets the event.
LostUnlessUnwritten(n) ==
    /\ HasTurn(n) /\ task[n] \in {"new", "woken"} /\ conn[n] # "up"
    /\ task' = [task EXCEPT ![n] = "done"]
    /\ losses' = losses \cup {n}
    /\ RecordLosses(losses')
    /\ IF n \in Required /\ wrote' THEN SetStop(task')
       ELSE ahead' = ahead \ {n} /\ UNCHANGED stopEvent
    /\ UNCHANGED <<conn, phase, data, asked, inTime>>

\* wait_closed() returned: note the loss, and stop if the node is required.
Lost(n) ==
    /\ HasTurn(n) /\ task[n] \in {"new", "woken"} /\ conn[n] # "up"
    /\ task' = [task EXCEPT ![n] = "done"]
    /\ losses' = losses \cup {n}
    /\ RecordLosses(losses')
    /\ IF n \in Required THEN SetStop(task')
       ELSE ahead' = ahead \ {n} /\ UNCHANGED stopEvent
    /\ UNCHANGED <<conn, phase, data, asked, inTime>>

\* A SIGTERM or SIGINT handler, or the idle watchdog, sets the event.
AskStop ==
    /\ phase = "waiting"
    /\ SetStop(task)
    /\ asked' = TRUE
    /\ UNCHANGED <<conn, task, phase, losses, record, data, wrote, inTime>>

\* Mistake: stop_all is called before the watchdogs are cancelled.
ResumeUncancelled ==
    /\ phase = "waiting" /\ stopEvent /\ ahead = {}
    /\ phase' = "closing"
    /\ UNCHANGED <<conn, task, stopEvent, ahead, losses, record, data, asked, wrote,
                   inTime>>

\* The supervisor runs: it cancels every watchdog and waits for them.  What a
\* cancelled watchdog still does changes nothing, so all of it is this step.
Resume ==
    /\ phase = "waiting" /\ stopEvent /\ ahead = {}
    /\ phase' = "closing"
    /\ task' = [n \in Nodes |-> "done"]
    /\ UNCHANGED <<conn, stopEvent, ahead, losses, record, data, asked, wrote, inTime>>

\* manager.stop_all, one transport at a time.
CloseTransport(n) ==
    /\ phase = "closing" /\ conn[n] = "up"
    /\ conn' = [conn EXCEPT ![n] = "closed"]
    /\ task' = Woken(n)
    /\ UNCHANGED <<stopEvent, ahead, phase, losses, record, data, asked, wrote, inTime>>

StoppedAll ==
    /\ phase = "closing" /\ \A n \in Nodes : conn[n] # "up"
    /\ phase' = "disposing"
    /\ UNCHANGED <<conn, task, stopEvent, ahead, losses, record, data, asked, wrote,
                   inTime>>

\* Mistake: a stop that was asked for always cleans up.
DisposeWhenAsked ==
    /\ phase = "disposing"
    /\ phase' = IF losses \cap Required # {} /\ ~asked THEN "ended" ELSE "released"
    /\ UNCHANGED <<conn, task, stopEvent, ahead, losses, record, data, asked, wrote,
                   inTime>>

\* _dispose_session gives the lock up, with or without the data.
Dispose ==
    /\ phase = "disposing"
    /\ phase' = IF losses \cap Required # {} THEN "ended" ELSE "released"
    /\ UNCHANGED <<conn, task, stopEvent, ahead, losses, record, data, asked, wrote,
                   inTime>>

\* The rmtree of SessionDir.cleanup.
RemoveData ==
    /\ phase = "released"
    /\ phase' = "ended"
    /\ data' = FALSE
    /\ record' = None
    /\ UNCHANGED <<conn, task, stopEvent, ahead, losses, asked, wrote, inTime>>

\* SIGKILL, or a power cut: the kernel drops the lock, the files stay.
Crash ==
    /\ phase \notin {"ended", "crashed"}
    /\ phase' = "crashed"
    /\ UNCHANGED <<conn, task, stopEvent, ahead, losses, record, data, asked, wrote,
                   inTime>>

\* What the event loop runs once it is ready.
LoopStep ==
    \/ \E n \in Nodes : Wait(n) \/ Lost(n) \/ CloseTransport(n)
    \/ Resume \/ StoppedAll \/ Dispose \/ RemoveData

Next ==
    \/ \E n \in Nodes : Drop(n)
    \/ LoopStep \/ AskStop \/ Crash

Spec == Init /\ [][Next]_superVars

\* The event loop runs every callback that is ready (asyncio's ready queue is
\* a FIFO and close_transport waits for no peer).
FairSpec == Spec /\ WF_superVars(LoopStep)

-----------------------------------------------------------------------------
TypeOK ==
    /\ conn \in [Nodes -> {"up", "dropped", "closed"}]
    /\ task \in [Nodes -> {"new", "waiting", "woken", "done"}]
    /\ stopEvent \in BOOLEAN
    /\ ahead \in SUBSET Nodes
    /\ phase \in Phases
    /\ losses \in SUBSET Nodes
    /\ record \in [nodes : SUBSET Nodes, terminal : BOOLEAN] \cup {None}
    /\ data \in BOOLEAN
    /\ asked \in BOOLEAN /\ wrote \in BOOLEAN /\ inTime \in BOOLEAN

\* _supervise's docstring: a clean shutdown never records itself as a tunnel
\* loss.  Every noted loss is a connection the network took away, none is one
\* that stop_all closed.
NoFalseLoss == \A n \in losses : conn[n] = "dropped"

\* A required connection that drops before anything asked the daemon to stop
\* decides how it ends, though signals, the idle watchdog and other losses race
\* it, and though the record can not be written: the data are never deleted.
RequiredLossKeepsData == inTime => data

\* A loss record that says the daemon terminated itself is true for good: the
\* session it describes is never deleted by its own daemon, so a `status` that
\* has read it still finds the data afterwards.
TerminalRecordKept ==
    record # None /\ record.terminal => data /\ phase # "released"

\* The data of a session whose required tunnel was lost survive its daemon: by
\* the loss that came in time, and by the record that says so.
LossKeepsData == RequiredLossKeepsData /\ TerminalRecordKept

\* _DEGRADED_LOSS: "the daemon is degraded and still running".  Losses of
\* optional nodes, however many, never end a daemon that nothing asked to stop.
DegradedStaysUp ==
    phase \notin {"waiting", "crashed"} => asked \/ losses \cap Required # {}

\* write_tunnel_loss's docstring: "the record is on disk before the lock is
\* released".  When the daemon gives up its lock over a required loss and the
\* last write succeeded, the record names every loss it noted.
ExplainedBeforeRelease ==
    phase = "ended" /\ losses \cap Required # {} /\ wrote =>
        record = [nodes |-> losses, terminal |-> TRUE]

\* Issue 33: a worker whose required connection died does not keep its lock
\* forever, whatever happens to its record.
RequiredLossTerminates ==
    (\E n \in Required : conn[n] = "dropped")
        ~> phase \in {"released", "ended", "crashed"}

\* Supervise keeps the contract: a node is down when the network dropped it,
\* and the daemon has ended when its disposal is over.
Down == {n \in Nodes : conn[n] = "dropped"}
Outcome ==
    IF phase = "crashed" THEN "crashed"
    ELSE IF phase # "ended" THEN "up"
    ELSE IF data THEN "preserved" ELSE "deleted"

Contract == INSTANCE TunnelContract WITH
    down <- Down, reported <- losses, outcome <- Outcome

\* Every execution is one the contract allows.
KeepsContract == Contract!FairSpec

\* Its safety part, as TLAPS proves it.
KeepsSafeContract == Contract!Spec
=============================================================================
