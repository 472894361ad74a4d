------------------------------ MODULE IdleStop ------------------------------
(***************************************************************************)
(* Idle auto-stop: ActivityTracker and its per-connection trackers         *)
(* (tunstrap/activity.py) and _idle_watchdog (tunstrap/_worker.py).        *)
(*                                                                         *)
(* Time is counted in quarter seconds, the granularity of timeout / 4, so  *)
(* `auto_stop_idle_seconds` = Seconds is a timeout of 4 * Seconds units    *)
(* and a poll interval of max(1.0, Seconds / 4) seconds is max(4, Seconds) *)
(* units.  The event loop wakes a sleeper at most Jitter units late.       *)
(***************************************************************************)
EXTENDS Integers, FiniteSets

CONSTANTS
    Conns,      \* connections through forwards that have a tracker_factory
    KubeConns,  \* connections through the kube-API forwards, which have none
    Seconds,    \* daemon.auto_stop_idle_seconds
    Jitter,     \* how late the event loop may run a due callback
    MaxTime     \* bound on the clock

ASSUME IdleAssumption ==
    /\ Seconds \in Nat /\ Seconds >= 1
    /\ Jitter \in Nat
    /\ MaxTime \in Nat
    /\ IsFiniteSet(Conns)

VARIABLES
    now,        \* time.monotonic()
    phase,      \* "startup", "serving" or "stopped"
    opened,     \* per tracker: _opened
    closed,     \* per tracker: _closed
    count,      \* _active_count
    last,       \* _last_activity_at
    nextPoll,   \* when the watchdog's sleep ends
    changed,    \* history: when a tracked connection last opened or closed
    upAt,       \* history: when the daemon came up
    kubeOpen    \* the kube-API connections that are open

trackerVars == <<opened, closed, count, last, changed>>
idleVars == <<now, phase, trackerVars, nextPoll, upAt, kubeOpen>>

Timeout == 4 * Seconds
Poll == IF Seconds > 4 THEN Seconds ELSE 4

Open == {c \in Conns : opened[c] /\ ~closed[c]}

\* The tracker is built with the TunnelManager, before startup.
Init ==
    /\ now = 0
    /\ phase = "startup"
    /\ opened = [c \in Conns |-> FALSE]
    /\ closed = [c \in Conns |-> FALSE]
    /\ count = 0
    /\ last = 0
    /\ nextPoll = 0
    /\ changed = 0
    /\ upAt = 0
    /\ kubeOpen = {}

-----------------------------------------------------------------------------
(* Hooks asyncssh drives; it may call one twice, or connection_lost for a  *)
(* connection that was never made.                                         *)

\* make_tracker: a fresh tracker for the next connection in this place.
MakeTracker(c) ==
    /\ phase # "stopped" /\ closed[c]
    /\ opened' = [opened EXCEPT ![c] = FALSE]
    /\ closed' = [closed EXCEPT ![c] = FALSE]
    /\ UNCHANGED <<now, phase, count, last, nextPoll, changed, upAt, kubeOpen>>

\* connection_made and note_connection_made.
ConnectionMade(c) ==
    /\ phase # "stopped"
    /\ ~opened[c]
    /\ opened' = [opened EXCEPT ![c] = TRUE]
    /\ count' = count + 1
    /\ last' = now
    /\ changed' = now
    /\ UNCHANGED <<now, phase, closed, nextPoll, upAt, kubeOpen>>

\* Mistake: only opening a connection counts as activity.
ConnectionLostSilently(c) ==
    /\ phase # "stopped"
    /\ ~(closed[c] \/ ~opened[c])
    /\ closed' = [closed EXCEPT ![c] = TRUE]
    /\ count' = IF count - 1 > 0 THEN count - 1 ELSE 0
    /\ changed' = IF c \in Open THEN now ELSE changed
    /\ UNCHANGED <<now, phase, opened, last, nextPoll, upAt, kubeOpen>>

\* connection_lost and note_connection_lost, clamped at zero.
ConnectionLost(c) ==
    /\ phase # "stopped"
    /\ ~(closed[c] \/ ~opened[c])
    /\ closed' = [closed EXCEPT ![c] = TRUE]
    /\ count' = IF count - 1 > 0 THEN count - 1 ELSE 0
    /\ last' = now
    /\ changed' = IF c \in Open THEN now ELSE changed
    /\ UNCHANGED <<now, phase, opened, nextPoll, upAt, kubeOpen>>

\* forward_local_port of a kube target passes no tracker_factory.
KubeOpens(k) ==
    /\ phase # "stopped" /\ k \notin kubeOpen
    /\ kubeOpen' = kubeOpen \cup {k}
    /\ UNCHANGED <<now, phase, trackerVars, nextPoll, upAt>>

KubeCloses(k) ==
    /\ phase # "stopped" /\ k \in kubeOpen
    /\ kubeOpen' = kubeOpen \ {k}
    /\ UNCHANGED <<now, phase, trackerVars, nextPoll, upAt>>

-----------------------------------------------------------------------------
\* _supervise creates the watchdog task, whose first act is to sleep.
ComeUp ==
    /\ phase = "startup"
    /\ phase' = "serving"
    /\ upAt' = now
    /\ nextPoll' = now + Poll
    /\ UNCHANGED <<now, trackerVars, kubeOpen>>

\* Mistake: the watchdog sleeps for the whole timeout between polls.
WatchdogPollRarely ==
    /\ phase = "serving" /\ now >= nextPoll
    /\ IF count = 0 /\ now - last >= Timeout
       THEN phase' = "stopped" /\ UNCHANGED nextPoll
       ELSE nextPoll' = now + Timeout /\ UNCHANGED phase
    /\ UNCHANGED <<now, trackerVars, upAt, kubeOpen>>

\* One turn of _idle_watchdog's loop.
WatchdogPoll ==
    /\ phase = "serving" /\ now >= nextPoll
    /\ IF count = 0 /\ now - last >= Timeout
       THEN phase' = "stopped" /\ UNCHANGED nextPoll
       ELSE nextPoll' = now + Poll /\ UNCHANGED phase
    /\ UNCHANGED <<now, trackerVars, upAt, kubeOpen>>

Tick ==
    /\ now < MaxTime
    /\ phase # "stopped"
    /\ phase = "serving" => now < nextPoll + Jitter
    /\ now' = now + 1
    /\ UNCHANGED <<phase, trackerVars, nextPoll, upAt, kubeOpen>>

Next ==
    \/ \E c \in Conns : MakeTracker(c) \/ ConnectionMade(c) \/ ConnectionLost(c)
    \/ \E k \in KubeConns : KubeOpens(k) \/ KubeCloses(k)
    \/ ComeUp \/ WatchdogPoll \/ Tick

Spec == Init /\ [][Next]_idleVars

-----------------------------------------------------------------------------
TypeOK ==
    /\ now \in Nat /\ last \in Nat /\ changed \in Nat /\ upAt \in Nat
    /\ nextPoll \in Nat
    /\ count \in Nat
    /\ phase \in {"startup", "serving", "stopped"}
    /\ opened \in [Conns -> BOOLEAN]
    /\ closed \in [Conns -> BOOLEAN]
    /\ kubeOpen \in SUBSET KubeConns

\* However asyncssh repeats its hooks, the shared counter is the number of
\* tracked connections that are open (activity.py: "so all node forwards feed a
\* single counter").
CountExact == count = Cardinality(Open)

\* The watchdog stops the daemon only when no tracked connection is open and
\* none has opened or closed for the whole timeout.
StopsOnlyWhenQuiet ==
    phase = "stopped" => Open = {} /\ now - changed >= Timeout

Latest(a, b) == IF a > b THEN a ELSE b

\* Once the forwards are quiet the stop is at most one poll interval late: a
\* serving daemon with no tracked connection has been quiet, or up, for less
\* than the timeout plus one interval.
StopsPromptly ==
    phase = "serving" /\ Open = {} =>
        now <= Latest(changed + Timeout, upAt) + Poll + Jitter

\* DaemonOptions.auto_stop_idle_seconds: "Active long-lived connections prevent
\* shutdown."  The daemon never stops under an open kube-API connection.
KubeConnectionPreventsStop == phase = "stopped" => kubeOpen = {}

\* The same description: "Timer starts when the daemon comes up".
TimerStartsWhenUp == phase = "stopped" => now - upAt >= Timeout
=============================================================================
