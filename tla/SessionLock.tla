---------------------------- MODULE SessionLock ----------------------------
(***************************************************************************)
(* The flock on <session_dir>/session.lock (tunstrap/identity.py): the     *)
(* worker processes that acquire and release it, and the verify_session    *)
(* probes that `stop`, `status` and `run` make of it at the same time.     *)
(*                                                                         *)
(* Every system call is a step of its own.  A worker process opens the     *)
(* lock file at most once, so a file it creates is named after it: inodes  *)
(* and pids are both members of Workers.                                   *)
(***************************************************************************)
EXTENDS FiniteSets

CONSTANTS
    Workers,    \* the worker processes that ever try to own the session
    Probes,     \* the CLI processes that run verify_session
    None        \* no inode, no pid, no lock owner

ASSUME LockAssumption ==
    /\ None \notin Workers \cup Probes
    /\ Workers \cap Probes = {}

VARIABLES
    entry,      \* the inode the name session.lock refers to, or None
    stage,      \* where each worker is in acquire/release
    ino,        \* the inode each worker opened (kept after it closed the fd)
    locker,     \* for each inode, the process that holds its flock
    recorded,   \* for each inode, the pid written in it (None: no number)
    raced,      \* history: workers whose inode lost its name after fstat and
                \* before flock
    pstage,     \* where each probe is in verify_session
    ppid,       \* the pid it asks about
    pfd,        \* the inode it opened
    verdict,    \* its result
    fresh       \* history: that pid owned the session when the probe began

lockVars == <<entry, stage, ino, locker, recorded, raced>>
probeVars == <<pstage, ppid, pfd, verdict, fresh>>
vars == <<lockVars, probeVars>>

Stages == {"new", "opened", "checked", "locked", "truncated", "held",
           "unlinked", "released", "refused", "active", "died", "crashed",
           "exited"}

\* Workers between winning the flock and starting to give it up.
Owning == {"locked", "truncated", "held"}

\* Stages in which the process no longer exists.
Ended == {"died", "crashed", "exited"}

\* A worker that gave the session up on purpose, by release_session_lock.
GaveUp == {"unlinked", "released", "exited"}

Verdicts == {"match", "not_found", "mismatch", "unavailable"}

Init ==
    /\ entry = None
    /\ stage = [w \in Workers |-> "new"]
    /\ ino = [w \in Workers |-> None]
    /\ locker = [i \in Workers |-> None]
    /\ recorded = [i \in Workers |-> None]
    /\ raced = {}
    /\ pstage = [p \in Probes |-> "idle"]
    /\ ppid = [p \in Probes |-> None]
    /\ pfd = [p \in Probes |-> None]
    /\ verdict = [p \in Probes |-> None]
    /\ fresh = [p \in Probes |-> FALSE]

-----------------------------------------------------------------------------
(* acquire_session_lock, run by worker w.                                  *)

\* open(O_CREAT): the named file, or a new one when there is no such name.
Open(w) ==
    /\ stage[w] = "new"
    /\ stage' = [stage EXCEPT ![w] = "opened"]
    /\ entry' = IF entry = None THEN w ELSE entry
    /\ ino' = [ino EXCEPT ![w] = entry']
    /\ UNCHANGED <<locker, recorded, raced, probeVars>>

\* Mistake: the st_nlink test is left out.
FstatTrusting(w) ==
    /\ stage[w] = "opened"
    /\ stage' = [stage EXCEPT ![w] = "checked"]
    /\ UNCHANGED <<entry, ino, locker, recorded, raced, probeVars>>

\* fstat: a file whose only name is gone has st_nlink = 0 and is refused.
Fstat(w) ==
    /\ stage[w] = "opened"
    /\ stage' = [stage EXCEPT ![w] =
                    IF ino[w] = entry THEN "checked" ELSE "refused"]
    /\ UNCHANGED <<entry, ino, locker, recorded, raced, probeVars>>

\* Mistake: a refused flock is taken for a granted one.
FlockUnread(w) ==
    /\ stage[w] = "checked"
    /\ stage' = [stage EXCEPT ![w] = "locked"]
    /\ locker' = [locker EXCEPT ![ino[w]] = IF @ = None THEN w ELSE @]
    /\ UNCHANGED <<entry, ino, recorded, raced, probeVars>>

\* flock(LOCK_EX | LOCK_NB): BlockingIOError becomes SessionActive.
Flock(w) ==
    /\ stage[w] = "checked"
    /\ IF locker[ino[w]] = None
       THEN /\ locker' = [locker EXCEPT ![ino[w]] = w]
            /\ stage' = [stage EXCEPT ![w] = "locked"]
       ELSE /\ stage' = [stage EXCEPT ![w] = "active"]
            /\ UNCHANGED locker
    /\ UNCHANGED <<entry, ino, recorded, raced, probeVars>>

Truncate(w) ==
    /\ stage[w] = "locked"
    /\ stage' = [stage EXCEPT ![w] = "truncated"]
    /\ recorded' = [recorded EXCEPT ![ino[w]] = None]
    /\ UNCHANGED <<entry, ino, locker, raced, probeVars>>

Record(w) ==
    /\ stage[w] = "truncated"
    /\ stage' = [stage EXCEPT ![w] = "held"]
    /\ recorded' = [recorded EXCEPT ![ino[w]] = w]
    /\ UNCHANGED <<entry, ino, locker, raced, probeVars>>

-----------------------------------------------------------------------------
(* release_session_lock, and the kernel's release when a process ends.     *)

\* Mistake: the lock file is left behind.
UnlinkNothing(w) ==
    /\ stage[w] = "held"
    /\ stage' = [stage EXCEPT ![w] = "unlinked"]
    /\ UNCHANGED <<entry, ino, locker, recorded, raced, probeVars>>

\* unlink() goes by name: it removes whatever session.lock names now.
Unlink(w) ==
    /\ stage[w] = "held"
    /\ stage' = [stage EXCEPT ![w] = "unlinked"]
    /\ entry' = None
    /\ raced' = raced \cup {v \in Workers : /\ stage[v] = "checked"
                                            /\ ino[v] = entry}
    /\ UNCHANGED <<ino, locker, recorded, probeVars>>

\* The flocks that remain when process w closes its descriptor of inode i.
FreedBy(w) == [i \in Workers |-> IF locker[i] = w THEN None ELSE locker[i]]

Close(w) ==
    /\ stage[w] = "unlinked"
    /\ stage' = [stage EXCEPT ![w] = "released"]
    /\ locker' = FreedBy(w)
    /\ UNCHANGED <<entry, ino, recorded, raced, probeVars>>

\* The process ends: os._exit, a fatal signal, or an OSError of ftruncate or
\* write, which leaves the descriptor to the kernel.  The file stays.
Die(w) ==
    /\ stage[w] \in Owning \cup {"opened", "checked", "unlinked", "released"}
    /\ stage' = [stage EXCEPT ![w] = CASE stage[w] = "held" -> "crashed"
                                       [] stage[w] \in GaveUp -> "exited"
                                       [] OTHER -> "died"]
    /\ locker' = FreedBy(w)
    /\ UNCHANGED <<entry, ino, recorded, raced, probeVars>>

-----------------------------------------------------------------------------
(* verify_session(session_dir, pid), run by probe p.                       *)

\* A pid was read from daemon.pid, which a worker writes once it holds the
\* lock, or printed by `start`.
Published(w) == stage[w] \in GaveUp \cup {"held", "crashed"}

Answer(p, v) ==
    /\ pstage' = [pstage EXCEPT ![p] = "done"]
    /\ verdict' = [verdict EXCEPT ![p] = v]

\* What kill(pid, 0) may say: an ended process can still be a zombie, and its
\* pid can belong to another process by now.
ExistsAnswers(w) == IF stage[w] \in Ended THEN BOOLEAN ELSE {TRUE}

\* _process_exists, the first thing a probe asks.
ProcessExists(p, w) ==
    /\ pstage[p] = "idle"
    /\ Published(w)
    /\ ppid' = [ppid EXCEPT ![p] = w]
    /\ fresh' = [fresh EXCEPT ![p] = stage[w] \in Owning \cup {"unlinked"}]
    /\ \E exists \in ExistsAnswers(w) :
           IF exists
           THEN pstage' = [pstage EXCEPT ![p] = "exists"] /\ UNCHANGED verdict
           ELSE Answer(p, "not_found")
    /\ UNCHANGED <<lockVars, pfd>>

IsFile(p) ==
    /\ pstage[p] = "exists"
    /\ IF entry = None
       THEN Answer(p, "not_found")
       ELSE pstage' = [pstage EXCEPT ![p] = "isfile"] /\ UNCHANGED verdict
    /\ UNCHANGED <<lockVars, ppid, pfd, fresh>>

ProbeOpen(p) ==
    /\ pstage[p] = "isfile"
    /\ IF entry = None
       THEN Answer(p, "unavailable") /\ UNCHANGED pfd
       ELSE /\ pfd' = [pfd EXCEPT ![p] = entry]
            /\ pstage' = [pstage EXCEPT ![p] = "opened"]
            /\ UNCHANGED verdict
    /\ UNCHANGED <<lockVars, ppid, fresh>>

\* The probe asks for LOCK_EX itself, and holds it when there is no holder.
ProbeFlock(p) ==
    /\ pstage[p] = "opened"
    /\ IF locker[pfd[p]] = None
       THEN /\ locker' = [locker EXCEPT ![pfd[p]] = p]
            /\ pstage' = [pstage EXCEPT ![p] = "won"]
       ELSE /\ pstage' = [pstage EXCEPT ![p] = "blocked"]
            /\ UNCHANGED locker
    /\ UNCHANGED <<entry, stage, ino, recorded, raced, ppid, pfd, verdict, fresh>>

\* The pid is read through the name, not through the descriptor.
ReadPid(p) ==
    /\ pstage[p] = "blocked"
    /\ Answer(p, IF entry = None \/ recorded[entry] = None THEN "unavailable"
                 ELSE IF recorded[entry] = ppid[p] THEN "match"
                 ELSE "mismatch")
    /\ UNCHANGED <<lockVars, ppid, pfd, fresh>>

ProbeUnlock(p) ==
    /\ pstage[p] = "won"
    /\ locker' = [locker EXCEPT ![pfd[p]] = None]
    /\ Answer(p, "not_found")
    /\ UNCHANGED <<entry, stage, ino, recorded, raced, ppid, pfd, fresh>>

\* The command returns; the process may be asked again.
ProbeDone(p) ==
    /\ pstage[p] = "done"
    /\ pstage' = [pstage EXCEPT ![p] = "idle"]
    /\ ppid' = [ppid EXCEPT ![p] = None]
    /\ pfd' = [pfd EXCEPT ![p] = None]
    /\ verdict' = [verdict EXCEPT ![p] = None]
    /\ fresh' = [fresh EXCEPT ![p] = FALSE]
    /\ UNCHANGED lockVars

WorkerNext(w) ==
    \/ Open(w) \/ Fstat(w) \/ Flock(w) \/ Truncate(w) \/ Record(w)
    \/ Unlink(w) \/ Close(w) \/ Die(w)

ProbeNext(p) ==
    \/ \E w \in Workers : ProcessExists(p, w)
    \/ IsFile(p) \/ ProbeOpen(p) \/ ProbeFlock(p) \/ ReadPid(p)
    \/ ProbeUnlock(p) \/ ProbeDone(p)

Next ==
    \/ \E w \in Workers : WorkerNext(w)
    \/ \E p \in Probes : ProbeNext(p)

Spec == Init /\ [][Next]_vars

-----------------------------------------------------------------------------
TypeOK ==
    /\ entry \in Workers \cup {None}
    /\ stage \in [Workers -> Stages]
    /\ ino \in [Workers -> Workers \cup {None}]
    /\ locker \in [Workers -> Workers \cup Probes \cup {None}]
    /\ recorded \in [Workers -> Workers \cup {None}]
    /\ raced \in SUBSET Workers
    /\ pstage \in [Probes -> {"idle", "exists", "isfile", "opened", "blocked",
                              "won", "done"}]
    /\ ppid \in [Probes -> Workers \cup {None}]
    /\ pfd \in [Probes -> Workers \cup {None}]
    /\ verdict \in [Probes -> Verdicts \cup {None}]
    /\ fresh \in [Probes -> BOOLEAN]

\* "Two daemons on the same path open the same file and contend on one flock":
\* at most one worker owns the session.
Exclusion ==
    \A v, w \in Workers :
        stage[v] \in Owning /\ stage[w] \in Owning => v = w

\* The comment in acquire_session_lock: a losing racer's open can never clobber
\* the winner's record.  A daemon that holds the lock keeps its flock and its
\* own pid in the file it locked, whatever other workers and probes do.
WinnerRecorded ==
    \A w \in Workers : stage[w] = "held" => /\ locker[ino[w]] = w
                                            /\ recorded[ino[w]] = w

\* The lock excludes in every execution in which no release removes the name
\* between another worker's fstat and its flock: crashes, stale lock files,
\* refused racers and probes never produce two owners.
ExclusionUnlessRaced == raced = {} => Exclusion

\* A probe of a daemon that holds the session and goes on holding it answers
\* `match`: stop and status never lose a live daemon, however many racing
\* starts and other probes there are, unless a release raced an acquire.
HolderIsConfirmed ==
    raced = {} =>
        \A p \in Probes :
            pstage[p] = "done" /\ stage[ppid[p]] = "held" => verdict[p] = "match"

\* A clean release takes the pid off the path for good: the file that
\* session.lock names never records a worker that gave the session up, so a
\* process that later gets the same pid can not be taken for the daemon.
ReleasedPidIsForgotten ==
    entry # None /\ recorded[entry] # None => stage[recorded[entry]] \notin GaveUp

\* The pid in session.lock follows the lock: it is the holder's while there is
\* one, and never that of a worker that gave the session up.
RecordFollowsLock == WinnerRecorded /\ ReleasedPidIsForgotten

\* verify_session's docstring: `match` says that pid "is alive and holds the
\* session lock" (at some moment of the call).
MatchMeansHolder ==
    \A p \in Probes : verdict[p] = "match" => fresh[p]

\* SessionDir.create's docstring: SessionActive "if a live daemon already holds
\* the lock".
ActiveMeansDaemon ==
    [][\A w \in Workers :
           stage[w] # "active" /\ stage'[w] = "active" =>
               \E v \in Workers \ {w} : stage[v] \in Owning \cup {"unlinked"}]_vars
=============================================================================
