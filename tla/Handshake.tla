----------------------------- MODULE Handshake -----------------------------
(***************************************************************************)
(* One `start` or `run` command and the worker it spawns: the detached     *)
(* process, the schema on its stdin, the one frame it answers with over a  *)
(* pipe, the deadline, and what either side does when the other is gone    *)
(* (daemon.spawn_daemon, _worker.main and _run, cli.start_command,         *)
(* _run_command, _supervise_child and _teardown_run).                      *)
(*                                                                         *)
(* The session directory is either supplied by the operator, and may then  *)
(* hold another ("foreign") daemon, or minted for this command.  Its lock  *)
(* and its files are SessionDir's, one step where that module has many.    *)
(***************************************************************************)
CONSTANT None

Failures == {"required_failure", "daemon_error", "session_active"}
Kinds == Failures \cup {"success"}
Daemons == {"ours", "foreign"}

ASSUME HsAssumption == None \notin Kinds \cup Daemons \cup {"handshake", "timeout", "cli"}

VARIABLES
    verb,       \* the command: "start" or "run"
    supplied,   \* is --session-dir given?
    big,        \* is the schema larger than the pipe's buffer?
    cli,        \* where the command is
    wkr,        \* where the worker is
    sent,       \* the worker's stdin: still open, the whole schema, or cut off
    frame,      \* the frame the worker answers with
    pipe,       \* how much of it is in the pipe
    tasks,      \* are there node tasks that gather left running?
    got,        \* what spawn_daemon returned or raised
    owner,      \* the daemon that holds session.lock
    ident,      \* the daemon that daemon.pid names
    data,       \* who made the tunnel-data/ there is
    root,       \* is the minted session root there?
    victim,     \* the daemon the teardown is stopping
    warned,     \* has the command said that a daemon may still be there?
    hit         \* has the foreign daemon been signalled? (history)

cliVars == <<cli, got, victim, warned, hit>>
pipeVars == <<sent, frame, pipe, tasks>>
dirVars == <<owner, ident, data, root>>
fixed == <<verb, supplied, big>>
hsVars == <<fixed, cliVars, wkr, pipeVars, dirVars>>

CliSteps == {"spawn", "send", "read", "terminate", "reap", "dispatch", "emit",
             "supervise", "child", "teardown", "verify", "signal", "await",
             "sweep", "done", "failed", "killed"}

WorkerSteps == {"none", "boot", "naming", "input", "starting", "reporting",
                "closed", "serving", "cleanup", "removing", "leaving",
                "keeping", "ended", "died"}

Gone == {"ended", "died"}

\* The parent holds the read end until _read_ipc_response closes it, which is
\* after the reaping of a worker that timed out.
ReaderOpen == cli \in {"send", "read", "terminate", "reap"}

\* The worker closes its end after the frame, or by ending.
WriterOpen ==
    \/ wkr \in {"boot", "naming", "input", "starting", "reporting"}
    \/ wkr \in {"cleanup", "removing"} /\ frame = None

\* A directory nobody uses, one with a live daemon, or what a dead one left.
HsInit ==
    /\ verb \in {"start", "run"}
    /\ supplied \in BOOLEAN /\ big \in BOOLEAN
    /\ cli = "spawn" /\ wkr = "none"
    /\ sent = "open" /\ frame = None /\ pipe = "empty" /\ got = None
    /\ tasks = FALSE
    /\ root = (verb = "run" /\ ~supplied)       \* _mint_session_dir
    /\ data \in IF supplied THEN {None, "foreign"} ELSE {None}
    /\ ident = data
    /\ owner \in {None, data}
    /\ victim = None /\ warned = FALSE /\ hit = FALSE

-----------------------------------------------------------------------------
(* The worker.                                                             *)

WorkerTo(s) == wkr' = s

\* A process ends and the kernel drops its flock.
WorkerDies ==
    /\ WorkerTo("died")
    /\ owner' = IF owner = "ours" THEN None ELSE owner

Answer(kind) == WorkerTo("reporting") /\ frame' = kind

\* Mistake: tunnel-data/ is reclaimed before the lock is tried.
RefusedLate ==
    /\ owner = "foreign"
    /\ Answer("session_active")
    /\ data' = None /\ ident' = None
    /\ UNCHANGED <<owner, root>>

\* SessionActive: another daemon holds the lock.
Refused ==
    /\ owner = "foreign"
    /\ Answer("session_active")
    /\ UNCHANGED dirVars

\* SessionDir.create: refused, failed, or the lock is held and tunnel-data/ is
\* new.  A missing root is made again.
Create ==
    /\ wkr = "boot"
    /\ \/ Refused
       \/ /\ Answer("daemon_error")
          /\ UNCHANGED dirVars
       \/ /\ owner = None
          /\ WorkerTo("naming")
          /\ owner' = "ours" /\ data' = "ours" /\ ident' = None
          /\ root' = ~supplied
          /\ UNCHANGED frame
    /\ UNCHANGED <<fixed, cliVars, sent, pipe, tasks>>

\* write_identity; when it fails, main cleans up first and reports then.
Identify ==
    /\ wkr = "naming"
    /\ \/ data # None /\ ident' = "ours" /\ WorkerTo("input")
       \/ UNCHANGED ident /\ WorkerTo("cleanup")
    /\ UNCHANGED <<fixed, cliVars, pipeVars, owner, data, root>>

\* stdin is read to its end; a cut off or oversized schema is a daemon_error.
ReadSchema ==
    /\ wkr = "input" /\ sent # "open"
    /\ \/ sent = "whole" /\ WorkerTo("starting") /\ UNCHANGED frame
       \/ Answer("daemon_error")
    /\ UNCHANGED <<fixed, cliVars, sent, pipe, tasks, dirVars>>

\* atomic_write makes a missing tunnel-data/, and a missing root with it.
Materialize(who) ==
    /\ data' = IF data = None THEN who ELSE data
    /\ root' = ~supplied
    /\ UNCHANGED <<owner, ident>>

\* start_all_and_build_output, whose nodes materialize what they fetch.  Its
\* exceptions are daemon_errors, and gather leaves the other nodes' tasks running.
StartAll ==
    /\ wkr = "starting"
    /\ \E kind \in {"success", "required_failure", "daemon_error"} :
           Answer(kind) /\ tasks' \in {FALSE, kind = "daemon_error"}
    /\ Materialize("ours") \/ UNCHANGED dirVars
    /\ UNCHANGED <<fixed, cliVars, sent, pipe>>

\* What follows a frame that was written.
Reported ==
    WorkerTo(IF frame = "success" THEN "closed"
             ELSE IF owner = "ours" THEN "cleanup" ELSE "ended")

\* Mistake: a failed worker exits without giving its session up.
WriteFrameAndExit ==
    /\ wkr = "reporting"
    /\ ReaderOpen
    /\ pipe' = "whole"
    /\ WorkerTo(IF frame = "success" THEN "closed" ELSE "ended")
    /\ UNCHANGED <<fixed, cliVars, sent, frame, tasks, dirVars>>

\* _write_message and the close of the pipe.  A frame may need several writes.
\* Without a reader the write raises: the pre-run reports swallow that, the
\* others end the worker with a traceback and no cleanup.
WriteFrame ==
    /\ wkr = "reporting"
    /\ \/ ReaderOpen /\ pipe = "empty" /\ pipe' = "part" /\ UNCHANGED <<wkr, owner>>
       \/ ReaderOpen /\ pipe' = "whole" /\ Reported /\ UNCHANGED owner
       \/ /\ ~ReaderOpen
          /\ IF frame \in {"success", "required_failure"}
             THEN WorkerDies
             ELSE Reported /\ UNCHANGED owner
          /\ UNCHANGED pipe
    /\ UNCHANGED <<fixed, cliVars, sent, frame, tasks, ident, data, root>>

\* _supervise installs the signal handlers.
Serve ==
    /\ wkr = "closed"
    /\ WorkerTo("serving")
    /\ UNCHANGED <<fixed, cliVars, pipeVars, dirVars>>

\* An idle stop or a signal from elsewhere, or the loss of a required tunnel.
StopServing ==
    /\ wkr = "serving"
    /\ WorkerTo("cleanup") \/ WorkerTo("keeping")
    /\ UNCHANGED <<fixed, cliVars, pipeVars, dirVars>>

\* release_session_lock: before the data goes, or in its stead.
GiveUp ==
    /\ wkr \in {"cleanup", "keeping"}
    /\ WorkerTo(IF wkr = "cleanup" THEN "removing" ELSE "ended")
    /\ owner' = None
    /\ UNCHANGED <<fixed, cliVars, pipeVars, ident, data, root>>

\* The rest of SessionDir.cleanup; a root minted by `start` is the worker's.
Remove ==
    /\ wkr = "removing"
    /\ data' = None /\ ident' = None
    /\ root' = (root /\ verb = "run")
    /\ IF frame = None
       THEN Answer("daemon_error")
       ELSE WorkerTo(IF tasks THEN "leaving" ELSE "ended") /\ UNCHANGED frame
    /\ UNCHANGED <<fixed, cliVars, sent, pipe, tasks, owner>>

\* asyncio.run cancels the node tasks that were left one turn of its loop after
\* _run returned: a last one may still materialize.
Leave ==
    /\ wkr = "leaving"
    /\ WorkerTo("ended")
    /\ Materialize("ours") \/ UNCHANGED dirVars
    /\ UNCHANGED <<fixed, cliVars, pipeVars>>

\* The worker crashes or is killed from elsewhere.
Die ==
    /\ wkr \notin Gone \cup {"none"}
    /\ WorkerDies
    /\ UNCHANGED <<fixed, cliVars, pipeVars, ident, data, root>>

-----------------------------------------------------------------------------
(* spawn_daemon.                                                           *)

CliTo(s) == cli' = s

\* Popen launches the detached worker, or raises; `start` takes back what it
\* minted then.
Spawn ==
    /\ cli = "spawn"
    /\ \/ CliTo("send") /\ WorkerTo("boot") /\ root' = ~supplied
       \/ CliTo("failed") /\ UNCHANGED <<wkr, root>>
    /\ UNCHANGED <<fixed, got, victim, warned, hit, pipeVars, owner, ident, data>>

\* Mistake: the parent keeps the read end of the worker's stdin, so that no
\* death of the worker breaks the pipe.
SendUnbroken ==
    /\ cli = "send"
    /\ ~big \/ wkr = "input"
    /\ CliTo("read")
    /\ sent' = "whole"
    /\ UNCHANGED <<fixed, got, victim, warned, hit, wkr, frame, pipe, tasks, dirVars>>

\* proc.stdin.write blocks, without a deadline, on a schema the pipe cannot
\* buffer until the worker reads or is gone; a broken pipe is left to the
\* reading of the answer.
Send ==
    /\ cli = "send"
    /\ ~big \/ wkr \in Gone \cup {"input"}
    /\ CliTo("read")
    /\ sent' = IF wkr \in Gone THEN sent ELSE "whole"
    /\ UNCHANGED <<fixed, got, victim, warned, hit, wkr, frame, pipe, tasks, dirVars>>

SpawnReturnsWith(result) == got' = result /\ CliTo("dispatch")

\* Mistake: whatever was read is returned as a message.
ReadFrameRaw ==
    /\ cli = "read" /\ ~WriterOpen
    /\ SpawnReturnsWith(IF pipe = "whole" THEN frame ELSE "torn")
    /\ UNCHANGED <<fixed, victim, warned, hit, wkr, pipeVars, dirVars>>

\* _read_ipc_response up to the end of file.
ReadFrame ==
    /\ cli = "read"
    /\ ~WriterOpen
    /\ SpawnReturnsWith(IF pipe = "whole" THEN frame ELSE "handshake")
    /\ UNCHANGED <<fixed, victim, warned, hit, wkr, pipeVars, dirVars>>

\* An OSError of select or read.
ReadError ==
    /\ cli = "read"
    /\ SpawnReturnsWith("handshake")
    /\ UNCHANGED <<fixed, victim, warned, hit, wkr, pipeVars, dirVars>>

\* Mistake: the answer is awaited without a deadline.
DeadlineNever ==
    /\ cli = "read" /\ wkr = "none"
    /\ UNCHANGED hsVars

Deadline ==
    /\ cli = "read"
    /\ CliTo("terminate")
    /\ UNCHANGED <<fixed, got, victim, warned, hit, wkr, pipeVars, dirVars>>

PastServing ==
    \/ wkr \in Gone \cup {"keeping"}
    \/ wkr \in {"cleanup", "removing"} /\ frame = "success"

\* SIGTERM for our worker: it stops a serving one, is lost on one whose event
\* loop is past serving, and kills any other.
TermWorker ==
    \/ wkr = "serving" /\ WorkerTo("cleanup") /\ UNCHANGED owner
    \/ PastServing /\ UNCHANGED <<wkr, owner>>
    \/ wkr # "serving" /\ ~PastServing /\ WorkerDies

\* _reap_timed_out_worker: terminate ...
Terminate ==
    /\ cli = "terminate"
    /\ TermWorker
    /\ CliTo("reap")
    /\ UNCHANGED <<fixed, got, victim, warned, hit, pipeVars, ident, data, root>>

\* Mistake: a worker that outlives the first wait is left to itself.
ReapOnce ==
    /\ cli = "reap"
    /\ SpawnReturnsWith("timeout")
    /\ UNCHANGED <<fixed, victim, warned, hit, wkr, pipeVars, dirVars>>

\* ... then wait, and _kill_timed_out_worker when the wait runs out.
Reap ==
    /\ cli = "reap"
    /\ SpawnReturnsWith("timeout")
    /\ IF wkr \in Gone THEN UNCHANGED <<wkr, owner>> ELSE WorkerDies
    /\ UNCHANGED <<fixed, victim, warned, hit, pipeVars, ident, data, root>>

-----------------------------------------------------------------------------
(* start_command, _run_command and the teardown.                           *)

\* start_command: it only ever reports.
DispatchStart ==
    /\ cli = "dispatch" /\ verb = "start"
    /\ CliTo(IF got = "success" THEN "emit" ELSE "done")
    /\ warned' = (got \notin Kinds)
    /\ UNCHANGED <<fixed, got, victim, hit, wkr, pipeVars, dirVars>>

\* write_materialized_output.
MakeOutput == Materialize("cli")

\* _emit_start_result: only --output env writes output.json.
EmitStart ==
    /\ cli = "emit"
    /\ CliTo("done")
    /\ MakeOutput \/ UNCHANGED dirVars
    /\ warned' \in BOOLEAN
    /\ UNCHANGED <<fixed, got, victim, hit, wkr, pipeVars>>

\* _discard_minted_root and remove_root.
RemoveRoot ==
    IF supplied \/ ~root
    THEN UNCHANGED <<ident, data, root>>
    ELSE ident' = None /\ data' = None /\ root' = FALSE

\* Mistake: an answer that is a failure is torn down, too.
DispatchRunEager ==
    /\ cli = "dispatch" /\ verb = "run"
    /\ CliTo(IF got = "success" THEN "supervise" ELSE "teardown")
    /\ UNCHANGED <<fixed, got, victim, warned, hit, wkr, pipeVars, dirVars>>

\* _run_command after spawn_daemon.
DispatchRun ==
    /\ cli = "dispatch" /\ verb = "run"
    /\ \/ got = "success" /\ CliTo("supervise") /\ UNCHANGED <<ident, data, root>>
       \/ got \notin Kinds /\ CliTo("teardown") /\ UNCHANGED <<ident, data, root>>
       \/ got \in Failures /\ CliTo("done") /\ RemoveRoot
    /\ UNCHANGED <<fixed, got, victim, warned, hit, wkr, pipeVars, owner>>

\* _run_child up to its Popen; anything that raises goes to the teardown.
Supervise ==
    /\ cli = "supervise"
    /\ \/ MakeOutput /\ CliTo("child")
       \/ MakeOutput /\ CliTo("teardown")
       \/ UNCHANGED dirVars /\ CliTo("teardown")
    /\ UNCHANGED <<fixed, got, victim, warned, hit, wkr, pipeVars>>

\* The child ends, by itself or by a signal _forward passed on.
ChildEnds ==
    /\ cli = "child"
    /\ CliTo("teardown")
    /\ UNCHANGED <<fixed, got, victim, warned, hit, wkr, pipeVars, dirVars>>

\* _teardown_run_inner: no daemon recorded means nothing to stop.
Teardown ==
    /\ cli = "teardown"
    /\ victim' = ident
    /\ CliTo(IF ident = None THEN "sweep" ELSE "verify")
    /\ UNCHANGED <<fixed, got, warned, hit, wkr, pipeVars, dirVars>>

Preserve == CliTo("done") /\ warned' = TRUE

\* stop_session's verify_session: the holder of the lock is a match.  Who gave
\* it up is not found, also while still alive, as session.lock is unlinked; the
\* unlink under the probe, or another holder, makes it an unresolved outcome.
Verify ==
    /\ cli = "verify"
    /\ \/ owner = victim /\ CliTo("signal") /\ UNCHANGED warned
       \/ owner # victim /\ CliTo("sweep") /\ UNCHANGED warned
       \/ owner # victim /\ Preserve
    /\ UNCHANGED <<fixed, got, victim, hit, wkr, pipeVars, dirVars>>

\* stop_session's SIGTERM.  The foreign daemon obeys.
Signal ==
    /\ cli = "signal"
    /\ CliTo("await")
    /\ IF victim = "ours"
       THEN TermWorker /\ UNCHANGED <<ident, data, hit>>
       ELSE /\ hit' = TRUE
            /\ owner' = None /\ data' = None /\ ident' = None
            /\ UNCHANGED wkr
    /\ UNCHANGED <<fixed, got, victim, warned, pipeVars, root>>

\* The grace poll, the second verification and SIGKILL.
Await ==
    /\ cli = "await"
    /\ \/ /\ victim = "ours" => wkr \in Gone
          /\ CliTo("sweep") /\ UNCHANGED <<warned, wkr, owner>>
       \/ /\ victim = "ours" /\ owner = "ours"
          /\ WorkerDies /\ CliTo("sweep") /\ UNCHANGED warned
       \/ owner # victim /\ Preserve /\ UNCHANGED <<wkr, owner>>
    /\ UNCHANGED <<fixed, got, victim, hit, pipeVars, ident, data, root>>

\* cleanup_path and remove_root.
Sweep ==
    /\ cli = "sweep"
    /\ CliTo("done")
    /\ ident' = None /\ data' = None /\ root' = FALSE
    /\ UNCHANGED <<fixed, got, victim, warned, hit, wkr, pipeVars, owner>>

\* SIGTERM for the command while it has no handler: always but for the child's
\* time.  The worker's stdin and the pipe close with it.
CliKilled ==
    /\ cli \notin {"spawn", "child", "done", "failed", "killed"}
    /\ CliTo("killed")
    /\ sent' = IF sent = "open" THEN "cut" ELSE sent
    /\ UNCHANGED <<fixed, got, victim, warned, hit, wkr, frame, pipe, tasks, dirVars>>

-----------------------------------------------------------------------------
\* Steps the worker takes by itself; starting the nodes waits for the network.
WorkerStep ==
    \/ Create \/ Identify \/ ReadSchema \/ WriteFrame \/ Serve \/ GiveUp \/ Remove \/ Leave

CliStep ==
    \/ Spawn \/ Send \/ ReadFrame \/ Deadline \/ Terminate \/ Reap
    \/ DispatchStart \/ EmitStart \/ DispatchRun \/ Supervise \/ Teardown
    \/ Verify \/ Signal \/ Await \/ Sweep

Finished == cli \in {"done", "failed", "killed"} /\ wkr \in Gone \cup {"none"}

HsNext ==
    \/ WorkerStep \/ StartAll \/ StopServing \/ Die
    \/ CliStep \/ ReadError \/ ChildEnds \/ CliKilled
    \/ Finished /\ UNCHANGED hsVars

HsSpec == HsInit /\ [][HsNext]_hsVars

\* The command is scheduled.  The network and the child promise nothing, nor
\* does the worker: what needs it to be scheduled says so.
FairHsSpec == HsSpec /\ WF_hsVars(CliStep)

WorkerScheduled == WF_hsVars(WorkerStep)

-----------------------------------------------------------------------------
HsTypeOK ==
    /\ verb \in {"start", "run"} /\ supplied \in BOOLEAN /\ big \in BOOLEAN
    /\ cli \in CliSteps /\ wkr \in WorkerSteps
    /\ sent \in {"open", "whole", "cut"}
    /\ frame \in Kinds \cup {None}
    /\ pipe \in {"empty", "part", "whole"}
    /\ got \in Kinds \cup {None, "handshake", "timeout"}
    /\ owner \in Daemons \cup {None}
    /\ ident \in Daemons \cup {None}
    /\ data \in Daemons \cup {None, "cli"}
    /\ victim \in Daemons \cup {None}
    /\ tasks \in BOOLEAN /\ root \in BOOLEAN /\ warned \in BOOLEAN /\ hit \in BOOLEAN

\* `run` "owns its child's lifetime": when it ends by itself without a warning
\* no daemon of its own serves, whatever became of the handshake.
RunLeavesNoDaemon ==
    verb = "run" /\ cli = "done" /\ ~warned => wkr \notin {"closed", "serving"}

\* The directory of a daemon that serves, ours or a foreign one, stays whole:
\* its tunnel-data/ and the daemon.pid by which it can be found and stopped.
DaemonKeepsDir ==
    /\ wkr \in {"closed", "serving"} => owner = "ours" /\ data = "ours" /\ ident = "ours"
    /\ owner = "foreign" => data = "foreign" /\ ident = "foreign"

\* A worker's answer, session_active above all, never leads `run` to stop the
\* daemon that was there before.
AnsweredRunSparesForeign == hit => got \in {"handshake", "timeout"}

\* _reap_timed_out_worker: a startup that timed out leaves no worker behind.
TimeoutReaps == got = "timeout" => wkr \in Gone

\* No daemon is left behind that nobody supervises: not by a `run` that ends by
\* itself, nor by a start that gave up on its worker.
NoDaemonLeft == RunLeavesNoDaemon /\ TimeoutReaps

\* After a failure the worker reported, it gives up its lock and its directory,
\* provided it is scheduled, unless it dies on the way.  A tunnel-data/ that a left node task made again
\* is the one thing that may stay, and no daemon.pid is in it.
FailureCleansUp ==
    WorkerScheduled =>
        (got \in Failures ~>
            \/ wkr = "died"
            \/ /\ wkr = "ended" /\ owner # "ours" /\ ident # "ours"
               /\ data = "ours" => tasks)

\* spawn_daemon returns, by an answer, a broken pipe or the deadline, as long as
\* the worker's process is scheduled, also where the schema has to wait for it.
SpawnReturns == WorkerScheduled => (cli = "send" ~> ~ReaderOpen)

\* "keeping the parent-side startup failure bounded": from the schema's delivery
\* on, and where the pipe holds it all from the spawn on, spawn_daemon returns
\* whatever the worker does.
DeadlineBounds == cli = "read" \/ (cli = "send" /\ ~big) ~> ~ReaderOpen

\* exceptions.py on a daemon_error: the worker "released the session lock and
\* removed its session dir before reporting".
FrameMeansClean ==
    got = "daemon_error" => owner # "ours" /\ data # "ours"

\* _supervise_child: "the daemon is stopped on every path" out of the window
\* it owns.
StoppedOnEveryPath ==
    [][ /\ got = "success"
        /\ cli \in {"supervise", "child", "teardown", "verify", "signal", "await", "sweep"}
        /\ cli' \in {"done", "killed"} /\ ~warned'
        => wkr \notin {"closed", "serving"} ]_hsVars

\* atomic_write: "In production this mkdir(exist_ok=True) is a no-op".
OutputDirExists == [][data' = "cli" => data = "cli"]_hsVars

\* _run_command on a supplied directory: the daemon.pid there may be "somebody
\* else's", and a `run` should never "stop a daemon we do not own", whether or
\* not its worker lived to say session_active.
ForeignNeverStopped == ~hit
=============================================================================
