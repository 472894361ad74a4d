----------------------------- MODULE SessionDir -----------------------------
(***************************************************************************)
(* The session directory (tunstrap/session.py) shared by workers that      *)
(* start, serve and dispose of a session (_worker.main, _run, _supervise)  *)
(* and by `stop`, `status` and `run` commands that look at it and stop     *)
(* them (stop_session, cli_stop.py, cli._teardown_run_inner).              *)
(*                                                                         *)
(* The lock is SessionLock's, step by step.  tunnel-data/ is one object,   *)
(* named after the worker whose mkdir (or atomic_write) made it; deleting  *)
(* it takes daemon.pid and tunnel-loss.json along in one step.             *)
(***************************************************************************)
EXTENDS SessionLock

CONSTANT Verbs      \* the commands in play

ASSUME DirAssumption ==
    /\ Verbs \subseteq {"stop", "run", "status"}
    /\ None \notin Verbs \cup {"torn"}
    /\ "torn" \notin Workers

VARIABLES
    phase,      \* what each worker does with the directory
    data,       \* tunnel-data/: the worker that made it, or None
    pidFile,    \* daemon.pid: None (absent), "torn" (empty) or a pid
    pidDir,     \* the tunnel-data/ in which each worker opened daemon.pid
    loss,       \* tunnel-loss.json: the worker whose loss it records, or None
    output,     \* workers whose parent may still write output.json
    disturbed,  \* history: workers that held the lock when somebody else's
                \* rmtree or mkdir changed tunnel-data/
    verb,       \* the command each CLI process runs
    step,       \* where it is in that command
    target      \* the pid it read from daemon.pid

dataVars == <<data, pidFile, loss, disturbed>>
ownVars == <<pidDir, output>>
workerVars == <<phase, ownVars>>
cliVars == <<verb, step, target>>
dirVars == <<dataVars, workerVars, cliVars>>
allVars == <<vars, dirVars>>

Phases == {"create", "wipe", "slot", "made", "naming", "starting", "serving",
           "stopping", "fail", "cleanup", "keep", "abort", "late", "gone"}

\* Phases in which the worker's session is up, or coming up.
Live == {"naming", "starting", "serving", "stopping"}

\* Phases after write_identity in which SIGTERM still, or again, kills the
\* process: _supervise has not installed its handlers.
Unhandled == {"naming", "starting", "fail", "late"}

DirInit ==
    /\ Init
    /\ phase = [w \in Workers |-> "create"]
    /\ data = None
    /\ pidFile = None
    /\ pidDir = [w \in Workers |-> None]
    /\ loss = None
    /\ output = {}
    /\ disturbed = {}
    /\ verb = [p \in Probes |-> None]
    /\ step = [p \in Probes |-> "idle"]
    /\ target = [p \in Probes |-> None]

Enter(w, ph) == phase' = [phase EXCEPT ![w] = ph]

\* Mistake: the loss record outlives the directory it is in.
DeleteAllButLoss == data' = None /\ pidFile' = None /\ UNCHANGED loss

\* shutil.rmtree of tunnel-data/, with what it holds.
DeleteData == data' = None /\ pidFile' = None /\ loss' = None

Holding == {w \in Workers : stage[w] = "held"}

\* The directory goes, or comes back, under the workers of set ws.
Disturb(ws) == disturbed' = disturbed \cup (ws \cap Holding)

\* atomic_write's mkdir(exist_ok=True), on behalf of the session of worker w.
MkdirFor(w) ==
    /\ data = None
    /\ data' = w
    /\ UNCHANGED <<pidFile, loss>>

-----------------------------------------------------------------------------
(* SessionDir.create once the lock is held, and write_identity.            *)

\* _reclaim_data_slot: is there a tunnel-data/ of an earlier session?
FindSlot(w) ==
    /\ stage[w] = "held" /\ phase[w] = "create"
    /\ Enter(w, IF data = None THEN "slot" ELSE "wipe")
    /\ UNCHANGED <<vars, dataVars, ownVars, cliVars>>

\* Its rmtree raises when the directory went away meanwhile; create releases
\* the lock and the worker exits.
Wipe(w) ==
    /\ stage[w] = "held" /\ phase[w] = "wipe"
    /\ IF data = None
       THEN Enter(w, "abort") /\ UNCHANGED dataVars
       ELSE Enter(w, "slot") /\ DeleteData /\ UNCHANGED disturbed
    /\ UNCHANGED <<vars, ownVars, cliVars>>

\* mkdir raises FileExistsError when there is one again.
MakeData(w) ==
    /\ stage[w] = "held" /\ phase[w] = "slot"
    /\ IF data # None
       THEN Enter(w, "abort") /\ UNCHANGED data
       ELSE Enter(w, "made") /\ data' = w
    /\ UNCHANGED <<vars, pidFile, loss, disturbed, ownVars, cliVars>>

\* _write_file opens daemon.pid with O_TRUNC, or fails and main cleans up.
OpenPidFile(w) ==
    /\ stage[w] = "held" /\ phase[w] = "made"
    /\ IF data = None
       THEN Enter(w, "cleanup") /\ UNCHANGED <<pidFile, pidDir>>
       ELSE /\ Enter(w, "naming")
            /\ pidFile' = "torn"
            /\ pidDir' = [pidDir EXCEPT ![w] = data]
    /\ UNCHANGED <<vars, data, loss, disturbed, output, cliVars>>

WritePidFile(w) ==
    /\ stage[w] = "held" /\ phase[w] = "naming"
    /\ Enter(w, "starting")
    /\ pidFile' = IF data = pidDir[w] THEN w ELSE pidFile
    /\ UNCHANGED <<vars, data, loss, disturbed, ownVars, cliVars>>

-----------------------------------------------------------------------------
(* _run, _supervise and _dispose_session.                                  *)

\* A node's materialize_atomic finds tunnel-data/ gone and makes it again; the
\* tasks of the other nodes go on when one of them has raised.
Materialize(w) ==
    /\ stage[w] = "held" /\ phase[w] \in {"starting", "fail"}
    /\ MkdirFor(w)
    /\ UNCHANGED <<vars, disturbed, workerVars, cliVars>>

\* start_all_and_build_output succeeds, the frame is out (its reader may write
\* output.json from now on) and the signal handlers go in; or a failure is
\* reported: "fail" when a node raised, whose siblings are left running.
Started(w) ==
    /\ stage[w] = "held" /\ phase[w] = "starting"
    /\ \/ Enter(w, "serving") /\ output' = output \cup {w}
       \/ \E ph \in {"cleanup", "fail"} : Enter(w, ph) /\ UNCHANGED output
    /\ UNCHANGED <<vars, dataVars, pidDir, cliVars>>

\* write_materialized_output, by the command that started worker w.
WriteOutput(w) ==
    /\ w \in output
    /\ output' = output \ {w}
    /\ \/ MkdirFor(w) /\ Disturb(Workers)
       \/ data # None /\ UNCHANGED dataVars
    /\ UNCHANGED <<vars, phase, pidDir, cliVars>>

\* The idle watchdog or a signal from outside sets stop_event.
AskToStop(w) ==
    /\ stage[w] = "held" /\ phase[w] = "serving"
    /\ Enter(w, "stopping")
    /\ UNCHANGED <<vars, dataVars, ownVars, cliVars>>

\* A connection is lost before the watchdogs are cancelled.  The losses so far
\* are written (atomic_write makes a missing tunnel-data/) or fail to be; the
\* loss of a required one ends the daemon and preserves its data.
Lose(w) ==
    /\ stage[w] = "held" /\ phase[w] \in {"serving", "stopping", "keep"}
    /\ \E required \in BOOLEAN : Enter(w, IF required THEN "keep" ELSE phase[w])
    /\ \/ /\ data' = IF data = None THEN w ELSE data
          /\ loss' = w
       \/ UNCHANGED <<data, loss>>
    /\ UNCHANGED <<vars, pidFile, disturbed, ownVars, cliVars>>

\* The watchdogs are cancelled with no required loss: a normal stop.
Dispose(w) ==
    /\ stage[w] = "held" /\ phase[w] = "stopping"
    /\ Enter(w, "cleanup")
    /\ UNCHANGED <<vars, dataVars, ownVars, cliVars>>

\* SessionDir.cleanup: first the lock goes, then the data.
Release(w) ==
    /\ phase[w] \in {"fail", "cleanup", "keep", "abort"}
    /\ Unlink(w) \/ Close(w)
    /\ UNCHANGED dirVars

RemoveData(w) ==
    /\ stage[w] = "released" /\ phase[w] \in {"fail", "cleanup"}
    /\ Enter(w, IF phase[w] = "fail" THEN "late" ELSE "gone")
    /\ DeleteData
    /\ IF data = None THEN UNCHANGED disturbed ELSE Disturb(Workers)
    /\ UNCHANGED <<vars, ownVars, cliVars>>

\* A node task that was left running takes its last step, in the turn of the
\* event loop in which _run returns.
Leftover(w) ==
    /\ stage[w] = "released" /\ phase[w] = "late"
    /\ MkdirFor(w) /\ Disturb(Workers)
    /\ UNCHANGED <<vars, workerVars, cliVars>>

\* os._exit after a completed disposal, or death at any point before.
Exit(w) == Die(w) /\ UNCHANGED dirVars

-----------------------------------------------------------------------------
(* A command of CLI process p.                                             *)

Goto(p, s) == step' = [step EXCEPT ![p] = s]

\* The command is over.
Finish(p) ==
    /\ Goto(p, "idle")
    /\ verb' = [verb EXCEPT ![p] = None]
    /\ target' = [target EXCEPT ![p] = None]

\* Mistake: an unreadable daemon.pid is treated like an absent one.
ReadIdentityLax(p) ==
    /\ step[p] = "idle"
    /\ \E v \in Verbs :
          \/ /\ pidFile \in Workers
             /\ verb' = [verb EXCEPT ![p] = v]
             /\ target' = [target EXCEPT ![p] = pidFile]
             /\ Goto(p, "verify")
          \/ /\ pidFile \notin Workers /\ v = "run"
             /\ verb' = [verb EXCEPT ![p] = v]
             /\ Goto(p, "cleanup")
             /\ UNCHANGED target
    /\ UNCHANGED <<vars, dataVars, workerVars>>

\* read_identity: a torn file is unreadable and everything is preserved; an
\* absent one makes `run` delete what is left and the others give up.
ReadIdentity(p) ==
    /\ step[p] = "idle"
    /\ \E v \in Verbs :
          \/ /\ pidFile \in Workers
             /\ verb' = [verb EXCEPT ![p] = v]
             /\ target' = [target EXCEPT ![p] = pidFile]
             /\ Goto(p, "verify")
          \/ /\ pidFile = None /\ v = "run"
             /\ verb' = [verb EXCEPT ![p] = v]
             /\ Goto(p, "cleanup")
             /\ UNCHANGED target
    /\ UNCHANGED <<vars, dataVars, workerVars>>

\* The steps of verify_session about the target.
Verify(p) ==
    /\ step[p] \in {"verify", "verify again"}
    /\ \/ \E w \in Workers : target[p] = w /\ ProcessExists(p, w)
       \/ IsFile(p) \/ ProbeOpen(p) \/ ProbeFlock(p) \/ ReadPid(p) \/ ProbeUnlock(p)
    /\ UNCHANGED dirVars

\* Mistake: a daemon that is still there after the grace period is left alone.
ConcludeOnce(p) ==
    /\ ProbeDone(p)
    /\ \/ /\ verb[p] # "status" /\ step[p] = "verify"
          /\ verdict[p] \in {"match", "not_found"}
          /\ Goto(p, IF verdict[p] = "match" THEN "sigterm" ELSE "cleanup")
          /\ UNCHANGED <<verb, target>>
       \/ /\ \/ verb[p] = "status"
             \/ verdict[p] \in {"mismatch", "unavailable"}
             \/ step[p] = "verify again"
          /\ Finish(p)
    /\ UNCHANGED <<dataVars, workerVars>>

\* What the command makes of the verdict: status reports it; stop_session goes
\* on only after `match`, and "not found" counts as a resolved stop.
Conclude(p) ==
    /\ ProbeDone(p)
    /\ \/ /\ verb[p] # "status" /\ verdict[p] = "match"
          /\ Goto(p, IF step[p] = "verify" THEN "sigterm" ELSE "sigkill")
          /\ UNCHANGED <<verb, target>>
       \/ /\ verb[p] # "status" /\ verdict[p] = "not_found" /\ step[p] = "verify"
          /\ Goto(p, "cleanup")
          /\ UNCHANGED <<verb, target>>
       \/ /\ \/ verb[p] = "status"
             \/ verdict[p] \in {"mismatch", "unavailable"}
             \/ verdict[p] = "not_found" /\ step[p] = "verify again"
          /\ Finish(p)
    /\ UNCHANGED <<dataVars, workerVars>>

\* kill(SIGTERM): ProcessLookupError resolves the stop.  The signal sets
\* stop_event once the handlers are in and kills the worker before that.
SigTerm(p) ==
    LET w == target[p] IN
    /\ step[p] = "sigterm"
    /\ \/ /\ stage[w] \in Ended
          /\ \E exists \in BOOLEAN : Goto(p, IF exists THEN "poll" ELSE "cleanup")
          /\ UNCHANGED <<vars, phase>>
       \/ /\ phase[w] \in Unhandled /\ Die(w)
          /\ Goto(p, "poll")
          /\ UNCHANGED phase
       \/ /\ stage[w] \notin Ended /\ phase[w] \notin Unhandled
          /\ Goto(p, "poll")
          /\ IF phase[w] = "serving" THEN Enter(w, "stopping") ELSE UNCHANGED phase
          /\ UNCHANGED vars
    /\ UNCHANGED <<dataVars, ownVars, verb, target>>

\* Mistake: the end of the grace period counts as a resolved stop.
PollHopeful(p) ==
    /\ step[p] = "poll"
    /\ Goto(p, "cleanup")
    /\ UNCHANGED <<vars, dataVars, workerVars, verb, target>>

\* The grace poll sees the process exit, or runs out (it does so for a zombie
\* and for a recycled pid too).
Poll(p) ==
    /\ step[p] = "poll"
    /\ \/ stage[target[p]] \in Ended /\ Goto(p, "cleanup")
       \/ Goto(p, "verify again")
    /\ UNCHANGED <<vars, dataVars, workerVars, verb, target>>

SigKill(p) ==
    /\ step[p] = "sigkill"
    /\ Goto(p, "cleanup")
    /\ IF stage[target[p]] \in Ended THEN UNCHANGED vars ELSE Die(target[p])
    /\ UNCHANGED <<dataVars, workerVars, verb, target>>

\* cleanup_path, after a resolved stop.
CleanupPath(p) ==
    /\ step[p] = "cleanup"
    /\ DeleteData
    /\ IF data = None THEN UNCHANGED disturbed ELSE Disturb(Workers \ {target[p]})
    /\ Finish(p)
    /\ UNCHANGED <<vars, workerVars>>

-----------------------------------------------------------------------------
\* (A step of Exit stands for a SIGTERM that kills a worker whose failed start
\* is being cleaned up, too: it has no handlers either.)

\* The steps by which a worker tries to get the lock.
Acquire(w) ==
    /\ Open(w) \/ Fstat(w) \/ Flock(w) \/ Truncate(w) \/ Record(w)
    /\ UNCHANGED dirVars

WorkerAlive(w) ==
    \/ Acquire(w) \/ FindSlot(w) \/ Wipe(w) \/ MakeData(w) \/ OpenPidFile(w)
    \/ WritePidFile(w) \/ Materialize(w) \/ Started(w) \/ WriteOutput(w)
    \/ AskToStop(w) \/ Lose(w) \/ Dispose(w) \/ Release(w) \/ RemoveData(w)
    \/ Leftover(w)

Command(p) ==
    \/ ReadIdentity(p) \/ Verify(p) \/ Conclude(p) \/ SigTerm(p) \/ Poll(p)
    \/ SigKill(p) \/ CleanupPath(p)

DirNext ==
    \/ \E w \in Workers : WorkerAlive(w) \/ Exit(w)
    \/ \E p \in Probes : Command(p)

DirSpec == DirInit /\ [][DirNext]_allVars

\* A command that was begun is scheduled until it returns.
FairDirSpec ==
    /\ DirSpec
    /\ \A p \in Probes : WF_allVars(step[p] # "idle" /\ Command(p))

-----------------------------------------------------------------------------
DirTypeOK ==
    /\ TypeOK
    /\ phase \in [Workers -> Phases]
    /\ data \in Workers \cup {None}
    /\ pidFile \in Workers \cup {None, "torn"}
    /\ pidDir \in [Workers -> Workers \cup {None}]
    /\ loss \in Workers \cup {None}
    /\ output \subseteq Workers
    /\ disturbed \subseteq Workers
    /\ verb \in [Probes -> Verbs \cup {None}]
    /\ step \in [Probes -> {"idle", "verify", "sigterm", "poll", "verify again",
                            "sigkill", "cleanup"}]
    /\ target \in [Probes -> Workers \cup {None}]

\* _stop_resolved's docstring: the outcome says "the daemon is known to be
\* gone".  When stop or run is about to delete tunnel-data/, the daemon it was
\* asked to stop has at least begun to give the session up.
ResolvedMeansGone ==
    raced = {} =>
        \A p \in Probes :
            step[p] = "cleanup" /\ target[p] # None => stage[target[p]] \notin Owning

\* Owners whose directory nobody else has touched since they got the lock.
Undisturbed == {w \in Holding \ disturbed : raced = {}}

\* _reclaim_data_slot's docstring: any tunnel-data/ found under the lock
\* "belongs to a dead session and may be removed".  Alone with it, a start does
\* not fail: neither its rmtree nor its mkdir raises.
StartsUnhindered == \A w \in Undisturbed : phase[w] # "abort"

\* The directory of a session that is up is its worker's, and shows no loss
\* but its own: `status` never explains a live daemon by its predecessor's end.
OwnDirectory ==
    \A w \in Undisturbed : phase[w] \in Live => data = w /\ loss \in {None, w}

\* From write_identity on, daemon.pid names the worker: stop and status can
\* find every live daemon.
OwnIdentity ==
    \A w \in Undisturbed :
        phase[w] \in {"starting", "serving", "stopping"} => pidFile = w

\* What a session finds and leaves in tunnel-data/ is its own, until somebody
\* else's rmtree (a predecessor's late cleanup, a teardown that found no pid or
\* another daemon's) or mkdir (a leftover task, an earlier command's output)
\* gets in: those are all the ways it can be hindered, unless the lock is lost
\* to the unlink race.
OwnerUndisturbed == StartsUnhindered /\ OwnDirectory /\ OwnIdentity

\* cli._teardown_run_inner on a SessionError: "Nothing here to stop, so dispose
\* of what is left".  When it finds no pid, and is about to delete tunnel-data/
\* without verifying anything, no worker that opened daemon.pid holds the lock.
AbsentMeansNobody ==
    [][\A p \in Probes :
           step[p] = "idle" /\ step'[p] = "cleanup" =>
               \A w \in Undisturbed : phase[w] \notin Live]_allVars

\* stop_session after its SIGTERM: whatever the grace poll and the second
\* verification came to see, racing probes and starts included, the command
\* does not return, resolved or not, while its daemon still owns the session.
SignalledMeansEnded ==
    [][\A p \in Probes :
           /\ raced = {} /\ verb[p] # "status" /\ target[p] # None
           /\ step[p] \notin {"idle", "verify"} /\ step'[p] = "idle"
           => stage'[target[p]] \notin Owning]_allVars

\* And it does return: a `stop` (or run's teardown) that got as far as SIGTERM
\* ends the daemon, by the signal, by its own exit or by SIGKILL.
StopEndsDaemon ==
    \A p \in Probes, w \in Workers :
        (step[p] = "sigterm" /\ target[p] = w)
            ~> (stage[w] \notin Owning \/ raced # {})

\* "Owns session.lock + the tunnel-data/ subdir for one daemon instance": no
\* one takes tunnel-data/ from a worker that is starting or serving.
LiveDataKept ==
    \A w \in Workers : stage[w] = "held" /\ phase[w] \in Live => data = w

\* _stop_resolved's docstring: the "session data is safe to delete".  A
\* command's cleanup never deletes the directory of a session that is up.
StopDeletesOnlyDead ==
    [][\A p \in Probes :
           step[p] = "cleanup" /\ step'[p] = "idle" /\ data # None =>
               ~(stage[data] = "held" /\ phase[data] \in Live)]_allVars
=============================================================================
