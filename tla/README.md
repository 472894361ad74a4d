# tunstrap in TLA+

tunstrap opens SSH tunnels from a detached daemon ("the worker") on behalf of
short-lived commands.  `start` spawns the worker and returns, `run` spawns it,
runs a child command and stops it again, `stop` and `status` find it through a
session directory.  The program is small, but what it does is concurrent:
processes that share a directory and a `flock`, a pipe with a deadline, signals,
and asyncio tasks in the worker.  This directory specifies that behaviour,
model-checks it with TLC and proves the safety part of it with TLAPS.

## 1. The system

| Component | Code | State | Operations |
|---|---|---|---|
| session lock | `identity.py` | the file `session.lock`: its name, its flock, the pid in it | `acquire_session_lock`, `release_session_lock`, `verify_session` |
| session directory | `session.py` | `tunnel-data/` with `daemon.pid`, `tunnel-loss.json` and materialized files | `SessionDir.create`, `write_identity`, `write_tunnel_loss`, `release_lock_preserving_data`, `cleanup`, `stop_session`, `cleanup_path` |
| stop and status | `cli_stop.py` | none of their own | read the identity, verify, SIGTERM, grace poll, SIGKILL, delete |
| daemon handshake | `daemon.py`, `_worker.py` (`main`, `_run`) | a pipe for the schema, a pipe for one frame, a `Popen` handle | spawn, send, read up to the end of file or the deadline, terminate, kill |
| start and run | `cli.py`, `envrender.write_materialized_output` | the minted session root, signal handlers | dispatch on the frame, `output.json`, the child, the teardown |
| node startup | `manager.py`, `ssh.py`, `fetcher.py`, `kube.run_kube_targets` | `_runtimes`, a connection and listeners per node | `_start_one` per node, gather, `stop_all`, `close_transport` |
| supervision | `_worker.py` (`_supervise`, watchdogs) | `stop_event`, the list of losses, the record of losses | loss watchdogs, signal handlers, disposal |
| idle auto-stop | `activity.py`, `_idle_watchdog` | connection count, time of the last activity | tracker hooks, polls |
| atomic files | `session.py` (`atomic_write`, `materialize_atomic`), `fdio.py` | a temp file per process and name | open, write, fsync, replace, unlink |
| kubeconfig rewriting | `kube.py` | the live YAML document | parse, choose the TLS name, patch, rename |
| input, output, proxy | `cli_input.py`, `run_invocation.py`, `envrender.py`, `tofu_proxy.py`, `schemas.py`, `cli.py` | the environments that are handed on | choose the channel, validate, build the child's environment, read a command line |

How they interact.  The worker owns `session.lock` from `SessionDir.create` on
and everything below `tunnel-data/`; commands look at both without owning either.
The lock is probed by taking it, so probes disturb workers and one another.  The
parent and the worker meet in the frame: until it is read the parent owns the
`Popen` handle, after it only the pid in `daemon.pid` is left.  In the worker one
event loop runs the startup tasks, later the watchdogs, and the disposal.

What is hard about it: system calls of several processes on one path interleave;
a file can be unlinked between being opened and locked; a pid can be stale, a
zombie's, or somebody else's; either side of the handshake can die or be slow; the
lock is released before the data are deleted; asyncio delivers losses, stop
requests and cancellations in an order nobody chose; some exceptions pass the
handler that was meant for them.

What makes each part correct:

- lock: one owner at a time; the owner's pid stays in the file; a probe of a live
  owner answers `match`; a released pid is forgotten.
- directory: a session finds and leaves only its own files in it, until somebody
  else's late rmtree or mkdir gets in; a resolved stop means that the daemon gave
  the session up; where no pid is found nobody is up; a stop that signals ends the
  daemon.
- handshake: no `run` that ends by itself leaves its own daemon unmentioned; a
  timed out worker is reaped; a failed worker gives up what it held; the wait for
  an answer is bounded.
- startup: success is only reported when everything required is up, and what is up
  is what will be watched and stopped; a failed node holds nothing.
- supervision: a required loss ends the daemon and keeps its data, an optional one
  does not, a shutdown is never recorded as a loss.
- idle stop: the count is exact, the stop neither early nor late.
- atomic files: a reader sees a complete version; a temp file that is left, and the
  refusal it causes, go back to a crash or a failed unlink for that very file.
- kubeconfig: references follow the renaming, verification is not weakened, what is
  reported is what is in the file.
- invocation: one input is read, none is ignored; the payload stays behind; the
  child's kube variables are the session's; the proxy reads a command line as tofu
  does.

## 2. The modules

| Module | Models | Lines of it |
|---|---|---|
| `SessionLock` | every system call of the lock protocol, for workers and probes | 312 |
| `SessionDir` | the directory on top of `SessionLock` (EXTENDS it): create, disposal, `stop`, `status`, `run`'s teardown | 433 |
| `Handshake` | one `start` or `run` with its worker | 520 |
| `NodeStartup` | the tasks of `_start_all` and `_run` around them | 318 |
| `TunnelContract` | abstract: what a daemon promises about its connections | 61 |
| `Supervise` | `_supervise` as callbacks of the event loop; implements `TunnelContract` | 277 |
| `IdleStop` | trackers, counter and polls on a discrete clock | 184 |
| `AtomicFile` | abstract: a name holds nothing or one complete version | 30 |
| `AtomicWrite` | `atomic_write`, a reader and an rmtree by system calls; implements `AtomicFile` | 290 |
| `KubeConfig` | one fetched kubeconfig on its way through `kube.py` | 302 |
| `TofuArgs` | how `tofu_proxy.py` reads a command line, and the grammar it is compared with | 88 |
| `Invocation` | `start`, `run` and the proxy from the command line to the child's environment (EXTENDS `TofuArgs`) | 351 |
| `MC*` | instances for TLC, with symmetry where no liveness is checked | few |
| `*Proofs` | the theorems about the module of that name; `SessionProofs` is about `SessionLock` and `SessionDir` | - |

Definitions called "Mistake" in the modules are not part of any next-state
relation.  Each is a plausible bug in the definition that follows it; put in its
place it makes TLC report the property named for it in `PROJECT.json`, which shows
that the property depends on that line of the code.

### SessionLock

A worker goes `new - opened - checked - locked - truncated - held` by one system
call at a time and back through `unlinked` and `released`; a refused or failed one
ends.  `entry` is the inode the name `session.lock` refers to, `locker` the holder
of the flock on each inode, `recorded` the pid in it.  A process opens the file at
most once, so inodes and pids can both be named after workers.  `Die` is a crash
anywhere: the kernel drops the flock, the file stays.  A probe follows
`_process_exists`, `_check_lock`; signal 0 may answer for a zombie or a recycled
pid.  The history variable `raced` notes workers between whose fstat and flock a
release removed the name.

### SessionDir

`phase` is where a worker is in `main`/`_run`/`_supervise` as far as the directory
is concerned, `step` where a command is.  `data` names the worker whose
`tunnel-data/` is there; `pidFile` and `loss` are the files in it.  The lock steps
are `SessionLock`'s, conjoined.  `daemon.pid` is written in two steps (truncate,
write) since a crash between them is a case the code handles.  `shutil.rmtree` and
`atomic_write` are one step here, and taken apart in `AtomicWrite`.

Everything that deletes `tunnel-data/` or makes it is an action: besides `create`'s
own rmtree and mkdir, a `cleanup` after its lock is gone (`RemoveData`), a command's
`cleanup_path`, and the mkdir in `atomic_write`, which makes the directory again for
a node's file (`Materialize`), for the loss record (`Lose`, also of an optional
node, whose daemon goes on), for the parent's `output.json` (`WriteOutput`) and for
the last step of a node task that outlived its `_run` (`Leftover`).  The history
variable `disturbed` notes the workers that held the lock when a rmtree or mkdir on
somebody else's behalf changed the directory; a command that verified a daemon and
then deletes its directory does not disturb that daemon.  `OwnerUndisturbed` says
that these are all the ways in which a start is hindered or a session can lose its
directory, its pid or its own loss record; `LiveDataKept`, without that escape, is
what `cleanup_race` shows violated.

### Handshake

The parent's position is `cli`, the worker's `wkr`; `sent`, `frame`, `pipe` are
what is in the two pipes, `got` what `spawn_daemon` returned or raised.  `owner`,
`ident`, `data`, `root` are the lock, `daemon.pid`, `tunnel-data/` and the minted
root, each one step where `SessionDir` has several.  `big` says that the schema does
not fit into the pipe, so that `Send` waits for a worker that reads or is gone;
`tasks` that node tasks were left running by a `daemon_error`, the last of which may
make `tunnel-data/` again after the cleanup (`Leave`).  The directory may be supplied
and hold a foreign daemon, live or dead; a foreign daemon obeys a SIGTERM at once
(what it does then is `SessionDir`'s subject) and does not start during the
command (two workers racing for one directory are `SessionDir`'s, too).  A worker that is still alive but has unlinked `session.lock`
is "not found" to `stop_session`, which then sweeps.  A frame may be torn by a crash.  Left out: a SIGKILL whose effect can not be confirmed
(`worker_reaped` false) and a torn `daemon.pid`, which `SessionDir` has.

### NodeStartup

`pc[n]` is where node n's `_start_one` stands; what lies between two awaits is one
step.  `Lose` may happen at any time.  Which exceptions a stage can raise decides
where it goes: `closing` for those in `_NODE_STARTUP_ERRORS`, `raised` for any
other exception of a stage and for the
materializing that stands outside the try blocks, a warning for what
`run_kube_targets` catches per target.  `main` is `_run`: gather, `stop_all`, the
report with `session.cleanup()`, and the return, between which and the
cancellation by `asyncio.run` the remaining tasks get one more turn.  The contents
of files and certificates are one nondeterministic outcome each.

### Supervise and TunnelContract

The ready queue of asyncio matters only in one respect: which watchdogs run before
the woken supervisor.  `ahead` is that set, fixed when `stop_event` is set.
`TunnelContract` has none of this: connections go down, are reported, and the
daemon ends `preserved` or `deleted`.  `KeepsContract` is the refinement with
`down <- Down, reported <- losses, outcome <- Outcome`.

### IdleStop

The unit is a quarter of a second, the granularity of `timeout / 4`, so both arms
of `max(1.0, timeout / 4)` are exact.  `Jitter` bounds the lateness of a callback.
Connections come back after they closed (`MakeTracker`), hooks may be repeated.

### AtomicFile and AtomicWrite

`entry` maps each name below `tunnel-data/`, a temp name included, to an inode;
`written` counts the bytes in it.  A process is at one system call of `atomic_write`
(`pc`), any of which may fail, the unlink of its own temp file included (`stuck`
notes it), and may die at any of them (`crashed`); a later process may get
its pid, and with it the name of its temp file.  A reader keeps the inode it opened.
The sweep is `shutil.rmtree(ignore_errors=True)`: list, unlink one by one, rmdir; it
may come again, as a stop follows a worker's own cleanup.
`AtomicFile` knows none of this; a file that is not complete maps to no version of
it, so `KeepsPromise` fails as soon as a partial file has its final name.

### KubeConfig

A document is the three lists of entries of a kubeconfig, each with the values that
`kube.py` looks at, also those of the wrong type (`Odd`).  `Parse`, `Resolve`,
`Patch`, `Rename` are the calls of `run_kube_targets` on one target;
`rename_identities` may also be called on a document that nobody parsed (stage
`direct`), as its tests do.  `_find_named` takes the first entry of a name, which is
why names that occur twice matter.  `view` holds the positions that
`parse_kubeconfig` chose.  Entries that are one YAML node under several names
(aliases) are not in the model.

### TofuArgs and Invocation

A token stands for its class: one flag for all of `_PLAN_INPUT_VALUE_FLAGS`, one
command for all that need no tunnel.  `SubcommandIndex`, `HasPlanInput` are the
loops of the program as recursive functions; `Grammatical` and `PlanPositional` say
what they should compute without a loop, by the set of the tokens that are values.

`Invocation` is a sequence of decisions: `inv` is what the user gave, `pc` the
function that is next, `opts` the arguments of `_run_command`, `worker` and `child`
the environments that are handed on.  Of a value only its origin is kept, of a name
the words between its hyphens (two names that differ only in where one part ends
render to the same file).  `Launch` lets any of the targets have failed
(`Subsequences`: the others are left in their order).
What becomes of the worker is `Handshake`'s.

## 3. The runs

Runs that pass:

| Run | Instance | Shows |
|---|---|---|
| `lock` | 3 workers, 2 probes, symmetry | the lock properties, crashes included |
| `session_dir` | 2 workers, 1 command of any kind (5.5 million states) | the directory properties, `SignalledMeansEnded` |
| `handshake` | both verbs, both kinds of directory, schemas of both sizes, complete | the handshake properties, `FailureCleansUp`, `SpawnReturns`, `DeadlineBounds` |
| `node_startup` | 3 nodes (2 required, 1 optional), files, 2 kube targets on two of them | the startup properties, `StartupEnds` |
| `supervise` | 3 nodes, 2 required | the supervision properties, the contract |
| `idle` | 2 tracked, 1 untracked connection, 26 units | quiet and timely stop |
| `atomic_write` | 3 processes with 2 pids, one file of 2 bytes, a reader, sweeps | whole reads, leftovers explained, the refinement, `CallsReturn` |
| `kubeconfig` | every document of up to 2 contexts and clusters with 4 names; every malformed value; every certificate of up to 2 names | the renaming, the TLS decision, what is reported |
| `invocation` | every command line of up to 3 tokens (4 of the ones that interact), every combination of flags, channels and variables | the channel, the environments, the proxy's reading |

Why the bounds are enough.  The unlink race needs three workers (one that releases,
one on the nameless file, one on the new one) and the false match needs two probes;
a worker's life in the directory is touched by one predecessor or successor and by
one command (`MCTwoCommands.cfg` has two, the theorems any number); each worker
brings its own parent and its own leftover task.  In the handshake there is nothing
to bound: one command has one worker.  Node tasks interact through `_runtimes`, `gather` and the
directory only, so a required and an optional node with all features and one more
required node cover each pairing; two targets per node give the order "required
before optional" both ways.  In `idle`, a timeout of 2 s (8 units) at the 1 s floor
of the poll fits three times into the clock; the theorems hold for every timeout.
Two processes at once and one that reuses a pid are all that can meet on one temp file (a pid has one living process), two bytes give a
short write.  `MCAtomicRetry.cfg` has what a retry needs instead: two calls per
process, and a second file whose leftovers must not be taken for the first one's.
The renaming relates one reference to the first entry of a name, so two entries per list show sharing, repetition and order; the theorems hold for lists
of any length.  A flag and its value, a command and one more token make four.

The invariants of a pair that belong together are one property of a run:
`RecordFollowsLock`, `OwnerUndisturbed`, `LossKeepsData`, `NoDaemonLeft`,
`ReportIsTrue`, `FailureLeavesNothing`, `LeftoverExplained`, `OutputIsTrue`,
`ChildEnvSound`, `InputHonoured`, each with its parts above it in the module.  All
type invariants are proved; in a run is only `HsTypeOK`, which rules out that half a
frame is taken for a message.

Runs that end in a counterexample, each a disagreement of the code with something
the repository says about it:

| Run | The code | The text |
|---|---|---|
| `lock_unlink_race` | `release_session_lock` unlinks by name; a worker between fstat and flock ends up on a nameless file and a third owns the new one | design spec: both "open the same file and contend on one flock" |
| `cleanup_race` | the lock is released before the rmtree, which then deletes the successor's data | `SessionDir`: owns the directory "for one daemon instance" |
| `foreign_stopped` | a handshake that fails with a supplied directory leads to a teardown by the `daemon.pid` of the daemon that was there | `_run_command` avoids to "stop a daemon we do not own" |

Further configurations for the same modules, of narrower interest and not in the
list of `PROJECT.json`.  The first three pass, each of the others ends in a
counterexample to the one property it names:

| Configuration | Shows |
|---|---|
| `MCStopEnds.cfg` | `SignalledMeansEnded` as a liveness property, `StopEndsDaemon`: 2 workers and a `stop` (1.6 million states, some minutes) |
| `MCAtomicRetry.cfg` | `LeftoverExplained` for 2 processes of one pid with 2 files and 2 calls each (2.9 million states) |
| `MCTwoCommands.cfg` | two stops of one daemon in each other's way keep `ResolvedMeansGone` and `StopEndsDaemon` |
| `MCStaleTemp.cfg` | after a failed write, an unlink that fails with anything but ENOENT leaves the temp file (`atomic_write`: "The only way a stale temp survives is a hard crash") |
| `MCLockFalseMatch.cfg` | two probes of a dead session: one takes the other's flock for a daemon and answers `match` |
| `MCLockProbeBlocksStart.cfg` | a probe's flock makes a start fail with `SessionActive` though no daemon lives |
| `MCStopRace.cfg` | `stop` deletes `tunnel-data/` by path when a successor may own it |
| `MCIdleKube.cfg` | kube forwards have no tracker: the daemon stops under an open kube connection ("Active long-lived connections prevent shutdown.") |
| `MCFrameMeansClean.cfg` | `_run` reports a `daemon_error` before it cleans up ("released the session lock and removed its session dir before reporting") |
| `MCKubeTolerated.cfg` | an SFTP, forward or probe error of an optional target fails the node ("does not abort the others") |
| `MCIdleStartup.cfg` | the idle clock starts with the `TunnelManager`, not when the daemon is up |
| `MCEveryPath.cfg` | SIGTERM before the child or in the teardown kills `run` and leaves its daemon |
| `MCOutputDir.cfg` | the worker stops itself before the parent writes `output.json`, which makes `tunnel-data/` again |
| `MCLateWrite.cfg` | a node's task materializes a file after `session.cleanup()` has deleted the directory |

Deadlock is checked in `handshake` and `node_startup`, whose ends are explicit
stuttering steps; elsewhere every process may have ended, which is a legal stop.

## 4. Fairness

- `FairDirSpec`: a command that was begun is scheduled until it returns.  Workers
  promise nothing; `StopEndsDaemon` holds since SIGKILL needs no cooperation.  The
  listed run needs no fairness: `SignalledMeansEnded` says that the command does not
  return before its daemon is off the lock; a command has no loop but the bounded
  poll, so with fairness it does return.
- `Supervise!FairSpec`: the event loop runs what is ready, and `close_transport`
  waits for no peer (its listener drain has a timeout).
- `FairHsSpec`: the command is scheduled.  Nothing is assumed of `StartAll` (the
  network), of the child, of an idle stop, nor of the worker, which may be stopped
  for ever.  This is what the deadline is for: `DeadlineBounds` holds from the
  delivery of the schema on, or from the spawn on when the pipe buffers all of it.
  The write of a schema that the pipe does not hold has no deadline
  (`daemon.py:160`); that `spawn_daemon` returns from it too (`SpawnReturns`), and
  that a failed worker gives up what it held (`FailureCleansUp`), needs a worker
  that gets to run, and the two properties assume it (`WorkerScheduled`).
- `FairNsSpec`: each await of a task ends by its own timeout.  Two do not have one:
  the SFTP channel of `fetch_files` and the `wait_closed` of a missed kube target's
  listener.  While the connection lasts no fairness is assumed of a task in those
  stages, and `StartupEnds` names that wait as the one way not to end.
- `FairAwSpec`: a process inside `atomic_write` goes on with it or dies; that
  `os.write` makes progress or raises is `write_all`'s own test, and what
  `CallsReturn` is about.
- No liveness is claimed of acquiring the lock or of the idle stop; the latter's
  promptness is a bound on the clock, a safety property.

## 5. What is proved

All theorems hold for every value of the constants, from the named assumptions.

`SessionProofs`, the lock.  `IInv` says for each process which file its descriptor refers
to.  The heart is `OwnersAtEntry`: while no release has raced an acquire, every
worker past its fstat has open the file that the name refers to, so that the one
flock the kernel grants per file gives one owner (`LockExcludes`).  The checked
invariants alone are not inductive: they say nothing of a worker that is still on
its way to the lock.  Also `LockTypeCorrect`, `WinnerKeepsRecord`,
`ProbeConfirmsHolder`, `ReleaseForgets`.

`SessionProofs`, the directory.  Every step of the directory layer is a lock step or
leaves the lock alone (`StepRefinesLock`), so the lock's invariant carries over; to
it comes `CommandSound`, what a command under way knows of its target.  From there
`DirTypeCorrect`, `ResolvedStopMeansGone`.  `DataInv` says phase by phase what an
undisturbed owner finds in `tunnel-data/` (`OwnState`), and that a loss record is
nowhere without the directory (`LossNeedsData`), without which a start would not
know the directory it makes to be free of one.  A step of the owner follows its
phases (`DataWorker`); a step of anybody else that changes the directory disturbs
the owner (`DataDisturbed`) or is a cleanup aimed at it, which `CommandSound` and
`ResolvedMeansGone` allow only when it gave the session up.  That gives
`OwnerKeepsDir` and, because an undisturbed owner's `daemon.pid` is never absent
once it was opened, `PidlessMeansNobody`.  `SignalledStopEnds` puts the two layers
together: the second verification of a daemon that still holds the lock can only
answer `match` (`ProbesConfirm`), which leads to SIGKILL.

`SuperviseProofs`.  The invariant connects each watchdog's state with its connection
(`TaskInv`), the reason for stopping (`StopInv`), what is on disk (`DiskInv`) and,
for the race of a loss with a stop request, that a required connection that dropped
in time is noted before the supervisor resumes (`TimeInv`, by the order of the
ready queue).  From there the invariants of the run,
`NoLossIsFalse` and `SuperviseKeepsContract`: initial states map to initial ones and steps to steps or
stutters.

`IdleStopProofs`.  The invariant bounds the next wake-up by one interval from now
and, while nothing is open, from the instant the timeout is up: `CounterIsExact`,
`AutoStopIsQuiet`, `AutoStopIsPrompt`, for every timeout, jitter and finite set of
connections.

`NodeStartupProofs`.  `NsInv` adds to the checked invariants that listeners need an
open connection (`ListenInv`), how far each task is (`TaskInv`: a required target
has its forward or is still to do, unless the node is short of something) and what
each stage of `_run` says of all tasks (`MainInv`).  From there `StartupTypeCorrect`,
`ReportCorrect` and `FailureIsClosed`.

`AtomicWriteProofs`.  `AwInv`: two processes of one pid are never in a call together
(`PidInv`); the inode of a call is nobody else's, and what is written and what is
left of it are a file (`CallInv`); only published inodes, which are complete, have
final names (`NameInv`).  A spoiler stays one (`SpoilersStay`), so that what
`LeftoverExplained` says of the temp files survives retries, sweeps and the reuse of
a pid; it is inductive together with `PidInv`, by which a call's temp file is not
also somebody else's (`TempStep`, `BlockedStep`): `LeftoverIsExplained`.
`WriteIsAtomic` is the refinement
of `AtomicFile`: the replace publishes, an unlink of a final name removes, every
other step stutters.

`KubeConfigProofs`.  Three facts carry it: `_find_named` finds at most one entry; a
patch changes no name; and the guard of `rename_identities` makes the new name new
in each list, so that after the renaming exactly one entry of each has it.
`ViewInv` and `TlsInv` say what the stages know of the entries that were chosen.
`EveryReferenceFollows`, `IdentityIsOne`, `OnlyCollisionRefused`,
`VerificationKept` and `OutputMatchesFile` hold for documents of any length.

`HandshakeProofs`.  `HsInv` says what the state of each of the two processes implies
about what they share.  `LockInv`: in which stages our worker has the lock.
`AnswerInv`: how far the answer got; the pipe is whole before a daemon goes on to
serve, and `spawn_daemon` returns what is in it.  `FilesInv`: whose identity and data
the directory holds while the command still reads and once a daemon serves.
`TeardownInv`: while a teardown is after a victim, no other daemon can be up, which
is what makes its sweep safe.  None of the checked invariants is inductive without
these: that a `run` leaves no daemon rests on the worker's dying of a broken pipe
when the reader is gone, three steps earlier.  There is one lemma per part and in
it one step per action: `NobodyLeftBehind`, `ServingDaemonKeepsDir`,
`AnswerSparesForeign`, `HandshakeTypeCorrect`.  The only constant of the module is
`None`, so that the run explores all of its state space; the proof gives the reason.

`InvocationProofs`.  `OptsInv` says whose options they are, `SchemaInv` which of the
three channels the schema is from and what that channel had ruled out, `ChildInv`
that the child's environment is one expression of the shell's.  Name by name
(`ChildOf`) that gives `SecretStaysBehind` and `ChildEnvCorrect`, for every set of
invocations and variables; also `InputIsHonoured`, `ProxyKeepsArgv`.

What the proxy's scans find is proved by induction, for command lines of any length.
The induction theorems of the library take a predicate for a parameter, which the
provers cannot instantiate; `WFMin`, that a set has a minimal element in a
well-founded relation, takes a set, and `Upwards` and `Downwards` follow from it.
With them: the recursive functions exist (`ScanExists`), the grammar's set of values
exists (`ValuesExist`), and from each token the scan reaches it finds what the
grammar says (`SubcommandIsGrammatical`, `PlanInputIsPositional`); at most one token
is the subcommand (`GrammaticalUnique`).  `ParserInv` carries the verdict to the
states in which it counts: `BypassCorrect`, `PlanWarningCorrect`.  `FilesInv` says
that an accepted schema has no two targets of one file name and that what is
exported belongs to a subsequence of its targets (`SubsequenceDistinct`):
`FilesDistinct`.

Every invariant and action property that a passing run checks is a theorem.  Only model-checked: every liveness
property (`StopEndsDaemon`, `RequiredLossTerminates`, `StartupEnds`, `CallsReturn`,
`FailureCleansUp`, `SpawnReturns`, `DeadlineBounds`) and the fairness part of `KeepsContract`: TLAPS
does not prove liveness here.

## 6. What is not modelled

- Texts: help, logging, JSON projections, the quoting of `--output env`, the YAML
  that is dumped.  YAML aliases, by which two entries of a kubeconfig share a body.
- Validators of a single value (ports, endpoints, timeouts, paths) and exit codes:
  in `Invocation` each is the refusal of its function, with no state behind it.
- The checks of ownership and mode of a supplied root (`_secure_supplied_root`) and
  of a materialized path: refusals before anything is written.
- asyncssh, the kernel's flock and the network: external, modelled by what the code
  relies on (a lost connection closes its listeners; the last close drops a flock).

## 7. Observations

Met while modelling; no text of the repository is contradicted in the first four, so
they are not among the runs.

- `start` with its input on stdin accepts the daemon flags (`--auto-stop-idle-seconds` and
  so on) and ignores them; `NoFlagIgnored` names the exception.
- `start --output env` exports no `unset`: a `KUBE_CONFIG_PATH` inherited by the
  shell survives next to the session's `KUBE_CONFIG_PATHS`, which `run` rules out.
- A dangling reference to the reserved name is resolved by the renaming
  (`ReferencesFollow` names the exception).
- `_saved_plan_warning` is silent as soon as `--` occurs anywhere after the command.
- README.md:209 says that the connection's host becomes the node key;
  `build_flag_schema` always uses `node`.

## 8. State of the plan

Done: all of the modules planned, and proofs of all their invariants.  What could
still be added: a composition of `Handshake` with the several steps that
`SessionDir` gives its directory, and a model of YAML aliases.
