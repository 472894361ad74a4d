--------------------------- MODULE SessionProofs ---------------------------
(***************************************************************************)
(* Proofs about SessionLock and, on top of it, SessionDir, for any number  *)
(* of workers, probes and commands.                                        *)
(*                                                                         *)
(* The lock.  The inductive invariant IInv says where each process's       *)
(* descriptor points.  Its heart is OwnersAtEntry: as long as no release   *)
(* has removed the name between another worker's fstat and its flock,      *)
(* every worker past fstat has open the very file that session.lock names, *)
(* so the kernel's one flock per file gives one owner.                     *)
(*                                                                         *)
(* The directory.  Every step of SessionDir is a step of SessionLock or    *)
(* leaves the lock alone, so IInv carries over.  On top of it CommandSound *)
(* says what a command under way knows of its target; a published pid      *)
(* stays published, and a worker that gave the session up never owns it    *)
(* again.  DataInv says what an undisturbed owner finds in tunnel-data/ at *)
(* each step of its start: it needs the one owner of IInv, and that the    *)
(* target of a command about to delete owns nothing (ResolvedMeansGone).   *)
(***************************************************************************)
EXTENDS SessionDir, TLAPS

\* Only files that some worker created exist: entry, descriptors and records
\* refer to no other.
FilesExist ==
    /\ \A w \in Workers : ino[w] = None <=> stage[w] = "new"
    /\ \A w \in Workers : ino[w] # None => stage[ino[w]] # "new"
    /\ entry # None => stage[entry] # "new"
    /\ \A i \in Workers : recorded[i] # None => stage[i] # "new"

\* A pid is recorded in the file its worker locked, after it published it.
RecordsAreOwn ==
    \A i \in Workers : recorded[i] # None => /\ ino[recorded[i]] = i
                                             /\ Published(recorded[i])

\* A worker that released the lock has left its file nameless.
GaveUpNameless == \A w \in Workers : stage[w] \in GaveUp => ino[w] # entry

OwnersHoldFlock ==
    \A w \in Workers :
        stage[w] \in Owning \cup {"unlinked"} => locker[ino[w]] = w

HeldIsRecorded == \A w \in Workers : stage[w] = "held" => recorded[ino[w]] = w

OwnersAtEntry ==
    raced = {} => \A w \in Workers :
                      stage[w] \in Owning \cup {"checked"} => ino[w] = entry

\* What a probe under way knows.
ProbesSound ==
    \A p \in Probes :
        /\ pstage[p] # "idle" => ppid[p] # None /\ Published(ppid[p])
        /\ pstage[p] \in {"opened", "blocked", "won"} => pfd[p] # None
        /\ pstage[p] = "won" => locker[pfd[p]] = p

\* A probe of a daemon that is still there is on the way to `match`.
ProbesConfirm ==
    raced = {} => \A p \in Probes :
        pstage[p] # "idle" /\ stage[ppid[p]] = "held" =>
            /\ pstage[p] # "won"
            /\ pstage[p] \in {"opened", "blocked"} => pfd[p] = entry
            /\ pstage[p] = "done" => verdict[p] = "match"

IInv ==
    /\ TypeOK
    /\ FilesExist
    /\ RecordsAreOwn
    /\ GaveUpNameless
    /\ OwnersHoldFlock
    /\ HeldIsRecorded
    /\ OwnersAtEntry
    /\ ProbesSound
    /\ ProbesConfirm

-----------------------------------------------------------------------------
\* The type invariant is inductive by itself.
LEMMA TypeStep == TypeOK /\ [Next]_vars => TypeOK'
<1> SUFFICES ASSUME TypeOK, [Next]_vars PROVE TypeOK' OBVIOUS
<1> USE DEF TypeOK, Stages, Verdicts, lockVars, probeVars
<1>1. ASSUME NEW w \in Workers, WorkerNext(w) PROVE TypeOK'
  BY <1>1 DEF WorkerNext, Open, Fstat, Flock, Truncate, Record, Unlink, Close,
              Die, FreedBy, Owning, GaveUp
<1>2. ASSUME NEW p \in Probes, ProbeNext(p) PROVE TypeOK'
  <2>1. ASSUME NEW w \in Workers, ProcessExists(p, w) PROVE TypeOK'
    BY <2>1 DEF ProcessExists, Answer, Owning
  <2>2. CASE IsFile(p) \/ ProbeOpen(p) \/ ReadPid(p)
    BY <2>2 DEF IsFile, ProbeOpen, ReadPid, Answer
  <2>3. CASE ProbeFlock(p)
    BY <2>3 DEF ProbeFlock
  <2>4. CASE ProbeUnlock(p) \/ ProbeDone(p)
    BY <2>4 DEF ProbeUnlock, ProbeDone, Answer
  <2> QED BY <1>2, <2>1, <2>2, <2>3, <2>4 DEF ProbeNext
<1>3. CASE UNCHANGED vars
  BY <1>3 DEF vars
<1> QED BY <1>1, <1>2, <1>3 DEF Next

\* Every step of a worker preserves the invariant.
LEMMA WorkerStep ==
    ASSUME IInv, NEW w \in Workers, WorkerNext(w), TypeOK'
    PROVE  IInv'
<1> USE LockAssumption DEF IInv, TypeOK, Stages, Owning, GaveUp, Published,
                           lockVars, probeVars
<1>1. CASE Open(w)
  <2> USE <1>1 DEF Open
  <2>1. FilesExist'
    BY DEF FilesExist
  <2>2. GaveUpNameless'
    BY DEF GaveUpNameless, FilesExist
  <2>3. OwnersAtEntry'
    BY DEF OwnersAtEntry, FilesExist
  <2>4. OwnersHoldFlock'
    BY DEF OwnersHoldFlock
  <2>5. ProbesConfirm'
    BY DEF ProbesConfirm, ProbesSound, FilesExist, GaveUpNameless, OwnersAtEntry
  <2> QED
    BY <2>1, <2>2, <2>3, <2>4, <2>5 DEF RecordsAreOwn, HeldIsRecorded, ProbesSound
<1>2. CASE Fstat(w)
  <2> USE <1>2 DEF Fstat
  <2>1. OwnersAtEntry'
    BY DEF OwnersAtEntry
  <2>2. ProbesConfirm'
    BY DEF ProbesConfirm
  <2> QED
    BY <2>1, <2>2 DEF FilesExist, RecordsAreOwn, GaveUpNameless, OwnersHoldFlock, HeldIsRecorded, ProbesSound
<1>3. CASE Flock(w)
  <2> USE <1>3 DEF Flock
  <2>1. OwnersHoldFlock'
    BY DEF OwnersHoldFlock, FilesExist
  <2>2. OwnersAtEntry'
    BY DEF OwnersAtEntry
  <2>3. ProbesSound'
    BY DEF ProbesSound, FilesExist
  <2>4. ProbesConfirm'
    BY DEF ProbesConfirm, ProbesSound
  <2> QED
    BY <2>1, <2>2, <2>3, <2>4 DEF FilesExist, RecordsAreOwn, GaveUpNameless, HeldIsRecorded
<1>4. CASE Truncate(w)
  <2> USE <1>4 DEF Truncate
  <2>1. FilesExist'
    BY DEF FilesExist
  <2>2. RecordsAreOwn'
    BY DEF RecordsAreOwn
  <2>3. HeldIsRecorded'
    BY DEF HeldIsRecorded, OwnersHoldFlock
  <2>4. ProbesConfirm'
    BY DEF ProbesConfirm, ProbesSound
  <2> QED
    BY <2>1, <2>2, <2>3, <2>4 DEF GaveUpNameless, OwnersHoldFlock, OwnersAtEntry, ProbesSound
<1>5. CASE Record(w)
  <2> USE <1>5 DEF Record
  <2>1. FilesExist'
    BY DEF FilesExist
  <2>2. RecordsAreOwn'
    BY DEF RecordsAreOwn, HeldIsRecorded
  <2>3. HeldIsRecorded'
    BY DEF HeldIsRecorded, OwnersHoldFlock
  <2>4. ProbesConfirm'
    BY DEF ProbesConfirm, ProbesSound
  <2> QED
    BY <2>1, <2>2, <2>3, <2>4 DEF GaveUpNameless, OwnersHoldFlock, OwnersAtEntry, ProbesSound
<1>6. CASE Unlink(w)
  <2> USE <1>6 DEF Unlink
  <2>1. FilesExist'
    BY DEF FilesExist
  <2>2. GaveUpNameless'
    BY DEF GaveUpNameless, FilesExist
  <2>3. OwnersAtEntry'
    BY DEF OwnersAtEntry, OwnersHoldFlock
  <2>4. ProbesConfirm'
    BY DEF ProbesConfirm, OwnersAtEntry, OwnersHoldFlock, ProbesSound
  <2> QED
    BY <2>1, <2>2, <2>3, <2>4 DEF RecordsAreOwn, OwnersHoldFlock, HeldIsRecorded, ProbesSound
<1>7. CASE Close(w)
  <2> USE <1>7 DEF Close
  <2>1. OwnersHoldFlock'
    BY DEF OwnersHoldFlock, FreedBy, FilesExist
  <2>2. ProbesSound'
    BY DEF ProbesSound, FreedBy
  <2> QED
    BY <2>1, <2>2 DEF FilesExist, RecordsAreOwn, GaveUpNameless, HeldIsRecorded, OwnersAtEntry, ProbesConfirm
<1>8. CASE Die(w)
  <2> USE <1>8 DEF Die
  <2>1. RecordsAreOwn'
    BY DEF RecordsAreOwn
  <2>2. GaveUpNameless'
    BY DEF GaveUpNameless
  <2>3. OwnersHoldFlock'
    BY DEF OwnersHoldFlock, FreedBy, FilesExist
  <2>4. ProbesSound'
    BY DEF ProbesSound, FreedBy
  <2> QED
    BY <2>1, <2>2, <2>3, <2>4 DEF FilesExist, HeldIsRecorded, OwnersAtEntry, ProbesConfirm
<1> QED BY <1>1, <1>2, <1>3, <1>4, <1>5, <1>6, <1>7, <1>8 DEF WorkerNext

\* Every step of a probe preserves the invariant.
LEMMA ProbeStep ==
    ASSUME IInv, NEW p \in Probes, ProbeNext(p), TypeOK'
    PROVE  IInv'
<1> USE LockAssumption DEF IInv, TypeOK, Stages, Owning, GaveUp, Published,
                           lockVars, probeVars, Answer
<1>1. ASSUME NEW w \in Workers, ProcessExists(p, w) PROVE IInv'
  <2> USE <1>1 DEF ProcessExists
  <2>1. ProbesSound'
    BY DEF ProbesSound
  <2>2. ProbesConfirm'
    <3>1. stage[w] = "held" => pstage'[p] = "exists"
      BY DEF ExistsAnswers, Ended
    <3> QED BY <3>1 DEF ProbesConfirm
  <2> QED
    BY <2>1, <2>2 DEF FilesExist, RecordsAreOwn, GaveUpNameless, OwnersHoldFlock, HeldIsRecorded, OwnersAtEntry
<1>2. CASE IsFile(p)
  <2> USE <1>2 DEF IsFile
  <2>1. ProbesConfirm'
    BY DEF ProbesConfirm, OwnersAtEntry, FilesExist, ProbesSound
  <2> QED
    BY <2>1 DEF FilesExist, RecordsAreOwn, GaveUpNameless, OwnersHoldFlock, HeldIsRecorded, OwnersAtEntry, ProbesSound
<1>3. CASE ProbeOpen(p)
  <2> USE <1>3 DEF ProbeOpen
  <2>1. ProbesSound'
    BY DEF ProbesSound
  <2>2. ProbesConfirm'
    BY DEF ProbesConfirm, OwnersAtEntry, FilesExist, ProbesSound
  <2> QED
    BY <2>1, <2>2 DEF FilesExist, RecordsAreOwn, GaveUpNameless, OwnersHoldFlock, HeldIsRecorded, OwnersAtEntry
<1>4. CASE ProbeFlock(p)
  <2> USE <1>4 DEF ProbeFlock
  <2>1. OwnersHoldFlock'
    BY DEF OwnersHoldFlock, FilesExist
  <2>2. ProbesSound'
    BY DEF ProbesSound
  <2>3. ProbesConfirm'
    BY DEF ProbesConfirm, OwnersAtEntry, OwnersHoldFlock, ProbesSound
  <2> QED
    BY <2>1, <2>2, <2>3 DEF FilesExist, RecordsAreOwn, GaveUpNameless, HeldIsRecorded, OwnersAtEntry
<1>5. CASE ReadPid(p)
  <2> USE <1>5 DEF ReadPid
  <2>1. ProbesConfirm'
    BY DEF ProbesConfirm, OwnersAtEntry, HeldIsRecorded, ProbesSound, FilesExist
  <2> QED
    BY <2>1 DEF FilesExist, RecordsAreOwn, GaveUpNameless, OwnersHoldFlock, HeldIsRecorded, OwnersAtEntry, ProbesSound
<1>6. CASE ProbeUnlock(p)
  <2> USE <1>6 DEF ProbeUnlock
  <2>1. OwnersHoldFlock'
    BY DEF OwnersHoldFlock, ProbesSound
  <2>2. ProbesSound'
    BY DEF ProbesSound
  <2>3. ProbesConfirm'
    BY DEF ProbesConfirm
  <2> QED
    BY <2>1, <2>2, <2>3 DEF FilesExist, RecordsAreOwn, GaveUpNameless, HeldIsRecorded, OwnersAtEntry
<1>7. CASE ProbeDone(p)
  <2> USE <1>7 DEF ProbeDone
  <2>1. ProbesSound'
    BY DEF ProbesSound
  <2>2. ProbesConfirm'
    BY DEF ProbesConfirm
  <2> QED
    BY <2>1, <2>2 DEF FilesExist, RecordsAreOwn, GaveUpNameless, OwnersHoldFlock, HeldIsRecorded, OwnersAtEntry
<1> QED BY <1>1, <1>2, <1>3, <1>4, <1>5, <1>6, <1>7 DEF ProbeNext

LEMMA InitInv == Init => IInv
BY LockAssumption
   DEF Init, IInv, TypeOK, FilesExist, RecordsAreOwn, GaveUpNameless,
       OwnersHoldFlock, HeldIsRecorded, OwnersAtEntry, ProbesSound,
       ProbesConfirm, Stages, Owning, GaveUp, Published

LEMMA InvStep == IInv /\ [Next]_vars => IInv'
<1> SUFFICES ASSUME IInv, [Next]_vars PROVE IInv' OBVIOUS
<1>1. TypeOK' BY TypeStep DEF IInv
<1>2. ASSUME NEW w \in Workers, WorkerNext(w) PROVE IInv'
  BY <1>1, <1>2, WorkerStep
<1>3. ASSUME NEW p \in Probes, ProbeNext(p) PROVE IInv'
  BY <1>1, <1>3, ProbeStep
<1>4. CASE UNCHANGED vars
  BY <1>4 DEF vars, lockVars, probeVars, IInv, TypeOK, FilesExist,
      RecordsAreOwn, GaveUpNameless, OwnersHoldFlock, HeldIsRecorded,
      OwnersAtEntry, ProbesSound, ProbesConfirm, Published
<1> QED BY <1>2, <1>3, <1>4 DEF Next

LEMMA Invariance == Spec => []IInv
BY InitInv, InvStep, PTL DEF Spec

-----------------------------------------------------------------------------
\* The variables keep the kinds of value the model gives them, for every
\* number of workers and probes.
THEOREM LockTypeCorrect == Spec => []TypeOK
<1>1. IInv => TypeOK BY DEF IInv
<1> QED BY <1>1, Invariance, PTL

\* acquire_session_lock truncates and writes only a file it has locked, so no
\* racer and no probe takes the flock or the recorded pid from a daemon.
THEOREM WinnerKeepsRecord == Spec => []WinnerRecorded
<1>1. IInv => WinnerRecorded
  BY DEF IInv, WinnerRecorded, OwnersHoldFlock, HeldIsRecorded, Owning
<1> QED BY <1>1, Invariance, PTL

\* Two workers own the session only after a release removed session.lock
\* between another worker's fstat and its flock; nothing else breaks the lock.
THEOREM LockExcludes == Spec => []ExclusionUnlessRaced
<1>1. IInv => ExclusionUnlessRaced
  BY DEF IInv, ExclusionUnlessRaced, Exclusion, OwnersHoldFlock,
         OwnersAtEntry, Owning
<1> QED BY <1>1, Invariance, PTL

\* verify_session answers `match` about a daemon that still holds the session
\* when the answer is given, under the same condition.
THEOREM ProbeConfirmsHolder == Spec => []HolderIsConfirmed
<1>1. IInv => HolderIsConfirmed
  BY DEF IInv, TypeOK, HolderIsConfirmed, ProbesConfirm
<1> QED BY <1>1, Invariance, PTL

\* A pid whose worker released the session is not what session.lock records.
THEOREM ReleaseForgets == Spec => []ReleasedPidIsForgotten
<1>1. IInv => ReleasedPidIsForgotten
  BY DEF IInv, TypeOK, ReleasedPidIsForgotten, RecordsAreOwn, GaveUpNameless
<1> QED BY <1>1, Invariance, PTL

\* The pid in session.lock follows the lock, for any set of processes.
THEOREM RecordedIsHolder == Spec => []RecordFollowsLock
BY WinnerKeepsRecord, ReleaseForgets, PTL DEF RecordFollowsLock

-----------------------------------------------------------------------------
(* The session directory.                                                  *)

\* What read_identity handed to a command, and what its verify_session asks.
Knows(p) ==
    /\ target[p] # None => Published(target[p])
    /\ step[p] \notin {"idle", "cleanup"} => target[p] # None
    /\ step[p] = "idle" => target[p] = None
    /\ step[p] \notin {"verify", "verify again"} => pstage[p] = "idle"
    /\ pstage[p] # "idle" => ppid[p] = target[p]

CommandSound ==
    /\ pidFile \in Workers => Published(pidFile)
    /\ \A p \in Probes : Knows(p)

DirInv ==
    /\ IInv
    /\ DirTypeOK
    /\ CommandSound
    /\ ResolvedMeansGone

-----------------------------------------------------------------------------
\* Each step of the directory layer is a step of the lock, or none.
LEMMA StepRefinesLock ==
    ASSUME DirTypeOK, CommandSound, [DirNext]_allVars
    PROVE  [Next]_vars
<1> USE DEF Next, WorkerNext, ProbeNext
<1>1. ASSUME NEW w \in Workers, WorkerAlive(w) PROVE [Next]_vars
  BY <1>1 DEF WorkerAlive, Acquire, FindSlot, Wipe, MakeData, OpenPidFile,
              WritePidFile, Materialize, Started, WriteOutput, AskToStop, Lose,
              Dispose, Release, RemoveData, Leftover
<1>2. ASSUME NEW w \in Workers, Exit(w) PROVE [Next]_vars
  BY <1>2 DEF Exit
<1>3. ASSUME NEW p \in Probes, Command(p) PROVE [Next]_vars
  <2>1. CASE Verify(p) \/ Conclude(p)
    BY <2>1 DEF Verify, Conclude
  <2>2. CASE SigTerm(p) \/ SigKill(p)
    <3>1. target[p] \in Workers
      BY <2>2 DEF SigTerm, SigKill, CommandSound, Knows, DirTypeOK
    <3> QED BY <2>2, <3>1 DEF SigTerm, SigKill
  <2>3. CASE ReadIdentity(p) \/ Poll(p) \/ CleanupPath(p)
    BY <2>3 DEF ReadIdentity, Poll, CleanupPath
  <2> QED BY <1>3, <2>1, <2>2, <2>3 DEF Command
<1>4. CASE UNCHANGED allVars
  BY <1>4 DEF allVars
<1> QED BY <1>1, <1>2, <1>3, <1>4 DEF DirNext

\* No step takes a pid back, gives a session back to a worker that left it, or
\* forgets a race.
LEMMA LockMonotone ==
    ASSUME IInv, [Next]_vars
    PROVE  /\ raced \subseteq raced'
           /\ \A w \in Workers : Published(w) =>
                 /\ Published(w)'
                 /\ stage[w] \notin Owning => stage'[w] \notin Owning
<1> USE DEF IInv, TypeOK, Published, Owning, GaveUp, lockVars, probeVars
<1>1. ASSUME NEW v \in Workers, WorkerNext(v)
      PROVE  /\ raced \subseteq raced'
             /\ \A w \in Workers : Published(w) =>
                   /\ Published(w)'
                   /\ stage[w] \notin Owning => stage'[w] \notin Owning
  BY <1>1 DEF WorkerNext, Open, Fstat, Flock, Truncate, Record, Unlink, Close, Die
<1>2. ASSUME NEW p \in Probes, ProbeNext(p)
      PROVE  UNCHANGED <<stage, raced>>
  BY <1>2 DEF ProbeNext, ProcessExists, IsFile, ProbeOpen, ProbeFlock,
              ReadPid, ProbeUnlock, ProbeDone
<1>3. CASE UNCHANGED vars
  BY <1>3 DEF vars
<1> QED BY <1>1, <1>2, <1>3 DEF Next

-----------------------------------------------------------------------------
\* The type invariant of the directory layer.
LEMMA DirTypeStep ==
    ASSUME DirTypeOK, CommandSound, TypeOK', [DirNext]_allVars
    PROVE  DirTypeOK'
<1> USE DEF DirTypeOK, Phases, cliVars, dataVars, ownVars, workerVars, dirVars,
            Enter, Goto, Finish, DeleteData, MkdirFor, Disturb, Holding
<1>1. ASSUME NEW w \in Workers, WorkerAlive(w) PROVE DirTypeOK'
  <2>1. CASE Acquire(w) \/ Release(w) BY <2>1 DEF Acquire, Release
  <2>2. CASE FindSlot(w) \/ Wipe(w) \/ MakeData(w)
    BY <2>2 DEF FindSlot, Wipe, MakeData
  <2>3. CASE OpenPidFile(w) \/ WritePidFile(w) BY <2>3 DEF OpenPidFile, WritePidFile
  <2>4. CASE Started(w) \/ AskToStop(w) \/ Dispose(w)
    BY <2>4 DEF Started, AskToStop, Dispose
  <2>5. CASE Lose(w) \/ RemoveData(w) BY <2>5 DEF Lose, RemoveData
  <2>6. CASE Materialize(w) \/ WriteOutput(w) \/ Leftover(w)
    BY <2>6 DEF Materialize, WriteOutput, Leftover
  <2> QED BY <1>1, <2>1, <2>2, <2>3, <2>4, <2>5, <2>6 DEF WorkerAlive
<1>2. ASSUME NEW w \in Workers, Exit(w) PROVE DirTypeOK'
  BY <1>2 DEF Exit
<1>3. ASSUME NEW p \in Probes, Command(p) PROVE DirTypeOK'
  <2>1. CASE ReadIdentity(p)
    <3>1. UNCHANGED <<dataVars, workerVars>> BY <2>1 DEF ReadIdentity
    <3>2. verb' \in [Probes -> Verbs \cup {None}] BY <2>1 DEF ReadIdentity
    <3>3. target' \in [Probes -> Workers \cup {None}] BY <2>1 DEF ReadIdentity
    <3>4. step' = [step EXCEPT ![p] = "verify"] \/ step' = [step EXCEPT ![p] = "cleanup"]
      BY <2>1 DEF ReadIdentity
    <3> QED BY <3>1, <3>2, <3>3, <3>4
  <2>2. CASE Verify(p) \/ Conclude(p) BY <2>2 DEF Verify, Conclude
  <2>3. CASE SigTerm(p) BY <2>3 DEF SigTerm
  <2>4. CASE Poll(p) \/ SigKill(p) BY <2>4 DEF Poll, SigKill
  <2>5. CASE CleanupPath(p) BY <2>5 DEF CleanupPath
  <2> QED BY <1>3, <2>1, <2>2, <2>3, <2>4, <2>5 DEF Command
<1>4. CASE UNCHANGED allVars
  BY <1>4 DEF allVars
<1> QED BY <1>1, <1>2, <1>3, <1>4 DEF DirNext

\* A worker's step leaves the commands alone and publishes only its own pid.
LEMMA WorkerCommandSound ==
    ASSUME DirInv, NEW w \in Workers, WorkerAlive(w) \/ Exit(w),
           \A v \in Workers : Published(v) => Published(v)'
    PROVE  CommandSound' /\ UNCHANGED <<step, target, pstage, ppid>>
<1> USE DEF DirInv, CommandSound, Knows, DirTypeOK
<1>1. UNCHANGED <<step, target, pstage, ppid>>
  BY DEF WorkerAlive, Acquire, FindSlot, Wipe, MakeData, OpenPidFile,
         WritePidFile, Materialize, Started, WriteOutput, AskToStop, Lose,
         Dispose, Release, RemoveData, Leftover, Exit, Open, Fstat, Flock, Truncate, Record, Unlink, Close,
         Die, vars, probeVars, dirVars, cliVars
<1>2. pidFile' \in Workers => pidFile' = pidFile \/ (pidFile' = w /\ Published(w))
  <2> HIDE DEF DirInv, CommandSound, Knows, DirTypeOK
  <2> USE DirAssumption, LockAssumption
      DEF dirVars, dataVars, DeleteData, MkdirFor, Published
  <2>1. CASE Acquire(w) \/ Release(w) \/ Exit(w) BY <2>1 DEF Acquire, Release, Exit
  <2>2. CASE FindSlot(w) \/ Wipe(w) \/ MakeData(w) BY <2>2 DEF FindSlot, Wipe, MakeData
  <2>3. CASE OpenPidFile(w) \/ WritePidFile(w) BY <2>3 DEF OpenPidFile, WritePidFile
  <2>4. CASE Started(w) \/ AskToStop(w) \/ Lose(w) \/ Dispose(w)
    BY <2>4 DEF Started, AskToStop, Lose, Dispose
  <2>5. CASE RemoveData(w) BY <2>5 DEF RemoveData
  <2>6. CASE Materialize(w) \/ WriteOutput(w) \/ Leftover(w)
    BY <2>6 DEF Materialize, WriteOutput, Leftover
  <2> QED BY <2>1, <2>2, <2>3, <2>4, <2>5, <2>6 DEF WorkerAlive
<1> QED BY <1>1, <1>2, LockAssumption

\* A step of one probe says nothing about another.
LEMMA ProbeLocal ==
    ASSUME TypeOK, NEW p \in Probes, ProbeNext(p)
    PROVE  \A q \in Probes \ {p} : pstage'[q] = pstage[q] /\ ppid'[q] = ppid[q]
<1> USE DEF TypeOK
<1>1. CASE \E w \in Workers : ProcessExists(p, w)
  BY <1>1 DEF ProcessExists, Answer
<1>2. CASE IsFile(p) \/ ProbeOpen(p) \/ ReadPid(p)
  BY <1>2 DEF IsFile, ProbeOpen, ReadPid, Answer
<1>3. CASE ProbeFlock(p) \/ ProbeUnlock(p) \/ ProbeDone(p)
  BY <1>3 DEF ProbeFlock, ProbeUnlock, ProbeDone, Answer
<1> QED BY <1>1, <1>2, <1>3 DEF ProbeNext

\* A command's own steps keep what it knows.
LEMMA CommandCommandSound ==
    ASSUME DirInv, NEW p \in Probes, Command(p),
           \A v \in Workers : Published(v) => Published(v)'
    PROVE  CommandSound'
<1> USE LockAssumption
<1>1. CommandSound /\ DirTypeOK /\ TypeOK BY DEF DirInv, DirTypeOK
<1> DEFINE Kept(q) == /\ target'[q] = target[q] /\ step'[q] = step[q]
                      /\ pstage'[q] = pstage[q] /\ ppid'[q] = ppid[q]
\* What is left to show of a step: it writes no pid, and p still knows.
<1>2. ASSUME pidFile' \in {pidFile, None}, \A q \in Probes \ {p} : Kept(q), Knows(p)'
      PROVE  CommandSound'
  <2>1. ASSUME NEW q \in Probes \ {p} PROVE Knows(q)'
    <3>1. Knows(q) /\ Kept(q) BY <1>1, <1>2 DEF CommandSound
    <3>2. target[q] \in Workers \cup {None} BY <1>1 DEF DirTypeOK
    <3> QED BY <3>1, <3>2 DEF Knows
  <2>2. pidFile' \in Workers => Published(pidFile)'
    BY <1>1, <1>2 DEF CommandSound, Published
  <2> QED BY <1>2, <2>1, <2>2 DEF CommandSound
<1>3. Knows(p) /\ target[p] \in Workers \cup {None}
  BY <1>1 DEF CommandSound, DirTypeOK
<1>4. target[p] # None => stage'[target[p]] \in GaveUp \cup {"held", "crashed"}
  BY <1>3 DEF Knows, Published
<1>5. CASE ReadIdentity(p)
  <2>1. UNCHANGED <<pstage, ppid, pidFile>> /\ step[p] = "idle"
    BY <1>5 DEF ReadIdentity, vars, probeVars, dataVars
  <2>2. \A q \in Probes \ {p} : target'[q] = target[q] /\ step'[q] = step[q]
    BY <1>1, <1>5 DEF ReadIdentity, Goto, DirTypeOK
  <2>3. CASE pidFile \in Workers
    <3>1. target'[p] = pidFile /\ step'[p] = "verify"
      BY <1>1, <1>5, <2>3 DEF ReadIdentity, Goto, DirTypeOK
    <3>2. stage'[pidFile] \in GaveUp \cup {"held", "crashed"}
      BY <1>1, <2>3 DEF CommandSound, Published
    <3>3. Knows(p)' BY <1>3, <2>1, <2>3, <3>1, <3>2 DEF Knows, Published
    <3> QED BY <1>2, <2>1, <2>2, <3>3
  <2>4. CASE pidFile \notin Workers
    <3>1. target' = target /\ step'[p] = "cleanup" /\ step[p] = "idle"
      BY <1>1, <1>5, <2>4 DEF ReadIdentity, Goto, DirTypeOK
    <3>2. Knows(p)' BY <1>3, <2>1, <3>1 DEF Knows
    <3> QED BY <1>2, <2>1, <2>2, <3>2
  <2> QED BY <2>3, <2>4
<1>6. CASE Verify(p)
  <2>1. UNCHANGED <<pidFile, step, target>> /\ step[p] \in {"verify", "verify again"}
    BY <1>6 DEF Verify, dirVars, dataVars, cliVars
  <2>2. pstage'[p] # "idle" => ppid'[p] = target[p]
    BY <1>1, <1>3, <1>6 DEF Verify, ProcessExists, IsFile, ProbeOpen, ProbeFlock,
                            ReadPid, ProbeUnlock, Answer, TypeOK, Knows
  <2>3. \A q \in Probes \ {p} : pstage'[q] = pstage[q] /\ ppid'[q] = ppid[q]
    BY <1>1, <1>6, ProbeLocal DEF Verify, ProbeNext
  <2>4. Knows(p)' BY <1>3, <1>4, <2>1, <2>2 DEF Knows, Published
  <2> QED BY <1>2, <2>1, <2>3, <2>4
<1>7. CASE Conclude(p)
  <2>1. ProbeDone(p) /\ pidFile' = pidFile BY <1>7 DEF Conclude, dataVars
  <2>2. pstage'[p] = "idle" BY <1>1, <2>1 DEF ProbeDone, TypeOK
  <2>3. \A q \in Probes \ {p} : pstage'[q] = pstage[q] /\ ppid'[q] = ppid[q]
    BY <1>1, <2>1, ProbeLocal DEF ProbeNext
  <2>4. \A q \in Probes \ {p} : target'[q] = target[q] /\ step'[q] = step[q]
    BY <1>1, <1>7 DEF Conclude, Goto, Finish, DirTypeOK
  <2>5. \/ step'[p] \in {"sigterm", "sigkill", "cleanup"} /\ target'[p] = target[p]
        \/ step'[p] = "idle" /\ target'[p] = None
    BY <1>1, <1>7 DEF Conclude, Goto, Finish, DirTypeOK
  <2>6. step[p] # "idle" /\ pstage[p] = "done" => target[p] # None
    BY <1>3 DEF Knows
  <2>7. pstage[p] = "done" /\ step[p] \in {"verify", "verify again"}
    BY <1>3, <2>1 DEF ProbeDone, Knows
  <2>8. Knows(p)'
    BY <1>3, <1>4, <2>2, <2>5, <2>6, <2>7 DEF Knows, Published
  <2> QED BY <1>2, <2>1, <2>3, <2>4, <2>8
<1>8. CASE SigTerm(p) \/ Poll(p) \/ SigKill(p)
  <2>1. UNCHANGED <<pidFile, target>> /\ step[p] \in {"sigterm", "poll", "sigkill"}
    BY <1>8 DEF SigTerm, Poll, SigKill, dataVars
  <2>2. UNCHANGED <<pstage, ppid>>
    BY <1>8 DEF SigTerm, Poll, SigKill, Die, vars, probeVars
  <2>3. /\ \A q \in Probes \ {p} : step'[q] = step[q]
        /\ step'[p] \in {"poll", "cleanup", "verify again"}
    BY <1>1, <1>8 DEF SigTerm, Poll, SigKill, Goto, DirTypeOK
  <2>4. Knows(p)' BY <1>3, <1>4, <2>1, <2>2, <2>3 DEF Knows, Published
  <2> QED BY <1>2, <2>1, <2>2, <2>3, <2>4
<1>9. CASE CleanupPath(p)
  <2>1. pidFile' = None /\ UNCHANGED <<pstage, ppid>> /\ step[p] = "cleanup"
    BY <1>9 DEF CleanupPath, DeleteData, vars, probeVars
  <2>2. /\ \A q \in Probes \ {p} : target'[q] = target[q] /\ step'[q] = step[q]
        /\ step'[p] = "idle" /\ target'[p] = None
    BY <1>1, <1>9 DEF CleanupPath, Finish, Goto, DirTypeOK
  <2>3. Knows(p)' BY <1>3, <2>1, <2>2 DEF Knows
  <2> QED BY <1>2, <2>1, <2>2, <2>3
<1> QED BY <1>5, <1>6, <1>7, <1>8, <1>9 DEF Command

\* A command decides to delete only when its target is gone.
LEMMA CommandResolved ==
    ASSUME DirInv, NEW p \in Probes, Command(p), CommandSound',
           raced \subseteq raced',
           \A w \in Workers : Published(w) =>
               /\ Published(w)'
               /\ stage[w] \notin Owning => stage'[w] \notin Owning
    PROVE  ResolvedMeansGone'
<1> SUFFICES ASSUME raced' = {}, NEW q \in Probes,
                    step'[q] = "cleanup", target'[q] # None
             PROVE  stage'[target'[q]] \notin Owning
  BY DEF ResolvedMeansGone
<1> USE DEF DirInv, DirTypeOK, IInv, TypeOK
<1>1. raced = {}
  OBVIOUS
<1>2. target'[q] = target[q] /\ (q # p => step'[q] = step[q])
  <2>1. Knows(q) /\ Knows(q)' BY DEF CommandSound
  <2>2. CASE ReadIdentity(p) BY <2>1, <2>2 DEF ReadIdentity, Goto, Knows
  <2>3. CASE Verify(p) BY <2>3 DEF Verify, dirVars, cliVars
  <2>4. CASE Conclude(p) BY <2>4 DEF Conclude, Goto, Finish
  <2>5. CASE SigTerm(p) \/ Poll(p) \/ SigKill(p) BY <2>5 DEF SigTerm, Poll, SigKill, Goto
  <2>6. CASE CleanupPath(p) BY <2>6 DEF CleanupPath, Goto, Finish
  <2> QED BY <2>2, <2>3, <2>4, <2>5, <2>6 DEF Command
<1>3. target[q] \in Workers /\ Published(target[q])
  <2>1. Knows(q) BY DEF CommandSound
  <2>2. target[q] \in Workers \cup {None} OBVIOUS
  <2> QED BY <1>2, <2>1, <2>2 DEF Knows
<1>4. CASE step[q] = "cleanup"
  BY <1>1, <1>2, <1>3, <1>4 DEF ResolvedMeansGone
<1>5. CASE q = p /\ step[p] # "cleanup"
  <2>1. CASE ReadIdentity(p)
    BY <1>2, <1>5, <2>1 DEF ReadIdentity, CommandSound, Knows
  <2>2. CASE Verify(p)
    BY <1>5, <2>2 DEF Verify, dirVars, cliVars
  <2>3. CASE Conclude(p)
    <3>1. verdict[p] = "not_found" /\ pstage[p] = "done" /\ ppid[p] = target[p]
      <4>1. verdict[p] = "not_found" /\ pstage[p] = "done"
        BY <1>5, <2>3 DEF Conclude, Goto, Finish, ProbeDone
      <4>2. Knows(p) BY DEF CommandSound
      <4> QED BY <4>1, <4>2 DEF Knows
    <3>2. stage[target[p]] # "held"
      BY <1>1, <1>3, <1>5, <3>1 DEF ProbesConfirm
    <3> QED BY <1>2, <1>3, <1>5, <3>2 DEF Published, Owning, GaveUp
  <2>4. CASE SigTerm(p) \/ Poll(p)
    <3>1. stage[target[p]] \in Ended
      BY <1>5, <2>4 DEF SigTerm, Poll, Goto
    <3> QED BY <1>2, <1>3, <1>5, <3>1 DEF Owning, Ended
  <2>5. CASE SigKill(p)
    BY <1>2, <1>3, <1>5, <2>5 DEF SigKill, Die, Owning, Ended, GaveUp, vars, lockVars
  <2>6. CASE CleanupPath(p)
    BY <1>5, <2>6 DEF CleanupPath
  <2> QED BY <2>1, <2>2, <2>3, <2>4, <2>5, <2>6 DEF Command
<1> QED BY <1>2, <1>4, <1>5

LEMMA DirInitInv == DirInit => DirInv
<1> SUFFICES ASSUME DirInit PROVE DirInv OBVIOUS
<1>1. IInv BY InitInv DEF DirInit
<1> QED
  BY <1>1, LockAssumption
     DEF DirInit, Init, DirInv, DirTypeOK, CommandSound, Knows, ResolvedMeansGone,
         IInv, Phases

LEMMA DirInvStep == DirInv /\ [DirNext]_allVars => DirInv'
<1> SUFFICES ASSUME DirInv, [DirNext]_allVars PROVE DirInv' OBVIOUS
<1>1. [Next]_vars
  BY StepRefinesLock DEF DirInv
<1>2. IInv'
  BY <1>1, InvStep DEF DirInv
<1>3. DirTypeOK'
  BY <1>2, DirTypeStep DEF DirInv, IInv
<1>4. /\ raced \subseteq raced'
      /\ \A w \in Workers : Published(w) =>
            /\ Published(w)'
            /\ stage[w] \notin Owning => stage'[w] \notin Owning
  BY <1>1, LockMonotone DEF DirInv
<1>5. CommandSound' /\ ResolvedMeansGone'
  <2>1. ASSUME NEW w \in Workers, WorkerAlive(w) \/ Exit(w)
        PROVE  CommandSound' /\ ResolvedMeansGone'
    <3>1. CommandSound' /\ UNCHANGED <<step, target, pstage, ppid>>
      BY <1>4, <2>1, WorkerCommandSound
    <3>2. ResolvedMeansGone'
      BY <1>4, <3>1 DEF DirInv, DirTypeOK, CommandSound, Knows, ResolvedMeansGone
    <3> QED BY <3>1, <3>2
  <2>2. ASSUME NEW p \in Probes, Command(p)
        PROVE  CommandSound' /\ ResolvedMeansGone'
    BY <1>4, <2>2, CommandCommandSound, CommandResolved
  <2>3. CASE UNCHANGED allVars
    BY <2>3 DEF DirInv, CommandSound, Knows, ResolvedMeansGone, Published, allVars,
                vars, lockVars, probeVars, dirVars, dataVars, cliVars
  <2> QED BY <2>1, <2>2, <2>3 DEF DirNext
<1> QED BY <1>2, <1>3, <1>5 DEF DirInv

LEMMA DirInvariance == DirSpec => []DirInv
BY DirInitInv, DirInvStep, PTL DEF DirSpec

-----------------------------------------------------------------------------
\* Type correctness of the composed specification.
THEOREM DirTypeCorrect == DirSpec => []DirTypeOK
<1>1. DirInv => DirTypeOK BY DEF DirInv
<1> QED BY <1>1, DirInvariance, PTL

\* The premise of cleanup_path after a stop: a resolved outcome means that the
\* daemon the command was aimed at no longer owns the session.
THEOREM ResolvedStopMeansGone == DirSpec => []ResolvedMeansGone
<1>1. DirInv => ResolvedMeansGone BY DEF DirInv
<1> QED BY <1>1, DirInvariance, PTL

-----------------------------------------------------------------------------
(* What is in tunnel-data/.  Without the unlink race one worker at a time  *)
(* owns the session, and whoever else removes or makes the directory       *)
(* records that it disturbed the owner.                                    *)

\* A worker touches the directory only once it has the lock.
StartsWithLock ==
    \A w \in Workers :
        stage[w] \in {"new", "opened", "checked", "locked", "truncated"} =>
            phase[w] = "create"

LossNeedsData == data = None => loss = None

\* What an owner that nobody disturbed finds in the directory, phase by phase.
OwnState(w) ==
    /\ phase[w] # "abort"
    /\ phase[w] = "wipe" => data # None
    /\ phase[w] = "slot" => data = None
    /\ phase[w] = "made" => data = w /\ loss = None
    /\ phase[w] = "naming" =>
           data = w /\ loss = None /\ pidDir[w] = w /\ pidFile # None
    /\ phase[w] \in {"starting", "serving", "stopping"} =>
           data = w /\ loss \in {None, w} /\ pidFile = w

DataInv ==
    /\ StartsWithLock /\ LossNeedsData
    /\ \A w \in Undisturbed : OwnState(w)

\* What the steps of the lock do to the stages of the workers.
LEMMA LockStages ==
    ASSUME TypeOK, NEW v \in Workers, WorkerNext(v)
    PROVE  \A w \in Workers :
              /\ w # v => stage'[w] = stage[w]
              /\ stage'[w] \in {"new", "opened", "checked", "locked", "truncated"} =>
                     stage[w] \in {"new", "opened", "checked", "locked", "truncated"}
              /\ stage'[w] = "held" => stage[w] \in {"truncated", "held"}
BY DEF TypeOK, WorkerNext, Open, Fstat, Flock, Truncate, Record, Unlink, Close, Die, GaveUp

\* Without the race there is one owner at most.
LEMMA OneHolder ==
    ASSUME DirInv, raced = {}, NEW v \in Holding, NEW w \in Holding
    PROVE  v = w
<1>1. OwnersHoldFlock /\ OwnersAtEntry BY DEF DirInv, IInv
<1> QED BY <1>1 DEF OwnersHoldFlock, OwnersAtEntry, Owning, Holding

\* A step that leaves the directory alone keeps the invariant.
LEMMA DataUntouched ==
    ASSUME DirTypeOK, DataInv, UNCHANGED <<phase, data, pidFile, pidDir, loss, disturbed>>,
           raced \subseteq raced',
           \A w \in Workers :
              /\ stage'[w] \in {"new", "opened", "checked", "locked", "truncated"} =>
                     stage[w] \in {"new", "opened", "checked", "locked", "truncated"}
              /\ stage'[w] = "held" => stage[w] \in {"truncated", "held"}
    PROVE  DataInv'
<1>1. StartsWithLock' /\ LossNeedsData' BY DEF DataInv, StartsWithLock, LossNeedsData
<1>2. ASSUME NEW w \in Undisturbed' PROVE OwnState(w)'
    <2>1. w \in Workers /\ raced = {} /\ w \notin disturbed /\ stage'[w] = "held"
        BY <1>2 DEF Undisturbed, Holding
    <2>2. CASE stage[w] = "truncated"
        <3>1. phase[w] = "create" BY <2>1, <2>2 DEF DataInv, StartsWithLock
        <3> QED BY <3>1 DEF OwnState
    <2>3. CASE stage[w] # "truncated"
        <3>1. w \in Undisturbed BY <2>1, <2>3 DEF Undisturbed, Holding
        <3>2. OwnState(w) BY <3>1 DEF DataInv
        <3> QED BY <3>2 DEF OwnState
    <2> QED BY <2>2, <2>3
<1> QED BY <1>1, <1>2 DEF DataInv

\* The steps of worker w on its own directory.
LEMMA DataWorker ==
    ASSUME DirInv, DataInv, NEW w \in Workers,
           UNCHANGED <<vars, disturbed>>, stage[w] = "held",
           \/ FindSlot(w) \/ Wipe(w) \/ MakeData(w) \/ OpenPidFile(w)
           \/ WritePidFile(w) \/ Materialize(w) \/ Started(w) \/ AskToStop(w)
           \/ Lose(w) \/ Dispose(w)
    PROVE  DataInv'
<1> USE DirAssumption, LockAssumption
<1>1. raced' = raced /\ stage' = stage BY DEF vars, lockVars
<1>2. DirTypeOK BY DEF DirInv
<1>3. phase' = [phase EXCEPT ![w] = phase'[w]] /\ phase \in [Workers -> Phases]
    BY <1>2 DEF DirTypeOK, Enter, FindSlot, Wipe, MakeData, OpenPidFile, WritePidFile,
                Materialize, workerVars, Started, AskToStop, Lose, Dispose
<1>4. \A v \in Workers \ {w} : phase'[v] = phase[v] BY <1>3
<1>5. /\ data \in Workers \cup {None} /\ pidDir \in [Workers -> Workers \cup {None}]
      /\ pidFile \in Workers \cup {None, "torn"}
    BY <1>2 DEF DirTypeOK
<1>6. StartsWithLock' BY <1>1, <1>4 DEF DataInv, StartsWithLock
<1>7. LossNeedsData BY DEF DataInv
<1>8. w \in Undisturbed => OwnState(w) BY DEF DataInv
<1> DEFINE Rest == LossNeedsData' /\ (w \in Undisturbed => OwnState(w)')
<1>9. ASSUME FindSlot(w) \/ Started(w) \/ AskToStop(w) \/ Dispose(w) PROVE Rest
    <2>1. /\ UNCHANGED <<data, loss, pidFile, pidDir>>
          /\ \/ phase[w] = "create" /\ phase'[w] = IF data = None THEN "slot" ELSE "wipe"
             \/ /\ phase[w] \in {"starting", "serving", "stopping"}
                /\ phase'[w] \in {"serving", "stopping", "cleanup", "fail"}
        BY <1>3, <1>9 DEF FindSlot, Started, AskToStop, Dispose, Enter, dataVars, ownVars
    <2> QED BY <1>7, <1>8, <2>1 DEF OwnState, LossNeedsData
<1>10. ASSUME Wipe(w) PROVE Rest
    <2>1. /\ phase[w] = "wipe"
          /\ \/ data = None /\ UNCHANGED <<data, loss>>
             \/ phase'[w] = "slot" /\ data' = None /\ loss' = None
        BY <1>3, <1>10 DEF Wipe, Enter, DeleteData, dataVars
    <2> QED BY <1>7, <1>8, <2>1 DEF OwnState, LossNeedsData
<1>11. ASSUME MakeData(w) PROVE Rest
    <2>1. /\ phase[w] = "slot" /\ loss' = loss
          /\ \/ data # None /\ data' = data
             \/ data = None /\ data' = w /\ phase'[w] = "made"
        BY <1>3, <1>11 DEF MakeData, Enter
    <2> QED BY <1>7, <1>8, <2>1 DEF OwnState, LossNeedsData
<1>12. ASSUME OpenPidFile(w) PROVE Rest
    <2>1. /\ phase[w] = "made" /\ UNCHANGED <<data, loss>>
          /\ \/ phase'[w] = "cleanup"
             \/ /\ phase'[w] = "naming" /\ pidFile' = "torn"
                /\ pidDir' = [pidDir EXCEPT ![w] = data]
        BY <1>3, <1>12 DEF OpenPidFile, Enter
    <2>2. phase'[w] = "naming" => pidDir'[w] = data BY <1>5, <2>1
    <2> QED BY <1>7, <1>8, <2>1, <2>2 DEF OwnState, LossNeedsData
<1>13. ASSUME WritePidFile(w) PROVE Rest
    <2>1. /\ phase[w] = "naming" /\ UNCHANGED <<data, loss>> /\ phase'[w] = "starting"
          /\ pidFile' = IF data = pidDir[w] THEN w ELSE pidFile
        BY <1>3, <1>13 DEF WritePidFile, Enter
    <2> QED BY <1>7, <1>8, <2>1 DEF OwnState, LossNeedsData
<1>14. ASSUME Materialize(w) PROVE Rest
    <2>1. /\ phase[w] \in {"starting", "fail"} /\ phase'[w] = phase[w]
          /\ data = None /\ loss' = loss
        BY <1>14 DEF Materialize, MkdirFor, workerVars
    <2> QED BY <1>7, <1>8, <2>1 DEF OwnState, LossNeedsData
<1>15. ASSUME Lose(w) PROVE Rest
    <2>1. /\ phase[w] \in {"serving", "stopping", "keep"} /\ phase'[w] \in {"keep", phase[w]}
          /\ pidFile' = pidFile
          /\ \/ UNCHANGED <<data, loss>>
             \/ data' = (IF data = None THEN w ELSE data) /\ loss' = w
        BY <1>3, <1>15 DEF Lose, Enter
    <2> QED BY <1>5, <1>7, <1>8, <2>1 DEF OwnState, LossNeedsData
<1>16. Rest BY <1>9, <1>10, <1>11, <1>12, <1>13, <1>14, <1>15
<1>17. ASSUME NEW v \in Undisturbed' PROVE OwnState(v)'
    <2>1. v \in Undisturbed /\ raced = {} /\ v \in Holding /\ w \in Holding
        BY <1>1, <1>17 DEF Undisturbed, Holding
    <2>2. v = w BY <2>1, OneHolder
    <2> QED BY <1>16, <2>1, <2>2
<1> QED BY <1>6, <1>16, <1>17 DEF DataInv

\* A removal or a mkdir by somebody else: either it finds the directory that
\* way already, or every owner is on record as disturbed.
LEMMA DataDisturbed ==
    ASSUME DataInv, UNCHANGED <<stage, raced>>, LossNeedsData',
           \/ data' = data /\ data = None /\ UNCHANGED disturbed
           \/ Undisturbed' = {},
           \A w \in Workers : stage[w] # "released" => phase'[w] = phase[w],
           disturbed \subseteq disturbed'
    PROVE  DataInv'
<1> USE LockAssumption
<1>1. StartsWithLock' BY DEF DataInv, StartsWithLock
<1>2. ASSUME NEW w \in Undisturbed' PROVE OwnState(w)'
    <2>1. w \in Undisturbed /\ w \in Workers /\ phase'[w] = phase[w] /\ data = None /\ data' = None
        BY <1>2 DEF Undisturbed, Holding
    <2>2. OwnState(w) BY <2>1 DEF DataInv
    <2> QED BY <2>1, <2>2 DEF OwnState
<1> QED BY <1>1, <1>2 DEF DataInv

LEMMA DataStep == ASSUME DirInv, DataInv, [DirNext]_allVars PROVE DataInv'
<1>1. DirTypeOK /\ TypeOK /\ IInv BY DEF DirInv, DirTypeOK
<1>2. [Next]_vars BY StepRefinesLock DEF DirInv
<1>3. raced \subseteq raced' BY <1>1, <1>2, LockMonotone
<1>4. ASSUME NEW w \in Workers, WorkerNext(w), UNCHANGED dirVars PROVE DataInv'
    BY <1>1, <1>3, <1>4, LockStages, DataUntouched DEF dirVars, dataVars, ownVars, workerVars
<1>5. ASSUME NEW w \in Workers, WorkerAlive(w) \/ Exit(w) PROVE DataInv'
    <2>1. CASE Acquire(w) \/ Release(w) \/ Exit(w)
        BY <1>4, <2>1 DEF Acquire, Release, Exit, WorkerNext
    <2>2. CASE RemoveData(w)
        <3>1. /\ DeleteData /\ UNCHANGED <<stage, raced>> /\ stage[w] = "released"
              /\ IF data = None THEN UNCHANGED disturbed ELSE Disturb(Workers)
            BY <2>2 DEF RemoveData, vars, lockVars
        <3>2. \A v \in Workers \ {w} : phase'[v] = phase[v]
            BY <1>1, <2>2 DEF RemoveData, Enter, DirTypeOK
        <3>3. LossNeedsData' BY <3>1 DEF DeleteData, LossNeedsData
        <3>4. \/ data' = data /\ data = None /\ UNCHANGED disturbed
              \/ Undisturbed' = {}
            BY <3>1 DEF DeleteData, Disturb, Undisturbed, Holding
        <3>5. disturbed \subseteq disturbed' BY <3>1 DEF Disturb
        <3> QED BY <3>1, <3>2, <3>3, <3>4, <3>5, DataDisturbed
    <2>3. CASE WriteOutput(w) \/ Leftover(w)
        <3>1. /\ UNCHANGED <<stage, raced, phase, pidDir>>
              /\ \/ MkdirFor(w) /\ Disturb(Workers)
                 \/ UNCHANGED dataVars
            BY <2>3 DEF WriteOutput, Leftover, vars, lockVars, workerVars, ownVars
        <3>2. CASE UNCHANGED dataVars
            BY <1>1, <1>3, <3>1, <3>2, DataUntouched DEF dataVars
        <3>3. CASE MkdirFor(w) /\ Disturb(Workers)
            <4>1. Undisturbed' = {} /\ disturbed \subseteq disturbed'
                BY <3>1, <3>3 DEF Disturb, Undisturbed, Holding
            <4>2. LossNeedsData' BY <3>3 DEF MkdirFor, DataInv, LossNeedsData
            <4> QED BY <3>1, <4>1, <4>2, DataDisturbed
        <3> QED BY <3>1, <3>2, <3>3
    <2>4. CASE \/ FindSlot(w) \/ Wipe(w) \/ MakeData(w) \/ OpenPidFile(w)
               \/ WritePidFile(w) \/ Materialize(w) \/ Started(w) \/ AskToStop(w)
               \/ Lose(w) \/ Dispose(w)
        <3>1. UNCHANGED <<vars, disturbed>> /\ stage[w] = "held"
            BY <2>4 DEF FindSlot, Wipe, MakeData, OpenPidFile, WritePidFile,
                Materialize, Started, AskToStop, Lose, Dispose, dataVars
        <3> QED BY <2>4, <3>1, DataWorker
    <2> QED BY <1>5, <2>1, <2>2, <2>3, <2>4 DEF WorkerAlive
<1>6. ASSUME NEW p \in Probes, Command(p) PROVE DataInv'
    <2>1. CASE CleanupPath(p)
        <3>1. /\ DeleteData /\ UNCHANGED <<stage, raced, phase>> /\ step[p] = "cleanup"
              /\ IF data = None THEN UNCHANGED disturbed ELSE Disturb(Workers \ {target[p]})
            BY <2>1 DEF CleanupPath, vars, lockVars, workerVars
        <3>2. raced = {} => target[p] \notin Holding
            <4>1. target[p] \in Workers \cup {None} BY <1>1 DEF DirTypeOK
            <4>2. raced = {} /\ target[p] # None => stage[target[p]] \notin Owning
                BY <3>1 DEF DirInv, ResolvedMeansGone
            <4> QED BY <4>1, <4>2, LockAssumption DEF Holding, Owning
        <3>3. LossNeedsData' BY <3>1 DEF DeleteData, LossNeedsData
        <3>4. CASE data = None
            BY <3>1, <3>3, <3>4, DataDisturbed DEF DeleteData
        <3>5. CASE data # None
            <4>1. Undisturbed' = {} /\ disturbed \subseteq disturbed'
                BY <3>1, <3>2, <3>5 DEF Disturb, Undisturbed, Holding
            <4> QED BY <3>1, <3>3, <4>1, DataDisturbed
        <3> QED BY <3>4, <3>5
    <2>2. CASE ReadIdentity(p) \/ Verify(p) \/ Conclude(p) \/ Poll(p)
        <3>1. UNCHANGED <<stage, phase, data, pidFile, pidDir, loss, disturbed>>
            BY <2>2 DEF ReadIdentity, Verify, Conclude, Poll, vars, lockVars, dirVars, dataVars,
               ownVars, workerVars, ProcessExists, IsFile, ProbeOpen, ProbeFlock, ReadPid,
               ProbeUnlock, ProbeDone
        <3> QED BY <1>1, <1>3, <3>1, DataUntouched
    <2>3. target[p] \in Workers \/ target[p] = None BY <1>1 DEF DirTypeOK
    <2>4. CASE SigTerm(p)
        <3>1. target[p] \in Workers BY <2>3, <2>4 DEF SigTerm, DirInv, CommandSound, Knows
        <3>2. UNCHANGED <<data, pidFile, loss, disturbed, pidDir>>
            BY <2>4 DEF SigTerm, dataVars, ownVars
        <3>3. CASE UNCHANGED phase
            <4>1. Die(target[p]) \/ UNCHANGED vars BY <2>4 DEF SigTerm
            <4>2. CASE UNCHANGED vars
                BY <1>1, <1>3, <3>2, <3>3, <4>2, DataUntouched DEF vars, lockVars
            <4>3. CASE Die(target[p])
                BY <1>1, <1>3, <3>1, <3>2, <3>3, <4>3, LockStages, DataUntouched DEF WorkerNext
            <4> QED BY <4>1, <4>2, <4>3
        <3>4. CASE /\ phase[target[p]] = "serving"
                   /\ phase' = [phase EXCEPT ![target[p]] = "stopping"]
                   /\ UNCHANGED vars
            <4>1. stage' = stage /\ raced' = raced BY <3>4 DEF vars, lockVars
            <4>2. /\ phase'[target[p]] = "stopping"
                  /\ \A w \in Workers \ {target[p]} : phase'[w] = phase[w]
                BY <1>1, <3>1, <3>4 DEF DirTypeOK
            <4>3. StartsWithLock' /\ LossNeedsData'
                BY <3>1, <3>2, <3>4, <4>1, <4>2 DEF DataInv, StartsWithLock, LossNeedsData
            <4>4. ASSUME NEW w \in Undisturbed' PROVE OwnState(w)'
                <5>1. w \in Undisturbed /\ w \in Workers
                    BY <3>2, <4>1, <4>4 DEF Undisturbed, Holding
                <5>2. OwnState(w) BY <5>1 DEF DataInv
                <5> QED BY <3>2, <3>4, <4>2, <5>1, <5>2 DEF OwnState
            <4> QED BY <4>3, <4>4 DEF DataInv
        <3> QED BY <2>4, <3>3, <3>4 DEF SigTerm, Enter
    <2>5. CASE SigKill(p)
        <3>1. target[p] \in Workers BY <2>3, <2>5 DEF SigKill, DirInv, CommandSound, Knows
        <3>2. UNCHANGED <<data, pidFile, loss, disturbed, phase, pidDir>>
            BY <2>5 DEF SigKill, dataVars, workerVars, ownVars
        <3>3. Die(target[p]) \/ UNCHANGED vars BY <2>5 DEF SigKill
        <3>4. CASE UNCHANGED vars
            BY <1>1, <1>3, <3>2, <3>4, DataUntouched DEF vars, lockVars
        <3>5. CASE Die(target[p])
            BY <1>1, <1>3, <3>1, <3>2, <3>5, LockStages, DataUntouched DEF WorkerNext
        <3> QED BY <3>3, <3>4, <3>5
    <2> QED BY <1>6, <2>1, <2>2, <2>4, <2>5 DEF Command
<1>7. CASE UNCHANGED allVars
    BY <1>1, <1>3, <1>7, DataUntouched
       DEF allVars, vars, lockVars, dirVars, dataVars, workerVars, ownVars
<1> QED BY <1>5, <1>6, <1>7 DEF DirNext

LEMMA DataInvariance == DirSpec => []DataInv
<1>1. DirInit => DataInv
    BY LockAssumption, DirAssumption
       DEF DirInit, Init, DataInv, StartsWithLock, LossNeedsData, Undisturbed, Holding
<1>2. DirInv /\ DataInv /\ [DirNext]_allVars => DataInv' BY DataStep
<1> QED BY <1>1, <1>2, DirInvariance, PTL DEF DirSpec

\* OwnerUndisturbed: without the unlink race, a session that nobody's late
\* rmtree or mkdir has disturbed started without an error, has the directory
\* it made, with its own pid in daemon.pid, and shows no loss but its own.
THEOREM OwnerKeepsDir == DirSpec => []OwnerUndisturbed
<1>1. DataInv => OwnerUndisturbed
    <2> SUFFICES ASSUME DataInv, NEW w \in Undisturbed PROVE
            /\ phase[w] # "abort"
            /\ phase[w] \in Live => data = w /\ loss \in {None, w}
            /\ phase[w] \in {"starting", "serving", "stopping"} => pidFile = w
        BY DEF OwnerUndisturbed, StartsUnhindered, OwnDirectory, OwnIdentity
    <2>1. OwnState(w) BY DEF DataInv
    <2> QED BY <2>1 DEF OwnState, Live
<1> QED BY <1>1, DataInvariance, PTL

\* AbsentMeansNobody: `run`'s teardown takes "no pid recorded" for an answer
\* only while no undisturbed session is past the opening of daemon.pid.
THEOREM PidlessMeansNobody == DirSpec => AbsentMeansNobody
<1>1. ASSUME DirInv, DataInv, [DirNext]_allVars, NEW p \in Probes,
             step[p] = "idle", step'[p] = "cleanup", NEW w \in Undisturbed
      PROVE  phase[w] \notin Live
    <2>1. DirTypeOK /\ Knows(p) /\ OwnState(w) BY <1>1 DEF DirInv, CommandSound, DataInv
    <2>2. ASSUME NEW v \in Workers, WorkerAlive(v) \/ Exit(v) PROVE step' = step
        BY <2>2 DEF WorkerAlive, Acquire, FindSlot, Wipe, MakeData, OpenPidFile,
           WritePidFile, Materialize, Started, WriteOutput, AskToStop, Lose, Dispose,
           Release, RemoveData, Leftover, Exit, dirVars, cliVars
    <2>3. ASSUME NEW q \in Probes \ {p}, Command(q) PROVE step'[p] = step[p]
        BY <2>1, <2>3 DEF Command, ReadIdentity, Verify, Conclude, SigTerm, Poll, SigKill,
           CleanupPath, Goto, Finish, dirVars, cliVars, DirTypeOK
    <2>4. ReadIdentity(p)
        <3>1. step' # step BY <1>1
        <3>2. Command(p) BY <1>1, <2>2, <2>3, <3>1 DEF DirNext, allVars, dirVars, cliVars
        <3>3. pstage[p] = "idle" BY <1>1, <2>1 DEF Knows
        <3>4. ~Conclude(p) BY <3>3 DEF Conclude, ProbeDone
        <3> QED BY <1>1, <3>2, <3>4 DEF Command, Verify, SigTerm, Poll, SigKill, CleanupPath
    <2>5. pidFile = None
        BY <1>1, <2>1, <2>4 DEF ReadIdentity, Goto, DirTypeOK
    <2>6. w \in Workers BY DEF Undisturbed, Holding
    <2> QED BY <2>1, <2>5, <2>6, LockAssumption DEF OwnState, Live
<1>2. DirInv /\ DataInv /\ [DirNext]_allVars =>
          [\A p \in Probes : step[p] = "idle" /\ step'[p] = "cleanup" =>
               \A w \in Undisturbed : phase[w] \notin Live]_allVars
    BY <1>1
<1> QED BY <1>2, DirInvariance, DataInvariance, PTL DEF DirSpec, AbsentMeansNobody

\* SignalledMeansEnded: the second verification can end a command only with a
\* verdict that no holder of the session gets, and a deletion is only reached
\* when the daemon gave up.
THEOREM SignalledStopEnds == DirSpec => SignalledMeansEnded
<1>1. ASSUME DirInv, [DirNext]_allVars, raced = {}, NEW p \in Probes,
             verb[p] # "status", step[p] \notin {"idle", "verify"}, target[p] # None,
             step'[p] = "idle"
      PROVE  stage'[target[p]] \notin Owning
    <2>1. DirTypeOK /\ Knows(p) /\ IInv BY <1>1 DEF DirInv, CommandSound
    <2>2. target[p] \in Workers /\ Published(target[p]) BY <1>1, <2>1 DEF DirTypeOK, Knows
    <2>3. stage[target[p]] \notin Owning => stage'[target[p]] \notin Owning
        BY <1>1, <2>1, <2>2, StepRefinesLock, LockMonotone DEF DirInv
    <2>4. ASSUME NEW v \in Workers, WorkerAlive(v) \/ Exit(v) PROVE step' = step
        BY <2>4 DEF WorkerAlive, Acquire, FindSlot, Wipe, MakeData, OpenPidFile,
           WritePidFile, Materialize, Started, WriteOutput, AskToStop, Lose, Dispose,
           Release, RemoveData, Leftover, Exit, dirVars, cliVars
    <2>5. ASSUME NEW q \in Probes \ {p}, Command(q) PROVE step'[p] = step[p]
        BY <2>1, <2>5 DEF Command, ReadIdentity, Verify, Conclude, SigTerm, Poll, SigKill,
           CleanupPath, Goto, Finish, dirVars, cliVars, DirTypeOK
    <2>6. Command(p)
        BY <1>1, <2>4, <2>5 DEF DirNext, allVars, dirVars, cliVars
    <2>7. CASE Conclude(p)
        <3>1. pstage[p] = "done" BY <2>7 DEF Conclude, ProbeDone
        <3>2. step[p] = "verify again" /\ ppid[p] = target[p] BY <1>1, <2>1, <3>1 DEF Knows
        <3>3. verdict[p] # "match"
            BY <1>1, <2>1, <2>7, <3>2 DEF Conclude, Goto, DirTypeOK
        <3>4. stage[target[p]] # "held"
            BY <1>1, <2>1, <3>1, <3>2, <3>3 DEF IInv, ProbesConfirm
        <3> QED BY <2>2, <2>3, <3>4 DEF Published, Owning, GaveUp
    <2>8. CASE CleanupPath(p)
        <3>1. step[p] = "cleanup" BY <2>8 DEF CleanupPath
        <3>2. stage[target[p]] \notin Owning
            BY <1>1, <3>1 DEF DirInv, ResolvedMeansGone
        <3> QED BY <2>3, <3>2
    <2>9. ASSUME ReadIdentity(p) \/ Verify(p) \/ SigTerm(p) \/ Poll(p) \/ SigKill(p)
          PROVE  FALSE
        BY <1>1, <2>1, <2>9 DEF ReadIdentity, Verify, SigTerm, Poll, SigKill, Goto,
           dirVars, cliVars, DirTypeOK
    <2> QED BY <2>6, <2>7, <2>8, <2>9 DEF Command
<1>2. DirInv /\ [DirNext]_allVars =>
          [\A p \in Probes :
               /\ raced = {} /\ verb[p] # "status" /\ target[p] # None
               /\ step[p] \notin {"idle", "verify"} /\ step'[p] = "idle"
               => stage'[target[p]] \notin Owning]_allVars
    BY <1>1
<1> QED BY <1>2, DirInvariance, PTL DEF DirSpec, SignalledMeansEnded
=============================================================================
