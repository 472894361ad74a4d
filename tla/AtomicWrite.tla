---------------------------- MODULE AtomicWrite ----------------------------
(***************************************************************************)
(* session.atomic_write system call by system call: processes that write   *)
(* files into tunnel-data/ over a temporary file named for their pid, a    *)
(* reader (read_tunnel_loss, or whoever opens a kubeconfig), and the       *)
(* rmtree of a cleanup, all at once, with failing calls and crashes.       *)
(***************************************************************************)
EXTENDS Integers

CONSTANTS
    Procs,      \* processes that write, one after another or at once
    Pids, PidOf,
    Files,      \* names below tunnel-data/
    Size,       \* bytes of a file
    MaxCalls,   \* bound: atomic_write calls of one process
    None

ASSUME AwAssumption ==
    /\ PidOf \in [Procs -> Pids]
    /\ Size \in Nat \ {0} /\ MaxCalls \in Nat
    /\ None \notin Pids \cup (Procs \X (1 .. MaxCalls))

VARIABLES
    there,      \* is tunnel-data/ there?
    entry,      \* its entries: the inode under each name
    written,    \* the bytes in each inode
    pc, target, left, calls, result,    \* of each process
    crashed,    \* processes that died inside a call (history)
    stuck,      \* <<process, file>>: its temp file could not be unlinked (history)
    published,  \* inodes that have got their final name (history)
    reader, seen,       \* the inode the reader has open; what it read last
    sweep, todo         \* the rmtree and what it listed

histories == <<crashed, stuck, published>>
writers == <<pc, target, left, calls, result, histories>>
readers == <<reader, seen>>
sweeper == <<sweep, todo>>
awVars == <<there, entry, written, writers, readers, sweeper>>

\* An inode is named for the call that creates it.
Inodes == Procs \X (1 .. MaxCalls)
Names == Files \X (Pids \cup {None})
Final(f) == <<f, None>>

\* Mistake: the temp name is the same for every process.
TempShared(p) == <<target[p], CHOOSE d \in Pids : TRUE>>

\* Mistake: the file is written in place.
TempInPlace(p) == Final(target[p])

\* f".{path.name}.{os.getpid()}.tmp"
Temp(p) == <<target[p], PidOf[p]>>

Inode(p) == <<p, calls[p]>>

AwInit ==
    /\ there \in BOOLEAN
    /\ entry = [x \in Names |-> None]
    /\ written = [i \in Inodes |-> 0]
    /\ pc = [p \in Procs |-> "new"]
    /\ target \in [Procs -> Files]
    /\ left = [p \in Procs |-> 0]
    /\ calls = [p \in Procs |-> 0]
    /\ result = [p \in Procs |-> "none"]
    /\ crashed = {} /\ stuck = {} /\ published = {}
    /\ reader = None /\ seen = None
    /\ sweep = "idle" /\ todo = {}

-----------------------------------------------------------------------------
(* atomic_write, between whose system calls anything may happen.           *)

Goto(p, s) == pc' = [pc EXCEPT ![p] = s]

Return(p, r) == Goto(p, "idle") /\ result' = [result EXCEPT ![p] = r]

\* A pid belongs to one living process.
MayRun(p) ==
    \A q \in Procs \ {p} : PidOf[q] = PidOf[p] => pc[q] \in {"new", "dead"}

\* path.parent.mkdir(exist_ok=True)
MakeParent(p, f) ==
    /\ pc[p] \in {"new", "idle"} /\ calls[p] < MaxCalls
    /\ MayRun(p)
    /\ calls' = [calls EXCEPT ![p] = @ + 1]
    /\ target' = [target EXCEPT ![p] = f]
    /\ there' = TRUE
    /\ Goto(p, "open")
    /\ result' = [result EXCEPT ![p] = "none"]
    /\ UNCHANGED <<entry, written, left, histories, readers, sweeper>>

\* os.open with O_CREAT | O_EXCL: a directory that went again, a leftover of
\* that name, or any other error raises; there is nothing to undo yet.
OpenTemp(p) ==
    /\ pc[p] = "open"
    /\ \/ /\ there /\ entry[Temp(p)] = None
          /\ entry' = [entry EXCEPT ![Temp(p)] = Inode(p)]
          /\ left' = [left EXCEPT ![p] = Size]
          /\ Goto(p, "write")
          /\ UNCHANGED result
       \/ /\ Return(p, IF there /\ entry[Temp(p)] # None THEN "exists" ELSE "failed")
          /\ UNCHANGED <<entry, left>>
    /\ UNCHANGED <<there, written, target, calls, histories, readers, sweeper>>

\* Mistake: a write that fails, or makes no progress, is noted and tried again.
WriteSomeForever(p) ==
    /\ pc[p] = "write"
    /\ \/ \E n \in 1 .. left[p] :
              /\ left' = [left EXCEPT ![p] = @ - n]
              /\ written' = [written EXCEPT ![Inode(p)] = @ + n]
              /\ Goto(p, IF n = left[p] THEN "replace" ELSE "write")
              /\ UNCHANGED result
       \/ /\ result' = [result EXCEPT ![p] = IF @ = "failed" THEN "none" ELSE "failed"]
          /\ UNCHANGED <<pc, left, written>>
    /\ UNCHANGED <<there, entry, target, calls, histories, readers, sweeper>>

\* Mistake: a short write is taken for a complete one.
WriteSomeOnce(p) ==
    /\ pc[p] = "write"
    /\ \E n \in 1 .. left[p] :
        /\ left' = [left EXCEPT ![p] = @ - n]
        /\ written' = [written EXCEPT ![Inode(p)] = @ + n]
        /\ Goto(p, "replace")
    /\ UNCHANGED <<there, entry, target, calls, result, histories, readers, sweeper>>

\* One turn of fdio.write_all: os.write takes what it likes; no progress, like
\* an error, raises.
WriteSome(p) ==
    /\ pc[p] = "write"
    /\ \/ \E n \in 1 .. left[p] :
              /\ left' = [left EXCEPT ![p] = @ - n]
              /\ written' = [written EXCEPT ![Inode(p)] = @ + n]
              /\ Goto(p, IF n = left[p] THEN "replace" ELSE "write")
       \/ Goto(p, "undo") /\ UNCHANGED <<left, written>>
    /\ UNCHANGED <<there, entry, target, calls, result, histories, readers, sweeper>>

\* os.replace; it raises when the temp file was swept away, or for its own
\* reasons.
Replace(p) ==
    /\ pc[p] = "replace"
    /\ \/ /\ entry[Temp(p)] # None
          /\ entry' = [entry EXCEPT ![Temp(p)] = None, ![Final(target[p])] = entry[Temp(p)]]
          /\ published' = published \cup {entry[Temp(p)]}
          /\ Return(p, "ok")
       \/ Goto(p, "undo") /\ UNCHANGED <<entry, published, result>>
    /\ UNCHANGED <<there, written, target, left, calls, crashed, stuck, readers, sweeper>>

\* Mistake: the temp file is left for the sweep.
UndoNothing(p) ==
    /\ pc[p] = "undo"
    /\ Return(p, "failed")
    /\ UNCHANGED <<there, entry, written, target, left, calls, histories, readers, sweeper>>

\* except BaseException: unlink the temp file and raise.  That it is gone
\* already does not matter; any other error of the unlink leaves it behind.
Undo(p) ==
    /\ pc[p] = "undo"
    /\ Return(p, "failed")
    /\ \/ entry' = [entry EXCEPT ![Temp(p)] = None] /\ UNCHANGED stuck
       \/ /\ entry[Temp(p)] # None
          /\ stuck' = stuck \cup {<<p, target[p]>>}
          /\ UNCHANGED entry
    /\ UNCHANGED <<there, written, target, left, calls, crashed, published, readers, sweeper>>

\* SIGKILL, or the end of the process between two calls.
End(p) ==
    /\ pc[p] \notin {"new", "dead"}
    /\ Goto(p, "dead")
    /\ crashed' = IF pc[p] = "idle" THEN crashed ELSE crashed \cup {p}
    /\ UNCHANGED <<there, entry, written, target, left, calls, result, stuck, published, readers, sweeper>>

-----------------------------------------------------------------------------
(* A reader: open, then read to the end of the file.                       *)

ReadOpen(f) ==
    /\ reader = None
    /\ IF entry[Final(f)] = None
       THEN seen' = None /\ UNCHANGED reader
       ELSE reader' = entry[Final(f)] /\ UNCHANGED seen
    /\ UNCHANGED <<there, entry, written, writers, sweeper>>

ReadRest ==
    /\ reader # None
    /\ seen' = written[reader] /\ reader' = None
    /\ UNCHANGED <<there, entry, written, writers, sweeper>>

-----------------------------------------------------------------------------
(* shutil.rmtree(tunnel-data, ignore_errors=True) of SessionDir.cleanup and *)
(* of cleanup_path.                                                         *)

SweepList ==
    /\ sweep = "idle" /\ there
    /\ sweep' = "unlink"
    /\ todo' = {x \in Names : entry[x] # None}
    /\ UNCHANGED <<there, entry, written, writers, readers>>

SweepUnlink(x) ==
    /\ sweep = "unlink" /\ x \in todo
    /\ entry' = [entry EXCEPT ![x] = None]
    /\ todo' = todo \ {x}
    /\ UNCHANGED <<there, written, writers, readers, sweep>>

\* rmdir fails, and is ignored, when something new is in it.  Another sweep may
\* follow: stop after the worker, run's teardown after both.
SweepRmdir ==
    /\ sweep = "unlink" /\ todo = {}
    /\ sweep' = "idle"
    /\ there' = (\E x \in Names : entry[x] # None)
    /\ UNCHANGED <<entry, written, writers, readers, todo>>

-----------------------------------------------------------------------------
Call(p) == OpenTemp(p) \/ WriteSome(p) \/ Replace(p) \/ Undo(p)

AwNext ==
    \/ \E p \in Procs : Call(p) \/ End(p) \/ \E f \in Files : MakeParent(p, f)
    \/ ReadRest \/ \E f \in Files : ReadOpen(f)
    \/ SweepList \/ SweepRmdir \/ \E x \in Names : SweepUnlink(x)

AwSpec == AwInit /\ [][AwNext]_awVars

\* A process inside a call goes on with it.
FairAwSpec == AwSpec /\ \A p \in Procs : WF_awVars(Call(p))

-----------------------------------------------------------------------------
InCall == {"write", "replace", "undo"}

AwTypeOK ==
    /\ there \in BOOLEAN
    /\ entry \in [Names -> Inodes \cup {None}]
    /\ written \in [Inodes -> 0 .. Size]
    /\ pc \in [Procs -> {"new", "idle", "open", "dead"} \cup InCall]
    /\ target \in [Procs -> Files]
    /\ left \in [Procs -> 0 .. Size]
    /\ calls \in [Procs -> 0 .. MaxCalls]
    /\ result \in [Procs -> {"none", "ok", "exists", "failed"}]
    /\ crashed \subseteq Procs /\ stuck \subseteq Procs \X Files /\ published \subseteq Inodes
    /\ reader \in Inodes \cup {None}
    /\ seen \in 0 .. Size \cup {None}
    /\ sweep \in {"idle", "unlink"}
    /\ todo \subseteq Names

\* atomic_write: "only a complete old or complete new file is ever observable",
\* also to a reader that had the file open while it was replaced or deleted.
ReadsAreWhole == seen \in {None, Size}

\* Processes of pid d that may have left a temp file for f: they died writing
\* f, or could not unlink it.
Spoilers(f, d) ==
    {p \in Procs : /\ PidOf[p] = d
                   /\ (p \in crashed /\ target[p] = f) \/ <<p, f>> \in stuck}

\* Every temp file is one a call is working on, or has a spoiler.
LeftoverHasCause ==
    \A f \in Files, d \in Pids :
        entry[<<f, d>>] # None =>
            \/ \E p \in Procs : PidOf[p] = d /\ pc[p] \in InCall /\ target[p] = f
            \/ Spoilers(f, d) # {}

\* "Distinct processes never compete for it": O_EXCL refuses a call only on
\* account of an earlier one for the same file under the same pid.
RefusalHasCause ==
    \A p \in Procs : result[p] = "exists" => Spoilers(target[p], PidOf[p]) # {}

\* A temp file that is nobody's, and the refusal it causes, go back to a crash
\* or to a failed unlink under the same pid, whatever else was interrupted,
\* swept, or written for other files and by other processes.
LeftoverExplained == LeftoverHasCause /\ RefusalHasCause

\* atomic_write: "The only way a stale temp survives is a hard crash".
StaleTempMeansCrash ==
    \A f \in Files, d \in Pids :
        entry[<<f, d>>] # None =>
            \E p \in Procs :
                /\ PidOf[p] = d
                /\ (pc[p] \in InCall /\ target[p] = f) \/ p \in crashed

\* A call returns or dies: write_all raises when it "cannot advance the loop
\* ... rather than spinning".
CallsReturn == \A p \in Procs : pc[p] = "write" ~> pc[p] \in {"idle", "dead"}

\* What a reader of the name finds; <<p, 0>> is no version.
Version(i) == IF i = None \/ written[i] = Size THEN i ELSE <<i[1], 0>>

Promise == INSTANCE AtomicFile WITH
    Versions <- Inodes,
    content <- [f \in Files |-> Version(entry[Final(f)])]

\* atomic_write's "true atomic replace": every step of the writers and of the
\* sweep publishes a complete new version, removes one, or shows nothing.
KeepsPromise == Promise!Spec
=============================================================================
