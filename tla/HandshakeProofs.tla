-------------------------- MODULE HandshakeProofs --------------------------
(***************************************************************************)
(* The safety of one command and its worker.  HsInv adds to the checked    *)
(* invariants what each of the two processes implies about the lock        *)
(* (LockInv), about the answer on its way (AnswerInv), about the files of  *)
(* the directory (FilesInv) and about the daemon a teardown is after       *)
(* (TeardownInv).                                                          *)
(***************************************************************************)
EXTENDS Handshake, TLAPS

\* The worker is a daemon: its success was read, or can be.
Up == {"closed", "serving"}

\* Stages in which the worker has the lock, whatever it will report.
Holding == {"naming", "input", "starting", "closed", "serving", "cleanup", "keeping"}

LockInv ==
    /\ wkr = "none" <=> cli \in {"spawn", "failed"}
    /\ wkr \in Holding => owner = "ours"
    /\ wkr \in {"none", "boot", "removing", "leaving"} \cup Gone => owner # "ours"
    /\ wkr = "removing" => owner = None

\* How far the answer got: it is whole once the worker has gone on from
\* reporting, and spawn_daemon returns what was written.
AnswerInv ==
    /\ wkr \in {"none", "boot", "naming", "input", "starting"} => frame = None
    /\ wkr \in Up \cup {"keeping"} => frame = "success"
    /\ wkr = "reporting" =>
           /\ frame # None
           /\ frame \in {"success", "required_failure"} => owner = "ours"
    /\ pipe = "whole" =>
           /\ frame # None
           /\ wkr \in Up \cup {"cleanup", "removing", "leaving", "keeping"} \cup Gone
    /\ wkr \in Up => pipe = "whole"
    /\ cli \in {"spawn", "send", "read", "terminate", "reap"} => got = None
    /\ got = None => ReaderOpen \/ cli \in {"spawn", "failed", "killed"}
    /\ got \in Kinds => pipe = "whole" /\ got = frame
    /\ got = "timeout" => wkr \in Gone

\* The foreign daemon keeps its directory, and while the command still reads,
\* so does our worker: only a worker that has the lock writes there.
FilesInv ==
    /\ owner = "foreign" => data = "foreign" /\ ident = "foreign" /\ supplied
    /\ owner = "ours" => ident # "foreign"
    /\ frame \in {"success", "required_failure"} \/ wkr = "removing" => ident # "foreign"
    /\ wkr \in Up => data = "ours" /\ ident = "ours"
    /\ ReaderOpen /\ (wkr \in {"naming", "input", "starting"}
                        \/ (wkr = "reporting" /\ frame = "success")) =>
           data = "ours" /\ (wkr # "naming" => ident = "ours")

\* The daemon a teardown is after, and why no other one can be up meanwhile.
TeardownInv ==
    /\ cli \in {"teardown", "verify", "signal", "await", "sweep"} =>
           verb = "run" /\ got \notin Failures \cup {None}
    /\ cli \in {"supervise", "child"} => verb = "run" /\ got = "success"
    /\ cli = "emit" => verb = "start"
    /\ cli \in {"verify", "signal", "await", "sweep"} =>
           /\ victim # "ours" => wkr \notin Up
           /\ victim # "foreign" => owner # "foreign"
           /\ victim = "foreign" => got \in {"handshake", "timeout"}
    /\ cli \in {"verify", "signal", "await"} => victim # None
    /\ cli = "signal" /\ victim = "foreign" => owner = "foreign"
    /\ cli = "await" /\ victim = "foreign" => owner # "foreign"
    /\ cli = "sweep" => owner # "foreign" /\ wkr \notin Up
    /\ verb = "run" /\ cli = "done" /\ ~warned => wkr \notin Up
    /\ hit => got \in {"handshake", "timeout"}

HsInv == HsTypeOK /\ LockInv /\ AnswerInv /\ FilesInv /\ TeardownInv

-----------------------------------------------------------------------------
\* It holds at first.
LEMMA InitEstablishes == HsInit => HsInv
BY HsAssumption
DEF HsInit, HsInv, HsTypeOK, LockInv, AnswerInv, FilesInv, TeardownInv, CliSteps, WorkerSteps,
    Kinds, Failures, Daemons, Gone, Holding, Up, ReaderOpen

-----------------------------------------------------------------------------
(* Each part of it is kept by each action of the worker and of the command.  *)

\* The type invariant in two parts: the flags, and the rest.
FlagsOK ==
    /\ supplied \in BOOLEAN /\ big \in BOOLEAN /\ tasks \in BOOLEAN
    /\ root \in BOOLEAN /\ warned \in BOOLEAN /\ hit \in BOOLEAN

ValuesOK ==
    /\ verb \in {"start", "run"}
    /\ cli \in CliSteps /\ wkr \in WorkerSteps
    /\ sent \in {"open", "whole", "cut"}
    /\ frame \in Kinds \cup {None}
    /\ pipe \in {"empty", "part", "whole"}
    /\ got \in Kinds \cup {None, "handshake", "timeout"}
    /\ owner \in Daemons \cup {None}
    /\ ident \in Daemons \cup {None}
    /\ data \in Daemons \cup {None, "cli"}
    /\ victim \in Daemons \cup {None}

\* The flags stay flags.
LEMMA FlagsStep ==
    ASSUME FlagsOK, [HsNext]_hsVars
    PROVE  FlagsOK'
<1> USE DEF FlagsOK, fixed, cliVars, pipeVars, dirVars
<1>1. CASE Create BY <1>1, Zenon DEF Create, Refused, Answer, WorkerTo
<1>2. CASE Identify BY <1>2, Zenon DEF Identify, WorkerTo
<1>3. CASE ReadSchema BY <1>3, Zenon DEF ReadSchema, Answer, WorkerTo
<1>4. CASE StartAll BY <1>4, Zenon DEF StartAll, Materialize, Answer, WorkerTo
<1>5. CASE WriteFrame BY <1>5, Zenon DEF WriteFrame, Reported, WorkerDies, WorkerTo
<1>6. CASE Serve BY <1>6, Zenon DEF Serve, WorkerTo
<1>7. CASE StopServing BY <1>7, Zenon DEF StopServing, WorkerTo
<1>8. CASE GiveUp BY <1>8, Zenon DEF GiveUp, WorkerTo
<1>9. CASE Remove BY <1>9, Zenon DEF Remove, Answer, WorkerTo
<1>10. CASE Leave BY <1>10, Zenon DEF Leave, Materialize, WorkerTo
<1>11. CASE Die BY <1>11, Zenon DEF Die, WorkerDies, WorkerTo
<1>12. CASE Spawn BY <1>12, Zenon DEF Spawn, CliTo, WorkerTo
<1>13. CASE Send BY <1>13, Zenon DEF Send, CliTo
<1>14. CASE ReadFrame BY <1>14, Zenon DEF ReadFrame, SpawnReturnsWith, CliTo, WriterOpen
<1>15. CASE ReadError BY <1>15, Zenon DEF ReadError, SpawnReturnsWith, CliTo
<1>16. CASE Deadline BY <1>16, Zenon DEF Deadline, CliTo
<1>17. CASE Terminate BY <1>17, Zenon DEF Terminate, TermWorker, PastServing, WorkerDies,
      WorkerTo, CliTo
<1>18. CASE Reap BY <1>18, Zenon DEF Reap, SpawnReturnsWith, CliTo, WorkerDies, WorkerTo
<1>19. CASE DispatchStart BY <1>19, Zenon DEF DispatchStart, CliTo
<1>20. CASE EmitStart BY <1>20, Zenon DEF EmitStart, MakeOutput, Materialize, CliTo
<1>21. CASE DispatchRun BY <1>21, Zenon DEF DispatchRun, RemoveRoot, CliTo
<1>22. CASE Supervise BY <1>22, Zenon DEF Supervise, MakeOutput, Materialize, CliTo
<1>23. CASE ChildEnds BY <1>23, Zenon DEF ChildEnds, CliTo
<1>24. CASE Teardown BY <1>24, Zenon DEF Teardown, CliTo
<1>25. CASE Verify BY <1>25, Zenon DEF Verify, Preserve, CliTo
<1>26. CASE Signal BY <1>26, Zenon DEF Signal, TermWorker, PastServing, WorkerDies,
      WorkerTo, CliTo
<1>27. CASE Await BY <1>27, Zenon DEF Await, Preserve, WorkerDies, WorkerTo, CliTo
<1>28. CASE Sweep BY <1>28, Zenon DEF Sweep, CliTo
<1>29. CASE CliKilled BY <1>29, Zenon DEF CliKilled, CliTo
<1>30. CASE UNCHANGED hsVars BY <1>30 DEF hsVars
<1> QED BY <1>1, <1>2, <1>3, <1>4, <1>5, <1>6, <1>7, <1>8, <1>9, <1>10, <1>11,
       <1>12, <1>13, <1>14, <1>15, <1>16, <1>17, <1>18, <1>19, <1>20, <1>21, <1>22,
       <1>23, <1>24, <1>25, <1>26, <1>27, <1>28, <1>29, <1>30 DEF HsNext, WorkerStep, CliStep

\* Every other variable stays among its values.
LEMMA ValuesStep ==
    ASSUME ValuesOK, [HsNext]_hsVars
    PROVE  ValuesOK'
<1> USE DEF ValuesOK, CliSteps, WorkerSteps, Kinds, Failures, Daemons, fixed, cliVars,
        pipeVars, dirVars
<1>1. CASE Create BY <1>1 DEF Create, Refused, Answer, WorkerTo
<1>2. CASE Identify BY <1>2 DEF Identify, WorkerTo
<1>3. CASE ReadSchema BY <1>3 DEF ReadSchema, Answer, WorkerTo
<1>4. CASE StartAll BY <1>4 DEF StartAll, Materialize, Answer, WorkerTo
<1>5. CASE WriteFrame BY <1>5 DEF WriteFrame, Reported, WorkerDies, WorkerTo
<1>6. CASE Serve BY <1>6 DEF Serve, WorkerTo
<1>7. CASE StopServing BY <1>7 DEF StopServing, WorkerTo
<1>8. CASE GiveUp BY <1>8 DEF GiveUp, WorkerTo
<1>9. CASE Remove BY <1>9 DEF Remove, Answer, WorkerTo
<1>10. CASE Leave BY <1>10 DEF Leave, Materialize, WorkerTo
<1>11. CASE Die BY <1>11 DEF Die, WorkerDies, WorkerTo
<1>12. CASE Spawn BY <1>12 DEF Spawn, CliTo, WorkerTo
<1>13. CASE Send BY <1>13 DEF Send, CliTo
<1>14. CASE ReadFrame BY <1>14 DEF ReadFrame, SpawnReturnsWith, CliTo, WriterOpen
<1>15. CASE ReadError BY <1>15 DEF ReadError, SpawnReturnsWith, CliTo
<1>16. CASE Deadline BY <1>16 DEF Deadline, CliTo
<1>17. CASE Terminate BY <1>17 DEF Terminate, TermWorker, PastServing, WorkerDies,
      WorkerTo, CliTo
<1>18. CASE Reap BY <1>18 DEF Reap, SpawnReturnsWith, CliTo, WorkerDies, WorkerTo
<1>19. CASE DispatchStart BY <1>19 DEF DispatchStart, CliTo
<1>20. CASE EmitStart BY <1>20 DEF EmitStart, MakeOutput, Materialize, CliTo
<1>21. CASE DispatchRun BY <1>21 DEF DispatchRun, RemoveRoot, CliTo
<1>22. CASE Supervise BY <1>22 DEF Supervise, MakeOutput, Materialize, CliTo
<1>23. CASE ChildEnds BY <1>23 DEF ChildEnds, CliTo
<1>24. CASE Teardown BY <1>24 DEF Teardown, CliTo
<1>25. CASE Verify BY <1>25 DEF Verify, Preserve, CliTo
<1>26. CASE Signal BY <1>26 DEF Signal, TermWorker, PastServing, WorkerDies, WorkerTo,
      CliTo
<1>27. CASE Await BY <1>27 DEF Await, Preserve, WorkerDies, WorkerTo, CliTo
<1>28. CASE Sweep BY <1>28 DEF Sweep, CliTo
<1>29. CASE CliKilled BY <1>29 DEF CliKilled, CliTo
<1>30. CASE UNCHANGED hsVars BY <1>30 DEF hsVars
<1> QED BY <1>1, <1>2, <1>3, <1>4, <1>5, <1>6, <1>7, <1>8, <1>9, <1>10, <1>11,
       <1>12, <1>13, <1>14, <1>15, <1>16, <1>17, <1>18, <1>19, <1>20, <1>21, <1>22,
       <1>23, <1>24, <1>25, <1>26, <1>27, <1>28, <1>29, <1>30 DEF HsNext, WorkerStep, CliStep

\* Who has the lock.
LEMMA LockStep ==
    ASSUME HsInv, [HsNext]_hsVars
    PROVE  LockInv'
<1> USE HsAssumption DEF HsInv, HsTypeOK, LockInv, AnswerInv, TeardownInv, Daemons,
        Gone, Holding, cliVars, dirVars
<1>1. CASE Create BY <1>1 DEF Create, Refused, Answer, WorkerTo
<1>2. CASE Identify BY <1>2 DEF Identify, WorkerTo
<1>3. CASE ReadSchema BY <1>3 DEF ReadSchema, Answer, WorkerTo
<1>4. CASE StartAll BY <1>4 DEF StartAll, Materialize, Answer, WorkerTo
<1>5. CASE WriteFrame BY <1>5 DEF WriteFrame, Reported, WorkerDies, WorkerTo
<1>6. CASE Serve BY <1>6 DEF Serve, WorkerTo
<1>7. CASE StopServing BY <1>7 DEF StopServing, WorkerTo
<1>8. CASE GiveUp BY <1>8 DEF GiveUp, WorkerTo
<1>9. CASE Remove BY <1>9 DEF Remove, Answer, WorkerTo
<1>10. CASE Leave BY <1>10 DEF Leave, Materialize, WorkerTo
<1>11. CASE Die BY <1>11 DEF Die, WorkerDies, WorkerTo
<1>12. CASE Spawn BY <1>12 DEF Spawn, CliTo, WorkerTo
<1>13. CASE Send BY <1>13 DEF Send, CliTo
<1>14. CASE ReadFrame BY <1>14 DEF ReadFrame, SpawnReturnsWith, CliTo, WriterOpen
<1>15. CASE ReadError BY <1>15 DEF ReadError, SpawnReturnsWith, CliTo
<1>16. CASE Deadline BY <1>16 DEF Deadline, CliTo
<1>17. CASE Terminate BY <1>17 DEF Terminate, TermWorker, PastServing, WorkerDies,
      WorkerTo, CliTo
<1>18. CASE Reap BY <1>18 DEF Reap, SpawnReturnsWith, CliTo, WorkerDies, WorkerTo
<1>19. CASE DispatchStart BY <1>19 DEF DispatchStart, CliTo
<1>20. CASE EmitStart BY <1>20 DEF EmitStart, MakeOutput, Materialize, CliTo
<1>21. CASE DispatchRun BY <1>21 DEF DispatchRun, RemoveRoot, CliTo
<1>22. CASE Supervise BY <1>22 DEF Supervise, MakeOutput, Materialize, CliTo
<1>23. CASE ChildEnds BY <1>23 DEF ChildEnds, CliTo
<1>24. CASE Teardown BY <1>24 DEF Teardown, CliTo
<1>25. CASE Verify BY <1>25 DEF Verify, Preserve, CliTo
<1>26. CASE Signal BY <1>26 DEF Signal, TermWorker, PastServing, WorkerDies, WorkerTo,
      CliTo
<1>27. CASE Await BY <1>27 DEF Await, Preserve, WorkerDies, WorkerTo, CliTo
<1>28. CASE Sweep BY <1>28 DEF Sweep, CliTo
<1>29. CASE CliKilled BY <1>29 DEF CliKilled, CliTo
<1>30. CASE UNCHANGED hsVars BY <1>30 DEF hsVars
<1> QED BY <1>1, <1>2, <1>3, <1>4, <1>5, <1>6, <1>7, <1>8, <1>9, <1>10, <1>11,
       <1>12, <1>13, <1>14, <1>15, <1>16, <1>17, <1>18, <1>19, <1>20, <1>21, <1>22,
       <1>23, <1>24, <1>25, <1>26, <1>27, <1>28, <1>29, <1>30 DEF HsNext, WorkerStep, CliStep

\* How far the answer got.
LEMMA AnswerStep ==
    ASSUME HsInv, [HsNext]_hsVars
    PROVE  AnswerInv'
<1> USE HsAssumption DEF HsInv, HsTypeOK, LockInv, AnswerInv, TeardownInv, Kinds,
        Failures, Daemons, Gone, Holding, Up, ReaderOpen, cliVars, pipeVars, dirVars
<1>1. CASE Create BY <1>1 DEF Create, Refused, Answer, WorkerTo
<1>2. CASE Identify BY <1>2 DEF Identify, WorkerTo
<1>3. CASE ReadSchema BY <1>3 DEF ReadSchema, Answer, WorkerTo
<1>4. CASE StartAll BY <1>4 DEF StartAll, Materialize, Answer, WorkerTo
<1>5. CASE WriteFrame BY <1>5 DEF WriteFrame, Reported, WorkerDies, WorkerTo
<1>6. CASE Serve BY <1>6 DEF Serve, WorkerTo
<1>7. CASE StopServing BY <1>7 DEF StopServing, WorkerTo
<1>8. CASE GiveUp BY <1>8 DEF GiveUp, WorkerTo
<1>9. CASE Remove BY <1>9 DEF Remove, Answer, WorkerTo
<1>10. CASE Leave BY <1>10 DEF Leave, Materialize, WorkerTo
<1>11. CASE Die BY <1>11 DEF Die, WorkerDies, WorkerTo
<1>12. CASE Spawn BY <1>12 DEF Spawn, CliTo, WorkerTo
<1>13. CASE Send BY <1>13 DEF Send, CliTo
<1>14. CASE ReadFrame BY <1>14 DEF ReadFrame, SpawnReturnsWith, CliTo, WriterOpen
<1>15. CASE ReadError BY <1>15 DEF ReadError, SpawnReturnsWith, CliTo
<1>16. CASE Deadline BY <1>16 DEF Deadline, CliTo
<1>17. CASE Terminate BY <1>17 DEF Terminate, TermWorker, PastServing, WorkerDies,
      WorkerTo, CliTo
<1>18. CASE Reap BY <1>18 DEF Reap, SpawnReturnsWith, CliTo, WorkerDies, WorkerTo
<1>19. CASE DispatchStart BY <1>19 DEF DispatchStart, CliTo
<1>20. CASE EmitStart BY <1>20 DEF EmitStart, MakeOutput, Materialize, CliTo
<1>21. CASE DispatchRun BY <1>21 DEF DispatchRun, RemoveRoot, CliTo
<1>22. CASE Supervise BY <1>22 DEF Supervise, MakeOutput, Materialize, CliTo
<1>23. CASE ChildEnds BY <1>23 DEF ChildEnds, CliTo
<1>24. CASE Teardown BY <1>24 DEF Teardown, CliTo
<1>25. CASE Verify BY <1>25 DEF Verify, Preserve, CliTo
<1>26. CASE Signal BY <1>26 DEF Signal, TermWorker, PastServing, WorkerDies, WorkerTo,
      CliTo
<1>27. CASE Await BY <1>27 DEF Await, Preserve, WorkerDies, WorkerTo, CliTo
<1>28. CASE Sweep BY <1>28 DEF Sweep, CliTo
<1>29. CASE CliKilled BY <1>29 DEF CliKilled, CliTo
<1>30. CASE UNCHANGED hsVars BY <1>30 DEF hsVars
<1> QED BY <1>1, <1>2, <1>3, <1>4, <1>5, <1>6, <1>7, <1>8, <1>9, <1>10, <1>11,
       <1>12, <1>13, <1>14, <1>15, <1>16, <1>17, <1>18, <1>19, <1>20, <1>21, <1>22,
       <1>23, <1>24, <1>25, <1>26, <1>27, <1>28, <1>29, <1>30 DEF HsNext, WorkerStep, CliStep

\* Whose files there are.
LEMMA FilesStep ==
    ASSUME HsInv, [HsNext]_hsVars
    PROVE  FilesInv'
<1> USE HsAssumption DEF HsInv, LockInv, AnswerInv, FilesInv, TeardownInv, Kinds,
        Failures, Daemons, Holding, Up, ReaderOpen, fixed, cliVars, pipeVars, dirVars
<1>1. CASE Create BY <1>1 DEF Create, Refused, Answer, WorkerTo
<1>2. CASE Identify BY <1>2 DEF Identify, WorkerTo
<1>3. CASE ReadSchema BY <1>3 DEF ReadSchema, Answer, WorkerTo
<1>4. CASE StartAll BY <1>4 DEF StartAll, Materialize, Answer, WorkerTo
<1>5. CASE WriteFrame BY <1>5 DEF WriteFrame, Reported, WorkerDies, WorkerTo
<1>6. CASE Serve BY <1>6 DEF Serve, WorkerTo
<1>7. CASE StopServing BY <1>7 DEF StopServing, WorkerTo
<1>8. CASE GiveUp BY <1>8 DEF GiveUp, WorkerTo
<1>9. CASE Remove BY <1>9 DEF Remove, Answer, WorkerTo
<1>10. CASE Leave BY <1>10 DEF Leave, Materialize, WorkerTo
<1>11. CASE Die BY <1>11 DEF Die, WorkerDies, WorkerTo
<1>12. CASE Spawn BY <1>12 DEF Spawn, CliTo, WorkerTo
<1>13. CASE Send BY <1>13 DEF Send, CliTo
<1>14. CASE ReadFrame BY <1>14 DEF ReadFrame, SpawnReturnsWith, CliTo, WriterOpen
<1>15. CASE ReadError BY <1>15 DEF ReadError, SpawnReturnsWith, CliTo
<1>16. CASE Deadline BY <1>16 DEF Deadline, CliTo
<1>17. CASE Terminate BY <1>17 DEF Terminate, TermWorker, PastServing, WorkerDies,
      WorkerTo, CliTo
<1>18. CASE Reap BY <1>18 DEF Reap, SpawnReturnsWith, CliTo, WorkerDies, WorkerTo
<1>19. CASE DispatchStart BY <1>19 DEF DispatchStart, CliTo
<1>20. CASE EmitStart BY <1>20 DEF EmitStart, MakeOutput, Materialize, CliTo
<1>21. CASE DispatchRun BY <1>21 DEF DispatchRun, RemoveRoot, CliTo
<1>22. CASE Supervise BY <1>22 DEF Supervise, MakeOutput, Materialize, CliTo
<1>23. CASE ChildEnds BY <1>23 DEF ChildEnds, CliTo
<1>24. CASE Teardown BY <1>24 DEF Teardown, CliTo
<1>25. CASE Verify BY <1>25 DEF Verify, Preserve, CliTo
<1>26. CASE Signal BY <1>26 DEF Signal, TermWorker, PastServing, WorkerDies, WorkerTo,
      CliTo
<1>27. CASE Await BY <1>27 DEF Await, Preserve, WorkerDies, WorkerTo, CliTo
<1>28. CASE Sweep BY <1>28 DEF Sweep, CliTo
<1>29. CASE CliKilled BY <1>29 DEF CliKilled, CliTo
<1>30. CASE UNCHANGED hsVars BY <1>30 DEF hsVars
<1> QED BY <1>1, <1>2, <1>3, <1>4, <1>5, <1>6, <1>7, <1>8, <1>9, <1>10, <1>11,
       <1>12, <1>13, <1>14, <1>15, <1>16, <1>17, <1>18, <1>19, <1>20, <1>21, <1>22,
       <1>23, <1>24, <1>25, <1>26, <1>27, <1>28, <1>29, <1>30 DEF HsNext, WorkerStep, CliStep

\* Which daemon a teardown is after.
LEMMA TeardownStep ==
    ASSUME HsInv, [HsNext]_hsVars
    PROVE  TeardownInv'
<1> USE HsAssumption DEF HsInv, HsTypeOK, LockInv, AnswerInv, FilesInv, TeardownInv,
        Kinds, Failures, Daemons, Holding, Up, ReaderOpen, fixed, cliVars, dirVars
<1>1. CASE Create BY <1>1 DEF Create, Refused, Answer, WorkerTo
<1>2. CASE Identify BY <1>2 DEF Identify, WorkerTo
<1>3. CASE ReadSchema BY <1>3 DEF ReadSchema, Answer, WorkerTo
<1>4. CASE StartAll BY <1>4 DEF StartAll, Materialize, Answer, WorkerTo
<1>5. CASE WriteFrame BY <1>5 DEF WriteFrame, Reported, WorkerDies, WorkerTo
<1>6. CASE Serve BY <1>6 DEF Serve, WorkerTo
<1>7. CASE StopServing BY <1>7 DEF StopServing, WorkerTo
<1>8. CASE GiveUp BY <1>8 DEF GiveUp, WorkerTo
<1>9. CASE Remove BY <1>9 DEF Remove, Answer, WorkerTo
<1>10. CASE Leave BY <1>10 DEF Leave, Materialize, WorkerTo
<1>11. CASE Die BY <1>11 DEF Die, WorkerDies, WorkerTo
<1>12. CASE Spawn BY <1>12 DEF Spawn, CliTo, WorkerTo
<1>13. CASE Send BY <1>13 DEF Send, CliTo
<1>14. CASE ReadFrame BY <1>14 DEF ReadFrame, SpawnReturnsWith, CliTo, WriterOpen
<1>15. CASE ReadError BY <1>15 DEF ReadError, SpawnReturnsWith, CliTo
<1>16. CASE Deadline BY <1>16 DEF Deadline, CliTo
<1>17. CASE Terminate BY <1>17 DEF Terminate, TermWorker, PastServing, WorkerDies,
      WorkerTo, CliTo
<1>18. CASE Reap BY <1>18 DEF Reap, SpawnReturnsWith, CliTo, WorkerDies, WorkerTo
<1>19. CASE DispatchStart BY <1>19 DEF DispatchStart, CliTo
<1>20. CASE EmitStart BY <1>20 DEF EmitStart, MakeOutput, Materialize, CliTo
<1>21. CASE DispatchRun BY <1>21 DEF DispatchRun, RemoveRoot, CliTo
<1>22. CASE Supervise BY <1>22 DEF Supervise, MakeOutput, Materialize, CliTo
<1>23. CASE ChildEnds BY <1>23 DEF ChildEnds, CliTo
<1>24. CASE Teardown BY <1>24 DEF Teardown, CliTo
<1>25. CASE Verify BY <1>25 DEF Verify, Preserve, CliTo
<1>26. CASE Signal BY <1>26 DEF Signal, TermWorker, PastServing, WorkerDies, WorkerTo,
      CliTo
<1>27. CASE Await BY <1>27 DEF Await, Preserve, WorkerDies, WorkerTo, CliTo
<1>28. CASE Sweep BY <1>28 DEF Sweep, CliTo
<1>29. CASE CliKilled BY <1>29 DEF CliKilled, CliTo
<1>30. CASE UNCHANGED hsVars BY <1>30 DEF hsVars
<1> QED BY <1>1, <1>2, <1>3, <1>4, <1>5, <1>6, <1>7, <1>8, <1>9, <1>10, <1>11,
       <1>12, <1>13, <1>14, <1>15, <1>16, <1>17, <1>18, <1>19, <1>20, <1>21, <1>22,
       <1>23, <1>24, <1>25, <1>26, <1>27, <1>28, <1>29, <1>30 DEF HsNext, WorkerStep, CliStep

-----------------------------------------------------------------------------
\* Every step of a command and its worker, and every death of either, keeps the
\* invariant, whatever the other one is doing.
THEOREM HandshakeInvariant == HsSpec => []HsInv
<1>1. HsInv /\ [HsNext]_hsVars => HsInv'
  <2> SUFFICES ASSUME HsInv, [HsNext]_hsVars PROVE HsInv' OBVIOUS
  <2>1. HsTypeOK'
    <3>1. FlagsOK /\ ValuesOK BY DEF HsInv, HsTypeOK, FlagsOK, ValuesOK
    <3>2. FlagsOK' /\ ValuesOK' BY <3>1, FlagsStep, ValuesStep
    <3> QED BY <3>2 DEF HsTypeOK, FlagsOK, ValuesOK
  <2> QED BY <2>1, LockStep, AnswerStep, FilesStep, TeardownStep DEF HsInv
<1> QED BY <1>1, InitEstablishes, PTL DEF HsSpec

\* Type correctness.
THEOREM HandshakeTypeCorrect == HsSpec => []HsTypeOK
<1>1. HsInv => HsTypeOK BY DEF HsInv
<1> QED BY <1>1, HandshakeInvariant, PTL

\* A `run` that ends without a warning leaves no daemon of its own up, and a
\* start that timed out no worker at all (_teardown_run, _reap_timed_out_worker):
\* for every order in which the two processes move, and wherever either dies.
THEOREM NobodyLeftBehind == HsSpec => []NoDaemonLeft
<1>1. HsInv => NoDaemonLeft
  BY DEF HsInv, AnswerInv, TeardownInv, Up, NoDaemonLeft, RunLeavesNoDaemon, TimeoutReaps
<1> QED BY <1>1, HandshakeInvariant, PTL

\* The directory of a daemon that serves keeps its lock, its data and its
\* identity, through the start, the failures and the teardown of another
\* command there.
THEOREM ServingDaemonKeepsDir == HsSpec => []DaemonKeepsDir
<1>1. HsInv => DaemonKeepsDir
  BY DEF HsInv, LockInv, FilesInv, Holding, Up, DaemonKeepsDir
<1> QED BY <1>1, HandshakeInvariant, PTL

\* A `run` that got its worker's answer never signals the daemon of another.
THEOREM AnswerSparesForeign == HsSpec => []AnsweredRunSparesForeign
<1>1. HsInv => AnsweredRunSparesForeign
  BY DEF HsInv, TeardownInv, AnsweredRunSparesForeign
<1> QED BY <1>1, HandshakeInvariant, PTL
=============================================================================
