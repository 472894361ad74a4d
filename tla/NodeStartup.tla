---------------------------- MODULE NodeStartup ----------------------------
(***************************************************************************)
(* The startup of the nodes in the worker (manager.py with ssh.py,         *)
(* fetcher.py and run_kube_targets of kube.py): one asyncio task per node, *)
(* gathered by start_all_and_build_output, and what _worker._run does with *)
(* the result.  Tasks interleave where they await; what a task does        *)
(* between two awaits is one step.  A connection may be lost at any time.  *)
(***************************************************************************)
CONSTANTS
    Nodes, Required,            \* schema.nodes; those with required = true
    FileNodes, FileRequired,    \* nodes with fetch_files; with a required one
    KubeNodes,                  \* nodes with kube_targets
    Kube, KubeRequired,         \* the targets of each; the required ones
    None

ASSUME StartupAssumption ==
    /\ Required \subseteq Nodes
    /\ FileRequired \subseteq FileNodes /\ FileNodes \subseteq Nodes
    /\ KubeNodes \subseteq Nodes /\ KubeRequired \subseteq Kube
    /\ None \notin {"success", "required_failure", "daemon_error"}

VARIABLES
    pc,         \* where each node's task is
    conn,       \* its SSH connection
    forwards,   \* are its local forwards open?
    kube,       \* its kube targets whose forward is open
    todo,       \* its kube targets not processed yet
    short,      \* does something required of it miss?
    runtimes,   \* TunnelManager._runtimes
    files,      \* nodes with materialized files in tunnel-data/
    main,       \* where _run is
    closing,    \* runtimes that stop_all has yet to close
    verdict     \* the outcome it reports

taskVars == <<pc, conn, forwards, kube, todo, short>>
mainVars == <<main, closing, verdict>>
nsVars == <<taskVars, runtimes, files, mainVars>>

Running == {"connect", "forward", "fetch", "kube", "closing"}

NsInit ==
    /\ pc = [n \in Nodes |-> "connect"]
    /\ conn = [n \in Nodes |-> "none"]
    /\ forwards = [n \in Nodes |-> FALSE]
    /\ kube = [n \in Nodes |-> {}]
    /\ todo = [n \in Nodes |-> Kube]
    /\ short = [n \in Nodes |-> FALSE]
    /\ runtimes = {} /\ files = {}
    /\ main = "gather" /\ closing = {} /\ verdict = None

-----------------------------------------------------------------------------
(* _start_one for node n.                                                  *)

\* The tasks run until asyncio.run cancels them.
Runs(n, at) == pc[n] = at /\ main # "ended"

\* A node that is up joins _runtimes in the same step.
Goto(n, at) ==
    /\ pc' = [pc EXCEPT ![n] = at]
    /\ runtimes' = IF at = "up" THEN runtimes \cup {n} ELSE runtimes

AfterFetch(n) == IF n \in KubeNodes THEN "kube" ELSE "up"
AfterForwards(n) == IF n \in FileNodes THEN "fetch" ELSE AfterFetch(n)

\* open_connection; its failure leaves nothing to close.
Connect(n) ==
    /\ Runs(n, "connect")
    /\ \/ Goto(n, "forward") /\ conn' = [conn EXCEPT ![n] = "open"]
       \/ Goto(n, "failed") /\ UNCHANGED conn
    /\ UNCHANGED <<forwards, kube, todo, short, files, mainVars>>

\* open_local_forwards; on failure it has closed its listeners itself.
OpenForwards(n) ==
    /\ Runs(n, "forward")
    /\ \/ /\ conn[n] = "open"
          /\ forwards' = [forwards EXCEPT ![n] = TRUE]
          /\ Goto(n, AfterForwards(n))
       \/ Goto(n, "closing") /\ UNCHANGED forwards
    /\ UNCHANGED <<conn, kube, todo, short, files, mainVars>>

\* fetch_files has an error for every file it could not get, then what there is
\* is materialized, and only then a missing required file counts.
Fetch(n) ==
    /\ Runs(n, "fetch")
    /\ \E miss \in BOOLEAN :
          /\ miss => n \in FileRequired
          /\ conn[n] = "open" \/ miss \/ n \notin FileRequired
          /\ short' = [short EXCEPT ![n] = miss]
          /\ files' \in {files, files \cup {n}}
          /\ Goto(n, IF miss THEN "closing" ELSE AfterFetch(n))
    /\ UNCHANGED <<conn, forwards, kube, todo, mainVars>>

\* One turn of the loop in run_kube_targets for target t of node n ends with
\* the target ready, its forward open ...
KubeReady(n, t) ==
    /\ conn[n] = "open"
    /\ todo' = [todo EXCEPT ![n] = @ \ {t}]
    /\ kube' = [kube EXCEPT ![n] = @ \cup {t}]
    /\ UNCHANGED <<pc, runtimes, short>>

\* ... with an error that concerns the target alone ...
KubeMissed(n, t) ==
    /\ conn[n] = "open"
    /\ todo' = [todo EXCEPT ![n] = @ \ {t}]
    /\ short' = [short EXCEPT ![n] = IF t \in KubeRequired THEN TRUE ELSE @]
    /\ UNCHANGED <<pc, runtimes, kube>>

\* ... or with one of SFTP, of the forward or of the certificate probe, which
\* leaves the loop and fails the node.
KubeFails(n) ==
    /\ Goto(n, "closing")
    /\ UNCHANGED <<todo, kube, short>>

KubeTarget(n, t) ==
    /\ Runs(n, "kube") /\ t \in todo[n]
    /\ KubeReady(n, t) \/ KubeMissed(n, t) \/ KubeFails(n)
    /\ UNCHANGED <<conn, forwards, files, mainVars>>

\* After the loop (the last listener may have been waited for) the kubeconfigs
\* are materialized, and only then a missing required target counts.
KubeDone(n) ==
    /\ Runs(n, "kube") /\ todo[n] = {}
    /\ files' \in {files, files \cup {n}}
    /\ Goto(n, IF short[n] THEN "closing" ELSE "up")
    /\ UNCHANGED <<conn, forwards, kube, todo, short, mainVars>>

\* What is not in _NODE_STARTUP_ERRORS, an OSError or SessionError of
\* materializing above all, leaves _start_one, and an open connection stays open;
\* open_local_forwards has closed its listeners.
Raise(n) ==
    /\ \E at \in {"connect", "forward", "fetch", "kube"} : Runs(n, at)
    /\ Goto(n, "raised")
    /\ \/ UNCHANGED files
       \/ pc[n] \in {"fetch", "kube"} /\ files' = files \cup {n}
    /\ UNCHANGED <<conn, forwards, kube, todo, short, mainVars>>

\* close_transport and the connection's own cleanup close every listener of it.
Disconnect(n, how) ==
    /\ conn' = [conn EXCEPT ![n] = how]
    /\ forwards' = [forwards EXCEPT ![n] = FALSE]
    /\ kube' = [kube EXCEPT ![n] = {}]

\* The end of a node that failed after it was connected.
CloseFailed(n) ==
    /\ Runs(n, "closing")
    /\ Goto(n, "failed")
    /\ Disconnect(n, "closed")
    /\ UNCHANGED <<todo, short, files, mainVars>>

\* The network, or the server, drops the connection.
Lose(n) ==
    /\ conn[n] = "open" /\ main # "ended"
    /\ Disconnect(n, "lost")
    /\ UNCHANGED <<pc, todo, short, runtimes, files, mainVars>>

-----------------------------------------------------------------------------
(* start_all_and_build_output, stop_all and _run.                          *)

\* Mistake: a node that came up is reason enough for success.
GatheredAny ==
    /\ main = "gather"
    /\ \A n \in Nodes : pc[n] \in {"up", "failed"}
    /\ verdict' = IF runtimes # {} THEN "success" ELSE "required_failure"
    /\ main' = IF runtimes # {} THEN "serving" ELSE "stop all"
    /\ UNCHANGED <<taskVars, runtimes, files, closing>>

\* Every task has returned.
Gathered ==
    /\ main = "gather"
    /\ \A n \in Nodes : pc[n] \in {"up", "failed"}
    /\ IF \E n \in Required : pc[n] = "failed"
       THEN verdict' = "required_failure" /\ main' = "stop all"
       ELSE verdict' = "success" /\ main' = "serving"
    /\ UNCHANGED <<taskVars, runtimes, files, closing>>

\* gather passes the first exception on; the other tasks go on running.
GatherRaises ==
    /\ main = "gather"
    /\ \E n \in Nodes : pc[n] = "raised"
    /\ verdict' = "daemon_error" /\ main' = "stop all"
    /\ UNCHANGED <<taskVars, runtimes, files, closing>>

\* Mistake: the runtimes are forgotten before they are copied.
StopAllEmpty ==
    /\ main = "stop all"
    /\ main' = "close" /\ closing' = {} /\ runtimes' = {}
    /\ UNCHANGED <<taskVars, files, verdict>>

\* stop_all takes the runtimes there are ...
StopAll ==
    /\ main = "stop all"
    /\ main' = "close" /\ closing' = runtimes /\ runtimes' = {}
    /\ UNCHANGED <<taskVars, files, verdict>>

\* Mistake: what was closed is not taken off the list.
CloseRuntimeAgain(n) ==
    /\ main = "close" /\ n \in closing
    /\ Disconnect(n, "closed")
    /\ UNCHANGED <<pc, todo, short, runtimes, files, mainVars>>

\* ... and closes one after the other.
CloseRuntime(n) ==
    /\ main = "close" /\ n \in closing
    /\ closing' = closing \ {n}
    /\ Disconnect(n, "closed")
    /\ UNCHANGED <<pc, todo, short, runtimes, files, main, verdict>>

\* The frame is written and session.cleanup() deletes tunnel-data/.
ReportFailure ==
    /\ main = "close" /\ closing = {}
    /\ main' = "return"
    /\ files' = {}
    /\ UNCHANGED <<taskVars, runtimes, closing, verdict>>

\* asyncio.run cancels the other tasks one turn of the event loop after _run
\* returned, and the process exits.
Exit ==
    /\ main = "return"
    /\ main' = "ended"
    /\ UNCHANGED <<taskVars, runtimes, files, closing, verdict>>

-----------------------------------------------------------------------------
Task(n) ==
    \/ Connect(n) \/ OpenForwards(n) \/ Fetch(n) \/ KubeDone(n) \/ CloseFailed(n)
    \/ \E t \in Kube : KubeTarget(n, t)

Main ==
    \/ Gathered \/ GatherRaises \/ StopAll \/ ReportFailure \/ Exit
    \/ \E n \in Nodes : CloseRuntime(n)

\* _supervise follows "serving".
Over == main \in {"serving", "ended"} /\ UNCHANGED nsVars

NsNext ==
    \/ \E n \in Nodes : Task(n) \/ Raise(n) \/ Lose(n)
    \/ Main
    \/ Over

NsSpec == NsInit /\ [][NsNext]_nsVars

\* Two awaits have no timeout and end only with the connection: the opening of
\* fetch_files' SFTP channel and the wait_closed of a missed target's listener.
MayWait(n) == pc[n] \in {"fetch", "kube"} /\ conn[n] = "open"

\* Every other await ends, by its own timeout if not otherwise, and the event
\* loop runs what is ready.
FairNsSpec ==
    /\ NsSpec
    /\ \A n \in Nodes : WF_nsVars(~MayWait(n) /\ Task(n))
    /\ WF_nsVars(Main)

-----------------------------------------------------------------------------
NsTypeOK ==
    /\ pc \in [Nodes -> Running \cup {"up", "failed", "raised"}]
    /\ conn \in [Nodes -> {"none", "open", "lost", "closed"}]
    /\ forwards \in [Nodes -> BOOLEAN]
    /\ kube \in [Nodes -> SUBSET Kube]
    /\ todo \in [Nodes -> SUBSET Kube]
    /\ short \in [Nodes -> BOOLEAN]
    /\ runtimes \subseteq Nodes /\ files \subseteq Nodes
    /\ main \in {"gather", "serving", "stop all", "close", "return", "ended"}
    /\ closing \subseteq Nodes
    /\ verdict \in {None, "success", "required_failure", "daemon_error"}

\* A node is reported as up only with everything that is required of it: its
\* required files and all of its required kube targets, each with its forward
\* while the connection lasts.
UpIsComplete ==
    \A n \in Nodes : pc[n] = "up" =>
        /\ ~short[n]
        /\ n \in KubeNodes /\ conn[n] = "open" => KubeRequired \subseteq kube[n]

\* Success means every required node is up, and the runtimes, which the loss
\* watchdogs and stop_all go by, are exactly the nodes that are: none is
\* reported without being watched and none is left out at the stop.
SuccessIsWatched ==
    verdict = "success" =>
        /\ Required \subseteq runtimes
        /\ runtimes = {n \in Nodes : pc[n] = "up"}

\* What the handshake reports as up is up: complete, held by the manager and
\* watched.
ReportIsTrue == UpIsComplete /\ SuccessIsWatched

\* A node that failed holds no connection and no listener, wherever it failed.
FailedHoldsNothing ==
    \A n \in Nodes : pc[n] = "failed" =>
        conn[n] # "open" /\ ~forwards[n] /\ kube[n] = {}

\* Once a required failure is reported, the nodes that came up are closed too.
FailureClosesAll ==
    verdict = "required_failure" /\ main \in {"return", "ended"} =>
        \A n \in Nodes : conn[n] # "open" /\ ~forwards[n] /\ kube[n] = {}

\* A failure leaves nothing open: not on the node that failed, and after a
\* required one not on the others.
FailureLeavesNothing == FailedHoldsNothing /\ FailureClosesAll

\* The worker comes to a verdict and, unless that is success, to its end,
\* whichever node fails, raises or loses its connection; only a node that waits
\* for ever on a live connection can hold it up, and that before any exception.
StartupEnds ==
    \/ <>(main \in {"serving", "ended"})
    \/ \E n \in Nodes : <>[](MayWait(n) /\ main = "gather")

\* run_kube_targets: "a failure on one (subject to its `required`) does not
\* abort the others".  On a live connection a node with no required target left
\* to process is not failed by the ones that are left.
OptionalKubeTolerated ==
    [][\A n \in Nodes :
           pc[n] = "kube" /\ pc'[n] = "closing" /\ conn[n] = "open" =>
               short[n] \/ todo[n] \cap KubeRequired # {}]_nsVars

\* atomic_write on its callers, materialize_atomic first: the directory is
\* "already minted at 0700 by SessionDir.create".  Nothing is materialized once
\* session.cleanup() has deleted it.
CleanupIsFinal == main \in {"return", "ended"} => files = {}
=============================================================================
