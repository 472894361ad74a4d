------------------------- MODULE NodeStartupProofs -------------------------
(***************************************************************************)
(* The safety of the nodes' startup, for any nodes, files and kube targets.*)
(* NsInv adds to the checked invariants how far each task has come         *)
(* (TaskInv), that listeners live on an open connection only (ListenInv),  *)
(* and what _run's stage says about all of the tasks (MainInv).            *)
(***************************************************************************)
EXTENDS NodeStartup, TLAPS

ListenInv ==
    \A n \in Nodes : conn[n] # "open" => ~forwards[n] /\ kube[n] = {}

TaskInv ==
    \A n \in Nodes :
        /\ pc[n] \in {"connect", "failed"} => conn[n] # "open"
        /\ pc[n] \in {"connect", "forward", "fetch"} => ~short[n] /\ todo[n] = Kube
        /\ pc[n] = "up" => ~short[n]
        /\ pc[n] = "kube" /\ conn[n] = "open" /\ ~short[n] =>
               KubeRequired \subseteq kube[n] \cup todo[n]
        /\ pc[n] = "up" /\ n \in KubeNodes /\ conn[n] = "open" =>
               KubeRequired \subseteq kube[n]

Returned == \A n \in Nodes : pc[n] \in {"up", "failed"}

MainInv ==
    /\ main = "gather" <=> verdict = None
    /\ main = "serving" <=> verdict = "success"
    /\ main \in {"gather", "serving"} \/ (main = "stop all" /\ verdict = "required_failure") =>
           runtimes = {n \in Nodes : pc[n] = "up"}
    /\ verdict \in {"success", "required_failure"} => Returned
    /\ verdict = "success" => Required \subseteq runtimes
    /\ verdict = "required_failure" =>
           /\ main = "close" =>
                  \A n \in Nodes : conn[n] = "open" => n \in closing
           /\ main \in {"return", "ended"} =>
                  \A n \in Nodes : conn[n] # "open"

NsInv == NsTypeOK /\ ListenInv /\ TaskInv /\ MainInv

-----------------------------------------------------------------------------
LEMMA InitEstablishes == NsInit => NsInv
BY StartupAssumption
DEF NsInit, NsInv, NsTypeOK, ListenInv, TaskInv, MainInv, Returned, Running

LEMMA TypeStep == ASSUME NsTypeOK, [NsNext]_nsVars PROVE NsTypeOK'
<1> USE DEF NsTypeOK, Running, Runs, Goto, Disconnect, mainVars
<1>1. ASSUME NEW n \in Nodes, Task(n) PROVE NsTypeOK'
  <2>1. CASE Connect(n) BY <2>1 DEF Connect
  <2>2. CASE OpenForwards(n) BY <2>2 DEF OpenForwards, AfterForwards, AfterFetch
  <2>3. CASE Fetch(n) BY <2>3 DEF Fetch, AfterFetch
  <2>4. CASE KubeDone(n) BY <2>4 DEF KubeDone
  <2>5. CASE CloseFailed(n) BY <2>5 DEF CloseFailed
  <2>6. ASSUME NEW t \in Kube, KubeTarget(n, t) PROVE NsTypeOK'
    <3> USE <2>6 DEF KubeTarget
    <3>1. CASE KubeReady(n, t) BY <3>1 DEF KubeReady
    <3>2. CASE KubeMissed(n, t) BY <3>2 DEF KubeMissed
    <3>3. CASE KubeFails(n) BY <3>3 DEF KubeFails
    <3> QED BY <3>1, <3>2, <3>3
  <2> QED BY <1>1, <2>1, <2>2, <2>3, <2>4, <2>5, <2>6 DEF Task
<1>2. ASSUME NEW n \in Nodes, Raise(n) \/ Lose(n) PROVE NsTypeOK'
  <2>1. CASE Raise(n) BY <2>1 DEF Raise
  <2>2. CASE Lose(n) BY <2>2 DEF Lose
  <2> QED BY <1>2, <2>1, <2>2
<1>3. CASE Main
  <2> USE DEF taskVars
  <2>1. CASE Gathered BY <2>1 DEF Gathered
  <2>2. CASE GatherRaises BY <2>2 DEF GatherRaises
  <2>3. CASE StopAll BY <2>3 DEF StopAll
  <2>4. CASE ReportFailure BY <2>4 DEF ReportFailure
  <2>5. CASE Exit BY <2>5 DEF Exit
  <2>6. ASSUME NEW n \in Nodes, CloseRuntime(n) PROVE NsTypeOK'
    BY <2>6 DEF CloseRuntime
  <2> QED BY <1>3, <2>1, <2>2, <2>3, <2>4, <2>5, <2>6 DEF Main
<1>4. CASE Over \/ UNCHANGED nsVars BY <1>4 DEF Over, nsVars, taskVars
<1> QED BY <1>1, <1>2, <1>3, <1>4 DEF NsNext

LEMMA ListenStep == ASSUME NsInv, [NsNext]_nsVars PROVE ListenInv'
<1> USE DEF NsInv, NsTypeOK, ListenInv, TaskInv, Runs, Goto, Disconnect
<1>1. ASSUME NEW n \in Nodes, Task(n) PROVE ListenInv'
  <2>1. CASE Connect(n) BY <2>1 DEF Connect
  <2>2. CASE OpenForwards(n)
    <3>1. UNCHANGED <<conn, kube>> /\ (forwards' = forwards \/ conn[n] = "open")
      BY <2>2 DEF OpenForwards
    <3>2. \A m \in Nodes \ {n} : forwards'[m] = forwards[m] BY <2>2 DEF OpenForwards
    <3> QED BY <3>1, <3>2
  <2>3. CASE Fetch(n) BY <2>3 DEF Fetch
  <2>4. CASE KubeDone(n) BY <2>4 DEF KubeDone
  <2>5. CASE CloseFailed(n) BY <2>5 DEF CloseFailed
  <2>6. ASSUME NEW t \in Kube, KubeTarget(n, t) PROVE ListenInv'
    <3> USE <2>6 DEF KubeTarget
    <3>1. CASE KubeReady(n, t) BY <3>1 DEF KubeReady
    <3>2. CASE KubeMissed(n, t) BY <3>2 DEF KubeMissed
    <3>3. CASE KubeFails(n) BY <3>3 DEF KubeFails
    <3> QED BY <3>1, <3>2, <3>3
  <2> QED BY <1>1, <2>1, <2>2, <2>3, <2>4, <2>5, <2>6 DEF Task
<1>2. ASSUME NEW n \in Nodes, Raise(n) \/ Lose(n) PROVE ListenInv'
  <2>1. CASE Raise(n) BY <2>1 DEF Raise
  <2>2. CASE Lose(n) BY <2>2 DEF Lose
  <2> QED BY <1>2, <2>1, <2>2
<1>3. CASE Main
  <2> USE DEF taskVars
  <2>1. CASE Gathered BY <2>1 DEF Gathered
  <2>2. CASE GatherRaises BY <2>2 DEF GatherRaises
  <2>3. CASE StopAll BY <2>3 DEF StopAll
  <2>4. CASE ReportFailure BY <2>4 DEF ReportFailure
  <2>5. CASE Exit BY <2>5 DEF Exit
  <2>6. ASSUME NEW n \in Nodes, CloseRuntime(n) PROVE ListenInv'
    BY <2>6 DEF CloseRuntime
  <2> QED BY <1>3, <2>1, <2>2, <2>3, <2>4, <2>5, <2>6 DEF Main
<1>4. CASE Over \/ UNCHANGED nsVars
  <2>1. UNCHANGED <<conn, forwards, kube>> BY <1>4 DEF Over, nsVars, taskVars
  <2> QED BY <2>1
<1> QED BY <1>1, <1>2, <1>3, <1>4 DEF NsNext

LEMMA TaskStep == ASSUME NsInv, [NsNext]_nsVars PROVE TaskInv'
<1> USE StartupAssumption DEF NsInv, NsTypeOK, ListenInv, TaskInv, Runs, Goto, Disconnect
<1>1. ASSUME NEW n \in Nodes, Task(n) PROVE TaskInv'
  <2>1. CASE Connect(n)
    <3>1. /\ pc[n] = "connect" /\ UNCHANGED <<kube, todo, short>>
          /\ \A m \in Nodes \ {n} : pc'[m] = pc[m] /\ conn'[m] = conn[m]
          /\ pc'[n] = "forward" \/ (pc'[n] = "failed" /\ conn'[n] = conn[n])
      BY <2>1 DEF Connect
    <3> QED BY <3>1
  <2>2. CASE OpenForwards(n)
    <3>1. /\ pc[n] = "forward" /\ UNCHANGED <<conn, kube, todo, short>>
          /\ \A m \in Nodes \ {n} : pc'[m] = pc[m]
          /\ pc'[n] \in {"fetch", "kube", "closing"} \/ (pc'[n] = "up" /\ n \notin KubeNodes)
      BY <2>2 DEF OpenForwards, AfterForwards, AfterFetch
    <3> QED BY <3>1
  <2>3. CASE Fetch(n)
    <3>1. /\ pc[n] = "fetch" /\ UNCHANGED <<conn, kube, todo>>
          /\ \A m \in Nodes \ {n} : pc'[m] = pc[m] /\ short'[m] = short[m]
      BY <2>3 DEF Fetch
    <3>2. \/ pc'[n] = "closing"
          \/ ~ short'[n] /\ (pc'[n] = "kube" \/ (pc'[n] = "up" /\ n \notin KubeNodes))
      BY <2>3 DEF Fetch, AfterFetch
    <3> QED BY <3>1, <3>2
  <2>4. CASE KubeDone(n) BY <2>4 DEF KubeDone
  <2>5. CASE CloseFailed(n) BY <2>5 DEF CloseFailed
  <2>6. ASSUME NEW t \in Kube, KubeTarget(n, t) PROVE TaskInv'
    <3> USE <2>6 DEF KubeTarget
    <3>1. CASE KubeReady(n, t) BY <3>1 DEF KubeReady
    <3>2. CASE KubeMissed(n, t) BY <3>2 DEF KubeMissed
    <3>3. CASE KubeFails(n) BY <3>3 DEF KubeFails
    <3> QED BY <3>1, <3>2, <3>3
  <2> QED BY <1>1, <2>1, <2>2, <2>3, <2>4, <2>5, <2>6 DEF Task
<1>2. ASSUME NEW n \in Nodes, Raise(n) \/ Lose(n) PROVE TaskInv'
  <2>1. CASE Raise(n) BY <2>1 DEF Raise
  <2>2. CASE Lose(n) BY <2>2 DEF Lose
  <2> QED BY <1>2, <2>1, <2>2
<1>3. CASE Main
  <2> USE DEF taskVars
  <2>1. CASE Gathered BY <2>1 DEF Gathered
  <2>2. CASE GatherRaises BY <2>2 DEF GatherRaises
  <2>3. CASE StopAll BY <2>3 DEF StopAll
  <2>4. CASE ReportFailure BY <2>4 DEF ReportFailure
  <2>5. CASE Exit BY <2>5 DEF Exit
  <2>6. ASSUME NEW n \in Nodes, CloseRuntime(n) PROVE TaskInv'
    BY <2>6 DEF CloseRuntime
  <2> QED BY <1>3, <2>1, <2>2, <2>3, <2>4, <2>5, <2>6 DEF Main
<1>4. CASE Over \/ UNCHANGED nsVars BY <1>4 DEF Over, nsVars, taskVars
<1> QED BY <1>1, <1>2, <1>3, <1>4 DEF NsNext

\* A step of a task that has not returned moves that task and nothing of _run.
LEMMA TaskMoves ==
    ASSUME NsTypeOK, NEW n \in Nodes, Task(n) \/ Raise(n)
    PROVE  /\ pc[n] \notin {"up", "failed"}
           /\ UNCHANGED <<main, closing, verdict>>
           /\ (\E at : Goto(n, at)) \/ UNCHANGED <<pc, runtimes>>
<1>1. CASE Connect(n) BY <1>1 DEF Connect, Runs, mainVars
<1>2. CASE OpenForwards(n) BY <1>2 DEF OpenForwards, Runs, mainVars
<1>3. CASE Fetch(n) BY <1>3 DEF Fetch, Runs, mainVars
<1>4. CASE KubeDone(n) BY <1>4 DEF KubeDone, Runs, mainVars
<1>5. CASE CloseFailed(n) BY <1>5 DEF CloseFailed, Runs, mainVars
<1>6. CASE \E t \in Kube : KubeTarget(n, t) 
  BY <1>6 DEF KubeTarget, KubeReady, KubeMissed, KubeFails, Runs, mainVars
<1>7. CASE Raise(n) BY <1>7 DEF Raise, Runs, mainVars
<1> QED BY <1>1, <1>2, <1>3, <1>4, <1>5, <1>6, <1>7 DEF Task

LEMMA MainStep == ASSUME NsInv, [NsNext]_nsVars PROVE MainInv'
<1> USE StartupAssumption
    DEF NsInv, NsTypeOK, TaskInv, MainInv, Returned, Disconnect, mainVars
<1>1. ASSUME NEW n \in Nodes, Task(n) \/ Raise(n) PROVE MainInv'
  <2>1. /\ pc[n] \notin {"up", "failed"}
        /\ UNCHANGED <<main, closing, verdict>>
    BY <1>1, TaskMoves
  <2>2. verdict \notin {"success", "required_failure"} BY <2>1
  <2>3. CASE UNCHANGED <<pc, runtimes>> BY <2>1, <2>2, <2>3
  <2>4. ASSUME NEW at, Goto(n, at) PROVE MainInv'
    <3>1. runtimes = {m \in Nodes : pc[m] = "up"} =>
              runtimes' = {m \in Nodes : pc'[m] = "up"}
      <4>1. CASE at = "up" BY <2>1, <2>4, <4>1 DEF Goto
      <4>2. CASE at # "up" BY <2>1, <2>4, <4>2 DEF Goto
      <4> QED BY <4>1, <4>2
    <3> QED BY <2>1, <2>2, <3>1
  <2> QED BY <1>1, <2>3, <2>4, TaskMoves
<1>2. ASSUME NEW n \in Nodes, Lose(n) PROVE MainInv'
  BY <1>2 DEF Lose
<1>3. CASE Main
  <2> USE DEF taskVars
  <2>1. CASE Gathered BY <2>1 DEF Gathered
  <2>2. CASE GatherRaises BY <2>2 DEF GatherRaises
  <2>3. CASE StopAll BY <2>3 DEF StopAll
  <2>4. CASE ReportFailure BY <2>4 DEF ReportFailure
  <2>5. CASE Exit BY <2>5 DEF Exit
  <2>6. ASSUME NEW n \in Nodes, CloseRuntime(n) PROVE MainInv'
    BY <2>6 DEF CloseRuntime
  <2> QED BY <1>3, <2>1, <2>2, <2>3, <2>4, <2>5, <2>6 DEF Main
<1>4. CASE Over \/ UNCHANGED nsVars BY <1>4 DEF Over, nsVars, taskVars
<1> QED BY <1>1, <1>2, <1>3, <1>4 DEF NsNext

\* NsInv is an invariant of every startup.
THEOREM StartupInvariant == NsSpec => []NsInv
<1>1. NsInit => NsInv BY InitEstablishes
<1>2. NsInv /\ [NsNext]_nsVars => NsInv'
  BY TypeStep, ListenStep, TaskStep, MainStep DEF NsInv
<1> QED BY <1>1, <1>2, PTL DEF NsSpec

-----------------------------------------------------------------------------
\* The tasks, connections and runtimes of a startup keep their types.
THEOREM StartupTypeCorrect == NsSpec => []NsTypeOK
<1>1. NsInv => NsTypeOK BY DEF NsInv
<1> QED BY <1>1, StartupInvariant, PTL

\* _start_one appends a node to _runtimes only with everything that is
\* required of it, however its targets fail and whenever its connection drops.
THEOREM NodeUpIsComplete == NsSpec => []UpIsComplete
<1>1. NsInv => UpIsComplete BY DEF NsInv, TaskInv, UpIsComplete
<1> QED BY <1>1, StartupInvariant, PTL

\* A success lists every required node, and live_nodes() and stop_all() go by
\* exactly the nodes that are up.
THEOREM SuccessIsComplete == NsSpec => []SuccessIsWatched
<1>1. NsInv => SuccessIsWatched BY DEF NsInv, MainInv, SuccessIsWatched
<1> QED BY <1>1, StartupInvariant, PTL

\* A node that _start_one gave up holds no connection and no listener.
THEOREM FailedNodeIsClosed == NsSpec => []FailedHoldsNothing
<1>1. NsInv => FailedHoldsNothing
  BY DEF NsInv, ListenInv, TaskInv, FailedHoldsNothing
<1> QED BY <1>1, StartupInvariant, PTL

\* After a required failure stop_all has closed every node that came up.
THEOREM FailedStartIsClosed == NsSpec => []FailureClosesAll
<1>1. NsInv => FailureClosesAll
  BY DEF NsInv, ListenInv, MainInv, FailureClosesAll
<1> QED BY <1>1, StartupInvariant, PTL

\* What is reported as up is up, for any nodes and targets.
THEOREM ReportCorrect == NsSpec => []ReportIsTrue
BY NodeUpIsComplete, SuccessIsComplete, PTL DEF ReportIsTrue

\* A failure leaves nothing open, for any nodes and targets.
THEOREM FailureIsClosed == NsSpec => []FailureLeavesNothing
BY FailedNodeIsClosed, FailedStartIsClosed, PTL DEF FailureLeavesNothing
=============================================================================
