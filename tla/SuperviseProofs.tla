--------------------------- MODULE SuperviseProofs ---------------------------
(***************************************************************************)
(* Proofs about Supervise.                                                 *)
(***************************************************************************)
EXTENDS Supervise, TLAPS

\* A required loss has been noted.
Noted == losses \cap Required # {}

\* A required node whose loss is noted, or whose watchdog will still note it
\* before the supervisor resumes.
WillBeNoted ==
    \E n \in Required :
        \/ n \in losses
        \/ /\ task[n] \in {"new", "woken"} /\ conn[n] = "dropped"
           /\ stopEvent => n \in ahead

\* How the watchdogs stand to the connections.
TaskInv ==
    \A n \in Nodes :
        /\ phase = "waiting" => conn[n] # "closed"
        /\ phase = "waiting" /\ task[n] = "waiting" => conn[n] = "up"
        /\ phase = "waiting" /\ task[n] = "done" => n \in losses
        /\ phase \notin {"waiting", "crashed"} => task[n] = "done"

\* Why the daemon stops.
StopInv ==
    /\ phase \notin {"waiting", "crashed"} => stopEvent
    /\ stopEvent => asked \/ Noted

\* What is on disk.
DiskInv ==
    /\ ~data => phase = "ended" /\ record = None
    /\ phase = "released" \/ ~data => ~Noted
    /\ record # None => record.nodes \subseteq losses
    /\ record # None => (record.terminal <=> record.nodes \cap Required # {})
    /\ wrote /\ data /\ losses # {} =>
           record = [nodes |-> losses, terminal |-> Noted]

\* A required connection that dropped in time is noted in time.
TimeInv ==
    /\ inTime /\ phase = "waiting" => WillBeNoted
    /\ inTime /\ phase \notin {"waiting", "crashed"} => Noted

IInv == TypeOK /\ NoFalseLoss /\ TaskInv /\ StopInv /\ DiskInv /\ TimeInv

-----------------------------------------------------------------------------
LEMMA TypeStep == TypeOK /\ [Next]_superVars => TypeOK'
<1> SUFFICES ASSUME TypeOK, [Next]_superVars PROVE TypeOK'
  OBVIOUS
<1> USE SuperviseAssumption DEF TypeOK, Phases, Looping
<1>1. ASSUME NEW n \in Nodes, Drop(n) PROVE TypeOK'
  BY <1>1 DEF Drop, Woken
<1>2. ASSUME NEW n \in Nodes, Wait(n) PROVE TypeOK'
  BY <1>2 DEF Wait, HasTurn
<1>3. ASSUME NEW n \in Nodes, Lost(n) PROVE TypeOK'
  BY <1>3 DEF Lost, HasTurn, RecordLosses, SetStop, Ready
<1>4. ASSUME NEW n \in Nodes, CloseTransport(n) PROVE TypeOK'
  BY <1>4 DEF CloseTransport, Woken
<1>5. CASE Resume
  BY <1>5 DEF Resume
<1>6. CASE StoppedAll
  BY <1>6 DEF StoppedAll
<1>7. CASE Dispose
  BY <1>7 DEF Dispose
<1>8. CASE RemoveData
  BY <1>8 DEF RemoveData
<1>9. CASE AskStop
  BY <1>9 DEF AskStop, SetStop, Ready
<1>10. CASE Crash
  BY <1>10 DEF Crash
<1>11. CASE UNCHANGED superVars
  BY <1>11 DEF superVars
<1>12. QED
  BY <1>1, <1>2, <1>3, <1>4, <1>5, <1>6, <1>7, <1>8, <1>9, <1>10, <1>11 DEF Next, LoopStep

LEMMA NoFalseLossStep == IInv /\ TypeOK' /\ [Next]_superVars => NoFalseLoss'
<1> SUFFICES ASSUME IInv, TypeOK', [Next]_superVars PROVE NoFalseLoss'
  OBVIOUS
<1> USE SuperviseAssumption DEF IInv, TypeOK, Phases, Looping, NoFalseLoss, TaskInv, StopInv, Noted
<1>1. ASSUME NEW n \in Nodes, Drop(n) PROVE NoFalseLoss'
  BY <1>1 DEF Drop, Woken
<1>2. ASSUME NEW n \in Nodes, Wait(n) PROVE NoFalseLoss'
  BY <1>2 DEF Wait, HasTurn
<1>3. ASSUME NEW n \in Nodes, Lost(n) PROVE NoFalseLoss'
  BY <1>3 DEF Lost, HasTurn, RecordLosses, SetStop, Ready
<1>4. ASSUME NEW n \in Nodes, CloseTransport(n) PROVE NoFalseLoss'
  BY <1>4 DEF CloseTransport, Woken
<1>5. CASE Resume
  BY <1>5 DEF Resume
<1>6. CASE StoppedAll
  BY <1>6 DEF StoppedAll
<1>7. CASE Dispose
  BY <1>7 DEF Dispose
<1>8. CASE RemoveData
  BY <1>8 DEF RemoveData
<1>9. CASE AskStop
  BY <1>9 DEF AskStop, SetStop, Ready
<1>10. CASE Crash
  BY <1>10 DEF Crash
<1>11. CASE UNCHANGED superVars
  BY <1>11 DEF superVars
<1>12. QED
  BY <1>1, <1>2, <1>3, <1>4, <1>5, <1>6, <1>7, <1>8, <1>9, <1>10, <1>11 DEF Next, LoopStep

LEMMA TaskInvStep == IInv /\ TypeOK' /\ [Next]_superVars => TaskInv'
<1> SUFFICES ASSUME IInv, TypeOK', [Next]_superVars PROVE TaskInv'
  OBVIOUS
<1> USE SuperviseAssumption DEF IInv, TypeOK, Phases, Looping, NoFalseLoss, TaskInv, StopInv, Noted
<1>1. ASSUME NEW n \in Nodes, Drop(n) PROVE TaskInv'
  BY <1>1 DEF Drop, Woken
<1>2. ASSUME NEW n \in Nodes, Wait(n) PROVE TaskInv'
  BY <1>2 DEF Wait, HasTurn
<1>3. ASSUME NEW n \in Nodes, Lost(n) PROVE TaskInv'
  BY <1>3 DEF Lost, HasTurn, RecordLosses, SetStop, Ready
<1>4. ASSUME NEW n \in Nodes, CloseTransport(n) PROVE TaskInv'
  BY <1>4 DEF CloseTransport, Woken
<1>5. CASE Resume
  BY <1>5 DEF Resume
<1>6. CASE StoppedAll
  BY <1>6 DEF StoppedAll
<1>7. CASE Dispose
  BY <1>7 DEF Dispose
<1>8. CASE RemoveData
  BY <1>8 DEF RemoveData
<1>9. CASE AskStop
  BY <1>9 DEF AskStop, SetStop, Ready
<1>10. CASE Crash
  BY <1>10 DEF Crash
<1>11. CASE UNCHANGED superVars
  BY <1>11 DEF superVars
<1>12. QED
  BY <1>1, <1>2, <1>3, <1>4, <1>5, <1>6, <1>7, <1>8, <1>9, <1>10, <1>11 DEF Next, LoopStep

LEMMA StopInvStep == IInv /\ TypeOK' /\ [Next]_superVars => StopInv'
<1> SUFFICES ASSUME IInv, TypeOK', [Next]_superVars PROVE StopInv'
  OBVIOUS
<1> USE SuperviseAssumption DEF IInv, TypeOK, Phases, Looping, NoFalseLoss, TaskInv, StopInv, Noted
<1>1. ASSUME NEW n \in Nodes, Drop(n) PROVE StopInv'
  BY <1>1 DEF Drop, Woken
<1>2. ASSUME NEW n \in Nodes, Wait(n) PROVE StopInv'
  BY <1>2 DEF Wait, HasTurn
<1>3. ASSUME NEW n \in Nodes, Lost(n) PROVE StopInv'
  BY <1>3 DEF Lost, HasTurn, RecordLosses, SetStop, Ready
<1>4. ASSUME NEW n \in Nodes, CloseTransport(n) PROVE StopInv'
  BY <1>4 DEF CloseTransport, Woken
<1>5. CASE Resume
  BY <1>5 DEF Resume
<1>6. CASE StoppedAll
  BY <1>6 DEF StoppedAll
<1>7. CASE Dispose
  BY <1>7 DEF Dispose
<1>8. CASE RemoveData
  BY <1>8 DEF RemoveData
<1>9. CASE AskStop
  BY <1>9 DEF AskStop, SetStop, Ready
<1>10. CASE Crash
  BY <1>10 DEF Crash
<1>11. CASE UNCHANGED superVars
  BY <1>11 DEF superVars
<1>12. QED
  BY <1>1, <1>2, <1>3, <1>4, <1>5, <1>6, <1>7, <1>8, <1>9, <1>10, <1>11 DEF Next, LoopStep

LEMMA DiskInvStep == IInv /\ TypeOK' /\ [Next]_superVars => DiskInv'
<1> SUFFICES ASSUME IInv, TypeOK', [Next]_superVars PROVE DiskInv'
  OBVIOUS
<1> USE SuperviseAssumption DEF IInv, TypeOK, Phases, Looping, NoFalseLoss, TaskInv, StopInv, Noted, DiskInv
<1>1. ASSUME NEW n \in Nodes, Drop(n) PROVE DiskInv'
  BY <1>1 DEF Drop, Woken
<1>2. ASSUME NEW n \in Nodes, Wait(n) PROVE DiskInv'
  BY <1>2 DEF Wait, HasTurn
<1>3. ASSUME NEW n \in Nodes, Lost(n) PROVE DiskInv'
  BY <1>3 DEF Lost, HasTurn, RecordLosses, SetStop, Ready
<1>4. ASSUME NEW n \in Nodes, CloseTransport(n) PROVE DiskInv'
  BY <1>4 DEF CloseTransport, Woken
<1>5. CASE Resume
  BY <1>5 DEF Resume
<1>6. CASE StoppedAll
  BY <1>6 DEF StoppedAll
<1>7. CASE Dispose
  BY <1>7 DEF Dispose
<1>8. CASE RemoveData
  BY <1>8 DEF RemoveData
<1>9. CASE AskStop
  BY <1>9 DEF AskStop, SetStop, Ready
<1>10. CASE Crash
  BY <1>10 DEF Crash
<1>11. CASE UNCHANGED superVars
  BY <1>11 DEF superVars
<1>12. QED
  BY <1>1, <1>2, <1>3, <1>4, <1>5, <1>6, <1>7, <1>8, <1>9, <1>10, <1>11 DEF Next, LoopStep

LEMMA TimeInvStep == IInv /\ TypeOK' /\ [Next]_superVars => TimeInv'
<1> SUFFICES ASSUME IInv, TypeOK', [Next]_superVars PROVE TimeInv'
  OBVIOUS
<1> USE SuperviseAssumption DEF IInv, TypeOK, Phases, Looping, NoFalseLoss, TaskInv, StopInv, Noted, TimeInv, WillBeNoted
<1>1. ASSUME NEW n \in Nodes, Drop(n) PROVE TimeInv'
  BY <1>1 DEF Drop, Woken
<1>2. ASSUME NEW n \in Nodes, Wait(n) PROVE TimeInv'
  BY <1>2 DEF Wait, HasTurn
<1>3. ASSUME NEW n \in Nodes, Lost(n) PROVE TimeInv'
  BY <1>3 DEF Lost, HasTurn, RecordLosses, SetStop, Ready
<1>4. ASSUME NEW n \in Nodes, CloseTransport(n) PROVE TimeInv'
  BY <1>4 DEF CloseTransport, Woken
<1>5. CASE Resume
  BY <1>5 DEF Resume
<1>6. CASE StoppedAll
  BY <1>6 DEF StoppedAll
<1>7. CASE Dispose
  BY <1>7 DEF Dispose
<1>8. CASE RemoveData
  BY <1>8 DEF RemoveData
<1>9. CASE AskStop
  BY <1>9 DEF AskStop, SetStop, Ready
<1>10. CASE Crash
  BY <1>10 DEF Crash
<1>11. CASE UNCHANGED superVars
  BY <1>11 DEF superVars
<1>12. QED
  BY <1>1, <1>2, <1>3, <1>4, <1>5, <1>6, <1>7, <1>8, <1>9, <1>10, <1>11 DEF Next, LoopStep

LEMMA InitInv == Init => IInv
  BY SuperviseAssumption
     DEF Init, IInv, TypeOK, Phases, NoFalseLoss, TaskInv, StopInv, DiskInv, TimeInv,
         Noted, WillBeNoted

LEMMA Invariance == Spec => []IInv
<1>1. IInv /\ [Next]_superVars => IInv'
  BY TypeStep, NoFalseLossStep, TaskInvStep, StopInvStep, DiskInvStep, TimeInvStep
     DEF IInv
<1>2. QED
  BY InitInv, <1>1, PTL DEF Spec

-----------------------------------------------------------------------------
\* Every variable stays in its range.
THEOREM SuperviseTypeCorrect == Spec => []TypeOK
<1>1. IInv => TypeOK
  BY DEF IInv
<1>2. QED
  BY Invariance, <1>1, PTL

\* A shutdown never records itself: whatever the daemon noted as lost, the
\* network took away.
THEOREM NoLossIsFalse == Spec => []NoFalseLoss
<1>1. IInv => NoFalseLoss
  BY DEF IInv
<1>2. QED
  BY Invariance, <1>1, PTL

\* A required connection that drops before a stop was asked for keeps the data.
THEOREM RequiredLossWins == Spec => []RequiredLossKeepsData
<1>1. IInv => RequiredLossKeepsData
  BY DEF IInv, TypeOK, Phases, DiskInv, TimeInv, RequiredLossKeepsData
<1>2. QED
  BY Invariance, <1>1, PTL

\* A record of self-termination is never deleted by the daemon it is about.
THEOREM TerminalRecordStays == Spec => []TerminalRecordKept
<1>1. IInv => TerminalRecordKept
  BY DEF IInv, TypeOK, DiskInv, Noted, TerminalRecordKept
<1>2. QED
  BY Invariance, <1>1, PTL

\* Losses of optional nodes alone never end the daemon.
THEOREM OptionalLossTolerated == Spec => []DegradedStaysUp
<1>1. IInv => DegradedStaysUp
  BY DEF IInv, StopInv, Noted, DegradedStaysUp
<1>2. QED
  BY Invariance, <1>1, PTL

\* A record that could be written explains the whole loss.
THEOREM LossIsExplained == Spec => []ExplainedBeforeRelease
<1>1. IInv => ExplainedBeforeRelease
  BY DEF IInv, TypeOK, DiskInv, Noted, ExplainedBeforeRelease
<1>2. QED
  BY Invariance, <1>1, PTL

-----------------------------------------------------------------------------
\* A step of the event loop is a step of the contract, or none.
LEMMA ContractStep ==
    IInv /\ [Next]_superVars => [Contract!Next]_(Contract!contractVars)
<1> SUFFICES ASSUME IInv, [Next]_superVars
             PROVE  [Contract!Next]_(Contract!contractVars)
  OBVIOUS
<1> USE SuperviseAssumption DEF IInv, TypeOK, Phases, Looping, DiskInv, Noted
<1> DEFINE Same == UNCHANGED <<Down, losses, Outcome>>
<1>a. Same => UNCHANGED Contract!contractVars
  BY DEF Contract!contractVars, Down, Outcome
<1>1. ASSUME NEW n \in Nodes, Drop(n) PROVE Contract!Lose(n)
  BY <1>1 DEF Drop, Contract!Lose, Down, Outcome
<1>2. ASSUME NEW n \in Nodes, Lost(n) PROVE Contract!Report(n) \/ Same
  <2>1. UNCHANGED <<Down, Outcome>>
    BY <1>2 DEF Lost, Down, Outcome
  <2>2. CASE n \in losses
    BY <1>2, <2>1, <2>2 DEF Lost
  <2>3. CASE n \notin losses
    BY <1>2, <2>1, <2>3 DEF Lost, HasTurn, TaskInv, NoFalseLoss, Contract!Report, Down, Outcome
  <2>4. QED
    BY <2>2, <2>3
<1>3. Dispose => Contract!Terminate \/ Same
  BY DEF Dispose, Contract!Terminate, Down, Outcome
<1>4. RemoveData => Contract!Stop
  BY DEF RemoveData, Contract!Stop, Down, Outcome
<1>5. Crash => Contract!Crash
  BY DEF Crash, Contract!Crash, Down, Outcome
<1>6. ASSUME NEW n \in Nodes, CloseTransport(n) PROVE Same
  BY <1>6 DEF CloseTransport, Down, Outcome
<1>7. ASSUME NEW n \in Nodes, Wait(n) PROVE Same
  BY <1>7 DEF Wait, Down, Outcome
<1>8. Resume \/ StoppedAll \/ AskStop => Same
  BY DEF Resume, StoppedAll, AskStop, Down, Outcome
<1>9. UNCHANGED superVars => Same
  BY DEF superVars, Down, Outcome
<1>10. QED
  BY <1>a, <1>1, <1>2, <1>3, <1>4, <1>5, <1>6, <1>7, <1>8, <1>9
     DEF Next, LoopStep, Contract!Next

\* The event loop and its watchdogs implement what TunnelContract promises.
THEOREM SuperviseKeepsContract == Spec => KeepsSafeContract
<1>1. Init => Contract!Init
  BY DEF Init, Contract!Init, Down, Outcome
<1>2. QED
  BY <1>1, Invariance, ContractStep, PTL DEF Spec, KeepsSafeContract, Contract!Spec

\* The data survive a required loss, for any set of nodes.
THEOREM LossPreserves == Spec => []LossKeepsData
BY RequiredLossWins, TerminalRecordStays, PTL DEF LossKeepsData
=============================================================================
