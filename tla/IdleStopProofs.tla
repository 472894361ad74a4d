--------------------------- MODULE IdleStopProofs ---------------------------
(***************************************************************************)
(* Proofs about IdleStop for every timeout, jitter and set of connections. *)
(* The invariant bounds the watchdog's next wake-up: by one interval from  *)
(* now, and, while nothing is open, by one interval from the instant at    *)
(* which the timeout is up.                                                *)
(***************************************************************************)
EXTENDS IdleStop, FiniteSetTheorems, TLAPS

ClockOrdered == changed = last /\ last <= now /\ upAt <= now

\* A tracker that was never opened was never closed.
ClosedWereOpened == \A c \in Conns : closed[c] => opened[c]

WakeUpBounded ==
    phase = "serving" =>
        /\ nextPoll <= now + Poll
        /\ now <= nextPoll + Jitter
        /\ count = 0 => nextPoll <= Latest(last + Timeout, upAt) + Poll

IInv ==
    /\ TypeOK
    /\ CountExact
    /\ ClosedWereOpened
    /\ ClockOrdered
    /\ WakeUpBounded
    /\ StopsOnlyWhenQuiet

LEMMA Durations == Timeout \in Nat /\ Timeout >= 4 /\ Poll \in Nat /\ Poll >= 4
BY IdleAssumption DEF Timeout, Poll

\* The open connections are finitely many, and counting zero means none.
LEMMA OpenFinite == /\ IsFiniteSet(Open) /\ Cardinality(Open) \in Nat
                    /\ Cardinality(Open) = 0 <=> Open = {}
<1>1. Open \subseteq Conns BY DEF Open
<1>2. IsFiniteSet(Open) BY <1>1, IdleAssumption, FS_Subset
<1> QED BY <1>2, FS_CardinalityType, FS_EmptySet

LEMMA InitInv == Init => IInv
<1> SUFFICES ASSUME Init PROVE IInv OBVIOUS
<1>1. Open = {} BY DEF Init, Open
<1> QED BY <1>1, FS_EmptySet
        DEF Init, IInv, TypeOK, CountExact, ClosedWereOpened, ClockOrdered,
            WakeUpBounded, StopsOnlyWhenQuiet

\* A connection that is made adds one open tracker to the count.
LEMMA MadeCounts ==
    ASSUME TypeOK, CountExact, ClosedWereOpened, NEW c \in Conns,
           ConnectionMade(c)
    PROVE  CountExact'
<1>1. c \notin Open /\ Open' = Open \cup {c}
  BY DEF ConnectionMade, Open, TypeOK, ClosedWereOpened
<1>2. Cardinality(Open') = Cardinality(Open) + 1
  BY <1>1, OpenFinite, FS_AddElement
<1> QED BY <1>2 DEF ConnectionMade, CountExact

\* A connection that is lost takes its open tracker out of the count, which
\* was at least one: the clamp is never reached.
LEMMA LostCounts ==
    ASSUME TypeOK, CountExact, NEW c \in Conns, ConnectionLost(c)
    PROVE  CountExact' /\ c \in Open
<1>1. c \in Open /\ Open' = Open \ {c}
  BY DEF ConnectionLost, Open, TypeOK
<1>2. Cardinality(Open') = Cardinality(Open) - 1 /\ Cardinality(Open) # 0
  BY <1>1, OpenFinite, FS_RemoveElement
<1> QED BY <1>1, <1>2, OpenFinite DEF ConnectionLost, CountExact, TypeOK

LEMMA InvStep == IInv /\ [Next]_idleVars => IInv'
<1> SUFFICES ASSUME IInv, [Next]_idleVars PROVE IInv' OBVIOUS
<1> USE IdleAssumption, Durations DEF IInv, trackerVars, ClosedWereOpened
<1>1. ASSUME NEW c \in Conns, MakeTracker(c) PROVE IInv'
  <2>1. Open' = Open
    BY <1>1 DEF MakeTracker, Open, TypeOK
  <2> QED BY <1>1, <2>1
          DEF MakeTracker, TypeOK, CountExact, ClockOrdered, WakeUpBounded,
              StopsOnlyWhenQuiet
<1>2. ASSUME NEW c \in Conns, ConnectionMade(c) PROVE IInv'
  <2>1. CountExact'
    BY <1>2, MadeCounts
  <2>2. /\ TypeOK' /\ ClosedWereOpened' /\ ClockOrdered'
        /\ WakeUpBounded' /\ StopsOnlyWhenQuiet'
    BY <1>2 DEF ConnectionMade, TypeOK, ClockOrdered, WakeUpBounded,
                StopsOnlyWhenQuiet
  <2> QED BY <2>1, <2>2
<1>3. ASSUME NEW c \in Conns, ConnectionLost(c) PROVE IInv'
  <2>1. CountExact' /\ c \in Open
    BY <1>3, LostCounts
  <2>2. /\ TypeOK' /\ ClosedWereOpened' /\ ClockOrdered'
        /\ WakeUpBounded' /\ StopsOnlyWhenQuiet'
    BY <1>3, <2>1 DEF ConnectionLost, TypeOK, ClockOrdered, WakeUpBounded,
                      StopsOnlyWhenQuiet, Latest
  <2> QED BY <2>1, <2>2
<1>4. ASSUME NEW k \in KubeConns, KubeOpens(k) \/ KubeCloses(k) PROVE IInv'
  BY <1>4 DEF KubeOpens, KubeCloses, TypeOK, CountExact, Open, ClockOrdered,
              WakeUpBounded, StopsOnlyWhenQuiet
<1>5. CASE ComeUp
  BY <1>5 DEF ComeUp, TypeOK, CountExact, Open, ClockOrdered, WakeUpBounded,
              StopsOnlyWhenQuiet, Latest
<1>6. CASE WatchdogPoll
  <2>1. Open' = Open /\ (count = 0 => Open = {})
    BY <1>6, OpenFinite DEF WatchdogPoll, Open, CountExact
  <2> QED BY <1>6, <2>1
          DEF WatchdogPoll, TypeOK, CountExact, ClockOrdered, WakeUpBounded,
              StopsOnlyWhenQuiet, Latest
<1>7. CASE Tick
  BY <1>7 DEF Tick, TypeOK, CountExact, Open, ClockOrdered, WakeUpBounded,
              StopsOnlyWhenQuiet
<1>8. CASE UNCHANGED idleVars
  BY <1>8 DEF idleVars, TypeOK, CountExact, Open, ClockOrdered, WakeUpBounded,
              StopsOnlyWhenQuiet
<1> QED BY <1>1, <1>2, <1>3, <1>4, <1>5, <1>6, <1>7, <1>8 DEF Next

LEMMA Invariance == Spec => []IInv
BY InitInv, InvStep, PTL DEF Spec

-----------------------------------------------------------------------------
\* Whatever hooks asyncssh repeats, _active_count counts the open connections.
THEOREM CounterIsExact == Spec => []CountExact
<1>1. IInv => CountExact BY DEF IInv
<1> QED BY <1>1, Invariance, PTL

\* TypeOK, for every set of connections and every timeout.
THEOREM IdleTypeCorrect == Spec => []TypeOK
<1>1. IInv => TypeOK BY DEF IInv
<1> QED BY <1>1, Invariance, PTL

\* Auto-stop never fires under an open tracked connection, nor before the
\* forwards were quiet for the whole timeout.
THEOREM AutoStopIsQuiet == Spec => []StopsOnlyWhenQuiet
<1>1. IInv => StopsOnlyWhenQuiet BY DEF IInv
<1> QED BY <1>1, Invariance, PTL

\* A quiet daemon is stopped within the timeout plus one poll interval (and the
\* event loop's delay), for every timeout.
THEOREM AutoStopIsPrompt == Spec => []StopsPromptly
<1>1. IInv => StopsPromptly
  BY IdleAssumption, Durations, OpenFinite
     DEF IInv, TypeOK, CountExact, ClockOrdered, WakeUpBounded, StopsPromptly,
         Latest
<1> QED BY <1>1, Invariance, PTL
=============================================================================
