------------------------- MODULE AtomicWriteProofs -------------------------
(***************************************************************************)
(* The safety of atomic_write for any processes, pids, files and sizes.    *)
(* AwInv follows an inode from its creation to its name: a call has its    *)
(* inode for itself (CallInv), a temp name leads back to the call that     *)
(* made it or to its spoiler (LeftoverHasCause), and what has a final name *)
(* was published and is complete (NameInv).                                *)
(***************************************************************************)
EXTENDS AtomicWrite, TLAPS

Busy == {"open"} \cup InCall

\* A pid has one living process, and what crashed stays dead.
PidInv ==
    /\ \A p, q \in Procs : p # q /\ PidOf[p] = PidOf[q] =>
           pc[p] \in {"new", "dead"} \/ pc[q] \in {"new", "dead"}
    /\ \A p \in crashed : pc[p] = "dead"

\* The inode of the call under way is nobody else's and not yet published.
CallOf(p) ==
    /\ pc[p] \in Busy => calls[p] \in 1 .. MaxCalls /\ Inode(p) \notin published
    /\ pc[p] = "open" => written[Inode(p)] = 0
    /\ pc[p] = "write" => written[Inode(p)] + left[p] = Size
    /\ pc[p] = "replace" => written[Inode(p)] = Size
    /\ pc[p] \in InCall => entry[Temp(p)] \in {None, Inode(p)}

CallInv == \A p \in Procs : CallOf(p)

\* Inodes of calls to come are untouched.
FutureInv ==
    \A q \in Procs, k \in 1 .. MaxCalls :
        k > calls[q] => written[<<q, k>>] = 0 /\ <<q, k>> \notin published

NameInv ==
    /\ \A f \in Files : entry[Final(f)] # None => entry[Final(f)] \in published
    /\ \A i \in published : written[i] = Size

ReadInv ==
    /\ reader # None => reader \in published
    /\ seen \in {None, Size}

AwInv ==
    /\ AwTypeOK /\ PidInv /\ CallInv /\ FutureInv
    /\ NameInv /\ ReadInv /\ LeftoverHasCause /\ RefusalHasCause

-----------------------------------------------------------------------------
LEMMA InitEstablishes == AwInit => AwInv
<1> SUFFICES ASSUME AwInit PROVE AwInv OBVIOUS
<1> USE AwAssumption DEF AwInit
<1>1. AwTypeOK BY DEF AwTypeOK, Inodes, InCall
<1>2. PidInv /\ CallInv /\ RefusalHasCause
  BY DEF PidInv, CallInv, CallOf, RefusalHasCause, Busy, InCall
<1>3. \A x \in Names : entry[x] = None OBVIOUS
<1>4. \A f \in Files, d \in Pids \cup {None} : <<f, d>> \in Names BY DEF Names
<1>5. LeftoverHasCause /\ NameInv /\ ReadInv BY <1>3, <1>4 DEF LeftoverHasCause, NameInv, ReadInv, Final
<1>6. FutureInv BY DEF FutureInv, Inodes
<1> QED BY <1>1, <1>2, <1>5, <1>6 DEF AwInv

\* What a call under way owns.
LEMMA CallOwns ==
    ASSUME AwInv, NEW p \in Procs, pc[p] \in Busy
    PROVE  /\ Inode(p) \in Inodes /\ Inode(p) \notin published
           /\ Temp(p) \in Names /\ Final(target[p]) \in Names
           /\ \A f \in Files : Final(f) \in Names /\ Final(f) # Temp(p)
<1>1. Inode(p) \in Inodes /\ Inode(p) \notin published
  BY DEF AwInv, CallInv, CallOf, Inode, Inodes
<1>2. target[p] \in Files /\ PidOf[p] \in Pids /\ None \notin Pids
  BY AwAssumption DEF AwInv, AwTypeOK
<1>3. Temp(p) \in Names /\ \A f \in Files : Final(f) \in Names /\ Final(f) # Temp(p)
  BY <1>2 DEF Temp, Names, Final
<1> QED BY <1>1, <1>2, <1>3

\* Two calls under way have neither their inode nor their temp file in common.
LEMMA CallsApart ==
    ASSUME AwInv, NEW p \in Procs, NEW q \in Procs, p # q, pc[p] \in Busy
    PROVE  /\ pc[q] \in Busy => Temp(q) # Temp(p)
           /\ Inode(q) # Inode(p)
BY AwAssumption DEF AwInv, AwTypeOK, PidInv, Temp, Inode, Busy, InCall

\* A step inside a call moves that call and no process in or out of one.
LEMMA CallMoves ==
    ASSUME AwTypeOK, NEW p \in Procs, Call(p)
    PROVE  /\ pc[p] \in Busy /\ pc'[p] \in Busy \cup {"idle"}
           /\ \A q \in Procs : q # p => pc'[q] = pc[q]
           /\ UNCHANGED <<calls, target, crashed>>
<1> USE DEF AwTypeOK, Goto, Return, Busy, InCall, histories
<1>1. CASE OpenTemp(p) BY <1>1 DEF OpenTemp
<1>2. CASE WriteSome(p) BY <1>2 DEF WriteSome
<1>3. CASE Replace(p) BY <1>3 DEF Replace
<1>4. CASE Undo(p) BY <1>4 DEF Undo
<1> QED BY <1>1, <1>2, <1>3, <1>4 DEF Call

LEMMA TypeStep == ASSUME AwInv, [AwNext]_awVars PROVE AwTypeOK'
<1> USE AwAssumption DEF AwInv, AwTypeOK, Inodes, Names, Final, InCall, Busy, writers, histories, readers, sweeper, Inode, Temp, CallInv
<1>1. ASSUME NEW p \in Procs, NEW f \in Files, MakeParent(p, f) PROVE AwTypeOK'
  BY <1>1 DEF MakeParent, MayRun, Goto
<1>2. ASSUME NEW p \in Procs, OpenTemp(p) PROVE AwTypeOK'
  <2>1. pc[p] \in Busy BY <1>2 DEF OpenTemp, Busy, InCall
  <2>2. Inode(p) \in Inodes /\ Temp(p) \in Names /\ Final(target[p]) \in Names
    BY <2>1, CallOwns
  <2> HIDE DEF Inode, Temp, Final, Names, Inodes
  <2> QED BY <1>2, <2>1, <2>2 DEF OpenTemp, Goto, Return, InCall, CallInv, CallOf
<1>3. ASSUME NEW p \in Procs, WriteSome(p) PROVE AwTypeOK'
  <2>1. pc[p] \in Busy BY <1>3 DEF WriteSome, Busy, InCall
  <2>2. Inode(p) \in Inodes /\ Temp(p) \in Names /\ Final(target[p]) \in Names
    BY <2>1, CallOwns
  <2> HIDE DEF Inode, Temp, Final, Names, Inodes
  <2> QED BY <1>3, <2>1, <2>2 DEF WriteSome, Goto, Return, InCall, CallInv, CallOf
<1>4. ASSUME NEW p \in Procs, Replace(p) PROVE AwTypeOK'
  <2>1. pc[p] \in Busy BY <1>4 DEF Replace, Busy, InCall
  <2>2. Inode(p) \in Inodes /\ Temp(p) \in Names /\ Final(target[p]) \in Names
    BY <2>1, CallOwns
  <2> HIDE DEF Inode, Temp, Final, Names, Inodes
  <2> QED BY <1>4, <2>1, <2>2 DEF Replace, Goto, Return, InCall, CallInv, CallOf
<1>5. ASSUME NEW p \in Procs, Undo(p) PROVE AwTypeOK'
  BY <1>5 DEF Undo, Goto, Return
<1>6. ASSUME NEW p \in Procs, End(p) PROVE AwTypeOK'
  BY <1>6 DEF End, Goto, Return
<1>7. ASSUME NEW f \in Files, ReadOpen(f) PROVE AwTypeOK'
  BY <1>7 DEF ReadOpen
<1>8. CASE ReadRest
  BY <1>8 DEF ReadRest
<1>9. CASE SweepList
  BY <1>9 DEF SweepList
<1>10. CASE SweepRmdir
  BY <1>10 DEF SweepRmdir
<1>11. ASSUME NEW x \in Names, SweepUnlink(x) PROVE AwTypeOK'
  BY <1>11 DEF SweepUnlink
<1>12. CASE UNCHANGED awVars
  BY <1>12 DEF awVars
<1> QED BY <1>1, <1>2, <1>3, <1>4, <1>5, <1>6, <1>7, <1>8, <1>9, <1>10, <1>11, <1>12 DEF AwNext, Call

LEMMA PidStep == ASSUME AwInv, [AwNext]_awVars PROVE PidInv'
<1> USE AwAssumption DEF AwInv, AwTypeOK, Inodes, Names, Final, InCall, Busy, writers, histories, readers, sweeper, Inode, PidInv
<1>1. ASSUME NEW p \in Procs, NEW f \in Files, MakeParent(p, f) PROVE PidInv'
  BY <1>1 DEF MakeParent, MayRun, Goto
<1>2. ASSUME NEW p \in Procs, Call(p) PROVE PidInv'
  <2>1. /\ pc[p] \in Busy /\ pc'[p] \in Busy \cup {"idle"} /\ crashed' = crashed
        /\ \A q \in Procs : q # p => pc'[q] = pc[q]
    BY <1>2, CallMoves
  <2> QED BY <2>1
<1>3. ASSUME NEW p \in Procs, End(p) PROVE PidInv'
  BY <1>3 DEF End, Goto, Return
<1>4. ASSUME NEW f \in Files, ReadOpen(f) PROVE PidInv'
  BY <1>4 DEF ReadOpen
<1>5. CASE ReadRest
  BY <1>5 DEF ReadRest
<1>6. CASE SweepList
  BY <1>6 DEF SweepList
<1>7. CASE SweepRmdir
  BY <1>7 DEF SweepRmdir
<1>8. ASSUME NEW x \in Names, SweepUnlink(x) PROVE PidInv'
  BY <1>8 DEF SweepUnlink
<1>9. CASE UNCHANGED awVars
  BY <1>9 DEF awVars
<1> QED BY <1>1, <1>2, <1>3, <1>4, <1>5, <1>6, <1>7, <1>8, <1>9 DEF AwNext

LEMMA CallStep == ASSUME AwInv, [AwNext]_awVars PROVE CallInv'
<1> USE AwAssumption DEF AwInv, AwTypeOK, InCall, Busy, writers, histories, readers, sweeper,
                         CallInv, CallOf
<1>1. ASSUME NEW p \in Procs, NEW f \in Files, MakeParent(p, f) PROVE CallInv'
  <2> SUFFICES ASSUME NEW q \in Procs PROVE CallOf(q)' BY DEF CallInv
  <2>1. CASE q = p
    <3>1. calls[p] + 1 \in 1 .. MaxCalls /\ calls'[p] = calls[p] + 1
      BY <1>1 DEF MakeParent
    <3>2. written[<<p, calls[p] + 1>>] = 0 /\ <<p, calls[p] + 1>> \notin published
      BY <3>1 DEF FutureInv
    <3> QED BY <1>1, <2>1, <3>1, <3>2 DEF MakeParent, Goto, Inode
  <2>2. CASE q # p
    BY <1>1, <2>2 DEF MakeParent, Goto, Inode, Temp
  <2> QED BY <2>1, <2>2
<1>2. ASSUME NEW p \in Procs, OpenTemp(p) PROVE CallInv'
  <2> SUFFICES ASSUME NEW q \in Procs PROVE CallOf(q)' BY DEF CallInv
  <2>1. pc[p] \in Busy BY <1>2 DEF OpenTemp
  <2>2. /\ Inode(p)' = Inode(p) /\ Temp(p)' = Temp(p)
        /\ Inode(q)' = Inode(q) /\ Temp(q)' = Temp(q)
    BY <1>2 DEF OpenTemp, Inode, Temp
  <2>3. CASE q = p
    BY <1>2, <2>1, <2>2, <2>3, CallOwns DEF OpenTemp, Goto, Return
  <2>4. CASE q # p
    BY <1>2, <2>1, <2>2, <2>4, CallOwns, CallsApart DEF OpenTemp, Goto, Return
  <2> QED BY <2>3, <2>4
<1>3. ASSUME NEW p \in Procs, WriteSome(p) PROVE CallInv'
  <2> SUFFICES ASSUME NEW q \in Procs PROVE CallOf(q)' BY DEF CallInv
  <2>1. pc[p] \in Busy BY <1>3 DEF WriteSome
  <2>2. /\ Inode(p)' = Inode(p) /\ Temp(p)' = Temp(p)
        /\ Inode(q)' = Inode(q) /\ Temp(q)' = Temp(q)
    BY <1>3 DEF WriteSome, Inode, Temp
  <2>3. CASE q = p
    BY <1>3, <2>1, <2>2, <2>3, CallOwns DEF WriteSome, Goto, Return
  <2>4. CASE q # p
    BY <1>3, <2>1, <2>2, <2>4, CallOwns, CallsApart DEF WriteSome, Goto, Return
  <2> QED BY <2>3, <2>4
<1>4. ASSUME NEW p \in Procs, Replace(p) PROVE CallInv'
  <2> SUFFICES ASSUME NEW q \in Procs PROVE CallOf(q)' BY DEF CallInv
  <2>1. pc[p] \in Busy BY <1>4 DEF Replace
  <2>2. /\ Inode(p)' = Inode(p) /\ Temp(p)' = Temp(p)
        /\ Inode(q)' = Inode(q) /\ Temp(q)' = Temp(q)
    BY <1>4 DEF Replace, Inode, Temp
  <2>3. CASE q = p
    BY <1>4, <2>1, <2>2, <2>3, CallOwns DEF Replace, Goto, Return
  <2>4. CASE q # p
    BY <1>4, <2>1, <2>2, <2>4, CallOwns, CallsApart DEF Replace, Goto, Return
  <2> QED BY <2>3, <2>4
<1>5. ASSUME NEW p \in Procs, Undo(p) PROVE CallInv'
  <2> SUFFICES ASSUME NEW q \in Procs PROVE CallOf(q)' BY DEF CallInv
  <2>1. pc[p] \in Busy BY <1>5 DEF Undo
  <2>2. /\ Inode(p)' = Inode(p) /\ Temp(p)' = Temp(p)
        /\ Inode(q)' = Inode(q) /\ Temp(q)' = Temp(q)
    BY <1>5 DEF Undo, Inode, Temp
  <2>3. CASE q = p
    BY <1>5, <2>1, <2>2, <2>3, CallOwns DEF Undo, Goto, Return
  <2>4. CASE q # p
    BY <1>5, <2>1, <2>2, <2>4, CallOwns, CallsApart DEF Undo, Goto, Return
  <2> QED BY <2>3, <2>4
<1>6. ASSUME NEW p \in Procs, End(p) PROVE CallInv'
  BY <1>6 DEF End, Goto, Inode, Temp
<1>7. ASSUME NEW f \in Files, ReadOpen(f) PROVE CallInv'
  BY <1>7 DEF ReadOpen, Inode, Temp
<1>8. CASE ReadRest
  BY <1>8 DEF ReadRest, Inode, Temp
<1>9. CASE SweepList
  BY <1>9 DEF SweepList, Inode, Temp
<1>10. CASE SweepRmdir
  BY <1>10 DEF SweepRmdir, Inode, Temp
<1>11. ASSUME NEW x \in Names, SweepUnlink(x) PROVE CallInv'
  <2> SUFFICES ASSUME NEW q \in Procs PROVE CallOf(q)' BY DEF CallInv
  <2>1. /\ Inode(q)' = Inode(q) /\ Temp(q)' = Temp(q)
        /\ UNCHANGED <<pc, calls, published, written, left>>
    BY <1>11 DEF SweepUnlink, Inode, Temp
  <2>2. pc[q] \in InCall => entry'[Temp(q)] \in {None, entry[Temp(q)]}
    <3>1. pc[q] \in InCall => Temp(q) \in Names BY CallOwns
    <3> QED BY <1>11, <3>1 DEF SweepUnlink
  <2>3. CallOf(q) OBVIOUS
  <2> QED BY <2>1, <2>2, <2>3
<1>12. CASE UNCHANGED awVars
  BY <1>12 DEF awVars, Inode, Temp
<1> QED BY <1>1, <1>2, <1>3, <1>4, <1>5, <1>6, <1>7, <1>8, <1>9, <1>10, <1>11, <1>12
        DEF AwNext, Call

LEMMA FutureStep == ASSUME AwInv, [AwNext]_awVars PROVE FutureInv'
<1> USE AwAssumption DEF AwInv, AwTypeOK, Inodes, Names, Final, InCall, Busy, writers, histories, readers, sweeper, Inode, FutureInv, CallInv, CallOf, Temp
<1>1. ASSUME NEW p \in Procs, NEW f \in Files, MakeParent(p, f) PROVE FutureInv'
  BY <1>1 DEF MakeParent, MayRun, Goto
<1>2. ASSUME NEW p \in Procs, OpenTemp(p) PROVE FutureInv'
  BY <1>2 DEF OpenTemp, Goto, Return
<1>3. ASSUME NEW p \in Procs, WriteSome(p) PROVE FutureInv'
  <2>1. pc[p] \in Busy /\ calls[p] \in 1 .. MaxCalls BY <1>3 DEF WriteSome
  <2>2. UNCHANGED <<calls, published>> BY <1>3 DEF WriteSome
  <2>3. written' = written \/ \E m : written' = [written EXCEPT ![Inode(p)] = m]
    <3> HIDE DEF Inode
    <3> QED BY <1>3 DEF WriteSome
  <2>4. \A i \in Inodes : i # Inode(p) => written'[i] = written[i] BY <2>3
  <2>5. \A q \in Procs, k \in 1 .. MaxCalls :
           k > calls[q] => <<q, k>> \in Inodes /\ <<q, k>> # Inode(p)
    BY <2>1
  <2>6. \A q \in Procs, k \in 1 .. MaxCalls :
           k > calls[q] => written[<<q, k>>] = 0 /\ <<q, k>> \notin published
    BY DEF FutureInv
  <2> HIDE DEF Inode, Inodes
  <2> QED BY <2>2, <2>4, <2>5, <2>6 DEF FutureInv
<1>4. ASSUME NEW p \in Procs, Replace(p) PROVE FutureInv'
  <2>1. pc[p] \in Busy /\ calls[p] \in 1 .. MaxCalls BY <1>4 DEF Replace
  <2>2. entry[Temp(p)] \in {None, Inode(p)} BY <1>4 DEF Replace
  <2>3. UNCHANGED <<calls, written>> BY <1>4 DEF Replace
  <2>4. published' \subseteq published \cup {Inode(p)} BY <1>4, <2>2 DEF Replace
  <2> QED BY <2>1, <2>3, <2>4 DEF FutureInv, Inode
<1>5. ASSUME NEW p \in Procs, Undo(p) PROVE FutureInv'
  BY <1>5 DEF Undo, Goto, Return
<1>6. ASSUME NEW p \in Procs, End(p) PROVE FutureInv'
  BY <1>6 DEF End, Goto, Return
<1>7. ASSUME NEW f \in Files, ReadOpen(f) PROVE FutureInv'
  BY <1>7 DEF ReadOpen
<1>8. CASE ReadRest
  BY <1>8 DEF ReadRest
<1>9. CASE SweepList
  BY <1>9 DEF SweepList
<1>10. CASE SweepRmdir
  BY <1>10 DEF SweepRmdir
<1>11. ASSUME NEW x \in Names, SweepUnlink(x) PROVE FutureInv'
  BY <1>11 DEF SweepUnlink
<1>12. CASE UNCHANGED awVars
  BY <1>12 DEF awVars
<1> QED BY <1>1, <1>2, <1>3, <1>4, <1>5, <1>6, <1>7, <1>8, <1>9, <1>10, <1>11, <1>12 DEF AwNext, Call

\* Who spoiled a temp name stays its spoiler: the dead start no other call.
LEMMA SpoilersStay ==
    ASSUME AwInv, [AwNext]_awVars, NEW f \in Files, NEW d \in Pids
    PROVE  Spoilers(f, d) \subseteq Spoilers(f, d)'
<1> USE DEF AwInv, AwTypeOK, PidInv, Goto, Return, writers, histories, readers, sweeper
<1>1. /\ crashed \subseteq crashed' /\ stuck \subseteq stuck'
      /\ \A p \in crashed : target'[p] = target[p]
  <2>1. ASSUME NEW p \in Procs, Call(p)
        PROVE  UNCHANGED <<crashed, target>> /\ stuck \subseteq stuck'
    BY <2>1 DEF Call, OpenTemp, WriteSome, Replace, Undo
  <2>2. ASSUME NEW p \in Procs, End(p) PROVE <1>1!:
    BY <2>2 DEF End
  <2>3. ASSUME NEW p \in Procs, NEW g \in Files, MakeParent(p, g) PROVE <1>1!:
    <3>1. p \notin crashed /\ UNCHANGED <<crashed, stuck>> BY <2>3 DEF MakeParent
    <3>2. \A q \in Procs : q # p => target'[q] = target[q] BY <2>3 DEF MakeParent
    <3> QED BY <3>1, <3>2
  <2>4. CASE UNCHANGED writers BY <2>4
  <2> QED
    BY <2>1, <2>2, <2>3, <2>4
    DEF AwNext, ReadRest, ReadOpen, SweepList, SweepRmdir, SweepUnlink, awVars
<1> QED BY <1>1 DEF Spoilers

\* The temp files of a step: those there were, still in use or with their
\* spoilers, and the one it makes.
LEMMA TempStep == ASSUME AwInv, [AwNext]_awVars PROVE LeftoverHasCause'
<1> USE AwAssumption
<1> SUFFICES ASSUME NEW f \in Files, NEW d \in Pids, entry'[<<f, d>>] # None,
                    Spoilers(f, d)' = {}
             PROVE  \E q \in Procs : PidOf[q] = d /\ pc'[q] \in InCall /\ target'[q] = f
  BY DEF LeftoverHasCause
<1>0. <<f, d>> \in Names BY DEF Names
<1>1. Spoilers(f, d) = {} BY SpoilersStay
<1>2. ASSUME entry[<<f, d>>] # None
      PROVE  \E q \in Procs : PidOf[q] = d /\ pc[q] \in InCall /\ target[q] = f
  BY <1>1, <1>2 DEF AwInv, LeftoverHasCause
<1> USE DEF AwInv, AwTypeOK, InCall, Goto, Return
<1>3. ASSUME NEW p \in Procs, OpenTemp(p)
      PROVE  \E q \in Procs : PidOf[q] = d /\ pc'[q] \in InCall /\ target'[q] = f
  <2>1. target' = target /\ \A q \in Procs : pc[q] \in InCall => pc'[q] \in InCall
    BY <1>3 DEF OpenTemp
  <2>2. CASE entry[<<f, d>>] # None BY <1>2, <2>1, <2>2
  <2>3. CASE entry[<<f, d>>] = None
    <3>1. <<f, d>> = Temp(p) /\ pc'[p] \in InCall BY <1>0, <1>3, <2>3 DEF OpenTemp
    <3> QED BY <2>1, <3>1 DEF Temp
  <2> QED BY <2>2, <2>3
<1>4. ASSUME NEW p \in Procs, Replace(p) \/ Undo(p) \/ End(p) \/ WriteSome(p),
             \A q \in Procs : PidOf[q] = d /\ pc[q] \in InCall /\ target[q] = f => q # p \/ pc'[q] \in InCall,
             entry[<<f, d>>] # None
      PROVE  \E q \in Procs : PidOf[q] = d /\ pc'[q] \in InCall /\ target'[q] = f
  BY <1>2, <1>4 DEF Replace, Undo, End, WriteSome
<1>5. ASSUME NEW p \in Procs, Replace(p)
      PROVE  \E q \in Procs : PidOf[q] = d /\ pc'[q] \in InCall /\ target'[q] = f
  <2>1. <<f, d>> # Final(target[p]) BY DEF Final
  <2>2. \/ entry' = entry /\ pc'[p] \in InCall
        \/ entry' = [entry EXCEPT ![Temp(p)] = None, ![Final(target[p])] = entry[Temp(p)]]
    BY <1>5 DEF Replace
  <2>3. entry[<<f, d>>] # None /\ (<<f, d>> # Temp(p) \/ pc'[p] \in InCall)
    BY <1>0, <2>1, <2>2
  <2> QED BY <1>4, <1>5, <2>3 DEF Temp
<1>6. ASSUME NEW p \in Procs, Undo(p)
      PROVE  \E q \in Procs : PidOf[q] = d /\ pc'[q] \in InCall /\ target'[q] = f
  <2>1. CASE entry' = [entry EXCEPT ![Temp(p)] = None]
    <3>1. entry[<<f, d>>] # None /\ <<f, d>> # Temp(p) BY <1>0, <2>1
    <3> QED BY <1>4, <1>6, <3>1 DEF Temp
  <2>2. CASE entry' = entry /\ stuck' = stuck \cup {<<p, target[p]>>}
    <3>1. PidOf[p] = d => target[p] # f BY <2>2 DEF Spoilers
    <3> QED BY <1>4, <1>6, <2>2, <3>1
  <2> QED BY <1>6, <2>1, <2>2 DEF Undo
<1>7. ASSUME NEW p \in Procs, End(p)
      PROVE  \E q \in Procs : PidOf[q] = d /\ pc'[q] \in InCall /\ target'[q] = f
  <2>1. entry' = entry /\ target' = target BY <1>7 DEF End
  <2>2. PidOf[p] = d /\ pc[p] \in InCall => target[p] # f
    BY <1>7, <2>1 DEF End, Spoilers
  <2> QED BY <1>4, <1>7, <2>1, <2>2
<1>8. ASSUME NEW p \in Procs, WriteSome(p)
      PROVE  \E q \in Procs : PidOf[q] = d /\ pc'[q] \in InCall /\ target'[q] = f
  <2>1. entry' = entry /\ pc'[p] \in InCall BY <1>8 DEF WriteSome
  <2> QED BY <1>4, <1>8, <2>1
<1>9. ASSUME NEW p \in Procs, NEW g \in Files, MakeParent(p, g)
      PROVE  \E q \in Procs : PidOf[q] = d /\ pc'[q] \in InCall /\ target'[q] = f
  <2>1. entry' = entry /\ pc[p] \notin InCall BY <1>9 DEF MakeParent
  <2>2. \A q \in Procs : q # p => pc'[q] = pc[q] /\ target'[q] = target[q]
    BY <1>9 DEF MakeParent
  <2> QED BY <1>2, <2>1, <2>2
<1>10. CASE UNCHANGED <<pc, target>> /\ entry'[<<f, d>>] \in {None, entry[<<f, d>>]}
  BY <1>2, <1>10
<1>11. ASSUME NEW x \in Names, SweepUnlink(x)
       PROVE  UNCHANGED <<pc, target>> /\ entry'[<<f, d>>] \in {None, entry[<<f, d>>]}
  BY <1>0, <1>11 DEF SweepUnlink, writers
<1> QED
  BY <1>3, <1>5, <1>6, <1>7, <1>8, <1>9, <1>10, <1>11
  DEF AwNext, Call, ReadRest, ReadOpen, SweepList, SweepRmdir, awVars, writers

LEMMA NameStep == ASSUME AwInv, [AwNext]_awVars PROVE NameInv'
<1> USE AwAssumption DEF AwInv, AwTypeOK, Inodes, Names, Final, InCall, Busy, writers, histories, readers, sweeper, Inode, NameInv, CallInv, CallOf, Temp
<1>1. ASSUME NEW p \in Procs, NEW f \in Files, MakeParent(p, f) PROVE NameInv'
  BY <1>1 DEF MakeParent, MayRun, Goto
<1>2. ASSUME NEW p \in Procs, OpenTemp(p) PROVE NameInv'
  BY <1>2 DEF OpenTemp, Goto, Return
<1>3. ASSUME NEW p \in Procs, WriteSome(p) PROVE NameInv'
  <2>1. pc[p] \in Busy BY <1>3 DEF WriteSome
  <2>2. Inode(p) \notin published BY <2>1, CallOwns
  <2>3. \A i \in published : written'[i] = written[i] BY <1>3, <2>2 DEF WriteSome
  <2>4. UNCHANGED <<entry, published>> BY <1>3 DEF WriteSome
  <2> QED BY <2>3, <2>4
<1>4. ASSUME NEW p \in Procs, Replace(p) PROVE NameInv'
  <2>1. pc[p] \in Busy BY <1>4 DEF Replace
  <2>2. entry[Temp(p)] \in {None, Inode(p)} /\ written[Inode(p)] = Size BY <1>4 DEF Replace
  <2>3. CASE entry' = entry
    BY <1>4, <2>2, <2>3 DEF Replace
  <2>4. CASE entry' # entry
    <3>1. published' = published \cup {Inode(p)} /\ written' = written
      BY <1>4, <2>2, <2>4 DEF Replace
    <3>2. entry' = [entry EXCEPT ![Temp(p)] = None, ![Final(target[p])] = Inode(p)]
      BY <1>4, <2>2, <2>4 DEF Replace
    <3>3. \A x \in Names : entry'[x] \in {entry[x], None, Inode(p)}
      BY <3>2
    <3>4. \A f \in Files : Final(f) \in Names
      BY <2>1, CallOwns
    <3> QED BY <2>2, <3>1, <3>3, <3>4
  <2> QED BY <2>3, <2>4
<1>5. ASSUME NEW p \in Procs, Undo(p) PROVE NameInv'
  BY <1>5 DEF Undo, Goto, Return
<1>6. ASSUME NEW p \in Procs, End(p) PROVE NameInv'
  BY <1>6 DEF End, Goto, Return
<1>7. ASSUME NEW f \in Files, ReadOpen(f) PROVE NameInv'
  BY <1>7 DEF ReadOpen
<1>8. CASE ReadRest
  BY <1>8 DEF ReadRest
<1>9. CASE SweepList
  BY <1>9 DEF SweepList
<1>10. CASE SweepRmdir
  BY <1>10 DEF SweepRmdir
<1>11. ASSUME NEW x \in Names, SweepUnlink(x) PROVE NameInv'
  BY <1>11 DEF SweepUnlink
<1>12. CASE UNCHANGED awVars
  BY <1>12 DEF awVars
<1> QED BY <1>1, <1>2, <1>3, <1>4, <1>5, <1>6, <1>7, <1>8, <1>9, <1>10, <1>11, <1>12 DEF AwNext, Call

LEMMA ReadStep == ASSUME AwInv, [AwNext]_awVars PROVE ReadInv'
<1> USE AwAssumption DEF AwInv, AwTypeOK, Inodes, Names, Final, InCall, Busy, writers, histories, readers, sweeper, Inode, ReadInv, NameInv
<1>1. ASSUME NEW p \in Procs, NEW f \in Files, MakeParent(p, f) PROVE ReadInv'
  BY <1>1 DEF MakeParent, MayRun, Goto
<1>2. ASSUME NEW p \in Procs, OpenTemp(p) PROVE ReadInv'
  BY <1>2 DEF OpenTemp, Goto, Return
<1>3. ASSUME NEW p \in Procs, WriteSome(p) PROVE ReadInv'
  BY <1>3 DEF WriteSome, Goto, Return
<1>4. ASSUME NEW p \in Procs, Replace(p) PROVE ReadInv'
  BY <1>4 DEF Replace, Goto, Return
<1>5. ASSUME NEW p \in Procs, Undo(p) PROVE ReadInv'
  BY <1>5 DEF Undo, Goto, Return
<1>6. ASSUME NEW p \in Procs, End(p) PROVE ReadInv'
  BY <1>6 DEF End, Goto, Return
<1>7. ASSUME NEW f \in Files, ReadOpen(f) PROVE ReadInv'
  BY <1>7 DEF ReadOpen
<1>8. CASE ReadRest
  BY <1>8 DEF ReadRest
<1>9. CASE SweepList
  BY <1>9 DEF SweepList
<1>10. CASE SweepRmdir
  BY <1>10 DEF SweepRmdir
<1>11. ASSUME NEW x \in Names, SweepUnlink(x) PROVE ReadInv'
  BY <1>11 DEF SweepUnlink
<1>12. CASE UNCHANGED awVars
  BY <1>12 DEF awVars
<1> QED BY <1>1, <1>2, <1>3, <1>4, <1>5, <1>6, <1>7, <1>8, <1>9, <1>10, <1>11, <1>12 DEF AwNext, Call

\* A refusal is new in OpenTemp only, where the other calls of its pid are over.
LEMMA BlockedStep == ASSUME AwInv, [AwNext]_awVars PROVE RefusalHasCause'
<1> SUFFICES ASSUME NEW p \in Procs, result'[p] = "exists"
             PROVE  Spoilers(target[p], PidOf[p])' # {} /\ target'[p] = target[p]
  BY DEF RefusalHasCause, Spoilers
<1> USE AwAssumption DEF AwInv, AwTypeOK, Goto, Return, writers
<1>1. target[p] \in Files /\ PidOf[p] \in Pids OBVIOUS
<1>2. CASE result[p] = "exists" /\ target'[p] = target[p]
  BY <1>1, <1>2, SpoilersStay DEF RefusalHasCause
<1>3. ASSUME OpenTemp(p), result[p] # "exists"
      PROVE  Spoilers(target[p], PidOf[p])' # {} /\ target'[p] = target[p]
  <2>1. entry[Temp(p)] # None /\ target' = target /\ pc[p] = "open"
    BY <1>3 DEF OpenTemp
  <2>2. \A q \in Procs : PidOf[q] = PidOf[p] => pc[q] \notin InCall
    BY <2>1 DEF PidInv, InCall
  <2>3. Spoilers(target[p], PidOf[p]) # {}
    BY <1>1, <2>1, <2>2 DEF LeftoverHasCause, Temp
  <2> QED BY <1>1, <2>1, <2>3, SpoilersStay
<1>4. ASSUME NEW q \in Procs, NEW f \in Files, MakeParent(q, f)
      PROVE  result[p] = "exists" /\ target'[p] = target[p]
  BY <1>4 DEF MakeParent
<1>5. ASSUME NEW q \in Procs, Call(q), ~OpenTemp(p)
      PROVE  result[p] = "exists" /\ target'[p] = target[p]
  BY <1>5 DEF Call, OpenTemp, WriteSome, Replace, Undo
<1>6. ASSUME NEW q \in Procs, End(q)
      PROVE  result[p] = "exists" /\ target'[p] = target[p]
  BY <1>6 DEF End
<1>7. OpenTemp(p) => target'[p] = target[p] BY DEF OpenTemp
<1> QED
  BY <1>2, <1>3, <1>4, <1>5, <1>6, <1>7
  DEF AwNext, ReadRest, ReadOpen, SweepList, SweepRmdir, SweepUnlink, awVars

LEMMA AwStep == AwInv /\ [AwNext]_awVars => AwInv'
BY TypeStep, PidStep, CallStep, FutureStep, TempStep, NameStep, ReadStep, BlockedStep
DEF AwInv

LEMMA AwInvariant == AwSpec => []AwInv
BY InitEstablishes, AwStep, PTL DEF AwSpec

-----------------------------------------------------------------------------
\* Every variable keeps its type; no write leaves the bounds of its file.
THEOREM AwTypeCorrect == AwSpec => []AwTypeOK
BY AwInvariant, PTL DEF AwInv

\* A reader of tunnel-data/ never gets a part of a file, whatever is written,
\* replaced, swept or killed while it reads.
THEOREM ReaderGetsWhole == AwSpec => []ReadsAreWhole
<1>1. AwInv => ReadsAreWhole BY DEF AwInv, ReadInv, ReadsAreWhole
<1> QED BY <1>1, AwInvariant, PTL

\* A temp file that is nobody's, and the refusal it causes, go back to a process
\* that died writing that file under that pid, or could not unlink it, for any
\* processes, pids and files.
THEOREM LeftoverIsExplained == AwSpec => []LeftoverExplained
<1>1. AwInv => LeftoverExplained BY DEF AwInv, LeftoverExplained
<1> QED BY <1>1, AwInvariant, PTL

-----------------------------------------------------------------------------
\* The refinement of AtomicFile.
Shown == [f \in Files |-> Version(entry[Final(f)])]

LEMMA PromiseInit == AwInit => Promise!Init
BY DEF AwInit, Promise!Init, Version, Names, Final

\* What is published shows as it is, and nothing else has a final name.
LEMMA ShownIsEntry == ASSUME AwInv PROVE Shown = [f \in Files |-> entry[Final(f)]]
BY DEF AwInv, NameInv, Version, Shown

LEMMA PromiseStep ==
    ASSUME AwInv, [AwNext]_awVars
    PROVE  [Promise!Next]_<<Shown, published>>
<1>1. AwInv' BY AwStep
<1>2. Shown = [f \in Files |-> entry[Final(f)]] BY ShownIsEntry
<1>3. Shown' = [f \in Files |-> entry'[Final(f)]]
  BY <1>1 DEF AwInv, NameInv, Version, Shown, Final
<1>4. \A f \in Files : Final(f) \in Names BY DEF Names, Final
<1>5. ASSUME UNCHANGED <<entry, published>> PROVE UNCHANGED <<Shown, published>>
  BY <1>2, <1>3, <1>5
<1>6. ASSUME NEW p \in Procs, Replace(p) PROVE [Promise!Next]_<<Shown, published>>
  <2>1. pc[p] \in Busy /\ target[p] \in Files
    BY <1>6 DEF Replace, Busy, InCall, AwInv, AwTypeOK
  <2>2. entry[Temp(p)] \in {None, Inode(p)} 
    BY <1>6 DEF Replace, InCall, AwInv, CallInv, CallOf
  <2>3. CASE UNCHANGED <<entry, published>> BY <1>5, <2>3
  <2>4. CASE /\ entry' = [entry EXCEPT ![Temp(p)] = None, ![Final(target[p])] = Inode(p)]
             /\ published' = published \cup {Inode(p)}
    <3>1. \A f \in Files : entry'[Final(f)] = IF f = target[p] THEN Inode(p) ELSE entry[Final(f)]
      BY <1>4, <2>1, <2>4, CallOwns DEF AwInv, AwTypeOK, Final
    <3>2. Shown' = [Shown EXCEPT ![target[p]] = Inode(p)] BY <1>2, <1>3, <2>1, <3>1
    <3>3. Inode(p) \in Inodes /\ Inode(p) \notin published BY <2>1, CallOwns
    <3> QED BY <2>1, <2>4, <3>2, <3>3 DEF Promise!Next, Promise!Publish, Shown
  <2> QED BY <1>6, <2>2, <2>3, <2>4 DEF Replace
<1>7. ASSUME NEW x \in Names, SweepUnlink(x) PROVE [Promise!Next]_<<Shown, published>>
  <2>1. published' = published /\ entry' = [entry EXCEPT ![x] = None]
    BY <1>7 DEF SweepUnlink, writers, histories
  <2>2. CASE \E f \in Files : x = Final(f) /\ entry[x] # None
    <3>1. PICK f \in Files : x = Final(f) /\ entry[x] # None BY <2>2
    <3>2. \A g \in Files : entry'[Final(g)] = IF g = f THEN None ELSE entry[Final(g)]
      BY <1>4, <2>1, <3>1 DEF AwInv, AwTypeOK, Final
    <3>3. Shown' = [Shown EXCEPT ![f] = None] /\ Shown[f] # None
      BY <1>2, <1>3, <3>1, <3>2
    <3> QED BY <2>1, <3>1, <3>3 DEF Promise!Next, Promise!Remove, Shown
  <2>3. CASE ~\E f \in Files : x = Final(f) /\ entry[x] # None
    <3>1. \A f \in Files : entry'[Final(f)] = entry[Final(f)]
      BY <1>4, <2>1, <2>3 DEF AwInv, AwTypeOK
    <3> QED BY <1>2, <1>3, <2>1, <3>1
  <2> QED BY <2>2, <2>3
<1>8. ASSUME NEW p \in Procs, OpenTemp(p) \/ Undo(p) PROVE UNCHANGED <<Shown, published>>
  <2>1. pc[p] \in Busy BY <1>8 DEF OpenTemp, Undo, Busy, InCall
  <2>2. \A f \in Files : entry'[Final(f)] = entry[Final(f)]
    BY <1>4, <1>8, <2>1, CallOwns DEF AwInv, AwTypeOK, OpenTemp, Undo
  <2> QED BY <1>2, <1>3, <1>8, <2>2 DEF OpenTemp, Undo, histories
<1> QED
  BY <1>5, <1>6, <1>7, <1>8
  DEF AwNext, Call, MakeParent, WriteSome, End, ReadOpen, ReadRest, SweepList, SweepRmdir,
      awVars, writers, histories, readers, sweeper

\* Every step of the program is a step of AtomicFile or none: a name changes
\* from one complete version to another, and none comes back.
THEOREM WriteIsAtomic == AwSpec => KeepsPromise
<1>1. AwInv /\ [AwNext]_awVars => [Promise!Next]_<<Shown, published>>
  BY PromiseStep
<1> QED BY <1>1, PromiseInit, AwInvariant, PTL DEF AwSpec, KeepsPromise, Promise!Spec, Shown
=============================================================================
