---------------------------- MODULE RecordsProofs ----------------------------
(***************************************************************************)
(* Proofs about what is left of requests: that a stop waits for it (Stop   *)
(* and Settle, for any number of connections and slots), that reports have *)
(* it, and that their figures agree (Statistics and StatsReport, for any   *)
(* records, ranges, days, retention and limit of the counts).              *)
(***************************************************************************)
EXTENDS Stop, Statistics, FiniteSetTheorems, FunctionTheorems, SequenceTheorems,
        WellFoundedInduction, TLAPS

-----------------------------------------------------------------------------
\* The stop.

\* What has been asked of a connection, and whether its record's write was queued.
Records == \A c \in Conns : Requested(c) <=> write[c] # "none"

\* How far the wait for records got, beside the stop.
Phases ==
  /\ loop = "drained" => Open = {}
  /\ loop \in {"drain", "drained"} => \A c \in Conns : conn[c] # "backlog"
  /\ main \in {"serving", "cutting"} => waiter = "idle"
  /\ main \notin {"serving", "cutting"} /\ late = "no" => loop = "drained"
  /\ main \in {"returned", "exited", "restarted"} /\ late = "no" => waiter = "returned"
  /\ waiter = "returned" /\ late = "no" => Queued = {}

IInv == StopTypeOK /\ SlotsConserved /\ Records /\ Phases /\ NoLostWakeup

-----------------------------------------------------------------------------
LEMMA ConnsFinite == IsFiniteSet(Conns) /\ IsFiniteSet(Open) /\ IsFiniteSet(Queued)
  BY WritesAssumption, StopAssumption, FS_Subset DEF Open, Queued

LEMMA ConnsFiniteNext == IsFiniteSet(Open') /\ IsFiniteSet(Queued')
  BY WritesAssumption, StopAssumption, FS_Subset DEF Open, Queued

\* How many writes a step leaves queued.
LEMMA BeginCounts ==
  ASSUME SettleTypeOK, NEW w \in Writes, BeginWrite(w)
  PROVE  count' = Cardinality(Queued')
<1>1. Queued' = Queued \cup {w} /\ w \notin Queued
  BY DEF BeginWrite, Queued, SettleTypeOK
<1> QED
  BY <1>1, ConnsFinite, FS_AddElement DEF BeginWrite, SettleTypeOK

LEMMA EndCounts ==
  ASSUME SettleTypeOK, NEW w \in Writes, EndWrite(w)
  PROVE  count' = Cardinality(Queued') /\ Queued' = Queued \ {w} /\ count > 0
<1>1. Queued' = Queued \ {w} /\ w \in Queued
  BY DEF EndWrite, Queued, SettleTypeOK
<1>2. count \in Nat
  BY ConnsFinite, FS_CardinalityType DEF SettleTypeOK
<1>3. count # 0
  BY <1>1, ConnsFinite, FS_EmptySet DEF SettleTypeOK
<1>4. Cardinality(Queued \ {w}) = count - 1
  BY <1>1, ConnsFinite, FS_RemoveElement DEF SettleTypeOK
<1> QED
  BY <1>1, <1>2, <1>3, <1>4 DEF EndWrite

LEMMA SameCounts ==
  ASSUME SettleTypeOK, count' = count,
         \A w \in Writes : write'[w] = "queued" <=> write[w] = "queued"
  PROVE  count' = Cardinality(Queued') /\ Queued' = Queued
<1>1. Queued' = Queued
  BY DEF Queued
<1> QED
  BY <1>1 DEF SettleTypeOK

-----------------------------------------------------------------------------
\* No wake-up is lost, whatever the threads that write do between the waiter's steps.
LEMMA StepWakeup ==
  ASSUME SettleTypeOK, NoLostWakeup
  PROVE  /\ \A w \in Writes : BeginWrite(w) /\ UNCHANGED <<waiter, woken>> => NoLostWakeup'
         /\ \A w \in Writes : EndWrite(w) => NoLostWakeup'
         /\ \A w \in Writes : Notify(w) => NoLostWakeup'
         /\ CallSettled => NoLostWakeup'
         /\ SettledTurn => NoLostWakeup'
<1> USE DEF SettleTypeOK, NoLostWakeup
<1>0. count \in Nat
  BY ConnsFinite, FS_CardinalityType
<1>1. ASSUME NEW w \in Writes, BeginWrite(w), UNCHANGED <<waiter, woken>>
      PROVE  NoLostWakeup'
  BY <1>0, <1>1 DEF BeginWrite
<1>2. ASSUME NEW w \in Writes, EndWrite(w) PROVE NoLostWakeup'
  <2>1. count > 0
    BY <1>2, EndCounts
  <2>2. CASE count = 1
    BY <1>2, <2>2 DEF EndWrite
  <2>3. CASE count # 1
    BY <1>0, <1>2, <2>1, <2>3 DEF EndWrite
  <2> QED
    BY <2>2, <2>3
<1>3. ASSUME NEW w \in Writes, Notify(w) PROVE NoLostWakeup'
  BY <1>3 DEF Notify
<1>4. CASE CallSettled
  BY <1>4 DEF CallSettled
<1>5. CASE SettledTurn
  BY <1>0, <1>5 DEF SettledTurn, Register, CheckCount, Await, Wake
<1> QED
  BY <1>1, <1>2, <1>3, <1>4, <1>5

-----------------------------------------------------------------------------
\* The connections a step leaves open.
LEMMA SameOpen ==
  ASSUME \A c \in Conns : conn'[c] \in {"idle", "busy", "done"}
                            <=> conn[c] \in {"idle", "busy", "done"}
  PROVE  Open' = Open
BY DEF Open

LEMMA AcceptOpens ==
  ASSUME StopTypeOK, NEW c \in Conns, Accept(c)
  PROVE  Cardinality(Open') = Cardinality(Open) + 1
<1>1. Open' = Open \cup {c} /\ c \notin Open
  BY DEF Accept, Become, Open, StopTypeOK
<1> QED
  BY <1>1, ConnsFinite, FS_AddElement

LEMMA ClosedLeaves ==
  ASSUME StopTypeOK, NEW c \in Conns, conn[c] \in {"idle", "busy", "done"},
         conn' \in {[conn EXCEPT ![c] = s] : s \in {"closed", "closedAfter"}}
  PROVE  /\ Cardinality(Open') = Cardinality(Open) - 1
         /\ Cardinality(Open) > 0
         /\ Open' = Open \ {c}
<1>1. Open' = Open \ {c} /\ c \in Open
  BY DEF Open, StopTypeOK
<1>2. Cardinality(Open) \in Nat
  BY ConnsFinite, FS_CardinalityType
<1>3. Cardinality(Open) # 0
  BY <1>1, ConnsFinite, FS_EmptySet
<1>4. Cardinality(Open \ {c}) = Cardinality(Open) - 1
  BY <1>1, ConnsFinite, FS_RemoveElement
<1> QED
  BY <1>1, <1>2, <1>3, <1>4

-----------------------------------------------------------------------------
\* A step of the wait for records, or of a write, keeps the count right.
LEMMA SettleKept ==
  ASSUME SettleTypeOK
  PROVE  /\ \A w \in Writes : BeginWrite(w) /\ UNCHANGED <<waiter, woken>> => SettleTypeOK'
         /\ \A w \in Writes : EndWrite(w) \/ Notify(w) => SettleTypeOK'
         /\ CallSettled \/ SettledTurn \/ UNCHANGED settleVars => SettleTypeOK'
<1>1. ASSUME NEW w \in Writes, BeginWrite(w), UNCHANGED <<waiter, woken>>
      PROVE  SettleTypeOK'
  BY <1>1, BeginCounts DEF SettleTypeOK, BeginWrite
<1>2. ASSUME NEW w \in Writes, EndWrite(w) PROVE SettleTypeOK'
  BY <1>2, EndCounts DEF SettleTypeOK, EndWrite
<1>3. ASSUME NEW w \in Writes, Notify(w) PROVE SettleTypeOK'
  <2>1. count' = Cardinality(Queued')
    BY <1>3, SameCounts DEF Notify, SettleTypeOK
  <2> QED
    BY <1>3, <2>1 DEF SettleTypeOK, Notify
<1>4. CASE CallSettled \/ SettledTurn \/ UNCHANGED settleVars
  <2>1. count' = Cardinality(Queued')
    BY <1>4, SameCounts
       DEF CallSettled, SettledTurn, Register, CheckCount, Await, Wake, settleVars
  <2> QED
    BY <1>4, <2>1
       DEF SettleTypeOK, CallSettled, SettledTurn, Register, CheckCount, Await, Wake, settleVars
<1> QED
  BY <1>1, <1>2, <1>3, <1>4

LEMMA StepSettle ==
  ASSUME StopTypeOK, NoLostWakeup, [StopNext]_stopVars
  PROVE  SettleTypeOK' /\ NoLostWakeup'
<1>0. SettleTypeOK
  BY DEF StopTypeOK
<1>1. CASE UNCHANGED settleVars
  BY <1>0, <1>1, SettleKept DEF settleVars, NoLostWakeup
<1>2. ASSUME NEW c \in Conns, RequestEnds(c) PROVE SettleTypeOK' /\ NoLostWakeup'
  BY <1>0, <1>2, SettleKept, StepWakeup, StopAssumption DEF RequestEnds
<1>3. ASSUME NEW c \in Conns, Write(c) PROVE SettleTypeOK' /\ NoLostWakeup'
  BY <1>0, <1>3, SettleKept, StepWakeup, StopAssumption DEF Write
<1>4. CASE DrainEnds \/ DrainGivesUp
  BY <1>0, <1>4, SettleKept, StepWakeup DEF DrainEnds, DrainGivesUp
<1>5. CASE SettledPolled
  BY <1>0, <1>5, SettleKept, StepWakeup DEF SettledPolled
<1> QED
  BY <1>1, <1>2, <1>3, <1>4, <1>5
     DEF StopNext, LoopStep, Timers, MainStep, Connect, TakeSlot, Accept, AcceptFails,
         PauseEnds, Break, Drained, Request, Close, Deliver, PassOn, AskRestart,
         Deadline, SettleEnds, SettleGivesUp, Leave, stopVars

-----------------------------------------------------------------------------
\* Whatever the loop and the connections do, every slot is accounted for.
LEMMA StepSlots ==
  ASSUME StopTypeOK, SlotsConserved, NoLostWakeup, [StopNext]_stopVars
  PROVE  StopTypeOK' /\ SlotsConserved'
<1> USE StopAssumption
<1>0. /\ SettleTypeOK'
      /\ Cardinality(Open) \in Nat /\ Cardinality(Open') \in Nat
      /\ free \in Nat
  BY StepSettle, ConnsFinite, ConnsFiniteNext, FS_CardinalityType DEF StopTypeOK
<1> USE <1>0 DEF StopTypeOK, SlotsConserved, HoldsSlot, Become
<1>1. ASSUME NEW c \in Conns, Connect(c) PROVE StopTypeOK' /\ SlotsConserved'
  <2>1. Open' = Open
    BY <1>1, SameOpen DEF Connect
  <2> QED
    BY <1>1, <2>1 DEF Connect, server
<1>2. CASE TakeSlot \/ AcceptFails \/ PauseEnds \/ Drained
  <2>1. Open' = Open
    BY <1>2, SameOpen DEF TakeSlot, AcceptFails, PauseEnds, Drained
  <2> QED
    BY <1>2, <2>1 DEF TakeSlot, AcceptFails, PauseEnds, Drained, process
<1>3. ASSUME NEW c \in Conns, Accept(c) PROVE StopTypeOK' /\ SlotsConserved'
  <2>1. Cardinality(Open') = Cardinality(Open) + 1
    BY <1>3, AcceptOpens
  <2> QED
    BY <1>3, <2>1 DEF Accept, process
<1>4. CASE Break
  <2>1. Open' = Open
    BY <1>4, SameOpen DEF Break
  <2> QED
    BY <1>4, <2>1 DEF Break, process
<1>5. ASSUME NEW c \in Conns, Request(c) PROVE StopTypeOK' /\ SlotsConserved'
  <2>1. Open' = Open
    BY <1>5, SameOpen DEF Request
  <2> QED
    BY <1>5, <2>1 DEF Request, server
<1>6. ASSUME NEW c \in Conns, RequestEnds(c) PROVE StopTypeOK' /\ SlotsConserved'
  <2>1. CASE Become(c, "done") /\ UNCHANGED free
    <3>1. Open' = Open
      BY <1>6, <2>1, SameOpen DEF RequestEnds
    <3> QED
      BY <1>6, <2>1, <3>1 DEF RequestEnds, process
  <2>2. CASE Become(c, "closedAfter") /\ free' = free + 1
    <3>1. Cardinality(Open') = Cardinality(Open) - 1 /\ Cardinality(Open) > 0
      BY <1>6, <2>2, ClosedLeaves DEF RequestEnds
    <3> QED
      BY <1>6, <2>2, <3>1 DEF RequestEnds, process
  <2> QED
    BY <1>6, <2>1, <2>2 DEF RequestEnds
<1>7. ASSUME NEW c \in Conns, Close(c) PROVE StopTypeOK' /\ SlotsConserved'
  <2>1. Cardinality(Open') = Cardinality(Open) - 1 /\ Cardinality(Open) > 0
    BY <1>7, ClosedLeaves DEF Close
  <2> QED
    BY <1>7, <2>1 DEF Close, process
<1>8. CASE UNCHANGED <<conn, loop, free, stopping>>
  <2>1. Open' = Open
    BY <1>8, SameOpen
  <2>2. SlotsConserved'
    BY <1>8, <2>1
  <2>3. main' \in {"serving", "cutting", "settling", "returned", "exited", "restarted"}
        /\ cut' \in {"no", "yes"} /\ restart' \in {"no", "asked"}
        /\ signal' \in {"none", "delivered", "seen"}
        /\ late' \in {"no", "yes"}
    BY DEF StopNext, LoopStep, Timers, MainStep, Connect, TakeSlot, Accept, AcceptFails,
         PauseEnds, Break, Drained, Request, RequestEnds, Close, Write, Deliver, PassOn,
         AskRestart, Deadline, DrainEnds, DrainGivesUp, SettleEnds, SettleGivesUp, Leave,
         SettledPolled, stopVars, server, process
  <2> QED
    BY <1>8, <2>2, <2>3
<1> QED
  BY <1>1, <1>2, <1>3, <1>4, <1>5, <1>6, <1>7, <1>8
     DEF StopNext, LoopStep, Timers, MainStep, Write, Deliver, PassOn, AskRestart,
         Deadline, DrainEnds, DrainGivesUp, SettleEnds, SettleGivesUp, Leave,
         SettledPolled, stopVars, server

-----------------------------------------------------------------------------
\* A request's record is queued exactly when it ends, and never taken back.
LEMMA StepRecords ==
  ASSUME StopTypeOK, Records, [StopNext]_stopVars
  PROVE  Records'
<1> USE StopAssumption DEF StopTypeOK, SettleTypeOK, Records, Requested
<1>1. CASE UNCHANGED <<conn, write>>
  BY <1>1
<1>2. ASSUME NEW c \in Conns, Connect(c) PROVE Records'
  BY <1>2 DEF Connect, Become, settleVars
<1>3. ASSUME NEW c \in Conns, Accept(c) PROVE Records'
  BY <1>3 DEF Accept, Become, settleVars
<1>4. CASE Break
  BY <1>4 DEF Break, settleVars
<1>5. ASSUME NEW c \in Conns, Request(c) PROVE Records'
  BY <1>5 DEF Request, Become, settleVars
<1>6. ASSUME NEW c \in Conns, RequestEnds(c) PROVE Records'
  BY <1>6 DEF RequestEnds, Become, BeginWrite
<1>7. ASSUME NEW c \in Conns, Close(c) PROVE Records'
  BY <1>7 DEF Close, Become, settleVars
<1>8. ASSUME NEW c \in Conns, Write(c) PROVE Records'
  BY <1>8 DEF Write, EndWrite, Notify
<1> QED
  BY <1>1, <1>2, <1>3, <1>4, <1>5, <1>6, <1>7, <1>8
     DEF StopNext, LoopStep, Timers, MainStep, TakeSlot, AcceptFails, PauseEnds, Drained,
         Deliver, PassOn, AskRestart, Deadline, DrainEnds, DrainGivesUp, SettleEnds,
         SettleGivesUp, Leave, SettledPolled, CallSettled, SettledTurn, Register,
         CheckCount, Await, Wake, settleVars, stopVars

\* Nothing opens or is queued once the loop has drained, unless a wait ran out.
LEMMA StepPhases ==
  ASSUME StopTypeOK, Phases, [StopNext]_stopVars
  PROVE  Phases'
<1> USE StopAssumption DEF StopTypeOK, SettleTypeOK
<1>1. CASE UNCHANGED <<conn, loop, main, waiter, late, write>>
  <2>1. Open' = Open /\ Queued' = Queued
    BY <1>1 DEF Open, Queued
  <2> QED
    BY <1>1, <2>1 DEF Phases
<1>2. ASSUME NEW c \in Conns, Connect(c) PROVE Phases'
  <2>1. Open' = Open
    BY <1>2, SameOpen DEF Connect, Become
  <2>2. Queued' = Queued
    BY <1>2 DEF Connect, Queued, settleVars
  <2> QED
    BY <1>2, <2>1, <2>2 DEF Connect, Become, Phases, server, settleVars
<1>3. CASE TakeSlot \/ AcceptFails \/ PauseEnds \/ \E c \in Conns : Accept(c)
  <2>1. Queued' = Queued
    BY <1>3 DEF TakeSlot, AcceptFails, PauseEnds, Accept, Queued, settleVars
  <2> QED
    BY <1>3, <2>1 DEF TakeSlot, AcceptFails, PauseEnds, Accept, Phases, process, settleVars
<1>4. CASE Break
  <2>1. Open' = Open
    BY <1>4, SameOpen DEF Break
  <2>2. Queued' = Queued
    BY <1>4 DEF Break, Queued, settleVars
  <2> QED
    BY <1>4, <2>1, <2>2 DEF Break, Phases, process, settleVars
<1>5. CASE Drained
  <2>1. Open' = Open /\ Queued' = Queued
    BY <1>5 DEF Drained, Open, Queued, settleVars
  <2> QED
    BY <1>5, <2>1 DEF Drained, Phases, process, settleVars
<1>6. ASSUME NEW c \in Conns, Request(c) PROVE Phases'
  <2>1. Open' = Open
    BY <1>6, SameOpen DEF Request, Become
  <2>2. Queued' = Queued
    BY <1>6 DEF Request, Queued, settleVars
  <2> QED
    BY <1>6, <2>1, <2>2 DEF Request, Become, Phases, server, settleVars
<1>7. ASSUME NEW c \in Conns, RequestEnds(c) PROVE Phases'
  <2>1. c \in Open
    BY <1>7 DEF RequestEnds, Open
  <2>2. loop # "drained"
    BY <2>1 DEF Phases
  <2>3. main \in {"serving", "cutting"} \/ late # "no"
    BY <2>2 DEF Phases
  <2>4. waiter # "returned" \/ late # "no"
    BY <2>3 DEF Phases
  <2>5. \A d \in Conns : conn'[d] = "backlog" => conn[d] = "backlog"
    BY <1>7 DEF RequestEnds, Become
  <2> QED
    BY <1>7, <2>2, <2>3, <2>4, <2>5 DEF RequestEnds, Phases, process
<1>8. ASSUME NEW c \in Conns, Close(c) PROVE Phases'
  <2>1. Open' \subseteq Open
    BY <1>8 DEF Close, Become, Open
  <2>2. Queued' = Queued
    BY <1>8 DEF Close, Queued, settleVars
  <2> QED
    BY <1>8, <2>1, <2>2 DEF Close, Become, Phases, process, settleVars
<1>9. ASSUME NEW c \in Conns, Write(c) PROVE Phases'
  <2>1. Open' = Open
    BY <1>9 DEF Write, Open
  <2>2. Queued' \subseteq Queued
    BY <1>9 DEF Write, EndWrite, Notify, Queued
  <2>3. waiter' = waiter
    BY <1>9 DEF Write, EndWrite, Notify
  <2> QED
    BY <1>9, <2>1, <2>2, <2>3 DEF Write, Phases, server
<1>10. CASE Deadline \/ SettleEnds \/ SettleGivesUp \/ Leave
  <2>1. Open' = Open /\ Queued' = Queued
    BY <1>10 DEF Deadline, SettleEnds, SettleGivesUp, Leave, Open, Queued, settleVars
  <2> QED
    BY <1>10, <2>1 DEF Deadline, SettleEnds, SettleGivesUp, Leave, Phases, settleVars
<1>11. CASE DrainEnds \/ DrainGivesUp
  <2>1. Open' = Open /\ Queued' = Queued
    BY <1>11 DEF DrainEnds, DrainGivesUp, CallSettled, Open, Queued
  <2> QED
    BY <1>11, <2>1 DEF DrainEnds, DrainGivesUp, CallSettled, Phases
<1>12. CASE SettledPolled
  <2>1. Open' = Open /\ Queued' = Queued
    BY <1>12 DEF SettledPolled, SettledTurn, Register, CheckCount, Await, Wake, Open, Queued
  <2>2. waiter' = "returned" => Queued = {}
    <3>1. waiter' = "returned" => count = 0
      BY <1>12 DEF SettledPolled, SettledTurn, Register, CheckCount, Await, Wake
    <3> QED
      BY <3>1, ConnsFinite, FS_EmptySet
  <2> QED
    BY <1>12, <2>1, <2>2 DEF SettledPolled, Phases, server
<1> QED
  BY <1>1, <1>2, <1>3, <1>4, <1>5, <1>6, <1>7, <1>8, <1>9, <1>10, <1>11, <1>12
     DEF StopNext, LoopStep, Timers, MainStep, Deliver, PassOn, AskRestart, settleVars,
         stopVars

-----------------------------------------------------------------------------
LEMMA InitIInv == StopInit => IInv
<1> SUFFICES ASSUME StopInit PROVE IInv
  OBVIOUS
<1> USE StopAssumption DEF StopInit, SettleInit
<1>1. Open = {} /\ Queued = {}
  BY DEF Open, Queued
<1>2. Cardinality(Open) = 0 /\ Cardinality(Queued) = 0
  BY <1>1, FS_EmptySet
<1> QED
  BY <1>1, <1>2
     DEF IInv, StopTypeOK, SettleTypeOK, SlotsConserved, HoldsSlot, Records, Requested,
         Phases, NoLostWakeup

LEMMA StopInvariant == StopSpec => []IInv
<1>1. StopInit => IInv
  BY InitIInv
<1>2. IInv /\ [StopNext]_stopVars => IInv'
  BY StepSettle, StepSlots, StepRecords, StepPhases DEF IInv
<1> QED
  BY <1>1, <1>2, PTL DEF StopSpec

\* Types hold, PENDING counts the queued writes, and free slots stay in their range.
THEOREM StopTypeCorrect == StopSpec => []StopTypeOK
<1>1. IInv => StopTypeOK
  BY DEF IInv
<1> QED
  BY <1>1, StopInvariant, PTL

\* accept.rs never loses or lends a slot twice.
THEOREM SlotsCorrect == StopSpec => []SlotsConserved
<1>1. IInv => SlotsConserved
  BY DEF IInv
<1> QED
  BY <1>1, StopInvariant, PTL

\* settled() cannot sleep through the last write's end.
THEOREM WakeupCorrect == StopSpec => []NoLostWakeup
<1>1. IInv => NoLostWakeup
  BY DEF IInv
<1> QED
  BY <1>1, StopInvariant, PTL

\* serve() returning without a warning means that every record was written.
THEOREM RecordedCorrect == StopSpec => []StoppedMeansRecorded
<1>1. IInv => StoppedMeansRecorded
  <2> SUFFICES ASSUME IInv, main \in {"returned", "exited", "restarted"}, late = "no"
               PROVE  StoppedMeansRecorded
    BY DEF StoppedMeansRecorded
  <2>1. Open = {} /\ Queued = {}
    BY DEF IInv, Phases
  <2>2. ASSUME NEW c \in Conns, Requested(c) PROVE write[c] \in {"ending", "ended"}
    <3>1. write[c] \in {"queued", "ending", "ended"}
      BY <2>2, StopAssumption DEF IInv, Records, StopTypeOK, SettleTypeOK
    <3> QED
      BY <2>1, <3>1, StopAssumption DEF Queued
  <2> QED
    BY <2>1, <2>2 DEF StoppedMeansRecorded
<1> QED
  BY <1>1, StopInvariant, PTL

-----------------------------------------------------------------------------
\* The statistics.

Ids == DOMAIN Requests
RecordAt(id, t) ==
  [f \in DOMAIN Requests[id] \cup {"ts"} |-> IF f = "ts" THEN t ELSE Requests[id][f]]
Rows == {RecordAt(id, t) : id \in Ids, t \in Nat}

Unique(records) == \A i, j \in DOMAIN records : records[i].id = records[j].id => i = j

-----------------------------------------------------------------------------
\* Induction, for the one filter there is: a set of numbers has a least one.
LEMMA LeastNumber == ASSUME NEW T \in SUBSET Nat, T # {} PROVE \E x \in T : \A y \in T : x <= y
<1> DEFINE R == {ss \in Nat \X Nat : ss[1] < ss[2]}
<1>2. IsWellFoundedOn(R, Nat)
  BY NatLessThanWellFounded, Zenon DEF OpToRel
<1> HIDE DEF R
<1>3. PICK x \in T : \A y \in T : ~ (<<y, x>> \in R)
  BY <1>2, WFMin
<1>4. ASSUME NEW y \in T, y < x PROVE FALSE
  <2>1. <<y, x>> \in Nat \X Nat /\ <<y, x>>[1] < <<y, x>>[2]
    BY <1>4
  <2>2. <<y, x>> \in R
    BY <2>1 DEF R
  <2> QED
    BY <1>3, <2>2
<1> QED
  BY <1>4

LEMMA AllNumbers == ASSUME NEW T \in SUBSET Nat, 0 \in T, \A n \in T : n + 1 \in T PROVE T = Nat
<1> SUFFICES ASSUME Nat \ T # {} PROVE FALSE
  OBVIOUS
<1>1. PICK x \in Nat \ T : \A y \in Nat \ T : x <= y
  BY LeastNumber
<1>2. x # 0 /\ x - 1 \in Nat /\ x - 1 \in T
  BY <1>1
<1> QED
  BY <1>1, <1>2

LEMMA RecordFields ==
  ASSUME NEW id \in Ids, NEW t \in Nat
  PROVE  RecordAt(id, t).ts = t /\ RecordAt(id, t).id = id /\ RecordAt(id, t) \in Rows
BY StatisticsAssumption DEF Ids, RecordAt, Rows

LEMMA SinceType ==
  ASSUME NEW range \in DOMAIN Ranges, NEW now \in Nat
  PROVE  Since(range, now) \in Int \cup {None}
BY StatisticsAssumption DEF Since

LEMMA DayMonotone ==
  ASSUME NEW a \in Int, NEW b \in Int, a <= b
  PROVE  Day(a) \in Int /\ Day(b) \in Int /\ Day(a) <= Day(b)
BY StatisticsAssumption DEF Day

LEMMA DayType == ASSUME NEW a \in Nat PROVE Day(a) \in Nat
BY StatisticsAssumption DEF Day

-----------------------------------------------------------------------------
\* How the records of a file come about, line by line.
KeptSteps(ids, since, n, kept) ==
  kept = [m \in 0..n |->
            IF m = 0 THEN <<>>
            ELSE IF InRange(ids[m], since) THEN Append(kept[m - 1], Record(ids[m]))
            ELSE kept[m - 1]]

\* What is known of the records kept of the first n lines.
KeptFrom(ids, since, n, rows) ==
  /\ rows \in Seq(Rows) /\ Unique(rows)
  /\ \A i \in DOMAIN rows : \E m \in 1..n : rows[i] = Record(ids[m]) /\ InRange(ids[m], since)
  /\ \A m \in 1..n : InRange(ids[m], since) => \E i \in DOMAIN rows : rows[i] = Record(ids[m])

LEMMA StepsExist ==
  ASSUME NEW ids, NEW since, NEW n \in Nat
  PROVE  \E kept : KeptSteps(ids, since, n, kept)
<1> DEFINE T == {k \in Nat : \E kept : KeptSteps(ids, since, k, kept)}
<1>1. 0 \in T
  <2> DEFINE g == [m \in 0..0 |-> <<>>]
  <2>1. KeptSteps(ids, since, 0, g)
    BY DEF KeptSteps
  <2> QED
    BY <2>1
<1>2. ASSUME NEW k \in T PROVE k + 1 \in T
  <2>1. k \in Nat /\ \E g : KeptSteps(ids, since, k, g)
    OBVIOUS
  <2>2. PICK g : KeptSteps(ids, since, k, g)
    BY <2>1
  <2> HIDE DEF T
  <2> DEFINE Step(m, old) == IF InRange(ids[m], since) THEN Append(old, Record(ids[m])) ELSE old
             h == [m \in 0..(k + 1) |-> IF m = 0 THEN <<>> ELSE Step(m, g[m - 1])]
  <2> HIDE DEF Step
  <2>3. g = [m \in 0..k |-> IF m = 0 THEN <<>> ELSE Step(m, g[m - 1])]
    BY <2>2 DEF KeptSteps, Step
  <2>4. ASSUME NEW m \in 0..k PROVE h[m] = g[m]
    <3>1. m \in 0..(k + 1)
      BY <2>1
    <3>2. g[m] = IF m = 0 THEN <<>> ELSE Step(m, g[m - 1])
      BY <2>3
    <3> QED
      BY <3>1, <3>2
  <2>5. ASSUME NEW m \in 0..(k + 1), m # 0 PROVE h[m - 1] = g[m - 1]
    <3>1. m - 1 \in 0..k
      BY <2>1, <2>5
    <3> QED
      BY <2>4, <3>1
  <2>6. h = [m \in 0..(k + 1) |-> IF m = 0 THEN <<>> ELSE Step(m, h[m - 1])]
    BY <2>5
  <2> HIDE DEF h
  <2>7. KeptSteps(ids, since, k + 1, h)
    BY <2>6 DEF KeptSteps, Step
  <2> QED
    BY <2>1, <2>7 DEF T
<1>3. T = Nat
  <2> HIDE DEF T
  <2>1. T \in SUBSET Nat
    BY DEF T
  <2> QED
    BY <1>1, <1>2, <2>1, AllNumbers
<1> QED
  BY <1>3

LEMMA KeptCorrect ==
  ASSUME NEW ids \in Seq(Ids), NEW since,
         \A p, q \in DOMAIN ids : ids[p] = ids[q] => p = q,
         \A p \in DOMAIN ids : arrived[ids[p]] \in Nat
  PROVE  KeptFrom(ids, since, Len(ids), Kept(ids, since))
<1> DEFINE len == Len(ids)
<1>1. len \in Nat /\ DOMAIN ids = 1..len
  OBVIOUS
<1>2. \A p \in 1..len : /\ ids[p] \in Ids /\ Record(ids[p]) \in Rows
                        /\ Record(ids[p]).id = ids[p]
  <2> TAKE p \in 1..len
  <2>1. ids[p] \in Ids /\ arrived[ids[p]] \in Nat
    BY <1>1
  <2>2. Record(ids[p]) = RecordAt(ids[p], arrived[ids[p]])
    BY DEF Record, RecordAt
  <2> QED
    BY <2>1, <2>2, RecordFields
<1>3. PICK g : KeptSteps(ids, since, len, g) /\ Kept(ids, since) = g[len]
  <2> DEFINE g == CHOOSE g : KeptSteps(ids, since, len, g)
  <2>1. KeptSteps(ids, since, len, g)
    BY <1>1, StepsExist
  <2>2. Kept(ids, since) = g[len]
    BY DEF Kept, KeptSteps
  <2> QED
    BY <2>1, <2>2
<1> DEFINE T == {n \in Nat : n <= len => KeptFrom(ids, since, n, g[n])}
<1>4. 0 \in T
  <2>1. g[0] = <<>>
    BY <1>1, <1>3 DEF KeptSteps
  <2>2. <<>> \in Seq(Rows) /\ DOMAIN <<>> = {} /\ 1..0 = {}
    OBVIOUS
  <2>3. KeptFrom(ids, since, 0, <<>>)
    BY <2>2 DEF KeptFrom, Unique
  <2> QED
    BY <2>1, <2>3
<1>5. ASSUME NEW n \in T PROVE n + 1 \in T
  <2> SUFFICES ASSUME n + 1 <= len PROVE KeptFrom(ids, since, n + 1, g[n + 1])
    OBVIOUS
  <2> DEFINE m == n + 1
             row == Record(ids[m])
  <2>1. m \in 1..len /\ m # 0 /\ m - 1 = n /\ m \in 0..len
    BY <1>1
  <2>2. g[m] = IF InRange(ids[m], since) THEN Append(g[n], row) ELSE g[n]
    BY <1>3, <2>1 DEF KeptSteps
  <2>3. KeptFrom(ids, since, n, g[n])
    BY <1>1
  <2>4. CASE ~InRange(ids[m], since)
    <3>1. g[m] = g[n]
      BY <2>2, <2>4
    <3>2. \A k \in 1..m : k \in 1..n \/ k = m
      BY <1>1
    <3>3. \A k \in 1..n : k \in 1..m
      OBVIOUS
    <3> HIDE DEF m
    <3> DEFINE old == g[n]
    <3> HIDE DEF old, T
    <3>4. KeptFrom(ids, since, n, old)
      BY <2>3 DEF old
    <3>5. KeptFrom(ids, since, m, old)
      BY <2>4, <3>2, <3>3, <3>4 DEF KeptFrom
    <3> QED
      BY <3>1, <3>5 DEF old, m
  <2>5. CASE InRange(ids[m], since)
    <3> DEFINE old == g[n]
    <3>1. g[m] = Append(old, row) /\ row \in Rows /\ row.id = ids[m]
      BY <1>2, <2>1, <2>2, <2>5
    <3>2. old \in Seq(Rows) /\ Unique(old)
      BY <2>3 DEF KeptFrom
    <3>3. \A i \in DOMAIN old : \E k \in 1..n : old[i] = Record(ids[k]) /\ InRange(ids[k], since)
      BY <2>3 DEF KeptFrom
    <3>4. \A k \in 1..n : InRange(ids[k], since) => \E i \in DOMAIN old : old[i] = Record(ids[k])
      BY <2>3 DEF KeptFrom
    <3>5. \A i \in DOMAIN old : old[i].id # row.id
      <4> TAKE i \in DOMAIN old
      <4>1. PICK k \in 1..n : old[i] = Record(ids[k])
        BY <3>3
      <4>2. k \in DOMAIN ids /\ m \in DOMAIN ids /\ k # m /\ k \in 1..len
        BY <1>1, <2>1
      <4>3. old[i].id = ids[k]
        BY <1>2, <4>1, <4>2
      <4> QED
        BY <3>1, <4>2, <4>3
    <3> HIDE DEF m, row, old
    <3> DEFINE new == g[m]
    <3>6. /\ new \in Seq(Rows) /\ DOMAIN new = DOMAIN old \cup {Len(old) + 1}
          /\ new[Len(old) + 1] = row /\ \A i \in DOMAIN old : new[i] = old[i]
      <4>1. new = Append(old, row)
        BY <3>1
      <4> QED
        BY <3>1, <3>2, <4>1
    <3> HIDE DEF new
    <3>7. Unique(new)
      BY <3>2, <3>5, <3>6 DEF Unique
    <3>8. \A k \in 1..m : k \in 1..n \/ k = m
      BY DEF m
    <3>9. \A k \in 1..n : k \in 1..m
      BY DEF m
    <3>10. m \in 1..m
      BY DEF m
    <3>11. ASSUME NEW i \in DOMAIN new
           PROVE  \E k \in 1..m : new[i] = Record(ids[k]) /\ InRange(ids[k], since)
      <4>1. CASE i \in DOMAIN old
        BY <3>3, <3>6, <3>9, <4>1
      <4>2. CASE i = Len(old) + 1
        <5>1. new[i] = Record(ids[m])
          BY <3>6, <4>2 DEF row
        <5> QED
          BY <2>5, <3>10, <5>1
      <4> QED
        BY <3>6, <4>1, <4>2
    <3>12. ASSUME NEW k \in 1..m, InRange(ids[k], since)
           PROVE  \E i \in DOMAIN new : new[i] = Record(ids[k])
      <4>1. CASE k \in 1..n
        BY <3>4, <3>6, <3>12, <4>1
      <4>2. CASE k = m
        <5>1. new[Len(old) + 1] = Record(ids[k])
          BY <3>6, <4>2 DEF row
        <5> QED
          BY <3>6, <5>1
      <4> QED
        BY <3>8, <4>1, <4>2
    <3>13. KeptFrom(ids, since, m, new)
      BY <3>6, <3>7, <3>11, <3>12 DEF KeptFrom
    <3> QED
      BY <3>13 DEF new, m
  <2> QED
    BY <2>4, <2>5
<1>6. T = Nat
  <2> HIDE DEF T
  <2>1. T \in SUBSET Nat
    BY DEF T
  <2> QED
    BY <1>4, <1>5, <2>1, AllNumbers
<1> QED
  BY <1>1, <1>3, <1>6

-----------------------------------------------------------------------------
Written(id) == line[id] = "written" /\ arrived[id] \in Nat
Holds(d, id) == d \in DOMAIN files /\ \E p \in DOMAIN files[d] : files[d][p] = id
Has(records, id) == \E i \in DOMAIN records : records[i].id = id

\* What a sweep that starts now, or later, would leave.
Fresh(id) == Retention = None \/ arrived[id] >= clock - Retention

StatisticsTypes ==
  /\ clock \in Nat
  /\ arrived \in [Ids -> Nat \cup {None}]
  /\ line \in [Ids -> {"none", "queued", "written"}]
  /\ \A d \in DOMAIN files : d \in Nat /\ files[d] \in Seq(Ids)
  /\ sweep \subseteq Nat
  /\ \A id \in Ids : line[id] # "none" => arrived[id] # None

\* A line is once in the file of its day, and in no other.
OnDisk ==
  \A d \in DOMAIN files :
    /\ \A p \in DOMAIN files[d] : Written(files[d][p]) /\ Day(arrived[files[d][p]]) = d
    /\ \A p, q \in DOMAIN files[d] : files[d][p] = files[d][q] => p = q

\* Whatever a sweep is still to delete is older than the retention, however late it is.
Swept == \A d \in sweep : Retention \in Nat /\ d < Day(clock - Retention)

Sound(records, since) ==
  /\ records \in Seq(Rows) /\ Unique(records)
  /\ \A i \in DOMAIN records :
       /\ records[i].id \in Ids /\ Written(records[i].id)
       /\ records[i].ts = arrived[records[i].id] /\ InRange(records[i].id, since)

\* Each record a report is to have is in it, or still in a file to be read.
ReadSoFar ==
  reading # None =>
    LET since == Since(reading.range, reading.now)
    IN /\ reading.stage \in {"asked", "listed"} /\ reading.left \subseteq Nat
       /\ reading.range \in DOMAIN Ranges /\ reading.now \in Nat
       /\ Sound(reading.records, since)
       /\ \A i \in DOMAIN reading.records : Day(reading.records[i].ts) \notin reading.left
       /\ reading.stage = "asked" => reading.records = <<>> /\ reading.left = {}
       /\ reading.stage = "listed" =>
            \A id \in listed :
              Fresh(id) /\ InRange(id, since) =>
                \/ Has(reading.records, id)
                \/ Day(arrived[id]) \in reading.left /\ Holds(Day(arrived[id]), id)

Told ==
  report # None =>
    LET since == Since(report.range, report.now)
    IN /\ Sound(report.records, since)
       /\ \A id \in listed : Fresh(id) /\ InRange(id, since) => Has(report.records, id)

Listed == \A id \in listed : id \in Ids /\ Written(id)

StatisticsInv == StatisticsTypes /\ OnDisk /\ Swept /\ ReadSoFar /\ Listed /\ Told

-----------------------------------------------------------------------------
\* What a report being read is sure of stays so, as long as no step changes what was
\* written, and none deletes a line younger than the retention.
LEMMA ReadingLasts ==
  ASSUME StatisticsInv, report = None, clock' \in Nat, clock' >= clock,
         UNCHANGED <<reading, report, listed>>,
         \A id \in Ids : Written(id) => Written(id)' /\ arrived'[id] = arrived[id],
         \A id \in Ids : Written(id) /\ Fresh(id)' /\ Holds(Day(arrived[id]), id)
                           => Holds(Day(arrived[id]), id)'
  PROVE  ReadSoFar' /\ Listed' /\ Told'
<1>1. Listed'
  BY DEF StatisticsInv, Listed
<1>2. Told'
  BY DEF Told
<1>3. ASSUME NEW id \in listed, Fresh(id)' PROVE Fresh(id)
  <2>1. arrived'[id] = arrived[id] /\ arrived[id] \in Nat
    BY DEF StatisticsInv, Listed, Written
  <2> QED
    BY <1>3, <2>1, StatisticsAssumption DEF Fresh, StatisticsInv, StatisticsTypes
<1>4. ASSUME NEW records, NEW since, Sound(records, since) PROVE Sound(records, since)'
  BY <1>4 DEF Sound, InRange
<1>5. ASSUME reading # None PROVE ReadSoFar'
  <2> DEFINE since == Since(reading.range, reading.now)
  <2> HIDE DEF since
  <2>1. /\ reading.stage \in {"asked", "listed"} /\ reading.left \subseteq Nat
        /\ reading.range \in DOMAIN Ranges /\ reading.now \in Nat
        /\ Sound(reading.records, since)
        /\ \A i \in DOMAIN reading.records : Day(reading.records[i].ts) \notin reading.left
        /\ reading.stage = "asked" => reading.records = <<>> /\ reading.left = {}
        /\ reading.stage = "listed" =>
             \A id \in listed :
               Fresh(id) /\ InRange(id, since) =>
                 \/ Has(reading.records, id)
                 \/ Day(arrived[id]) \in reading.left /\ Holds(Day(arrived[id]), id)
    BY <1>5 DEF StatisticsInv, ReadSoFar, since
  <2>2. Sound(reading.records, since)'
    <3> DEFINE those == reading.records
    <3>1. Sound(those, since)
      BY <2>1
    <3>2. those' = those /\ since' = since
      BY DEF since
    <3> QED
      BY <1>4, <3>1, <3>2
  <2>3. ASSUME reading.stage = "listed", NEW id \in listed, Fresh(id)', InRange(id, since)'
        PROVE  \/ Has(reading.records, id)
               \/ Day(arrived'[id]) \in reading.left /\ Holds(Day(arrived[id]), id)'
    <3>1. id \in Ids /\ Written(id) /\ arrived'[id] = arrived[id]
      BY DEF StatisticsInv, Listed
    <3>2. Fresh(id) /\ InRange(id, since)
      BY <1>3, <2>3, <3>1 DEF InRange, since
    <3> QED
      BY <2>1, <2>3, <3>1, <3>2
  <2>4. \A id \in listed : arrived'[id] = arrived[id]
    BY DEF StatisticsInv, Listed
  <2> QED
    BY <2>1, <2>2, <2>3, <2>4 DEF ReadSoFar, since, Has
<1>6. ReadSoFar'
  BY <1>5 DEF ReadSoFar
<1> QED
  BY <1>1, <1>2, <1>6

-----------------------------------------------------------------------------
LEMMA InitKeeps == Init => StatisticsInv
BY StatisticsAssumption DEF Init, StatisticsInv, StatisticsTypes, OnDisk, Swept, ReadSoFar, Listed,
   Told, Ids

LEMMA TickKeeps == ASSUME StatisticsInv, report = None, Tick PROVE StatisticsInv'
<1>1. StatisticsTypes' /\ clock' \in Nat /\ clock' >= clock
  BY DEF StatisticsInv, StatisticsTypes, Tick
<1>2. OnDisk'
  BY DEF StatisticsInv, OnDisk, Written, Tick
<1>3. Swept'
  <2> SUFFICES ASSUME NEW d \in sweep PROVE Retention \in Nat /\ d < Day(clock' - Retention)
    BY DEF Swept, Tick
  <2>1. Retention \in Nat /\ d < Day(clock - Retention) /\ d \in Nat /\ clock \in Nat
    BY DEF StatisticsInv, StatisticsTypes, Swept
  <2>2. clock - Retention \in Int /\ clock' - Retention \in Int
        /\ clock - Retention <= clock' - Retention
    <3>1. clock' = clock + 1
      BY DEF Tick
    <3> QED
      BY <2>1, <3>1
  <2>3. /\ Day(clock - Retention) \in Int /\ Day(clock' - Retention) \in Int
        /\ Day(clock - Retention) <= Day(clock' - Retention)
    BY <2>2, DayMonotone
  <2> QED
    BY <2>1, <2>3
<1>4. ReadSoFar' /\ Listed' /\ Told'
  BY <1>1, ReadingLasts DEF Tick, Written, Holds
<1> QED
  BY <1>1, <1>2, <1>3, <1>4 DEF StatisticsInv

LEMMA ArriveKeeps ==
  ASSUME StatisticsInv, report = None, NEW id \in Ids, Arrive(id) PROVE StatisticsInv'
<1>1. StatisticsTypes' /\ clock' \in Nat /\ clock' >= clock
  BY StatisticsAssumption DEF StatisticsInv, StatisticsTypes, Arrive
<1>2. \A i \in Ids : Written(i) => Written(i)' /\ arrived'[i] = arrived[i]
  BY StatisticsAssumption DEF StatisticsInv, StatisticsTypes, Arrive, Written
<1>3. OnDisk'
  <2>1. files' = files
    BY DEF Arrive
  <2>2. \A d \in DOMAIN files : \A p \in DOMAIN files[d] : files[d][p] \in Ids
    BY DEF StatisticsInv, StatisticsTypes
  <2> QED
    BY <1>2, <2>1, <2>2 DEF StatisticsInv, OnDisk
<1>4. Swept'
  BY DEF StatisticsInv, Swept, Arrive
<1>5. ReadSoFar' /\ Listed' /\ Told'
  BY <1>1, <1>2, ReadingLasts DEF Arrive, Holds
<1> QED
  BY <1>1, <1>3, <1>4, <1>5 DEF StatisticsInv

LEMMA FinishKeeps ==
  ASSUME StatisticsInv, report = None, NEW id \in Ids, Finish(id) PROVE StatisticsInv'
<1>1. StatisticsTypes' /\ clock' \in Nat /\ clock' >= clock
  BY StatisticsAssumption DEF StatisticsInv, StatisticsTypes, Finish
<1>2. \A i \in Ids : Written(i) => Written(i)' /\ arrived'[i] = arrived[i]
  BY StatisticsAssumption DEF StatisticsInv, StatisticsTypes, Finish, Written
<1>3. OnDisk'
  <2>1. files' = files /\ arrived' = arrived
    BY DEF Finish
  <2>2. \A d \in DOMAIN files : \A p \in DOMAIN files[d] : files[d][p] \in Ids
    BY DEF StatisticsInv, StatisticsTypes
  <2> QED
    BY <1>2, <2>1, <2>2 DEF StatisticsInv, OnDisk
<1>4. Swept'
  BY DEF StatisticsInv, Swept, Finish
<1>5. ReadSoFar' /\ Listed' /\ Told'
  BY <1>1, <1>2, ReadingLasts DEF Finish, Holds
<1> QED
  BY <1>1, <1>3, <1>4, <1>5 DEF StatisticsInv

LEMMA AppendLineKeeps ==
  ASSUME StatisticsInv, report = None, NEW id \in Ids, AppendLine(id) PROVE StatisticsInv'
<1> DEFINE day == Day(arrived[id])
           old == Lines(day)
<1>1. /\ line[id] = "queued" /\ line' = [line EXCEPT ![id] = "written"]
      /\ files' = [d \in DOMAIN files \cup {day} |-> IF d = day THEN Append(old, id) ELSE files[d]]
      /\ UNCHANGED <<clock, arrived, sweep, reading, report, listed>>
  BY DEF AppendLine
<1>2. arrived[id] \in Nat /\ day \in Nat
  BY <1>1, DayType DEF StatisticsInv, StatisticsTypes
<1>3. old \in Seq(Ids)
  BY DEF StatisticsInv, StatisticsTypes, Lines
<1>4. \A i \in Ids : Written(i) => Written(i)' /\ arrived'[i] = arrived[i] /\ i # id
  BY <1>1 DEF StatisticsInv, StatisticsTypes, Written
<1>5. Written(id)'
  BY <1>1, <1>2 DEF StatisticsInv, StatisticsTypes, Written
<1>6. /\ \A p \in DOMAIN old : old[p] \in Ids /\ Written(old[p]) /\ Day(arrived[old[p]]) = day
      /\ \A p, q \in DOMAIN old : old[p] = old[q] => p = q
  BY <1>3 DEF StatisticsInv, StatisticsTypes, OnDisk, Lines
<1> HIDE DEF old
<1>7. \A d \in DOMAIN files' : d \in Nat /\ files'[d] \in Seq(Ids)
  BY <1>1, <1>2, <1>3 DEF StatisticsInv, StatisticsTypes
<1>8. StatisticsTypes' /\ clock' \in Nat /\ clock' >= clock
  <2>1. line' \in [Ids -> {"none", "queued", "written"}]
    BY <1>1 DEF StatisticsInv, StatisticsTypes
  <2>2. \A i \in Ids : line'[i] # "none" => arrived'[i] # None
    BY <1>1 DEF StatisticsInv, StatisticsTypes
  <2>3. clock' = clock /\ sweep' = sweep /\ arrived' = arrived
    BY <1>1
  <2>4. clock \in Nat /\ sweep \subseteq Nat /\ arrived \in [Ids -> Nat \cup {None}]
    BY DEF StatisticsInv, StatisticsTypes
  <2> QED
    BY <1>7, <2>1, <2>2, <2>3, <2>4 DEF StatisticsTypes
<1>9. ASSUME NEW d \in DOMAIN files'
      PROVE  /\ \A p \in DOMAIN files'[d] :
                  /\ line'[files'[d][p]] = "written" /\ arrived'[files'[d][p]] \in Nat
                  /\ Day(arrived'[files'[d][p]]) = d
             /\ \A p, q \in DOMAIN files'[d] : files'[d][p] = files'[d][q] => p = q
  <2>1. CASE d = day
    <3>1. files'[d] = Append(old, id)
      BY <1>1, <2>1
    <3> DEFINE new == files'[d]
    <3>2. DOMAIN new = DOMAIN old \cup {Len(old) + 1} /\ Len(old) + 1 \notin DOMAIN old
          /\ new[Len(old) + 1] = id /\ \A p \in DOMAIN old : new[p] = old[p]
      BY <1>3, <3>1
    <3> HIDE DEF new, day
    <3>3. ASSUME NEW p \in DOMAIN new
          PROVE  /\ line'[new[p]] = "written" /\ arrived'[new[p]] \in Nat
                 /\ Day(arrived'[new[p]]) = d
      <4>1. CASE p \in DOMAIN old
        <5>1. new[p] = old[p] /\ old[p] \in Ids /\ Written(old[p]) /\ Day(arrived[old[p]]) = d
          BY <1>6, <2>1, <3>2, <4>1
        <5>2. line'[old[p]] = "written" /\ arrived'[old[p]] = arrived[old[p]]
          BY <1>4, <5>1 DEF Written
        <5> QED
          BY <5>1, <5>2 DEF Written
      <4>2. CASE p = Len(old) + 1
        <5>1. new[p] = id /\ arrived' = arrived /\ Day(arrived[id]) = d
          BY <1>1, <2>1, <3>2, <4>2 DEF day
        <5> QED
          BY <1>5, <5>1 DEF Written
      <4> QED
        BY <3>2, <4>1, <4>2
    <3>4. ASSUME NEW p \in DOMAIN new, NEW q \in DOMAIN new, new[p] = new[q] PROVE p = q
      <4>1. \A k \in DOMAIN old : old[k] # id
        BY <1>4, <1>6
      <4> QED
        BY <1>6, <3>2, <3>4, <4>1
    <3> QED
      BY <3>3, <3>4 DEF new
  <2>2. CASE d # day
    <3>1. d \in DOMAIN files /\ files'[d] = files[d]
      BY <1>1, <2>2
    <3>2. \A p \in DOMAIN files[d] : files[d][p] \in Ids
      BY <3>1 DEF StatisticsInv, StatisticsTypes
    <3>3. /\ \A p \in DOMAIN files[d] : Written(files[d][p]) /\ Day(arrived[files[d][p]]) = d
          /\ \A p, q \in DOMAIN files[d] : files[d][p] = files[d][q] => p = q
      BY <3>1 DEF StatisticsInv, OnDisk
    <3>4. ASSUME NEW p \in DOMAIN files[d]
          PROVE  /\ line'[files[d][p]] = "written" /\ arrived'[files[d][p]] \in Nat
                 /\ Day(arrived'[files[d][p]]) = d
      <4>1. Written(files[d][p]) /\ files[d][p] \in Ids /\ files[d][p] # id
        BY <1>4, <3>2, <3>3
      <4>2. line'[files[d][p]] = line[files[d][p]] /\ arrived' = arrived
        BY <1>1, <4>1 DEF StatisticsInv, StatisticsTypes
      <4> QED
        BY <3>3, <4>1, <4>2 DEF Written
    <3> QED
      BY <3>1, <3>3, <3>4
  <2> QED
    BY <2>1, <2>2
<1>10. OnDisk'
  BY <1>9 DEF OnDisk, Written
<1>11. Swept'
  BY <1>1 DEF StatisticsInv, Swept
<1>12. ASSUME NEW d, NEW i, Holds(d, i) PROVE Holds(d, i)'
  <2>1. PICK p \in DOMAIN files[d] : d \in DOMAIN files /\ files[d][p] = i
    BY <1>12 DEF Holds
  <2>2. CASE d = day
    <3>1. old = files[d]
      BY <2>1, <2>2 DEF Lines, old
    <3>2. files'[d] = Append(old, id) /\ d \in DOMAIN files'
      BY <1>1, <2>2
    <3>3. p \in DOMAIN Append(old, id) /\ Append(old, id)[p] = old[p]
      BY <1>3, <2>1, <3>1
    <3> QED
      BY <2>1, <3>1, <3>2, <3>3 DEF Holds
  <2>3. CASE d # day
    BY <1>1, <2>1, <2>3 DEF Holds
  <2> QED
    BY <2>2, <2>3
<1>13. ReadSoFar' /\ Listed' /\ Told'
  <2>1. UNCHANGED <<reading, report, listed>>
    BY <1>1
  <2> HIDE DEF day
  <2> QED
    BY <1>4, <1>8, <1>12, <2>1, ReadingLasts
<1> QED
  BY <1>8, <1>10, <1>11, <1>13 DEF StatisticsInv

LEMMA SweepKeeps == ASSUME StatisticsInv, report = None, Sweep PROVE StatisticsInv'
<1>1. StatisticsTypes' /\ clock' \in Nat /\ clock' >= clock
  BY DEF StatisticsInv, StatisticsTypes, Sweep
<1>2. OnDisk'
  BY DEF StatisticsInv, OnDisk, Written, Sweep
<1>3. Swept'
  BY StatisticsAssumption DEF StatisticsInv, Swept, Sweep, Old
<1>4. ReadSoFar' /\ Listed' /\ Told'
  BY <1>1, ReadingLasts DEF Sweep, Written, Holds
<1> QED
  BY <1>1, <1>2, <1>3, <1>4 DEF StatisticsInv

LEMMA DeleteKeeps ==
  ASSUME StatisticsInv, report = None, NEW d \in sweep, Delete(d) PROVE StatisticsInv'
<1>1. /\ DOMAIN files' = DOMAIN files \ {d}
      /\ \A e \in DOMAIN files' : files'[e] = files[e]
      /\ sweep' = sweep \ {d}
      /\ UNCHANGED <<clock, arrived, line, reading, report, listed>>
  BY DEF Delete, Restrict
<1>2. StatisticsTypes' /\ clock' \in Nat /\ clock' >= clock
  BY <1>1 DEF StatisticsInv, StatisticsTypes
<1>3. OnDisk'
  BY <1>1 DEF StatisticsInv, OnDisk, Written
<1>4. Swept'
  BY <1>1 DEF StatisticsInv, Swept
<1>5. ASSUME NEW id \in Ids, Written(id), Fresh(id)' PROVE Day(arrived[id]) # d
  <2>1. Retention \in Nat /\ d \in Nat /\ d < Day(clock - Retention) /\ clock \in Nat
    BY DEF StatisticsInv, StatisticsTypes, Swept
  <2>2. arrived[id] \in Nat /\ arrived[id] >= clock - Retention
    BY <1>1, <1>5, <2>1, StatisticsAssumption DEF Fresh, Written
  <2>3. /\ Day(clock - Retention) \in Int /\ Day(arrived[id]) \in Int
        /\ Day(clock - Retention) <= Day(arrived[id])
    <3>1. clock - Retention \in Int /\ clock - Retention <= arrived[id] /\ arrived[id] \in Int
      BY <2>1, <2>2
    <3> QED
      BY <3>1, DayMonotone
  <2> QED
    BY <2>1, <2>3
<1>6. ReadSoFar' /\ Listed' /\ Told'
  <2>1. \A id \in Ids : Written(id) /\ Fresh(id)' /\ Holds(Day(arrived[id]), id)
                          => Holds(Day(arrived[id]), id)'
    BY <1>1, <1>5 DEF Holds
  <2>2. \A id \in Ids : Written(id) => Written(id)' /\ arrived'[id] = arrived[id]
    BY <1>1 DEF Written
  <2>3. UNCHANGED <<reading, report, listed>>
    BY <1>1
  <2> QED
    BY <1>2, <2>1, <2>2, <2>3, ReadingLasts
<1> QED
  BY <1>2, <1>3, <1>4, <1>6 DEF StatisticsInv

-----------------------------------------------------------------------------
LEMMA ReadingFields ==
  ASSUME NEW stage, NEW range, NEW now, NEW left, NEW records
  PROVE  LET r == Reading(stage, range, now, left, records)
         IN r.stage = stage /\ r.range = range /\ r.now = now /\ r.left = left
              /\ r.records = records
BY DEF Reading

\* The steps of a report leave the files as they are.
LEMMA FilesStay ==
  ASSUME StatisticsTypes, OnDisk, Swept, UNCHANGED <<clock, arrived, line, files, sweep>>
  PROVE  StatisticsTypes' /\ OnDisk' /\ Swept'
<1>1. StatisticsTypes'
  BY DEF StatisticsTypes
<1>2. OnDisk'
  BY DEF OnDisk, Written
<1>3. Swept'
  BY DEF Swept
<1> QED
  BY <1>1, <1>2, <1>3

LEMMA AskKeeps ==
  ASSUME StatisticsInv, report = None, NEW range \in DOMAIN Ranges, Ask(range)
  PROVE  StatisticsInv'
<1>1. StatisticsTypes' /\ OnDisk' /\ Swept'
  BY FilesStay DEF StatisticsInv, Ask
<1>2. Listed' /\ Told'
  BY DEF StatisticsInv, Listed, Told, Written, Ask
<1>3. ReadSoFar'
  <2>1. /\ reading'.stage = "asked" /\ reading'.range = range /\ reading'.now = clock
        /\ reading'.left = {} /\ reading'.records = <<>>
    BY ReadingFields DEF Ask
  <2>2. <<>> \in Seq(Rows) /\ DOMAIN <<>> = {} /\ clock \in Nat
    BY DEF StatisticsInv, StatisticsTypes
  <2> QED
    BY <2>1, <2>2 DEF ReadSoFar, Sound, Unique
<1> QED
  BY <1>1, <1>2, <1>3 DEF StatisticsInv

LEMMA ListKeeps == ASSUME StatisticsInv, report = None, List PROVE StatisticsInv'
<1> DEFINE since == Since(reading.range, reading.now)
           left == {d \in DOMAIN files : since = None \/ d >= Day(since)}
<1>1. StatisticsTypes' /\ OnDisk' /\ Swept'
  BY FilesStay DEF StatisticsInv, List
<1>2. /\ reading # None /\ reading' = Reading("listed", reading.range, reading.now, left, <<>>)
      /\ listed' = UNION {ToSet(files[d]) : d \in DOMAIN files}
      /\ UNCHANGED <<clock, arrived, line, files, sweep, report>>
  BY DEF List
<1>3. ASSUME NEW id \in listed'
      PROVE  id \in Ids /\ Written(id) /\ Holds(Day(arrived[id]), id)
  <2>1. PICK d \in DOMAIN files : id \in ToSet(files[d])
    BY <1>2
  <2>2. PICK p \in DOMAIN files[d] : files[d][p] = id
    BY <2>1 DEF ToSet
  <2> QED
    BY <2>2 DEF StatisticsInv, StatisticsTypes, OnDisk, Holds
<1>4. Listed' /\ Told'
  <2>1. Listed'
    BY <1>2, <1>3 DEF Listed, Written
  <2>2. Told'
    BY <1>2 DEF Told
  <2> QED
    BY <2>1, <2>2
<1>5. ReadSoFar'
  <2>1. /\ reading'.stage = "listed" /\ reading'.range = reading.range
        /\ reading'.now = reading.now /\ reading'.left = left /\ reading'.records = <<>>
    BY <1>2, ReadingFields
  <2>2. reading.range \in DOMAIN Ranges /\ reading.now \in Nat
    BY <1>2 DEF StatisticsInv, ReadSoFar
  <2>3. left \subseteq Nat /\ <<>> \in Seq(Rows) /\ DOMAIN <<>> = {}
    BY DEF StatisticsInv, StatisticsTypes
  <2>4. since \in Int \cup {None}
    BY <2>2, SinceType
  <2>5. ASSUME NEW id \in listed', InRange(id, since)
        PROVE  Day(arrived[id]) \in left /\ Holds(Day(arrived[id]), id)
    <3>1. arrived[id] \in Nat /\ Day(arrived[id]) \in DOMAIN files
          /\ Holds(Day(arrived[id]), id)
      BY <1>3 DEF Written, Holds
    <3>2. since # None => Day(arrived[id]) >= Day(since)
      <4> SUFFICES ASSUME since # None PROVE Day(arrived[id]) >= Day(since)
        OBVIOUS
      <4>1. since \in Int /\ arrived[id] \in Int /\ since <= arrived[id]
        BY <2>4, <2>5, <3>1 DEF InRange
      <4> HIDE DEF since
      <4> QED
        BY <4>1, DayMonotone
    <3> QED
      BY <3>1, <3>2
  <2>6. Since(reading'.range, reading'.now) = since
    BY <2>1
  <2> HIDE DEF left, since
  <2>7. ASSUME NEW id \in listed', since = None \/ arrived'[id] >= since
        PROVE  /\ Day(arrived'[id]) \in reading'.left
               /\ Day(arrived'[id]) \in DOMAIN files'
               /\ \E p \in DOMAIN files'[Day(arrived'[id])] : files'[Day(arrived'[id])][p] = id
    <3>1. InRange(id, since)
      BY <1>2, <2>7 DEF InRange
    <3> QED
      BY <1>2, <2>1, <2>5, <3>1 DEF Holds
  <2>8. Unique(<<>>)
    BY <2>3 DEF Unique
  <2> QED
    BY <2>1, <2>2, <2>3, <2>6, <2>7, <2>8 DEF ReadSoFar, Sound, InRange, Holds
<1> QED
  BY <1>1, <1>4, <1>5 DEF StatisticsInv

\* The records of one file, as the reader finds it.
LEMMA LinesKept ==
  ASSUME StatisticsTypes, OnDisk, NEW d, NEW since
  PROVE  LET rows == Kept(Lines(d), since)
         IN /\ rows \in Seq(Rows) /\ Unique(rows)
            /\ \A i \in DOMAIN rows :
                 /\ rows[i].id \in Ids /\ Written(rows[i].id)
                 /\ rows[i].ts = arrived[rows[i].id] /\ InRange(rows[i].id, since)
                 /\ Day(rows[i].ts) = d
            /\ \A id \in Ids : Holds(d, id) /\ InRange(id, since) => Has(rows, id)
<1> DEFINE ids == Lines(d)
           rows == Kept(ids, since)
<1>1. /\ ids \in Seq(Ids) /\ \A p, q \in DOMAIN ids : ids[p] = ids[q] => p = q
      /\ \A p \in DOMAIN ids : /\ ids[p] \in Ids /\ Written(ids[p])
                               /\ Day(arrived[ids[p]]) = d
      /\ \A id \in Ids : Holds(d, id) => \E p \in DOMAIN ids : ids[p] = id
  BY DEF StatisticsTypes, OnDisk, Lines, Holds
<1> HIDE DEF ids
<1>2. KeptFrom(ids, since, Len(ids), rows)
  BY <1>1, KeptCorrect DEF Written
<1>3. DOMAIN ids = 1..Len(ids)
  BY <1>1
<1>4. ASSUME NEW p \in DOMAIN ids
      PROVE  Record(ids[p]).id = ids[p] /\ Record(ids[p]).ts = arrived[ids[p]]
  <2>1. ids[p] \in Ids /\ arrived[ids[p]] \in Nat
    BY <1>1 DEF Written
  <2>2. Record(ids[p]) = RecordAt(ids[p], arrived[ids[p]])
    BY DEF Record, RecordAt
  <2> QED
    BY <2>1, <2>2, RecordFields
<1> HIDE DEF rows
<1>5. ASSUME NEW i \in DOMAIN rows
      PROVE  /\ rows[i].id \in Ids /\ Written(rows[i].id)
             /\ rows[i].ts = arrived[rows[i].id] /\ InRange(rows[i].id, since)
             /\ Day(rows[i].ts) = d
  <2>1. PICK p \in DOMAIN ids : rows[i] = Record(ids[p]) /\ InRange(ids[p], since)
    BY <1>2, <1>3 DEF KeptFrom
  <2>2. rows[i].id = ids[p] /\ rows[i].ts = arrived[ids[p]]
    BY <1>4, <2>1
  <2> QED
    BY <1>1, <2>1, <2>2
<1>6. ASSUME NEW id \in Ids, Holds(d, id), InRange(id, since) PROVE Has(rows, id)
  <2>1. PICK p \in DOMAIN ids : ids[p] = id
    BY <1>1, <1>6
  <2>2. PICK i \in DOMAIN rows : rows[i] = Record(ids[p])
    BY <1>2, <1>3, <1>6, <2>1 DEF KeptFrom
  <2>3. rows[i].id = id
    BY <1>4, <2>1, <2>2
  <2> QED
    BY <2>3 DEF Has
<1>7. rows \in Seq(Rows) /\ Unique(rows)
  BY <1>2 DEF KeptFrom
<1> QED
  BY <1>5, <1>6, <1>7 DEF rows, ids

LEMMA OldestIsLeft == ASSUME NEW left \in SUBSET Nat, left # {} PROVE Oldest(left) \in left
<1>1. \E d \in left : \A e \in left : d <= e
  BY LeastNumber
<1> QED
  BY <1>1 DEF Oldest

LEMMA ReadFileKeeps == ASSUME StatisticsInv, report = None, ReadFile PROVE StatisticsInv'
<1> DEFINE d == Oldest(reading.left)
           since == Since(reading.range, reading.now)
           old == reading.records
           rows == Kept(Lines(d), since)
<1>1. StatisticsTypes' /\ OnDisk' /\ Swept'
  BY FilesStay DEF StatisticsInv, ReadFile
<1>2. Listed' /\ Told'
  BY DEF StatisticsInv, Listed, Told, Written, ReadFile
<1>3. /\ reading # None /\ reading.left # {}
      /\ reading' = Reading("listed", reading.range, reading.now, reading.left \ {d}, old \o rows)
      /\ UNCHANGED <<clock, arrived, line, files, sweep, report, listed>>
  BY DEF ReadFile
<1> DEFINE new == old \o rows
<1> HIDE DEF d, new
<1>4. /\ reading'.stage = "listed" /\ reading'.range = reading.range
      /\ reading'.now = reading.now /\ reading'.left = reading.left \ {d}
      /\ reading'.records = new
  <2>1. reading' = Reading("listed", reading.range, reading.now, reading.left \ {d}, new)
    BY <1>3 DEF new
  <2> QED
    BY <2>1 DEF Reading
<1>5. Since(reading'.range, reading'.now) = since
  BY <1>4
<1> HIDE DEF since, old
<1>6. /\ reading.stage = "listed" /\ reading.left \subseteq Nat
      /\ reading.range \in DOMAIN Ranges /\ reading.now \in Nat
      /\ Sound(old, since)
      /\ \A i \in DOMAIN old : Day(old[i].ts) \notin reading.left
      /\ \A id \in listed :
           Fresh(id) /\ InRange(id, since) =>
             \/ Has(old, id)
             \/ Day(arrived[id]) \in reading.left /\ Holds(Day(arrived[id]), id)
  BY <1>3 DEF StatisticsInv, ReadSoFar, since, old
<1>7. d \in reading.left
  BY <1>3, <1>6, OldestIsLeft DEF d
<1>8. /\ rows \in Seq(Rows) /\ Unique(rows)
      /\ \A i \in DOMAIN rows :
           /\ rows[i].id \in Ids /\ Written(rows[i].id)
           /\ rows[i].ts = arrived[rows[i].id] /\ InRange(rows[i].id, since)
           /\ Day(rows[i].ts) = d
      /\ \A id \in Ids : Holds(d, id) /\ InRange(id, since) => Has(rows, id)
  BY LinesKept DEF StatisticsInv
<1> HIDE DEF rows
<1>9. /\ old \in Seq(Rows) /\ Unique(old)
      /\ \A i \in DOMAIN old :
           /\ old[i].id \in Ids /\ Written(old[i].id)
           /\ old[i].ts = arrived[old[i].id] /\ InRange(old[i].id, since)
  BY <1>6 DEF Sound
<1>10. /\ new \in Seq(Rows) /\ Len(old) \in Nat /\ Len(rows) \in Nat
       /\ DOMAIN new = 1..(Len(old) + Len(rows))
       /\ DOMAIN old = 1..Len(old) /\ DOMAIN rows = 1..Len(rows)
       /\ \A i \in DOMAIN old : i \in DOMAIN new /\ new[i] = old[i]
       /\ \A i \in DOMAIN rows : i + Len(old) \in DOMAIN new /\ new[i + Len(old)] = rows[i]
  BY <1>8, <1>9 DEF new
<1>11. \A k \in DOMAIN new :
         \/ k \in DOMAIN old
         \/ k - Len(old) \in DOMAIN rows /\ k = (k - Len(old)) + Len(old)
  BY <1>10
<1>12. ASSUME NEW k \in DOMAIN new
       PROVE  /\ new[k].id \in Ids /\ Written(new[k].id)
              /\ new[k].ts = arrived[new[k].id] /\ InRange(new[k].id, since)
              /\ Day(new[k].ts) \notin reading.left \ {d}
  <2>1. CASE k \in DOMAIN old
    BY <1>6, <1>9, <1>10, <2>1
  <2>2. CASE k \notin DOMAIN old
    <3>1. PICK i \in DOMAIN rows : k = i + Len(old)
      BY <1>11, <2>2
    <3>2. new[k] = rows[i]
      BY <1>10, <3>1
    <3> QED
      BY <1>8, <3>2
  <2> QED
    BY <2>1, <2>2
<1>13. ASSUME NEW j \in DOMAIN old, NEW i \in DOMAIN rows PROVE old[j].id # rows[i].id
  <2>1. Day(old[j].ts) # d /\ Day(rows[i].ts) = d
    BY <1>6, <1>7, <1>8
  <2> QED
    BY <1>8, <1>9, <2>1
<1>14. Unique(new)
  <2> SUFFICES ASSUME NEW i \in DOMAIN new, NEW j \in DOMAIN new, new[i].id = new[j].id
               PROVE  i = j
    BY DEF Unique
  <2>1. CASE i \in DOMAIN old /\ j \in DOMAIN old
    BY <1>9, <1>10, <2>1 DEF Unique
  <2>2. CASE i \notin DOMAIN old /\ j \notin DOMAIN old
    <3>1. PICK m \in DOMAIN rows : i = m + Len(old)
      BY <1>11, <2>2
    <3>2. PICK n \in DOMAIN rows : j = n + Len(old)
      BY <1>11, <2>2
    <3>3. rows[m].id = rows[n].id
      BY <1>10, <3>1, <3>2
    <3> QED
      BY <1>8, <3>1, <3>2, <3>3 DEF Unique
  <2>3. CASE i \in DOMAIN old /\ j \notin DOMAIN old
    <3>1. PICK n \in DOMAIN rows : j = n + Len(old)
      BY <1>11, <2>3
    <3> QED
      BY <1>10, <1>13, <2>3, <3>1
  <2>4. CASE i \notin DOMAIN old /\ j \in DOMAIN old
    <3>1. PICK m \in DOMAIN rows : i = m + Len(old)
      BY <1>11, <2>4
    <3> QED
      BY <1>10, <1>13, <2>4, <3>1
  <2> QED
    BY <2>1, <2>2, <2>3, <2>4
<1>15. ASSUME NEW id \in listed, Fresh(id), InRange(id, since)
       PROVE  \/ Has(new, id)
              \/ Day(arrived[id]) \in reading.left \ {d} /\ Holds(Day(arrived[id]), id)
  <2>1. id \in Ids
    BY DEF StatisticsInv, Listed
  <2>2. CASE Has(old, id)
    BY <1>10, <2>2 DEF Has
  <2>3. CASE Day(arrived[id]) \in reading.left /\ Holds(Day(arrived[id]), id)
    <3>1. CASE Day(arrived[id]) = d
      <4>1. PICK i \in DOMAIN rows : rows[i].id = id
        BY <1>8, <1>15, <2>1, <2>3, <3>1 DEF Has
      <4>2. i + Len(old) \in DOMAIN new /\ new[i + Len(old)].id = id
        BY <1>10, <4>1
      <4> QED
        BY <4>2 DEF Has
    <3>2. CASE Day(arrived[id]) # d
      BY <2>3, <3>2
    <3> QED
      BY <3>1, <3>2
  <2> QED
    BY <1>6, <1>15, <2>2, <2>3
<1>16. ReadSoFar'
  <2>1. UNCHANGED <<clock, arrived, line, files, listed>>
    BY <1>3
  <2>2. \A k \in DOMAIN new :
          /\ new[k].id \in Ids /\ line'[new[k].id] = "written" /\ arrived'[new[k].id] \in Nat
          /\ new[k].ts = arrived'[new[k].id] /\ (since = None \/ arrived'[new[k].id] >= since)
          /\ Day(new[k].ts) \notin reading'.left
    BY <1>4, <1>12, <2>1 DEF Written, InRange
  <2>3. ASSUME NEW id \in listed', Fresh(id)', since = None \/ arrived'[id] >= since
        PROVE  \/ Has(new, id)
               \/ /\ Day(arrived'[id]) \in reading'.left
                  /\ Day(arrived'[id]) \in DOMAIN files'
                  /\ \E p \in DOMAIN files'[Day(arrived'[id])] :
                       files'[Day(arrived'[id])][p] = id
    <3>1. Fresh(id) /\ InRange(id, since) /\ id \in listed
      BY <2>1, <2>3 DEF Fresh, InRange
    <3> QED
      BY <1>4, <1>15, <2>1, <3>1 DEF Holds
  <2>4. reading'.left \subseteq Nat /\ reading'.range \in DOMAIN Ranges /\ reading'.now \in Nat
    BY <1>4, <1>6
  <2> QED
    BY <1>4, <1>5, <1>10, <1>14, <2>2, <2>3, <2>4
       DEF ReadSoFar, Sound, Written, InRange, Has, Holds
<1> QED
  BY <1>1, <1>2, <1>16 DEF StatisticsInv

LEMMA AnswerKeeps == ASSUME StatisticsInv, report = None, Answer PROVE StatisticsInv'
<1> DEFINE since == Since(reading.range, reading.now)
           records == reading.records
<1>1. StatisticsTypes' /\ OnDisk' /\ Swept'
  BY FilesStay DEF StatisticsInv, Answer
<1>2. Listed' /\ ReadSoFar'
  BY DEF StatisticsInv, Listed, ReadSoFar, Sound, Written, Fresh, InRange, Holds, Answer
<1>3. Told'
  <2>1. /\ report'.range = reading.range /\ report'.now = reading.now
        /\ report'.records = records
    BY DEF Answer
  <2>2. Sound(records, since)
    BY DEF StatisticsInv, ReadSoFar, Answer
  <2>3. \A id \in listed : Fresh(id) /\ InRange(id, since) => Has(records, id)
    BY DEF StatisticsInv, ReadSoFar, Answer
  <2>4. Since(report'.range, report'.now) = since
    BY <2>1
  <2>5. UNCHANGED <<clock, arrived, line, listed>>
    BY DEF Answer
  <2> HIDE DEF since, records
  <2> QED
    BY <2>1, <2>2, <2>3, <2>4, <2>5 DEF Told, Sound, Written, InRange, Fresh, Has
<1> QED
  BY <1>1, <1>2, <1>3 DEF StatisticsInv

LEMMA StatisticsInductive == Spec => []StatisticsInv
<1>1. ASSUME StatisticsInv, [Next]_vars PROVE StatisticsInv'
  <2>1. CASE UNCHANGED vars
    <3>1. StatisticsTypes' /\ OnDisk' /\ Swept'
      BY <1>1, <2>1, FilesStay DEF StatisticsInv, vars
    <3>2. ReadSoFar' /\ Listed'
      BY <1>1, <2>1 DEF vars, StatisticsInv, ReadSoFar, Listed, Sound, Written, Fresh, InRange, Holds
    <3>3. Told'
      BY <1>1, <2>1 DEF vars, StatisticsInv, Told, Sound, Written, Fresh, InRange
    <3> QED
      BY <3>1, <3>2, <3>3 DEF StatisticsInv
  <2>2. CASE Next
    <3>1. report = None
      BY <2>2 DEF Next
    <3>2. CASE Tick
      BY <1>1, <3>1, <3>2, TickKeeps
    <3>3. CASE \E id \in Ids : Arrive(id) \/ Finish(id) \/ AppendLine(id)
      BY <1>1, <3>1, <3>3, ArriveKeeps, FinishKeeps, AppendLineKeeps
    <3>4. CASE Sweep
      BY <1>1, <3>1, <3>4, SweepKeeps
    <3>5. CASE \E d \in sweep : Delete(d)
      BY <1>1, <3>1, <3>5, DeleteKeeps
    <3>6. CASE \E range \in DOMAIN Ranges : Ask(range)
      BY <1>1, <3>1, <3>6, AskKeeps
    <3>7. CASE List
      BY <1>1, <3>1, <3>7, ListKeeps
    <3>8. CASE ReadFile
      BY <1>1, <3>1, <3>8, ReadFileKeeps
    <3>9. CASE Answer
      BY <1>1, <3>1, <3>9, AnswerKeeps
    <3> QED
      BY <2>2, <3>2, <3>3, <3>4, <3>5, <3>6, <3>7, <3>8, <3>9 DEF Next, Ids
  <2> QED
    BY <1>1, <2>1, <2>2
<1> QED
  BY <1>1, InitKeeps, PTL DEF Spec

\* A report has each record that was on disk when the directory was listed, once, if it
\* covers it and the retention has not reached it; and none from before its range.
THEOREM ReportCorrect == Spec => []ReportMissesNothingKept
<1>1. ASSUME StatisticsInv PROVE ReportMissesNothingKept
  <2> SUFFICES ASSUME report # None PROVE ReportMissesNothingKept
    BY DEF ReportMissesNothingKept
  <2> DEFINE since == Since(report.range, report.now)
             records == report.records
  <2>1. /\ Sound(records, since)
        /\ \A id \in listed : Fresh(id) /\ InRange(id, since) => Has(records, id)
    BY <1>1 DEF StatisticsInv, Told
  <2>2. ASSUME NEW id \in listed, since = None \/ arrived[id] >= since,
               Retention = None \/ arrived[id] >= clock - Retention
        PROVE  Cardinality({i \in DOMAIN records : records[i].id = id}) = 1
    <3> HIDE DEF since, records
    <3>1. Has(records, id)
      BY <2>1, <2>2 DEF Fresh, InRange
    <3>2. PICK i \in DOMAIN records : records[i].id = id
      BY <3>1 DEF Has
    <3>3. {j \in DOMAIN records : records[j].id = id} = {i}
      BY <2>1, <3>2 DEF Sound, Unique
    <3> QED
      BY <3>3, FS_Singleton
  <2>3. ASSUME NEW r \in ToSet(records) PROVE since = None \/ r.ts >= since
    BY <2>1, <2>3 DEF Sound, InRange, ToSet
  <2> QED
    BY <2>2, <2>3 DEF ReportMissesNothingKept
<1> QED
  BY <1>1, StatisticsInductive, PTL

-----------------------------------------------------------------------------
\* The figures of a report.

\* The units that add up to a sum of counts.
Units(counts) == UNION {{i} \X (1..counts[i]) : i \in DOMAIN counts}

LEMMA UnitsCounted ==
  ASSUME NEW counts, IsFiniteSet(DOMAIN counts), \A i \in DOMAIN counts : counts[i] \in Nat
  PROVE  IsFiniteSet(Units(counts)) /\ Sum(counts) = Cardinality(Units(counts)) /\ Sum(counts) \in Nat
<1> DEFINE S == DOMAIN counts
           T == {{i} \X (1..counts[i]) : i \in S}
           f == [i \in S |-> {i} \X (1..counts[i])]
<1>1. f \in Surjection(S, T)
  BY Fun_IsSurj
<1>2. IsFiniteSet(T)
  <2> HIDE DEF f, T, S
  <2> QED
    BY <1>1, FS_Surjection DEF S
<1>3. ASSUME NEW U \in T PROVE IsFiniteSet(U)
  <2>1. PICK i \in S : U = {i} \X (1..counts[i])
    OBVIOUS
  <2>3. 1 \in Int /\ counts[i] \in Int
    OBVIOUS
  <2>2. IsFiniteSet({i}) /\ IsFiniteSet(1..counts[i])
    BY <2>3, FS_Singleton, FS_Interval
  <2> QED
    BY <2>1, <2>2, FS_Product
<1>4. IsFiniteSet(UNION T)
  <2> HIDE DEF T
  <2> QED
    BY <1>2, <1>3, FS_UNION
<1> QED
  BY <1>4, FS_CardinalityType DEF Units, Sum

LEMMA UnitsHave ==
  ASSUME NEW counts, NEW x
  PROVE  x \in Units(counts) <=>
           \E i \in DOMAIN counts : \E n \in 1..counts[i] : x = <<i, n>>
BY DEF Units

\* Parts that have nothing in common add up to the whole.
LEMMA SumOfParts ==
  ASSUME NEW K, IsFiniteSet(K), NEW part, DOMAIN part = K,
         \A k \in K : IsFiniteSet(part[k]),
         \A k, l \in K : k # l => part[k] \cap part[l] = {},
         NEW counts, counts = [k \in K |-> Cardinality(part[k])],
         NEW whole, whole = UNION {part[k] : k \in K}
  PROVE  IsFiniteSet(whole) /\ Sum(counts) = Cardinality(whole)
<1> DEFINE numbered(k) == Bijection(1..counts[k], part[k])
           one == [k \in K |-> CHOOSE f : f \in numbered(k)]
           all == [x \in Units(counts) |-> one[x[1]][x[2]]]
<1>1. ASSUME NEW k \in K PROVE counts[k] \in Nat /\ one[k] \in numbered(k)
  <2>1. counts[k] \in Nat /\ numbered(k) # {}
    BY FS_CardinalityType DEF ExistsBijection
  <2>2. (CHOOSE f : f \in numbered(k)) \in numbered(k)
    <3> HIDE DEF numbered
    <3> QED
      BY <2>1
  <2> QED
    BY <2>1, <2>2
<1>2. IsFiniteSet(Units(counts)) /\ Sum(counts) = Cardinality(Units(counts))
  <2>1. DOMAIN counts = K
    OBVIOUS
  <2> QED
    BY <1>1, <2>1, UnitsCounted
<1>3. ASSUME NEW k \in K PROVE /\ \A n \in 1..counts[k] : one[k][n] \in part[k]
                               /\ \A n, m \in 1..counts[k] : one[k][n] = one[k][m] => n = m
                               /\ \A x \in part[k] : \E n \in 1..counts[k] : one[k][n] = x
  <2>1. one[k] \in Bijection(1..counts[k], part[k])
    BY <1>1
  <2> DEFINE S == 1..counts[k]
             g == one[k]
  <2>2. g \in Bijection(S, part[k])
    BY <2>1
  <2> HIDE DEF one, S, g
  <2>3. /\ \A n \in S : g[n] \in part[k]
        /\ \A n, m \in S : g[n] = g[m] => n = m
        /\ \A x \in part[k] : \E n \in S : g[n] = x
    BY <2>2, Fun_BijectionProperties
  <2> QED
    BY <2>3 DEF S, g
<1>0. DOMAIN counts = K
  <2> HIDE DEF one
  <2> QED
    OBVIOUS
<1> HIDE DEF one
<1>4. ASSUME NEW x \in Units(counts)
      PROVE  x[1] \in K /\ x[2] \in 1..counts[x[1]] /\ x = <<x[1], x[2]>>
  BY <1>0, UnitsHave
<1>5. all \in Bijection(Units(counts), whole)
  <2>1. ASSUME NEW x \in Units(counts) PROVE all[x] \in part[x[1]] /\ all[x] \in whole
    BY <1>3, <1>4
  <2>2. all \in [Units(counts) -> whole]
    <3>1. all = [x \in Units(counts) |-> all[x]]
      OBVIOUS
    <3> HIDE DEF all
    <3> QED
      BY <2>1, <3>1
  <2>3. ASSUME NEW x \in Units(counts), NEW y \in Units(counts), all[x] = all[y] PROVE x = y
    <3>1. x[1] = y[1]
      BY <1>4, <2>1, <2>3
    <3>2. one[x[1]][x[2]] = one[x[1]][y[2]]
      BY <2>3, <3>1
    <3>3. x[2] = y[2]
      BY <1>3, <1>4, <3>1, <3>2
    <3> QED
      BY <1>4, <3>1, <3>3
  <2>4. ASSUME NEW z \in whole PROVE \E x \in Units(counts) : all[x] = z
    <3>1. PICK k \in K : z \in part[k]
      OBVIOUS
    <3>2. PICK n \in 1..counts[k] : one[k][n] = z
      BY <1>3, <3>1
    <3>3. <<k, n>> \in Units(counts)
      BY <1>0, UnitsHave
    <3>4. all[<<k, n>>] = one[k][n]
      BY <3>3
    <3> QED
      BY <3>2, <3>3, <3>4
  <2> HIDE DEF all
  <2> QED
    BY <2>2, <2>3, <2>4, Fun_IsBij
<1>6. IsFiniteSet(whole) /\ Cardinality(whole) = Cardinality(Units(counts))
  <2>1. ExistsBijection(Units(counts), whole)
    BY <1>5 DEF ExistsBijection
  <2> HIDE DEF all
  <2> QED
    BY <1>2, <2>1, FS_Bijection
<1> QED
  BY <1>2, <1>6

\* Counts none of which is larger than the other's come to no more.
LEMMA SumWithin ==
  ASSUME NEW counts, NEW less, IsFiniteSet(DOMAIN counts), IsFiniteSet(DOMAIN less),
         \A i \in DOMAIN counts : counts[i] \in Nat,
         \A i \in DOMAIN less :
           /\ less[i] \in Nat
           /\ less[i] = 0 \/ (i \in DOMAIN counts /\ less[i] <= counts[i])
  PROVE  Total(less) <= Total(counts)
<1>1. /\ IsFiniteSet(Units(counts)) /\ Sum(counts) = Cardinality(Units(counts))
      /\ Sum(counts) \in Nat
  BY UnitsCounted
<1>2. IsFiniteSet(Units(less)) /\ Sum(less) = Cardinality(Units(less)) /\ Sum(less) \in Nat
  BY UnitsCounted
<1>3. ASSUME NEW x \in Units(less) PROVE x \in Units(counts)
  <2>1. PICK i \in DOMAIN less : \E n \in 1..less[i] : x = <<i, n>>
    BY UnitsHave
  <2>2. PICK n \in 1..less[i] : x = <<i, n>>
    BY <2>1
  <2>3. i \in DOMAIN counts /\ n \in 1..counts[i]
    BY <2>2
  <2> QED
    BY <2>2, <2>3, UnitsHave
<1>4. Sum(less) <= Sum(counts)
  BY <1>1, <1>2, <1>3, FS_Subset
<1> QED
  BY <1>1, <1>2, <1>4, StatisticsAssumption DEF Total

\* A total is not nothing if one of its counts is not.
LEMMA TotalIsSome ==
  ASSUME NEW counts, IsFiniteSet(DOMAIN counts), \A i \in DOMAIN counts : counts[i] \in Nat
  PROVE  Total(counts) > 0 <=> MAX > 0 /\ \E i \in DOMAIN counts : counts[i] > 0
<1>1. IsFiniteSet(Units(counts)) /\ Sum(counts) = Cardinality(Units(counts)) /\ Sum(counts) \in Nat
  BY UnitsCounted
<1>2. Sum(counts) = 0 <=> Units(counts) = {}
  BY <1>1, FS_EmptySet
<1>3. Units(counts) # {} <=> \E i \in DOMAIN counts : counts[i] > 0
  <2>1. ASSUME NEW x \in Units(counts) PROVE \E i \in DOMAIN counts : counts[i] > 0
    BY UnitsHave
  <2>2. ASSUME NEW i \in DOMAIN counts, counts[i] > 0 PROVE Units(counts) # {}
    <3>1. 1 \in 1..counts[i]
      BY <2>2
    <3> QED
      BY <3>1, UnitsHave
  <2> QED
    BY <2>1, <2>2
<1> QED
  BY <1>1, <1>2, <1>3, StatisticsAssumption DEF Total

\* What is counted is in one group each, so that the groups add up to it.
LEMMA SumOfGroups ==
  ASSUME NEW S, IsFiniteSet(S), NEW K, IsFiniteSet(K), NEW key, \A i \in S : key[i] \in K,
         NEW part, DOMAIN part = K, \A k \in K : part[k] = {i \in S : key[i] = k},
         NEW counts, counts = [k \in K |-> Cardinality(part[k])]
  PROVE  Sum(counts) = Cardinality(S)
<1>1. \A k \in K : IsFiniteSet(part[k])
  BY FS_Subset
<1>2. \A k, l \in K : k # l => part[k] \cap part[l] = {}
  OBVIOUS
<1>3. UNION {part[k] : k \in K} = S
  OBVIOUS
<1> QED
  BY <1>1, <1>2, <1>3, SumOfParts

\* The values of a function of places are as finite as the places are.
LEMMA ImageFinite ==
  ASSUME NEW f, IsFiniteSet(DOMAIN f)
  PROVE  IsFiniteSet({f[i] : i \in DOMAIN f})
<1> DEFINE S == DOMAIN f
           T == {f[i] : i \in S}
           g == [i \in S |-> f[i]]
<1>1. g \in Surjection(S, T)
  BY Fun_IsSurj
<1> HIDE DEF S, T, g
<1>2. IsFiniteSet(T)
  BY <1>1, FS_Surjection DEF S
<1> QED
  BY <1>2 DEF T, S

-----------------------------------------------------------------------------
\* Buckets.

LEMMA Quotient ==
  ASSUME NEW w \in Nat \ {0}, NEW a \in Int
  PROVE  (a * w) \div w = a
OBVIOUS

LEMMA Multiples ==
  ASSUME NEW w \in Nat \ {0}, NEW a \in Int, NEW b \in Int
  PROVE  (a * w <= b * w <=> a <= b) /\ (a * w = b * w <=> a = b)
OBVIOUS

LEMMA DivMonotone ==
  ASSUME NEW w \in Nat \ {0}, NEW a \in Int, NEW b \in Int, a <= b
  PROVE  a \div w \in Int /\ b \div w \in Int /\ a \div w <= b \div w
OBVIOUS

LEMMA RowTimes ==
  ASSUME NEW r \in Rows
  PROVE  /\ r.ts \in Nat /\ r.ttfb \in Nat \cup {None} /\ r.duration \in Nat \cup {None}
         /\ r.usage \in TokenUsage \cup {None}
<1>1. PICK id \in Ids, t \in Nat : r = RecordAt(id, t)
  BY DEF Rows
<1>2. r.ts = t /\ r.ttfb = Requests[id].ttfb /\ r.duration = Requests[id].duration
      /\ r.usage = Requests[id].usage
  BY <1>1, StatisticsAssumption DEF RecordAt, Ids
<1> QED
  BY <1>1, <1>2, StatisticsAssumption DEF Ids

LEMMA PlacesFinite ==
  ASSUME NEW records \in Seq(Rows)
  PROVE  /\ DOMAIN records = 1..Len(records) /\ Len(records) \in Nat
         /\ IsFiniteSet(DOMAIN records)
         /\ \A i \in DOMAIN records : records[i] \in Rows
<1>1. DOMAIN records = 1..Len(records) /\ Len(records) \in Nat
  OBVIOUS
<1>2. IsFiniteSet(1..Len(records))
  BY <1>1, FS_Interval
<1> QED
  BY <1>1, <1>2

LEMMA FloorType ==
  ASSUME NEW range \in DOMAIN Ranges, NEW at \in Int
  PROVE  /\ Ranges[range].bucket \in Nat \ {0}
         /\ at \div Ranges[range].bucket \in Int /\ Floor(at, range) \in Int
         /\ Floor(at, range) = (at \div Ranges[range].bucket) * Ranges[range].bucket
<1>1. Ranges[range].bucket \in Nat \ {0}
  BY StatisticsAssumption
<1> DEFINE w == Ranges[range].bucket
<1> HIDE DEF w
<1>2. w \in Nat \ {0}
  BY <1>1 DEF w
<1>3. at \div w \in Int /\ (at \div w) * w \in Int
  BY <1>2
<1> QED
  BY <1>1, <1>3 DEF Floor, w

LEMMA FloorMonotone ==
  ASSUME NEW range \in DOMAIN Ranges, NEW a \in Int, NEW b \in Int, a <= b
  PROVE  Floor(a, range) <= Floor(b, range)
<1> DEFINE w == Ranges[range].bucket
<1>1. w \in Nat \ {0}
  BY FloorType
<1>2. Floor(a, range) = (a \div w) * w /\ Floor(b, range) = (b \div w) * w
  BY FloorType
<1> HIDE DEF w
<1>3. a \div w \in Int /\ b \div w \in Int /\ a \div w <= b \div w
  BY <1>1, DivMonotone
<1> QED
  BY <1>1, <1>2, <1>3, Multiples

LEMMA LeastOf ==
  ASSUME NEW T \in SUBSET Nat, T # {}
  PROVE  Min(T) \in T /\ \A y \in T : Min(T) <= y
<1>1. \E x \in T : \A y \in T : x <= y
  BY LeastNumber
<1> QED
  BY <1>1 DEF Min

\* The points of a series are apart, none is later than now's, and each time of the
\* range up to there is in one.
LEMMA BucketsPart ==
  ASSUME NEW records \in Seq(Rows), NEW range \in DOMAIN Ranges, NEW now \in Nat,
         NEW starts, starts = Buckets(records, range, now),
         \A i \in DOMAIN records :
           Since(range, now) = None \/ records[i].ts >= Since(range, now)
  PROVE  /\ IsFiniteSet(DOMAIN starts)
         /\ \A k, l \in DOMAIN starts : starts[k] = starts[l] => k = l
         /\ \A k \in DOMAIN starts : starts[k] \in Int /\ starts[k] <= Floor(now, range)
         /\ \A i \in DOMAIN records : Floor(records[i].ts, range) <= Floor(now, range)
              => \E k \in DOMAIN starts : starts[k] = Floor(records[i].ts, range)
<1> DEFINE w == Ranges[range].bucket
           floors == {Floor(r.ts, range) : r \in ToSet(records)}
           start == IF Since(range, now) # None THEN Floor(Since(range, now), range)
                    ELSE IF floors = {} THEN None ELSE Min(floors)
           b == now \div w
           from == start
<1>1. w \in Nat \ {0} /\ b \in Int /\ Floor(now, range) = b * w
  BY FloorType
<1>2. ASSUME NEW i \in DOMAIN records
      PROVE  /\ records[i].ts \in Nat /\ Floor(records[i].ts, range) \in floors
             /\ Floor(records[i].ts, range) \in Nat
  <2>1. records[i] \in Rows /\ records[i].ts \in Nat
    BY PlacesFinite, RowTimes
  <2>2. Floor(records[i].ts, range) = (records[i].ts \div w) * w
    BY <2>1, FloorType
  <2>3. (records[i].ts \div w) * w \in Nat
    <3> DEFINE t == records[i].ts
    <3>1. t \in Nat
      BY <2>1
    <3> HIDE DEF t, w
    <3>2. t \div w \in Nat
      BY <1>1, <3>1
    <3>3. (t \div w) * w \in Nat
      BY <1>1, <3>2
    <3> QED
      BY <3>3 DEF t
  <2> QED
    BY <2>1, <2>2, <2>3 DEF ToSet
<1>3. ASSUME NEW f \in floors
      PROVE  f \in Nat /\ \E i \in DOMAIN records : f = Floor(records[i].ts, range)
  BY <1>2 DEF ToSet
<1>4. starts = IF start = None THEN <<>>
               ELSE [i \in 1..(Floor(now, range) - start) \div w + 1 |-> start + (i - 1) * w]
  BY DEF Buckets
<1>5. CASE start = None
  <2>1. floors = {}
    <3>1. Since(range, now) # None => Floor(Since(range, now), range) \in Int
      BY SinceType, FloorType
    <3>2. floors # {} => Min(floors) \in Nat
      <4> HIDE DEF floors
      <4>1. floors \in SUBSET Nat
        BY <1>3
      <4> QED
        BY <4>1, LeastOf
    <3> QED
      BY <1>5, <3>1, <3>2, StatisticsAssumption
  <2>2. DOMAIN records = {}
    BY <1>2, <2>1
  <2>3. starts = <<>> /\ DOMAIN starts = {}
    BY <1>4, <1>5
  <2> QED
    BY <2>2, <2>3, FS_EmptySet
<1>6. CASE start # None
  <2>1. PICK at \in Int : start = Floor(at, range) /\ \A i \in DOMAIN records :
                                                        start <= Floor(records[i].ts, range)
    <3>1. CASE Since(range, now) # None
      <4>1. Since(range, now) \in Int /\ start = Floor(Since(range, now), range)
        BY <3>1, SinceType
      <4>2. ASSUME NEW i \in DOMAIN records PROVE start <= Floor(records[i].ts, range)
        <5>1. records[i].ts \in Int /\ Since(range, now) <= records[i].ts
          BY <1>2, <3>1, <4>1
        <5> QED
          BY <4>1, <5>1, FloorMonotone
      <4> QED
        BY <4>1, <4>2
    <3>2. CASE Since(range, now) = None
      <4>1. floors # {} /\ start = Min(floors)
        BY <1>6, <3>2
      <4>2. Min(floors) \in floors /\ \A y \in floors : Min(floors) <= y
        <5> HIDE DEF floors
        <5>1. floors \in SUBSET Nat
          BY <1>3
        <5> QED
          BY <4>1, <5>1, LeastOf
      <4>3. PICK i \in DOMAIN records : Min(floors) = Floor(records[i].ts, range)
        BY <1>3, <4>2
      <4>4. records[i].ts \in Int
        BY <1>2
      <4> QED
        BY <1>2, <4>1, <4>2, <4>3, <4>4
    <3> QED
      BY <3>1, <3>2
  <2> DEFINE a == at \div w
             n == b - a + 1
  <2>2. a \in Int /\ start = a * w
    BY <2>1, FloorType
  <2>3. (Floor(now, range) - start) \div w + 1 = n
    <3> HIDE DEF w, a, b, start
    <3>1. Floor(now, range) - start = (b - a) * w
      BY <1>1, <2>2
    <3>2. b - a \in Int
      BY <1>1, <2>2
    <3>3. ((b - a) * w) \div w = b - a
      BY <1>1, <3>2, Quotient
    <3> QED
      BY <3>1, <3>3
  <2>4. starts = [i \in 1..n |-> start + (i - 1) * w]
    BY <1>4, <1>6, <2>3
  <2>5. DOMAIN starts = 1..n /\ n \in Int
    BY <1>1, <2>2, <2>4
  <2>6. ASSUME NEW k \in 1..n PROVE starts[k] = (a + k - 1) * w /\ a + k - 1 \in Int
    <3> HIDE DEF w, a, b, start, n
    <3>1. starts[k] = start + (k - 1) * w
      BY <2>4
    <3>2. a * w + (k - 1) * w = (a + k - 1) * w
      BY <1>1, <2>2, <2>5
    <3> QED
      BY <2>2, <2>5, <3>1, <3>2
  <2>7. IsFiniteSet(1..n)
    <3>1. 1 \in Int /\ n \in Int
      BY <2>5
    <3> QED
      BY <3>1, FS_Interval
  <2> HIDE DEF w, a, b, start, floors
  <2>8. ASSUME NEW k \in 1..n, NEW l \in 1..n, starts[k] = starts[l] PROVE k = l
    <3> DEFINE p == a + k - 1
               q == a + l - 1
    <3>2. p \in Int /\ q \in Int /\ starts[k] = p * w /\ starts[l] = q * w
      BY <2>6
    <3> HIDE DEF p, q
    <3>4. p * w = q * w
      BY <2>8, <3>2
    <3>5. p \in Int /\ q \in Int /\ w \in Nat \ {0}
      BY <1>1, <3>2
    <3>3. p = q
      BY <3>4, <3>5, Multiples
    <3>1. a + k - 1 = a + l - 1
      BY <3>3 DEF p, q
    <3> QED
      BY <2>2, <2>5, <3>1
  <2>9. ASSUME NEW k \in 1..n PROVE starts[k] \in Int /\ starts[k] <= Floor(now, range)
    <3>1. a + k - 1 <= b
      BY <1>1, <2>2, <2>5
    <3> QED
      BY <1>1, <2>6, <3>1, Multiples
  <2>10. ASSUME NEW i \in DOMAIN records, Floor(records[i].ts, range) <= Floor(now, range)
         PROVE  \E k \in 1..n : starts[k] = Floor(records[i].ts, range)
    <3> DEFINE c == records[i].ts \div w
    <3>1. c \in Int /\ Floor(records[i].ts, range) = c * w
      <4>1. records[i].ts \in Int
        BY <1>2
      <4> QED
        BY <4>1, FloorType DEF w
    <3> HIDE DEF c
    <3>2. a <= c
      BY <1>1, <2>1, <2>2, <3>1, Multiples
    <3>3. c <= b
      BY <1>1, <2>10, <3>1, Multiples
    <3>4. c - a + 1 \in 1..n /\ a + (c - a + 1) - 1 = c
      BY <1>1, <2>2, <3>1, <3>2, <3>3
    <3>5. starts[c - a + 1] = (a + (c - a + 1) - 1) * w
      BY <2>6, <3>4
    <3> QED
      BY <3>1, <3>4, <3>5
  <2> QED
    BY <2>5, <2>7, <2>8, <2>9, <2>10
<1> QED
  BY <1>5, <1>6

Models(records) == {ModelOf(r) : r \in ToSet(records)}
Days(records) == {Day(r.ts) : r \in ToSet(records)}
InBucket(records, those, at, range) == {i \in those : Floor(records[i].ts, range) = at}
Named(records, i) == <<records[i].requested, records[i].model>>
Defaulted(records) == {i \in DOMAIN records : Unserved(records[i])}

LEMMA RowRequests ==
  ASSUME NEW records, NEW those
  PROVE  Row(records, those).requests = Cardinality(those)
BY DEF Row

LEMMA ReportFields ==
  ASSUME NEW records, NEW range, NEW now, NEW f, f = Report(records, range, now),
         NEW starts, starts = Buckets(records, range, now)
  PROVE  /\ f.total = Row(records, DOMAIN records)
         /\ f.models = [m \in Models(records) |-> Row(records, OfModel(records, m))]
         /\ f.days = [d \in Days(records) |-> Row(records, OfDay(records, d))]
         /\ f.fallbacks = Fallbacks(records)
         /\ f.series = Series(records, DOMAIN records, starts, range)
         /\ f.model_series = [m \in Models(records) |->
                                Series(records, OfModel(records, m), starts, range)]
BY DEF Report, Models, Days

LEMMA SeriesRows ==
  ASSUME NEW records, NEW those, NEW starts, NEW range
  PROVE  LET series == Series(records, those, starts, range)
         IN /\ DOMAIN series = DOMAIN starts
            /\ \A k \in DOMAIN starts :
                 series[k] = Row(records, InBucket(records, those, starts[k], range))
BY DEF Series, InBucket

LEMMA ModelsFinite ==
  ASSUME NEW records \in Seq(Rows)
  PROVE  /\ IsFiniteSet(Models(records)) /\ IsFiniteSet(Days(records))
         /\ \A i \in DOMAIN records : /\ ModelOf(records[i]) \in Models(records)
                                      /\ Day(records[i].ts) \in Days(records)
<1> DEFINE f == [i \in DOMAIN records |-> ModelOf(records[i])]
           g == [i \in DOMAIN records |-> Day(records[i].ts)]
<1>1. IsFiniteSet(DOMAIN records)
  BY PlacesFinite
<1>2. DOMAIN f = DOMAIN records /\ DOMAIN g = DOMAIN records
  OBVIOUS
<1>3. {f[i] : i \in DOMAIN f} = Models(records) /\ {g[i] : i \in DOMAIN g} = Days(records)
  BY DEF Models, Days, ToSet
<1>4. IsFiniteSet({f[i] : i \in DOMAIN f}) /\ IsFiniteSet({g[i] : i \in DOMAIN g})
  <2> HIDE DEF f, g
  <2> QED
    BY <1>1, <1>2, ImageFinite
<1> QED
  BY <1>3, <1>4 DEF Models, Days, ToSet

\* Of the places that are counted, each is its model's.
LEMMA SumOverModels ==
  ASSUME NEW records \in Seq(Rows), NEW those \in SUBSET DOMAIN records,
         NEW counts, counts = [m \in Models(records) |-> counts[m]],
         \A m \in Models(records) :
           counts[m] = Cardinality({i \in those : ModelOf(records[i]) = m})
  PROVE  Sum(counts) = Cardinality(those)
<1> DEFINE key == [i \in those |-> ModelOf(records[i])]
           part == [m \in Models(records) |-> {i \in those : ModelOf(records[i]) = m}]
           K == Models(records)
           S == those
<1>1. IsFiniteSet(S) /\ IsFiniteSet(K)
  BY PlacesFinite, ModelsFinite, FS_Subset
<1>2. /\ \A i \in those : key[i] \in K
      /\ DOMAIN part = K /\ \A m \in K : part[m] = {i \in those : key[i] = m}
  BY ModelsFinite
<1>3. counts = [m \in K |-> counts[m]]
  OBVIOUS
<1>4. \A m \in K : counts[m] = Cardinality(part[m])
  OBVIOUS
<1>6. /\ \A i \in S : key[i] \in K
      /\ DOMAIN part = K /\ \A m \in K : part[m] = {i \in S : key[i] = m}
  BY <1>2
<1> HIDE DEF key, part, K, S
<1>5. counts = [m \in K |-> Cardinality(part[m])]
  BY <1>3, <1>4
<1>7. Sum(counts) = Cardinality(S)
  BY <1>1, <1>5, <1>6, SumOfGroups
<1> QED
  BY <1>7 DEF S

LEMMA SumOverDays ==
  ASSUME NEW records \in Seq(Rows), NEW counts, counts = [d \in Days(records) |-> counts[d]],
         \A d \in Days(records) : counts[d] = Cardinality(OfDay(records, d))
  PROVE  Sum(counts) = Cardinality(DOMAIN records)
<1> DEFINE S == DOMAIN records
           key == [i \in S |-> Day(records[i].ts)]
           part == [d \in Days(records) |-> OfDay(records, d)]
           K == Days(records)
<1>1. IsFiniteSet(S) /\ IsFiniteSet(K)
  BY PlacesFinite, ModelsFinite
<1>2. /\ \A i \in S : key[i] \in K
      /\ DOMAIN part = K /\ \A d \in K : part[d] = {i \in S : key[i] = d}
  BY ModelsFinite DEF OfDay
<1>3. counts = [d \in K |-> counts[d]] /\ \A d \in K : counts[d] = Cardinality(part[d])
  OBVIOUS
<1> HIDE DEF key, part, K, S
<1>4. counts = [d \in K |-> Cardinality(part[d])]
  BY <1>3
<1>5. Sum(counts) = Cardinality(S)
  BY <1>1, <1>2, <1>4, SumOfGroups
<1> QED
  BY <1>5 DEF S

LEMMA SumOverFallbacks ==
  ASSUME NEW records \in Seq(Rows), NEW counts, counts =
           [key \in DOMAIN Fallbacks(records) |-> Fallbacks(records)[key].requests]
  PROVE  Sum(counts) = Cardinality(Defaulted(records))
<1> DEFINE S == Defaulted(records)
           name == [i \in S |-> Named(records, i)]
           K == {name[i] : i \in DOMAIN name}
           part == [key \in K |-> {i \in S : name[i] = key}]
<1>1. IsFiniteSet(S)
  BY PlacesFinite, FS_Subset DEF Defaulted
<1>2. DOMAIN name = S
  OBVIOUS
<1>3. IsFiniteSet(K)
  <2> HIDE DEF name, S
  <2> QED
    BY <1>1, <1>2, ImageFinite
<1>4. DOMAIN Fallbacks(records) = K
  BY DEF Fallbacks, Defaulted, Named
<1>5. ASSUME NEW key \in K PROVE Fallbacks(records)[key].requests = Cardinality(part[key])
  <2>1. Fallbacks(records)[key].requests
          = Cardinality({i \in S : <<records[i].requested, records[i].model>> = key})
    BY <1>4, <1>5 DEF Fallbacks, Defaulted
  <2>2. {i \in S : <<records[i].requested, records[i].model>> = key} = part[key]
    BY DEF Named
  <2> QED
    BY <2>1, <2>2
<1>6. /\ \A i \in S : name[i] \in K
      /\ DOMAIN part = K /\ \A key \in K : part[key] = {i \in S : name[i] = key}
  OBVIOUS
<1> HIDE DEF name, part, K, S
<1>7. counts = [key \in K |-> Cardinality(part[key])]
  BY <1>4, <1>5
<1>8. Sum(counts) = Cardinality(S)
  BY <1>1, <1>3, <1>6, <1>7, SumOfGroups
<1> QED
  BY <1>8 DEF S

Figured ==
  report # None =>
    /\ report.range \in DOMAIN Ranges /\ report.now \in Nat
    /\ report.figures = Report(report.records, report.range, report.now)

\* What a report's points count, and what arrived after them, is all there is.
LEMMA SumOverSeries ==
  ASSUME NEW records \in Seq(Rows), NEW range \in DOMAIN Ranges, NEW now \in Nat,
         NEW starts, starts = Buckets(records, range, now),
         \A i \in DOMAIN records :
           Since(range, now) = None \/ records[i].ts >= Since(range, now),
         NEW counts, counts = [k \in DOMAIN starts |-> counts[k]],
         \A k \in DOMAIN starts :
           counts[k] = Cardinality(InBucket(records, DOMAIN records, starts[k], range)),
         NEW after, after = {i \in DOMAIN records :
                             Floor(records[i].ts, range) > Floor(now, range)}
  PROVE  Cardinality(DOMAIN records) = Sum(counts) + Cardinality(after)
<1> DEFINE S == DOMAIN records
           K == DOMAIN starts
           part == [k \in K |-> InBucket(records, S, starts[k], range)]
<1>1. /\ IsFiniteSet(K)
      /\ \A k, l \in K : starts[k] = starts[l] => k = l
      /\ \A k \in K : starts[k] \in Int /\ starts[k] <= Floor(now, range)
      /\ \A i \in S : Floor(records[i].ts, range) <= Floor(now, range)
           => \E k \in K : starts[k] = Floor(records[i].ts, range)
  BY BucketsPart
<1>2. IsFiniteSet(S)
  BY PlacesFinite
<1>3. ASSUME NEW i \in S
      PROVE  Floor(records[i].ts, range) \in Int
  BY PlacesFinite, RowTimes, FloorType
<1>4. Floor(now, range) \in Int
  BY FloorType
<1>5. /\ DOMAIN part = K
      /\ \A k \in K : part[k] = {i \in S : Floor(records[i].ts, range) = starts[k]}
  BY DEF InBucket
<1>6. \A k \in K : counts[k] = Cardinality(part[k])
  OBVIOUS
<1>7. counts = [k \in K |-> Cardinality(part[k])]
  <2> HIDE DEF part
  <2> QED
    BY <1>6
<1> HIDE DEF S, K, part
<1>8. UNION {part[k] : k \in K} = S \ after
  <2>1. ASSUME NEW i \in S PROVE i \in UNION {part[k] : k \in K} <=> i \notin after
    <3>1. i \in after <=> Floor(records[i].ts, range) > Floor(now, range)
      BY DEF S
    <3>2. i \in UNION {part[k] : k \in K} <=> \E k \in K : starts[k] = Floor(records[i].ts, range)
      BY <1>5
    <3> QED
      BY <1>1, <1>3, <1>4, <3>1, <3>2
  <2>2. UNION {part[k] : k \in K} \subseteq S
    BY <1>5
  <2> QED
    BY <2>1, <2>2
<1>9. /\ \A k \in K : IsFiniteSet(part[k])
      /\ \A k, l \in K : k # l => part[k] \cap part[l] = {}
  <2>1. \A k \in K : part[k] \in SUBSET S
    BY <1>5
  <2>2. ASSUME NEW k \in K PROVE IsFiniteSet(part[k])
    BY <1>2, <2>1, FS_Subset
  <2> QED
    BY <1>1, <1>5, <2>2
<1>11. after \subseteq S /\ S \cap after = after
  BY DEF S
<1>12. /\ Cardinality(S \ after) = Cardinality(S) - Cardinality(after)
       /\ Cardinality(after) \in Nat /\ Cardinality(S) \in Nat
  <2>1. Cardinality(S \ after) = Cardinality(S) - Cardinality(S \cap after)
    BY <1>2, FS_Difference
  <2>2. IsFiniteSet(after)
    BY <1>2, <1>11, FS_Subset
  <2> QED
    BY <1>2, <1>11, <2>1, <2>2, FS_CardinalityType
<1>13. Sum(counts) = Cardinality(S \ after)
  <2> DEFINE whole == S \ after
  <2>1. whole = UNION {part[k] : k \in K}
    BY <1>8
  <2>2. IsFiniteSet(K) /\ DOMAIN part = K
    BY <1>1, <1>5
  <2>3. \A k \in K : IsFiniteSet(part[k])
    BY <1>9
  <2>4. \A k, l \in K : k # l => part[k] \cap part[l] = {}
    BY <1>9
  <2> HIDE DEF whole
  <2>5. Sum(counts) = Cardinality(whole)
    BY <1>7, <2>1, <2>2, <2>3, <2>4, SumOfParts
  <2> QED
    BY <2>5 DEF whole
<1> QED
  BY <1>12, <1>13 DEF S

\* The places a count of a row is about.
Hits(records, field) ==
  {i \in DOMAIN records :
     \/ field = "requests"
     \/ field = "errors" /\ Failed(records[i])
     \/ field = "retried" /\ Retried(records[i])
     \/ field = "defaulted" /\ records[i].matched = "default"}

LEMMA RowField ==
  ASSUME NEW records, NEW those \in SUBSET DOMAIN records,
         NEW field \in {"requests", "errors", "retried", "defaulted"}
  PROVE  Row(records, those)[field] = Cardinality(those \cap Hits(records, field))
<1>1. CASE field = "requests"
  <2>1. those \cap Hits(records, field) = those
    BY <1>1 DEF Hits
  <2> QED
    BY <1>1, <2>1 DEF Row
<1>2. CASE field = "errors"
  <2>1. those \cap Hits(records, field) = {i \in those : Failed(records[i])}
    BY <1>2 DEF Hits
  <2> QED
    BY <1>2, <2>1 DEF Row
<1>3. CASE field = "retried"
  <2>1. those \cap Hits(records, field) = {i \in those : Retried(records[i])}
    BY <1>3 DEF Hits
  <2> QED
    BY <1>3, <2>1 DEF Row
<1>4. CASE field = "defaulted"
  <2>1. those \cap Hits(records, field) = {i \in those : records[i].matched = "default"}
    BY <1>4 DEF Hits
  <2> QED
    BY <1>4, <2>1 DEF Row
<1> QED
  BY <1>1, <1>2, <1>3, <1>4

LEMMA FiguresAddUp ==
  ASSUME NEW records \in Seq(Rows), NEW range \in DOMAIN Ranges, NEW now \in Nat,
         \A i \in DOMAIN records :
           Since(range, now) = None \/ records[i].ts >= Since(range, now),
         report # None, report.records = records, report.range = range, report.now = now,
         report.figures = Report(records, range, now)
  PROVE  SeriesAddUp
<1> DEFINE f == report.figures
           S == DOMAIN records
           starts == Buckets(records, range, now)
           after == {i \in S : Floor(records[i].ts, range) > Floor(now, range)}
           InAll(rows) == Sum([key \in DOMAIN rows |-> rows[key].requests])
<1>1. /\ f.total = Row(records, S)
      /\ f.models = [m \in Models(records) |-> Row(records, OfModel(records, m))]
      /\ f.days = [d \in Days(records) |-> Row(records, OfDay(records, d))]
      /\ f.fallbacks = Fallbacks(records)
      /\ f.series = Series(records, S, starts, range)
      /\ f.model_series = [m \in Models(records) |->
                             Series(records, OfModel(records, m), starts, range)]
  BY ReportFields
<1> HIDE DEF f, starts
<1>2. f.total.requests = Cardinality(S)
  <2>1. Row(records, S).requests = Cardinality(S)
    BY RowRequests
  <2> QED
    BY <1>1, <2>1
<1>3. InAll(f.models) = Cardinality(S)
  <2> DEFINE counts == [m \in DOMAIN f.models |-> f.models[m].requests]
  <2>1. counts = [m \in Models(records) |-> counts[m]]
    BY <1>1
  <2>2. ASSUME NEW m \in Models(records)
        PROVE  counts[m] = Cardinality({i \in S : ModelOf(records[i]) = m})
    BY <1>1, RowRequests DEF OfModel
  <2> HIDE DEF counts
  <2>3. Sum(counts) = Cardinality(S)
    BY <2>1, <2>2, SumOverModels
  <2> QED
    BY <2>3 DEF counts
<1>4. InAll(f.days) = Cardinality(S)
  <2> DEFINE counts == [d \in DOMAIN f.days |-> f.days[d].requests]
  <2>1. counts = [d \in Days(records) |-> counts[d]]
    BY <1>1
  <2>2. ASSUME NEW d \in Days(records) PROVE counts[d] = Cardinality(OfDay(records, d))
    BY <1>1, RowRequests
  <2> HIDE DEF counts
  <2>3. Sum(counts) = Cardinality(S)
    BY <2>1, <2>2, SumOverDays
  <2> QED
    BY <2>3 DEF counts
<1>5. Cardinality(S) = InAll(f.series) + Cardinality(after)
  <2> DEFINE counts == [k \in DOMAIN f.series |-> f.series[k].requests]
  <2>1. DOMAIN f.series = DOMAIN starts
    BY <1>1, SeriesRows
  <2>2. counts = [k \in DOMAIN starts |-> counts[k]]
    BY <2>1
  <2>3. ASSUME NEW k \in DOMAIN starts
        PROVE  counts[k] = Cardinality(InBucket(records, S, starts[k], range))
    BY <1>1, <2>1, SeriesRows, RowRequests
  <2> HIDE DEF counts, after
  <2>4. starts = Buckets(records, range, now)
    BY DEF starts
  <2>5. Cardinality(S) = Sum(counts) + Cardinality(after)
    BY <2>2, <2>3, <2>4, SumOverSeries DEF after
  <2> QED
    BY <2>5 DEF counts
<1>6. ASSUME NEW m \in DOMAIN f.models PROVE DOMAIN f.model_series[m] = DOMAIN f.series
  BY <1>1, SeriesRows
<1>7. ASSUME NEW k \in DOMAIN f.series, NEW field \in {"requests", "errors", "retried", "defaulted"}
      PROVE  f.series[k][field] = Sum([m \in DOMAIN f.models |-> f.model_series[m][k][field]])
  <2> DEFINE at == InBucket(records, S, starts[k], range)
             ofModel(m) == InBucket(records, OfModel(records, m), starts[k], range)
             those == at \cap Hits(records, field)
             counts == [m \in DOMAIN f.models |-> f.model_series[m][k][field]]
  <2>1. k \in DOMAIN starts
    BY <1>1, <1>7, SeriesRows
  <2>2. f.series[k] = Row(records, at)
    BY <1>1, <2>1, SeriesRows
  <2>3. ASSUME NEW m \in Models(records)
        PROVE  f.model_series[m][k] = Row(records, ofModel(m))
    BY <1>1, <2>1, SeriesRows
  <2>4. at \subseteq S /\ \A m : ofModel(m) \subseteq S
    BY DEF InBucket, OfModel
  <2>5. f.series[k][field] = Cardinality(those)
    <3>1. at \in SUBSET S
      BY <2>4
    <3> HIDE DEF at
    <3>2. Row(records, at)[field] = Cardinality(at \cap Hits(records, field))
      BY <1>7, <3>1, RowField
    <3> QED
      BY <2>2, <3>2
  <2>6. counts = [m \in Models(records) |-> counts[m]]
    BY <1>1
  <2>7. ASSUME NEW m \in Models(records)
        PROVE  counts[m] = Cardinality({i \in those : ModelOf(records[i]) = m})
    <3>1. counts[m] = Row(records, ofModel(m))[field]
      BY <1>1, <2>3
    <3>2. Row(records, ofModel(m))[field] = Cardinality(ofModel(m) \cap Hits(records, field))
      <4> DEFINE here == ofModel(m)
      <4>1. here \in SUBSET S
        BY <2>4
      <4> HIDE DEF here
      <4>2. Row(records, here)[field] = Cardinality(here \cap Hits(records, field))
        BY <1>7, <4>1, RowField
      <4> QED
        BY <4>2 DEF here
    <3>3. ofModel(m) \cap Hits(records, field) = {i \in those : ModelOf(records[i]) = m}
      BY DEF InBucket, OfModel
    <3> QED
      BY <3>1, <3>2, <3>3
  <2>8. those \subseteq S
    BY <2>4
  <2> HIDE DEF counts, those
  <2>9. Sum(counts) = Cardinality(those)
    BY <2>6, <2>7, <2>8, SumOverModels
  <2> QED
    BY <2>5, <2>9 DEF counts
<1>8. InAll(f.fallbacks) = Cardinality({i \in S : Unserved(records[i])})
  <2> DEFINE counts == [key \in DOMAIN f.fallbacks |-> f.fallbacks[key].requests]
  <2>1. counts = [key \in DOMAIN Fallbacks(records) |-> Fallbacks(records)[key].requests]
    BY <1>1
  <2> HIDE DEF counts
  <2>2. Sum(counts) = Cardinality(Defaulted(records))
    BY <2>1, SumOverFallbacks
  <2> QED
    BY <2>2 DEF counts, Defaulted
<1> QED
  BY <1>2, <1>3, <1>4, <1>5, <1>6, <1>7, <1>8 DEF SeriesAddUp, f

-----------------------------------------------------------------------------
\* Percentiles.

Upto(sample, j) == {k \in DOMAIN sample : sample[k] <= sample[j]}
Ranked(sample, rank) ==
  {sample[i] : i \in {j \in DOMAIN sample : Cardinality(Upto(sample, j)) >= rank}}

LEMMA GreatestSample ==
  ASSUME NEW sample, IsFiniteSet(DOMAIN sample), DOMAIN sample # {},
         \A i \in DOMAIN sample : sample[i] \in Nat
  PROVE  \E j \in DOMAIN sample : Cardinality(Upto(sample, j)) = Cardinality(DOMAIN sample)
<1> DEFINE D == DOMAIN sample
           n == Cardinality(D)
           T == {n - Cardinality(Upto(sample, j)) : j \in D}
<1>1. n \in Nat
  BY FS_CardinalityType
<1>2. ASSUME NEW j \in D
      PROVE  /\ IsFiniteSet(Upto(sample, j)) /\ Upto(sample, j) \subseteq D
             /\ Cardinality(Upto(sample, j)) \in Nat /\ Cardinality(Upto(sample, j)) <= n
  <2>1. Upto(sample, j) \in SUBSET D
    BY DEF Upto
  <2>2. IsFiniteSet(Upto(sample, j)) /\ Cardinality(Upto(sample, j)) <= n
    BY <2>1, FS_Subset
  <2> QED
    BY <2>1, <2>2, FS_CardinalityType
<1>3. T \in SUBSET Nat /\ T # {}
  BY <1>1, <1>2
<1>4. PICK x \in T : \A y \in T : x <= y
  <2> HIDE DEF T
  <2> QED
    BY <1>3, LeastNumber
<1>5. PICK j \in D : x = n - Cardinality(Upto(sample, j))
  OBVIOUS
<1>6. ASSUME NEW k \in D PROVE sample[k] <= sample[j]
  <2> SUFFICES ASSUME sample[j] < sample[k] PROVE FALSE
    OBVIOUS
  <2>1. Upto(sample, j) \subseteq Upto(sample, k) /\ k \in Upto(sample, k)
        /\ k \notin Upto(sample, j)
    BY DEF Upto
  <2>2. Cardinality(Upto(sample, k)) <= Cardinality(Upto(sample, j))
    <3>1. n - Cardinality(Upto(sample, k)) \in T
      OBVIOUS
    <3>2. x <= n - Cardinality(Upto(sample, k))
      BY <1>4, <3>1
    <3> HIDE DEF n
    <3> QED
      BY <1>1, <1>2, <1>5, <3>2
  <2>3. /\ Cardinality(Upto(sample, j)) <= Cardinality(Upto(sample, k))
        /\ Cardinality(Upto(sample, k)) = Cardinality(Upto(sample, j))
             => Upto(sample, k) = Upto(sample, j)
    BY <1>2, <2>1, FS_Subset
  <2> QED
    BY <1>2, <2>1, <2>2, <2>3
<1>7. Upto(sample, j) = D
  BY <1>6 DEF Upto
<1> QED
  BY <1>7

LEMMA PercentilesInOrder ==
  ASSUME NEW sample, IsFiniteSet(DOMAIN sample), \A i \in DOMAIN sample : sample[i] \in Nat,
         Percentiles(sample)[1] # None
  PROVE  Percentiles(sample)[1] <= Percentiles(sample)[2]
<1> DEFINE n == Cardinality(DOMAIN sample)
           rank(p) == (p * n + 99) \div 100
<1>1. /\ Percentiles(sample)[1] = Percentile(sample, 50)
      /\ Percentiles(sample)[2] = Percentile(sample, 95)
  BY DEF Percentiles
<1>2. DOMAIN sample # {}
  BY <1>1 DEF Percentile
<1>3. ASSUME NEW p PROVE Percentile(sample, p) = Min(Ranked(sample, rank(p)))
  BY <1>2 DEF Percentile, Ranked, Upto
<1>4. n \in Nat /\ n # 0
  BY <1>2, FS_CardinalityType, FS_EmptySet
<1>5. rank(50) <= rank(95) /\ rank(95) <= n /\ rank(50) \in Int /\ rank(95) \in Int
  <2> HIDE DEF n
  <2> QED
    BY <1>4
<1>6. PICK j \in DOMAIN sample : Cardinality(Upto(sample, j)) = n
  BY <1>2, GreatestSample
<1>7. \A i \in DOMAIN sample : Cardinality(Upto(sample, i)) \in Int
  <2>1. ASSUME NEW i \in DOMAIN sample PROVE Cardinality(Upto(sample, i)) \in Int
    <3>1. Upto(sample, i) \in SUBSET DOMAIN sample
      BY DEF Upto
    <3> QED
      BY <3>1, FS_Subset, FS_CardinalityType
  <2> QED
    BY <2>1
<1> HIDE DEF n, rank
<1>8. sample[j] \in Ranked(sample, rank(95))
  BY <1>4, <1>5, <1>6 DEF Ranked
<1>9. Ranked(sample, rank(95)) \subseteq Ranked(sample, rank(50))
  BY <1>5, <1>7 DEF Ranked
<1>10. Ranked(sample, rank(50)) \in SUBSET Nat
  BY DEF Ranked
<1>11. /\ Min(Ranked(sample, rank(95))) \in Ranked(sample, rank(95))
       /\ \A y \in Ranked(sample, rank(50)) : Min(Ranked(sample, rank(50))) <= y
  <2>1. Ranked(sample, rank(95)) \in SUBSET Nat /\ Ranked(sample, rank(95)) # {}
        /\ Ranked(sample, rank(50)) # {}
    BY <1>8, <1>9, <1>10
  <2> QED
    BY <1>10, <2>1, LeastOf
<1> QED
  BY <1>1, <1>3, <1>9, <1>11

-----------------------------------------------------------------------------
\* Rows.

LEMMA UsageFields ==
  ASSUME NEW u \in TokenUsage
  PROVE  /\ u.input \in Nat /\ u.output \in Nat /\ u.cache_read \in Nat
         /\ Prompt(u) \in Nat /\ u.cache_read <= Prompt(u)
         /\ ~CacheKnown(u) => u.cache_read = 0
BY StatisticsAssumption DEF TokenUsage, Prompt, SaturatingAdd, CacheKnown

LEMMA GeneratedFields ==
  ASSUME NEW r \in Rows
  PROVE  /\ Generated(r).tokens \in Nat /\ Generated(r).millis \in Nat
         /\ Generated(r).tokens > 0 <=> Generated(r).millis > 0
<1>1. /\ r.ttfb \in Nat \cup {None} /\ r.duration \in Nat \cup {None}
      /\ r.usage \in TokenUsage \cup {None}
  BY RowTimes
<1>2. r.usage # None => r.usage.output \in Nat
  BY <1>1, UsageFields
<1> QED
  BY <1>1, <1>2 DEF Generated

Used(records, those) == {i \in those : records[i].usage # None}
Known(records, those) == {i \in Used(records, those) : CacheKnown(records[i].usage)}
Timed(records, those) == {i \in those : Succeeded(records[i])}

LEMMA RowTotals ==
  ASSUME NEW records, NEW those
  PROVE  /\ Row(records, those).input
              = Total([i \in Used(records, those) |-> records[i].usage.input])
         /\ Row(records, those).output
              = Total([i \in Used(records, those) |-> records[i].usage.output])
         /\ Row(records, those).cache_read
              = Total([i \in Used(records, those) |-> records[i].usage.cache_read])
         /\ Row(records, those).cache_prompt
              = Total([i \in Known(records, those) |-> Prompt(records[i].usage)])
         /\ Row(records, those).generated = Total([i \in those |-> Generated(records[i]).tokens])
         /\ Row(records, those).generating = Total([i \in those |-> Generated(records[i]).millis])
         /\ Row(records, those).ttfb =
              Percentiles([i \in {j \in Timed(records, those) : records[j].ttfb # None}
                             |-> records[i].ttfb])
BY DEF Row, Used, Known, Timed

LEMMA PlacesOf ==
  ASSUME NEW records \in Seq(Rows), NEW those \in SUBSET DOMAIN records
  PROVE  /\ IsFiniteSet(those) /\ IsFiniteSet(Used(records, those))
         /\ IsFiniteSet(Known(records, those)) /\ IsFiniteSet(Timed(records, those))
         /\ \A i \in those : records[i] \in Rows
         /\ \A i \in Used(records, those) : i \in those /\ records[i].usage \in TokenUsage
<1>1. IsFiniteSet(DOMAIN records) /\ \A i \in those : records[i] \in Rows
  BY PlacesFinite
<1>2. /\ Used(records, those) \in SUBSET DOMAIN records
      /\ Known(records, those) \in SUBSET DOMAIN records
      /\ Timed(records, those) \in SUBSET DOMAIN records
  BY DEF Used, Known, Timed
<1>3. ASSUME NEW i \in Used(records, those)
      PROVE  i \in those /\ records[i].usage \in TokenUsage
  BY <1>1, RowTimes DEF Used
<1> QED
  BY <1>1, <1>2, <1>3, FS_Subset

\* A part of the records counts no more tokens than all of them.
LEMMA TokensWithin ==
  ASSUME NEW records \in Seq(Rows), NEW those \in SUBSET DOMAIN records
  PROVE  /\ Row(records, those).input <= Row(records, DOMAIN records).input
         /\ Row(records, those).output <= Row(records, DOMAIN records).output
         /\ Row(records, those).cache_read <= Row(records, DOMAIN records).cache_read
         /\ Row(records, those).cache_prompt <= Row(records, DOMAIN records).cache_prompt
         /\ Row(records, those).generated <= Row(records, DOMAIN records).generated
         /\ Row(records, those).cache_read <= Row(records, those).cache_prompt
<1> DEFINE S == DOMAIN records
           used == Used(records, those)
           usedAll == Used(records, S)
           known == Known(records, those)
           knownAll == Known(records, S)
<1>0. S \in SUBSET S /\ those \subseteq S
  OBVIOUS
<1>1. /\ IsFiniteSet(used) /\ IsFiniteSet(usedAll) /\ IsFiniteSet(known)
      /\ IsFiniteSet(knownAll) /\ IsFiniteSet(those) /\ IsFiniteSet(S)
  BY <1>0, PlacesOf
<1>2. /\ used \subseteq usedAll /\ known \subseteq knownAll /\ known \subseteq used
      /\ \A i \in used : i \in known \/ ~CacheKnown(records[i].usage)
      /\ knownAll \subseteq usedAll
  BY DEF Used, Known
<1>3. ASSUME NEW i \in usedAll
      PROVE  /\ records[i].usage.input \in Nat /\ records[i].usage.output \in Nat
             /\ records[i].usage.cache_read \in Nat /\ Prompt(records[i].usage) \in Nat
             /\ records[i].usage.cache_read <= Prompt(records[i].usage)
             /\ ~CacheKnown(records[i].usage) => records[i].usage.cache_read = 0
  BY <1>0, PlacesOf, UsageFields
<1>4. ASSUME NEW i \in S PROVE Generated(records[i]).tokens \in Nat
  BY <1>0, PlacesOf, GeneratedFields
<1> HIDE DEF S, used, usedAll, known, knownAll
<1>5. Total([i \in used |-> records[i].usage.input])
        <= Total([i \in usedAll |-> records[i].usage.input])
  <2> DEFINE counts == [i \in usedAll |-> records[i].usage.input]
             less == [i \in used |-> records[i].usage.input]
  <2>1. /\ DOMAIN counts = usedAll /\ DOMAIN less = used
        /\ \A i \in DOMAIN counts : counts[i] \in Nat
        /\ \A i \in DOMAIN less : less[i] \in Nat /\ i \in DOMAIN counts /\ less[i] <= counts[i]
    BY <1>2, <1>3
  <2> HIDE DEF counts, less
  <2>2. Total(less) <= Total(counts)
    BY <1>1, <2>1, SumWithin
  <2> QED
    BY <2>2 DEF counts, less
<1>6. Total([i \in used |-> records[i].usage.output])
        <= Total([i \in usedAll |-> records[i].usage.output])
  <2> DEFINE counts == [i \in usedAll |-> records[i].usage.output]
             less == [i \in used |-> records[i].usage.output]
  <2>1. /\ DOMAIN counts = usedAll /\ DOMAIN less = used
        /\ \A i \in DOMAIN counts : counts[i] \in Nat
        /\ \A i \in DOMAIN less : less[i] \in Nat /\ i \in DOMAIN counts /\ less[i] <= counts[i]
    BY <1>2, <1>3
  <2> HIDE DEF counts, less
  <2>2. Total(less) <= Total(counts)
    BY <1>1, <2>1, SumWithin
  <2> QED
    BY <2>2 DEF counts, less
<1>7. Total([i \in used |-> records[i].usage.cache_read])
        <= Total([i \in usedAll |-> records[i].usage.cache_read])
  <2> DEFINE counts == [i \in usedAll |-> records[i].usage.cache_read]
             less == [i \in used |-> records[i].usage.cache_read]
  <2>1. /\ DOMAIN counts = usedAll /\ DOMAIN less = used
        /\ \A i \in DOMAIN counts : counts[i] \in Nat
        /\ \A i \in DOMAIN less : less[i] \in Nat /\ i \in DOMAIN counts /\ less[i] <= counts[i]
    BY <1>2, <1>3
  <2> HIDE DEF counts, less
  <2>2. Total(less) <= Total(counts)
    BY <1>1, <2>1, SumWithin
  <2> QED
    BY <2>2 DEF counts, less
<1>8. Total([i \in known |-> Prompt(records[i].usage)])
        <= Total([i \in knownAll |-> Prompt(records[i].usage)])
  <2> DEFINE counts == [i \in knownAll |-> Prompt(records[i].usage)]
             less == [i \in known |-> Prompt(records[i].usage)]
  <2>1. /\ DOMAIN counts = knownAll /\ DOMAIN less = known
        /\ \A i \in DOMAIN counts : counts[i] \in Nat
        /\ \A i \in DOMAIN less : less[i] \in Nat /\ i \in DOMAIN counts /\ less[i] <= counts[i]
    BY <1>2, <1>3
  <2> HIDE DEF counts, less
  <2>2. Total(less) <= Total(counts)
    BY <1>1, <2>1, SumWithin
  <2> QED
    BY <2>2 DEF counts, less
<1>9. Total([i \in those |-> Generated(records[i]).tokens])
        <= Total([i \in S |-> Generated(records[i]).tokens])
  <2> DEFINE counts == [i \in S |-> Generated(records[i]).tokens]
             less == [i \in those |-> Generated(records[i]).tokens]
  <2>1. /\ DOMAIN counts = S /\ DOMAIN less = those
        /\ \A i \in DOMAIN counts : counts[i] \in Nat
        /\ \A i \in DOMAIN less : less[i] \in Nat /\ i \in DOMAIN counts /\ less[i] <= counts[i]
    BY <1>0, <1>4
  <2> HIDE DEF counts, less
  <2>2. Total(less) <= Total(counts)
    BY <1>1, <2>1, SumWithin
  <2> QED
    BY <2>2 DEF counts, less
<1>10. Total([i \in used |-> records[i].usage.cache_read])
         <= Total([i \in known |-> Prompt(records[i].usage)])
  <2> DEFINE counts == [i \in known |-> Prompt(records[i].usage)]
             less == [i \in used |-> records[i].usage.cache_read]
  <2>1. /\ DOMAIN counts = known /\ DOMAIN less = used
        /\ \A i \in DOMAIN counts : counts[i] \in Nat
        /\ \A i \in DOMAIN less :
             less[i] \in Nat /\ (less[i] = 0 \/ (i \in DOMAIN counts /\ less[i] <= counts[i]))
    BY <1>2, <1>3
  <2> HIDE DEF counts, less
  <2>2. Total(less) <= Total(counts)
    BY <1>1, <2>1, SumWithin
  <2> QED
    BY <2>2 DEF counts, less
<1> QED
  BY <1>5, <1>6, <1>7, <1>8, <1>9, <1>10, RowTotals DEF S, used, usedAll, known, knownAll

LEMMA SpeedHasTime ==
  ASSUME NEW records \in Seq(Rows), NEW those \in SUBSET DOMAIN records
  PROVE  Row(records, those).generated > 0 <=> Row(records, those).generating > 0
<1> DEFINE tokens == [i \in those |-> Generated(records[i]).tokens]
           millis == [i \in those |-> Generated(records[i]).millis]
<1>1. ASSUME NEW i \in those
      PROVE  /\ tokens[i] \in Nat /\ millis[i] \in Nat
             /\ tokens[i] > 0 <=> millis[i] > 0
  BY PlacesOf, GeneratedFields
<1>2. DOMAIN tokens = those /\ DOMAIN millis = those /\ IsFiniteSet(those)
  BY PlacesOf
<1>3. Row(records, those).generated = Total(tokens) /\ Row(records, those).generating = Total(millis)
  BY RowTotals
<1> HIDE DEF tokens, millis
<1>4. /\ Total(tokens) > 0 <=> (MAX > 0 /\ \E i \in those : tokens[i] > 0)
      /\ Total(millis) > 0 <=> (MAX > 0 /\ \E i \in those : millis[i] > 0)
  BY <1>1, <1>2, TotalIsSome
<1> QED
  BY <1>1, <1>3, <1>4

LEMMA MiddleInOrder ==
  ASSUME NEW records \in Seq(Rows), NEW those \in SUBSET DOMAIN records,
         Row(records, those).ttfb[1] # None
  PROVE  Row(records, those).ttfb[1] <= Row(records, those).ttfb[2]
<1> DEFINE D == {j \in Timed(records, those) : records[j].ttfb # None}
           sample == [i \in D |-> records[i].ttfb]
<1>1. IsFiniteSet(D)
  <2>1. D \in SUBSET those
    BY DEF Timed
  <2> QED
    BY <2>1, PlacesOf, FS_Subset
<1>2. ASSUME NEW i \in D PROVE sample[i] \in Nat
  <2>1. i \in those /\ records[i].ttfb # None
    BY DEF Timed
  <2> QED
    BY <2>1, PlacesOf, RowTimes
<1>3. DOMAIN sample = D
  OBVIOUS
<1>4. Row(records, those).ttfb = Percentiles(sample)
  BY RowTotals
<1> HIDE DEF D, sample
<1> QED
  BY <1>1, <1>2, <1>3, <1>4, PercentilesInOrder

LEMMA FiguresWithin ==
  ASSUME NEW records \in Seq(Rows), NEW range, NEW now,
         NEW f, f = Report(records, range, now), report # None, report.figures = f
  PROVE  PartsWithinTheWhole
<1> DEFINE rows == ToSet(f.series) \cup {f.days[d] : d \in DOMAIN f.days}
                     \cup {f.models[m] : m \in DOMAIN f.models} \cup {f.total}
<1>1. f.total = Row(records, DOMAIN records)
  BY DEF Report
<1>2. ASSUME NEW row \in rows
      PROVE  /\ \A field \in {"input", "output", "cache_read", "cache_prompt", "generated"} :
                  row[field] <= f.total[field]
             /\ row.cache_read <= row.cache_prompt
             /\ row.generated > 0 <=> row.generating > 0
             /\ row.ttfb[1] # None => row.ttfb[1] <= row.ttfb[2]
  <2>1. PICK those \in SUBSET DOMAIN records : row = Row(records, those)
    <3> DEFINE S == DOMAIN records
               starts == Buckets(records, range, now)
    <3>1. /\ f.total = Row(records, S)
          /\ f.models = [m \in Models(records) |-> Row(records, OfModel(records, m))]
          /\ f.days = [d \in Days(records) |-> Row(records, OfDay(records, d))]
          /\ f.fallbacks = Fallbacks(records)
          /\ f.series = Series(records, S, starts, range)
          /\ f.model_series = [m \in Models(records) |->
                                 Series(records, OfModel(records, m), starts, range)]
      BY ReportFields
    <3> HIDE DEF starts
    <3>2. CASE row \in ToSet(f.series)
      <4>1. PICK k \in DOMAIN f.series : row = f.series[k]
        BY <3>2 DEF ToSet
      <4>2. row = Row(records, InBucket(records, S, starts[k], range))
        BY <3>1, <4>1, SeriesRows
      <4>3. InBucket(records, S, starts[k], range) \in SUBSET S
        BY DEF InBucket
      <4> QED
        BY <4>2, <4>3
    <3>3. CASE row \in {f.days[d] : d \in DOMAIN f.days}
      <4>1. PICK d \in DOMAIN f.days : row = f.days[d]
        BY <3>3
      <4>2. row = Row(records, OfDay(records, d)) /\ OfDay(records, d) \in SUBSET S
        BY <3>1, <4>1 DEF OfDay
      <4> QED
        BY <4>2
    <3>4. CASE row \in {f.models[m] : m \in DOMAIN f.models}
      <4>1. PICK m \in DOMAIN f.models : row = f.models[m]
        BY <3>4
      <4>2. row = Row(records, OfModel(records, m)) /\ OfModel(records, m) \in SUBSET S
        BY <3>1, <4>1 DEF OfModel
      <4> QED
        BY <4>2
    <3>5. CASE row = f.total
      <4>1. row = Row(records, S) /\ S \in SUBSET S
        BY <3>1, <3>5
      <4> QED
        BY <4>1
    <3> QED
      BY <1>2, <3>2, <3>3, <3>4, <3>5
  <2>2. /\ row.input <= f.total.input /\ row.output <= f.total.output
        /\ row.cache_read <= f.total.cache_read /\ row.cache_prompt <= f.total.cache_prompt
        /\ row.generated <= f.total.generated /\ row.cache_read <= row.cache_prompt
    BY <1>1, <2>1, TokensWithin
  <2>3. row.generated > 0 <=> row.generating > 0
    BY <2>1, SpeedHasTime
  <2>4. row.ttfb[1] # None => row.ttfb[1] <= row.ttfb[2]
    BY <2>1, MiddleInOrder
  <2> QED
    BY <2>2, <2>3, <2>4
<1> QED
  BY <1>2 DEF PartsWithinTheWhole

LEMMA FiguredKept == ASSUME StatisticsInv, Figured, [Next]_vars PROVE Figured'
<1>1. CASE UNCHANGED vars
  BY <1>1 DEF vars, Figured
<1>2. CASE Next
  <2>1. report = None
    BY <1>2 DEF Next
  <2>2. CASE Answer
    <3>1. report' = [range |-> reading.range, now |-> reading.now, records |-> reading.records,
                     figures |-> Report(reading.records, reading.range, reading.now)]
      BY <2>2 DEF Answer
    <3>2. reading.range \in DOMAIN Ranges /\ reading.now \in Nat
      BY <2>2 DEF Answer, StatisticsInv, ReadSoFar
    <3> QED
      BY <3>1, <3>2 DEF Figured
  <2>3. CASE report' = None
    BY <2>3 DEF Figured
  <2> QED
    BY <1>2, <2>1, <2>2, <2>3
       DEF Next, Tick, Arrive, Finish, AppendLine, Sweep, Delete, Ask, List, ReadFile
<1> QED
  BY <1>1, <1>2

\* The figures of a report agree with each other: parts add up to the whole, none is more
\* than the whole, and no rate is of something over nothing; aggregate.rs:164-402.
THEOREM FiguresCorrect == Spec => []FiguresAgree
<1>1. Init => Figured
  BY DEF Init, Figured
<1>2. StatisticsInv /\ Figured /\ [Next]_vars => Figured'
  BY FiguredKept
<1>3. ASSUME StatisticsInv, Figured PROVE FiguresAgree
  <2>1. CASE report = None
    BY <2>1 DEF FiguresAgree, SeriesAddUp, PartsWithinTheWhole
  <2>2. CASE report # None
    <3> DEFINE records == report.records
               range == report.range
               now == report.now
               since == Since(range, now)
    <3>1. /\ range \in DOMAIN Ranges /\ now \in Nat
          /\ report.figures = Report(records, range, now)
      BY <1>3, <2>2 DEF Figured
    <3>2. Sound(records, since)
      BY <1>3, <2>2 DEF StatisticsInv, Told
    <3> HIDE DEF since
    <3>3. /\ records \in Seq(Rows)
          /\ \A i \in DOMAIN records : since = None \/ records[i].ts >= since
      BY <3>2 DEF Sound, InRange
    <3>4. \A i \in DOMAIN records : Since(range, now) = None \/ records[i].ts >= Since(range, now)
      BY <3>3 DEF since
    <3>5. SeriesAddUp
      BY <2>2, <3>1, <3>3, <3>4, FiguresAddUp
    <3>6. PartsWithinTheWhole
      BY <2>2, <3>1, <3>3, FiguresWithin
    <3> QED
      BY <3>5, <3>6 DEF FiguresAgree
  <2> QED
    BY <2>1, <2>2
<1> QED
  BY <1>1, <1>2, <1>3, StatisticsInductive, PTL DEF Spec
=============================================================================
