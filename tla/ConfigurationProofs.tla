------------------------- MODULE ConfigurationProofs -------------------------
(***************************************************************************)
(* Proofs about what a configuration file means for requests: that what is *)
(* in force is never older than what was (Reload), and that what a request *)
(* becomes on its way to a backend is what the file in force says, and its *)
(* record what was sent (Requests).  The first rests on a lock that spans  *)
(* a reload from before it reads the file until its event is recorded; the *)
(* second on what the router makes of a request being a function of the    *)
(* session and of its messages, which stay as they are until it is         *)
(* answered, and on the rules of an accepted file.  The third part reads a *)
(* chat piece by piece (what ReadIn reads of a message, ReadBy of a chat)  *)
(* and shows that each reading comes out as the conversation has it; the   *)
(* last is about the summary a request is listed under (TurnSummary).      *)
(***************************************************************************)
EXTENDS Reload, Requests, FiniteSetTheorems, SequenceTheorems, WellFoundedInduction, TLAPS

HoldsLock == {"load", "apply", "record"}

\* Whoever is between the first and the last line of reload() holds the lock.
Mutex == \A c \in Callers : pc[c] \in HoldsLock <=> reloading = c

\* What was read is not newer than the file, and what a reload is about to put in
\* force not older than what is.
Order ==
  /\ current <= file
  /\ \A c \in Callers :
       /\ loaded[c] <= file
       /\ pc[c] = "apply" => /\ current <= loaded[c] /\ loaded[c] \in Loadable
                             /\ outcome[c] = "applied"
       /\ pc[c] = "record" /\ outcome[c] = "applied" =>
            loaded[c] = current /\ loaded[c] \in Loadable
       /\ pc[c] \in {"gate", "bind"} => loaded[c] <= current /\ loaded[c] \in Loadable
       /\ pc[c] = "bind" /\ loaded[c] = file => listen[c] = ListenIn[file]

Recorded ==
  /\ InOrder(reloads)
  /\ \A i \in 1..Len(reloads) :
       reloads[i].result = "applied" => reloads[i].version <= current
  /\ (\A c \in Callers : pc[c] = "record" => outcome[c] = "rejected")
       => LastAppliedIs(reloads, current)

Gated ==
  restart = "asked" =>
    /\ gate.version <= file /\ gate.version \in Loadable
    /\ gate.version = file => gate.listen = ListenIn[file]
    /\ gate.listen = Listen \/ gate.listen \in tested

IInv == TypeOK /\ Mutex /\ Order /\ Recorded /\ Gated

-----------------------------------------------------------------------------
\* Recording an event drops at most the oldest one and puts the new one last.
LEMMA PushShape ==
  ASSUME NEW h \in Seq(Events), NEW e \in Events, Len(h) \in 1..HISTORY
  PROVE  /\ Push(h, e) \in Seq(Events)
         /\ Len(Push(h, e)) \in 1..HISTORY
         /\ Push(h, e)[Len(Push(h, e))] = e
         /\ \E d \in {0, 1} :
              /\ Len(Push(h, e)) = Len(h) + 1 - d
              /\ \A i \in 1..Len(Push(h, e)) - 1 :
                   i + d \in 1..Len(h) /\ Push(h, e)[i] = h[i + d]
<1>0. HISTORY \in Nat \ {0}
  BY ReloadAssumption
<1>1. CASE Len(h) = HISTORY
  <2>1. Push(h, e) = Append(Tail(h), e)
    BY <1>1 DEF Push
  <2>2. /\ Tail(h) \in Seq(Events) /\ Len(Tail(h)) = Len(h) - 1
        /\ \A i \in 1..Len(h) - 1 : Tail(h)[i] = h[i + 1]
    BY <1>0, <1>1
  <2>3. /\ Append(Tail(h), e) \in Seq(Events)
        /\ Len(Append(Tail(h), e)) = Len(h)
        /\ Append(Tail(h), e)[Len(h)] = e
        /\ \A i \in 1..Len(h) - 1 : Append(Tail(h), e)[i] = h[i + 1]
    BY <2>2
  <2>4. \A i \in 1..Len(h) - 1 : i + 1 \in 1..Len(h)
    OBVIOUS
  <2> QED
    BY <1>0, <1>1, <2>1, <2>3, <2>4
<1>2. CASE Len(h) # HISTORY
  <2>1. Push(h, e) = Append(h, e)
    BY <1>2 DEF Push
  <2>2. /\ Append(h, e) \in Seq(Events)
        /\ Len(Append(h, e)) = Len(h) + 1
        /\ Append(h, e)[Len(h) + 1] = e
        /\ \A i \in 1..Len(h) : Append(h, e)[i] = h[i]
    OBVIOUS
  <2>3. \A i \in 1..Len(h) : i + 0 = i
    OBVIOUS
  <2> QED
    BY <1>0, <1>2, <2>1, <2>2, <2>3
<1> QED
  BY <1>1, <1>2

\* What recording an event does to the history's order and its newest applied one.
LEMMA PushRecords ==
  ASSUME NEW h \in Seq(Events), NEW e \in Events, Len(h) \in 1..HISTORY,
         NEW v \in Versions, InOrder(h),
         \A i \in 1..Len(h) : h[i].result = "applied" => h[i].version <= v,
         e.result = "applied" => e.version = v,
         e.result = "rejected" => LastAppliedIs(h, v)
  PROVE  /\ InOrder(Push(h, e))
         /\ \A i \in 1..Len(Push(h, e)) :
              Push(h, e)[i].result = "applied" => Push(h, e)[i].version <= v
         /\ LastAppliedIs(Push(h, e), v)
<1> DEFINE g == Push(h, e)
<1>0. /\ v \in Int /\ Len(h) \in Nat
      /\ e.result \in {"applied", "rejected"}
  BY ReloadAssumption DEF Versions, Events, Outcomes
<1>1. /\ g \in Seq(Events) /\ Len(g) \in 1..HISTORY /\ Len(g) \in Nat /\ g[Len(g)] = e
  BY PushShape
<1>2. PICK d \in {0, 1} :
        /\ Len(g) = Len(h) + 1 - d
        /\ \A i \in 1..Len(g) - 1 : i + d \in 1..Len(h) /\ g[i] = h[i + d]
  BY PushShape
<1> HIDE DEF g
<1>3. ASSUME NEW i \in 1..Len(g), g[i].result = "applied"
      PROVE  g[i].version <= v
  <2>1. CASE i = Len(g)
    BY <1>0, <1>1, <1>3, <2>1
  <2>2. CASE i # Len(g)
    <3>1. i \in 1..Len(g) - 1
      BY <1>1, <2>2
    <3> QED
      BY <1>2, <1>3, <3>1
  <2> QED
    BY <2>1, <2>2
<1>4. InOrder(g)
  <2> SUFFICES ASSUME NEW i \in 1..Len(g), NEW j \in 1..Len(g), i < j,
                      g[i].result = "applied", g[j].result = "applied"
               PROVE  g[i].version <= g[j].version
    BY DEF InOrder
  <2>1. i \in 1..Len(g) - 1 /\ i \in Int /\ j \in Int
    BY <1>1
  <2>2. CASE j = Len(g)
    BY <1>0, <1>1, <1>3, <2>2
  <2>3. CASE j # Len(g)
    <3>1. j \in 1..Len(g) - 1
      BY <1>1, <2>3
    <3>2. /\ i + d \in 1..Len(h) /\ g[i] = h[i + d]
          /\ j + d \in 1..Len(h) /\ g[j] = h[j + d]
      BY <1>2, <2>1, <3>1
    <3>3. i + d < j + d
      BY <2>1, <1>2
    <3> QED
      BY <3>2, <3>3 DEF InOrder
  <2> QED
    BY <2>2, <2>3
<1>5. LastAppliedIs(g, v)
  <2> SUFFICES ASSUME NEW i \in 1..Len(g), g[i].result = "applied",
                      \A j \in 1..Len(g) : j > i => g[j].result = "rejected"
               PROVE  g[i].version = v
    BY DEF LastAppliedIs
  <2>1. CASE i = Len(g)
    BY <1>1, <2>1
  <2>2. CASE i # Len(g)
    <3>1. i \in 1..Len(g) - 1 /\ Len(g) \in 1..Len(g) /\ Len(g) > i
      BY <1>1, <2>2
    <3>2. e.result = "rejected" /\ LastAppliedIs(h, v)
      BY <1>1, <3>1
    <3>3. i + d \in 1..Len(h) /\ g[i] = h[i + d]
      BY <1>2, <3>1
    <3>4. ASSUME NEW k \in 1..Len(h), k > i + d PROVE h[k].result = "rejected"
      <4>1. k - d \in 1..Len(g) - 1 /\ k - d > i /\ (k - d) + d = k /\ k - d \in 1..Len(g)
        BY <1>0, <1>1, <1>2, <3>1, <3>4
      <4>2. g[k - d] = h[k]
        BY <1>2, <4>1
      <4> QED
        BY <4>1, <4>2
    <3> QED
      BY <3>2, <3>3, <3>4 DEF LastAppliedIs
  <2> QED
    BY <2>1, <2>2
<1> QED
  BY <1>3, <1>4, <1>5 DEF g

-----------------------------------------------------------------------------
LEMMA InitIInv == ReloadInit => IInv
<1> SUFFICES ASSUME ReloadInit PROVE IInv
  OBVIOUS
<1> USE ReloadAssumption
<1>1. /\ reloads \in Seq(Events) /\ Len(reloads) = 1
      /\ reloads[1] = [trigger |-> "startup", result |-> "applied", version |-> 0]
  BY DEF ReloadInit, Events, Triggers, Outcomes, Versions
<1>2. TypeOK
  BY <1>1 DEF ReloadInit, TypeOK, Callers, Stages, Triggers, Outcomes, Versions
<1>3. Mutex
  BY DEF ReloadInit, Mutex, HoldsLock, Callers
<1>4. Order
  BY DEF ReloadInit, Order, Versions
<1>5. Recorded
  BY <1>1 DEF ReloadInit, Recorded, InOrder, LastAppliedIs
<1>6. Gated
  BY DEF ReloadInit, Gated
<1> QED
  BY <1>2, <1>3, <1>4, <1>5, <1>6 DEF IInv

\* An action that leaves history and lock alone keeps the types of the rest.
LEMMA StepTypeOK ==
  ASSUME TypeOK, [ReloadNext]_reloadVars
  PROVE  TypeOK'
<1> USE ReloadAssumption
<1> USE DEF TypeOK, Goto, Stages, Triggers, Outcomes
<1>1. CASE Save
  BY <1>1 DEF Save, history, Versions
<1>2. CASE Signal
  BY <1>2 DEF Signal
<1>3. CASE Receive
  BY <1>3 DEF Receive, history
<1>4. ASSUME NEW c \in Callers, Ask(c) PROVE TypeOK'
  BY <1>4 DEF Ask
<1>5. ASSUME NEW c \in Callers, Lock(c) PROVE TypeOK'
  BY <1>5 DEF Lock, history
<1>6. ASSUME NEW c \in Callers, Load(c) PROVE TypeOK'
  BY <1>6 DEF Load
<1>7. ASSUME NEW c \in Callers, Apply(c) PROVE TypeOK'
  BY <1>7 DEF Apply, NotBuilt, history
<1>8. ASSUME NEW c \in Callers, Record(c) PROVE TypeOK'
  <2>1. EventOf(c) \in Events
    BY DEF EventOf, Events
  <2>2. reloads' \in Seq(Events) /\ Len(reloads') \in 1..HISTORY
    <3> HIDE DEF Stages, Triggers, Outcomes
    <3> QED
      BY <1>8, <2>1, PushShape DEF Record
  <2>3. AfterReload(c) \in Stages
    BY DEF AfterReload
  <2> QED
    BY <1>8, <2>2, <2>3 DEF Record, history
<1>9. ASSUME NEW c \in Callers, Gate(c) PROVE TypeOK'
  BY <1>9 DEF Gate, Open
<1>10. ASSUME NEW c \in Callers, Bind(c) PROVE TypeOK'
  BY <1>10 DEF Bind, Open
<1>11. CASE UNCHANGED reloadVars
  BY <1>11 DEF reloadVars
<1> QED
  BY <1>1, <1>2, <1>3, <1>4, <1>5, <1>6, <1>7, <1>8, <1>9, <1>10, <1>11 DEF ReloadNext, Step

LEMMA StepMutex ==
  ASSUME TypeOK, Mutex, [ReloadNext]_reloadVars
  PROVE  Mutex'
<1> USE ReloadAssumption
<1> USE DEF TypeOK, Mutex, HoldsLock, Goto
<1>1. CASE Save
  BY <1>1 DEF Save
<1>2. CASE Signal
  BY <1>2 DEF Signal
<1>3. CASE Receive
  BY <1>3 DEF Receive
<1>4. ASSUME NEW c \in Callers, Ask(c) PROVE Mutex'
  BY <1>4 DEF Ask
<1>5. ASSUME NEW c \in Callers, Lock(c) PROVE Mutex'
  BY <1>5 DEF Lock, Callers
<1>6. ASSUME NEW c \in Callers, Load(c) PROVE Mutex'
  BY <1>6 DEF Load
<1>7. ASSUME NEW c \in Callers, Apply(c) PROVE Mutex'
  BY <1>7 DEF Apply, NotBuilt
<1>8. ASSUME NEW c \in Callers, Record(c) PROVE Mutex'
  <2>1. AfterReload(c) \notin HoldsLock
    BY DEF AfterReload
  <2>2. reloading = c
    BY <1>8 DEF Record
  <2> QED
    BY <1>8, <2>1, <2>2 DEF Record, Callers
<1>9. ASSUME NEW c \in Callers, Gate(c) PROVE Mutex'
  BY <1>9 DEF Gate, Open
<1>10. ASSUME NEW c \in Callers, Bind(c) PROVE Mutex'
  BY <1>10 DEF Bind, Open
<1>11. CASE UNCHANGED reloadVars
  BY <1>11 DEF reloadVars
<1> QED
  BY <1>1, <1>2, <1>3, <1>4, <1>5, <1>6, <1>7, <1>8, <1>9, <1>10, <1>11 DEF ReloadNext, Step

LEMMA StepOrder ==
  ASSUME TypeOK, Mutex, Order, [ReloadNext]_reloadVars
  PROVE  Order' /\ current <= current'
<1> USE ReloadAssumption
<1> USE DEF TypeOK, Order, Goto, Versions
<1>1. CASE Save
  BY <1>1 DEF Save
<1>2. CASE Signal
  BY <1>2 DEF Signal
<1>3. CASE Receive
  BY <1>3 DEF Receive
<1>4. ASSUME NEW c \in Callers, Ask(c) PROVE Order' /\ current <= current'
  BY <1>4 DEF Ask
<1>5. ASSUME NEW c \in Callers, Lock(c) PROVE Order' /\ current <= current'
  BY <1>5 DEF Lock
<1>6. ASSUME NEW c \in Callers, Load(c) PROVE Order' /\ current <= current'
  BY <1>6 DEF Load
<1>7. ASSUME NEW c \in Callers, Apply(c) PROVE Order' /\ current <= current'
  <2>1. \A d \in Callers \ {c} : pc[d] \notin HoldsLock
    BY <1>7 DEF Apply, NotBuilt, Mutex, HoldsLock
  <2> QED
    BY <1>7, <2>1 DEF Apply, NotBuilt, HoldsLock
<1>8. ASSUME NEW c \in Callers, Record(c) PROVE Order' /\ current <= current'
  <2>1. /\ AfterReload(c) \in {"idle", "done", "gate", "refused"}
        /\ AfterReload(c) = "gate" => outcome[c] = "applied"
    BY DEF AfterReload
  <2> QED
    BY <1>8, <2>1 DEF Record
<1>9. ASSUME NEW c \in Callers, Gate(c) PROVE Order' /\ current <= current'
  BY <1>9 DEF Gate, Open
<1>10. ASSUME NEW c \in Callers, Bind(c) PROVE Order' /\ current <= current'
  BY <1>10 DEF Bind, Open
<1>11. CASE UNCHANGED reloadVars
  BY <1>11 DEF reloadVars
<1> QED
  BY <1>1, <1>2, <1>3, <1>4, <1>5, <1>6, <1>7, <1>8, <1>9, <1>10, <1>11 DEF ReloadNext, Step

\* Only a recorded event changes the history, only a swap what is in force.
LEMMA StepRecorded ==
  ASSUME IInv, [ReloadNext]_reloadVars
  PROVE  Recorded'
<1> USE ReloadAssumption
<1>0. TypeOK /\ Mutex /\ Order /\ Recorded
  BY DEF IInv
<1>1. ASSUME UNCHANGED <<reloads, current>>,
             \A c \in Callers : pc'[c] = "record" /\ outcome'[c] = "applied"
                                  => pc[c] = "record" /\ outcome[c] = "applied",
             \A c \in Callers : pc[c] = "record" /\ outcome[c] = "applied"
                                  => pc'[c] = "record" /\ outcome'[c] = "applied",
             TypeOK'
      PROVE  Recorded'
  <2>1. ASSUME \A c \in Callers : pc'[c] = "record" => outcome'[c] = "rejected"
        PROVE  LastAppliedIs(reloads, current)
    <3>1. \A c \in Callers : pc[c] = "record" => outcome[c] = "rejected"
      BY <1>0, <1>1, <2>1 DEF TypeOK, Outcomes
    <3> QED
      BY <1>0, <3>1 DEF Recorded
  <2>2. (\A c \in Callers : pc'[c] = "record" => outcome'[c] = "rejected")
          => LastAppliedIs(reloads', current')
    BY <1>1, <2>1
  <2>3. /\ InOrder(reloads')
        /\ \A i \in 1..Len(reloads') :
             reloads'[i].result = "applied" => reloads'[i].version <= current'
    BY <1>0, <1>1 DEF Recorded
  <2> QED
    BY <2>2, <2>3 DEF Recorded
<1>2. TypeOK'
  BY <1>0, StepTypeOK
<1>3. CASE Save \/ Signal \/ UNCHANGED reloadVars
  BY <1>0, <1>1, <1>2, <1>3 DEF Save, Signal, reloadVars
<1>4. CASE Receive
  BY <1>0, <1>1, <1>2, <1>4 DEF Receive, Goto, TypeOK
<1>5. ASSUME NEW c \in Callers, Ask(c) \/ Lock(c) \/ Gate(c) \/ Bind(c)
      PROVE  Recorded'
  <2>1. pc[c] # "record" /\ UNCHANGED <<reloads, current, outcome>>
    BY <1>5 DEF Ask, Lock, Gate, Bind, history
  <2>2. /\ pc'[c] # "record"
        /\ \A d \in Callers \ {c} : pc'[d] = pc[d]
    BY <1>0, <1>5 DEF Ask, Lock, Gate, Bind, Open, Goto, TypeOK
  <2> QED
    BY <1>1, <1>2, <2>1, <2>2
<1>6. ASSUME NEW c \in Callers, Load(c) PROVE Recorded'
  <2>1. /\ pc[c] # "record" /\ UNCHANGED <<reloads, current>>
        /\ pc'[c] = "record" => outcome'[c] = "rejected"
        /\ \A d \in Callers \ {c} : pc'[d] = pc[d] /\ outcome'[d] = outcome[d]
    BY <1>0, <1>6 DEF Load, Goto, TypeOK
  <2> QED
    BY <1>1, <1>2, <2>1
<1>7. ASSUME NEW c \in Callers, Apply(c) PROVE Recorded'
  <2>1. /\ pc[c] = "apply" /\ reloads' = reloads /\ pc'[c] = "record"
        /\ \A d \in Callers \ {c} : pc'[d] = pc[d] /\ outcome'[d] = outcome[d]
    BY <1>0, <1>7 DEF Apply, NotBuilt, Goto, TypeOK
  <2>2. \A d \in Callers \ {c} : pc[d] # "record"
    BY <1>0, <2>1 DEF Mutex, HoldsLock
  <2>3. CASE current' = current /\ outcome'[c] = "rejected"
    <3>1. LastAppliedIs(reloads, current)
      BY <1>0, <2>1, <2>2 DEF Recorded
    <3> QED
      BY <1>0, <2>1, <2>3, <3>1 DEF Recorded
  <2>4. CASE current' = loaded[c] /\ outcome' = outcome
    <3>1. current <= current'
      BY <1>0, <2>1, <2>4 DEF Order
    <3>2. \A i \in 1..Len(reloads') :
             reloads'[i].result = "applied" => reloads'[i].version <= current'
      <4> SUFFICES ASSUME NEW i \in 1..Len(reloads), reloads[i].result = "applied"
                   PROVE  reloads[i].version <= current'
        BY <2>1
      <4>1. reloads[i].version <= current
        BY <1>0 DEF Recorded
      <4>2. /\ reloads[i] \in Events /\ current \in Versions /\ current' \in Versions
        BY <1>0, <1>2 DEF TypeOK
      <4> QED
        BY <3>1, <4>1, <4>2 DEF Events, Versions
    <3>3. InOrder(reloads')
      BY <1>0, <2>1 DEF Recorded
    <3>4. outcome'[c] = "applied"
      BY <1>0, <2>4, <2>1 DEF Order
    <3> QED
      BY <2>1, <3>2, <3>3, <3>4 DEF Recorded
  <2> QED
    BY <1>0, <1>7, <2>3, <2>4 DEF Apply, NotBuilt, TypeOK
<1>8. ASSUME NEW c \in Callers, Record(c) PROVE Recorded'
  <2>1. /\ pc[c] = "record" /\ reloads' = Push(reloads, EventOf(c)) /\ current' = current
        /\ EventOf(c) \in Events
        /\ EventOf(c).result = outcome[c] /\ EventOf(c).version = loaded[c]
    BY <1>0, <1>8 DEF Record, EventOf, Events, TypeOK
  <2>2. \A d \in Callers \ {c} : pc[d] # "record"
    BY <1>0, <2>1 DEF Mutex, HoldsLock
  <2>3. outcome[c] = "applied" => loaded[c] = current
    BY <1>0, <2>1 DEF Order
  <2>4. outcome[c] = "rejected" => LastAppliedIs(reloads, current)
    BY <1>0, <2>1, <2>2 DEF Recorded
  <2>5. /\ reloads \in Seq(Events) /\ Len(reloads) \in 1..HISTORY /\ current \in Versions
        /\ InOrder(reloads)
        /\ \A i \in 1..Len(reloads) :
             reloads[i].result = "applied" => reloads[i].version <= current
    BY <1>0 DEF TypeOK, Recorded
  <2>6. /\ InOrder(reloads')
        /\ \A i \in 1..Len(reloads') :
              reloads'[i].result = "applied" => reloads'[i].version <= current
        /\ LastAppliedIs(reloads', current)
    BY <2>1, <2>3, <2>4, <2>5, PushRecords
  <2> QED
    BY <2>1, <2>6 DEF Recorded
<1> QED
  BY <1>3, <1>4, <1>5, <1>6, <1>7, <1>8 DEF ReloadNext, Step

LEMMA StepGated ==
  ASSUME IInv, [ReloadNext]_reloadVars
  PROVE  Gated'
<1> USE ReloadAssumption
<1>0. TypeOK /\ Order /\ Gated
  BY DEF IInv
<1>1. CASE UNCHANGED <<restart, gate, tested, file>>
  BY <1>0, <1>1 DEF Gated
<1>2. CASE Save
  BY <1>0, <1>2 DEF Save, Gated, history, TypeOK, Versions
<1>3. ASSUME NEW c \in Callers, Gate(c) PROVE Gated'
  <2>1. CASE ListenIn[current] = Listen
    BY <1>0, <1>3, <2>1 DEF Gate, Open, Order, Gated, TypeOK, Versions
  <2>2. CASE ListenIn[current] # Listen
    BY <1>0, <1>3, <2>2 DEF Gate, Gated
  <2> QED
    BY <2>1, <2>2
<1>4. ASSUME NEW c \in Callers, Bind(c) PROVE Gated'
  <2>1. CASE Open(c, listen[c]) /\ tested' = tested \cup {listen[c]}
    BY <1>0, <1>4, <2>1 DEF Bind, Open, Order, Gated, TypeOK, Versions
  <2>2. CASE UNCHANGED <<restart, gate, tested>>
    BY <1>0, <1>4, <2>2 DEF Bind, Gated
  <2> QED
    BY <1>4, <2>1, <2>2 DEF Bind
<1> QED
  BY <1>1, <1>2, <1>3, <1>4
     DEF ReloadNext, Step, Signal, Receive, Ask, Lock, Load, Apply, NotBuilt, Record, history, reloadVars

-----------------------------------------------------------------------------
LEMMA StepIInv == IInv /\ [ReloadNext]_reloadVars => IInv'
  BY StepTypeOK, StepMutex, StepOrder, StepRecorded, StepGated DEF IInv

LEMMA InvariantIInv == ReloadSpec => []IInv
<1>1. ReloadInit => IInv
  BY InitIInv
<1>2. IInv /\ [ReloadNext]_reloadVars => IInv'
  BY StepIInv
<1> QED
  BY <1>1, <1>2, PTL DEF ReloadSpec

\* The state of AppState keeps its types, and the history its bound (state.rs:132).
THEOREM ReloadTypeCorrect == ReloadSpec => []TypeOK
<1>1. IInv => TypeOK
  BY DEF IInv
<1> QED
  BY <1>1, InvariantIInv, PTL

\* However SIGHUPs and console calls interleave, an older file never comes back.
THEOREM NeverOlderCorrect == ReloadSpec => NeverOlder
<1>1. IInv /\ [ReloadNext]_reloadVars => [current' >= current]_reloadVars
  <2> SUFFICES ASSUME IInv, [ReloadNext]_reloadVars PROVE current' >= current
    OBVIOUS
  <2>1. current <= current' /\ TypeOK /\ TypeOK'
    BY StepOrder, StepTypeOK DEF IInv
  <2> QED
    BY <2>1, ReloadAssumption DEF TypeOK, Versions
<1> QED
  BY <1>1, InvariantIInv, PTL DEF ReloadSpec, NeverOlder

\* The history lists configurations in the order they came into force, and while no
\* reload runs its newest applied event is the configuration in force.
THEOREM HistoryCorrect == ReloadSpec => []HistoryTellsCurrent
<1>1. IInv => HistoryTellsCurrent
  <2> SUFFICES ASSUME IInv PROVE HistoryTellsCurrent
    OBVIOUS
  <2>1. ASSUME reloading = Nobody, NEW c \in Callers PROVE pc[c] # "record"
    BY <2>1, ReloadAssumption DEF IInv, Mutex, HoldsLock
  <2> QED
    BY <2>1 DEF IInv, Recorded, HistoryTellsCurrent
<1> QED
  BY <1>1, InvariantIInv, PTL

\* A restart under way was let through for a file that loads, on an address that is
\* the router's own or could be bound.
THEOREM RestartGateCorrect == ReloadSpec => []RestartGated
<1>1. IInv => RestartGated
  BY DEF IInv, Gated, RestartGated
<1> QED
  BY <1>1, InvariantIInv, PTL

-----------------------------------------------------------------------------
\* Induction over the places of a sequence: a set of numbers has a least one.
LEMMA LeastNumber == ASSUME NEW T \in SUBSET Nat, T # {} PROVE \E x \in T : \A y \in T : x <= y
<1> DEFINE R == {ss \in Nat \X Nat : ss[1] < ss[2]}
<1>2. IsWellFoundedOn(R, Nat)
  BY NatLessThanWellFounded, Zenon DEF OpToRel
<1> HIDE DEF R
<1>3. PICK x \in T : \A y \in T : ~ (<<y, x>> \in R)
  BY <1>2, WFMin
<1>4. ASSUME NEW y \in T, y < x PROVE FALSE
  <2>1. <<y, x>> \in Nat \X Nat /\ <<y, x>>[1] < <<y, x>>[2]
    BY <1>4
  <2>2. <<y, x>> \in R
    BY <2>1 DEF R
  <2> QED
    BY <1>3, <2>2
<1> QED
  BY <1>4

LEMMA AllNumbers == ASSUME NEW T \in SUBSET Nat, 0 \in T, \A n \in T : n + 1 \in T PROVE T = Nat
<1> SUFFICES ASSUME Nat \ T # {} PROVE FALSE
  OBVIOUS
<1>1. PICK x \in Nat \ T : \A y \in Nat \ T : x <= y
  BY LeastNumber
<1>2. x # 0 /\ x - 1 \in Nat /\ x - 1 \in T
  BY <1>1
<1> QED
  BY <1>1, <1>2

-----------------------------------------------------------------------------
\* FlattenSeq: what comes of its steps.
Flattens(seqs, n, g) ==
  g = [i \in 1..n |-> IF i = 1 THEN seqs[i] ELSE g[i - 1] \o seqs[i]]

LEMMA FlattensExist ==
  ASSUME NEW seqs, NEW n \in Nat
  PROVE  \E g : Flattens(seqs, n, g)
<1> DEFINE T == {k \in Nat : \E g : Flattens(seqs, k, g)}
<1>1. 0 \in T
  <2> DEFINE g == [i \in 1..0 |-> <<>>]
  <2>1. Flattens(seqs, 0, g)
    BY DEF Flattens
  <2> QED
    BY <2>1
<1>2. ASSUME NEW k \in T PROVE k + 1 \in T
  <2>1. k \in Nat /\ \E g : Flattens(seqs, k, g)
    OBVIOUS
  <2>2. PICK g : Flattens(seqs, k, g)
    BY <2>1
  <2> HIDE DEF T
  <2> DEFINE h == [i \in 1..(k + 1) |-> IF i = 1 THEN seqs[i] ELSE g[i - 1] \o seqs[i]]
  <2>4. ASSUME NEW i \in 1..k PROVE h[i] = g[i]
    <3>1. i \in 1..(k + 1)
      BY <2>1
    <3>2. g[i] = IF i = 1 THEN seqs[i] ELSE g[i - 1] \o seqs[i]
      BY <2>2 DEF Flattens
    <3> QED
      BY <3>1, <3>2
  <2>5. ASSUME NEW i \in 1..(k + 1), i # 1 PROVE h[i - 1] = g[i - 1]
    <3>1. i - 1 \in 1..k
      BY <2>1, <2>5
    <3> QED
      BY <2>4, <3>1
  <2>6. h = [i \in 1..(k + 1) |-> IF i = 1 THEN seqs[i] ELSE h[i - 1] \o seqs[i]]
    BY <2>5
  <2> HIDE DEF h
  <2>7. Flattens(seqs, k + 1, h)
    BY <2>6 DEF Flattens
  <2> QED
    BY <2>1, <2>7 DEF T
<1>3. T = Nat
  <2> HIDE DEF T
  <2>1. T \in SUBSET Nat
    BY DEF T
  <2> QED
    BY <1>1, <1>2, <2>1, AllNumbers
<1> QED
  BY <1>3

\* The elements of a concatenation.
LEMMA ConcatSet ==
  ASSUME NEW S, NEW s \in Seq(S), NEW t \in Seq(S)
  PROVE  s \o t \in Seq(S) /\ ToSet(s \o t) = ToSet(s) \cup ToSet(t)
<1>1. s \o t \in Seq(S) /\ Len(s \o t) = Len(s) + Len(t)
  OBVIOUS
<1>2. \A i \in 1..Len(s) + Len(t) :
        (s \o t)[i] = IF i <= Len(s) THEN s[i] ELSE t[i - Len(s)]
  OBVIOUS
<1>3. ASSUME NEW x \in ToSet(s \o t) PROVE x \in ToSet(s) \cup ToSet(t)
  <2>1. PICK i \in 1..Len(s) + Len(t) : x = (s \o t)[i]
    BY <1>1 DEF ToSet
  <2>2. CASE i <= Len(s)
    BY <1>2, <2>1, <2>2 DEF ToSet
  <2>3. CASE ~(i <= Len(s))
    <3>1. i - Len(s) \in 1..Len(t)
      BY <2>3
    <3> QED
      BY <1>2, <2>1, <2>3, <3>1 DEF ToSet
  <2> QED
    BY <2>2, <2>3
<1>4. ASSUME NEW x \in ToSet(s) PROVE x \in ToSet(s \o t)
  <2>1. PICK i \in 1..Len(s) : x = s[i]
    BY DEF ToSet
  <2>2. i \in 1..Len(s) + Len(t) /\ i <= Len(s)
    OBVIOUS
  <2> QED
    BY <1>1, <1>2, <2>1, <2>2 DEF ToSet
<1>5. ASSUME NEW x \in ToSet(t) PROVE x \in ToSet(s \o t)
  <2>1. PICK i \in 1..Len(t) : x = t[i]
    BY DEF ToSet
  <2> DEFINE j == i + Len(s)
  <2>2. j \in 1..Len(s) + Len(t) /\ ~(j <= Len(s)) /\ j - Len(s) = i
    OBVIOUS
  <2> HIDE DEF j
  <2>3. (s \o t)[j] = t[i]
    BY <1>2, <2>2
  <2> QED
    BY <1>1, <2>1, <2>2, <2>3 DEF ToSet
<1> QED
  BY <1>1, <1>3, <1>4, <1>5

LEMMA FlattenCorrect ==
  ASSUME NEW S, NEW seqs \in Seq(Seq(S))
  PROVE  /\ FlattenSeq(seqs) \in Seq(S)
         /\ ToSet(FlattenSeq(seqs)) = UNION {ToSet(seqs[i]) : i \in DOMAIN seqs}
<1> DEFINE len == Len(seqs)
<1>1. len \in Nat /\ DOMAIN seqs = 1..len /\ \A i \in 1..len : seqs[i] \in Seq(S)
  OBVIOUS
<1>2. CASE len = 0
  <2>1. FlattenSeq(seqs) = seqs /\ seqs = <<>>
    BY <1>2 DEF FlattenSeq
  <2>2. <<>> \in Seq(S) /\ ToSet(<<>>) = {} /\ DOMAIN seqs = {}
    BY <2>1 DEF ToSet
  <2> QED
    BY <2>1, <2>2
<1>3. CASE len # 0
  <2>1. PICK g : Flattens(seqs, len, g) /\ FlattenSeq(seqs) = g[len]
    <3> DEFINE g == CHOOSE g : Flattens(seqs, len, g)
    <3>1. Flattens(seqs, len, g)
      BY <1>1, FlattensExist
    <3>2. FlattenSeq(seqs) = g[len]
      BY <1>3 DEF FlattenSeq, Flattens
    <3> QED
      BY <3>1, <3>2
  <2> DEFINE Of(n) == UNION {ToSet(seqs[i]) : i \in 1..n}
             T == {n \in Nat : n + 1 <= len => g[n + 1] \in Seq(S) /\ ToSet(g[n + 1]) = Of(n + 1)}
  <2>2. 0 \in T
    <3>1. 0 + 1 = 1 /\ 1..1 = {1} /\ 1 \in 1..len
      BY <1>1, <1>3
    <3>2. g[1] = seqs[1]
      BY <2>1, <3>1 DEF Flattens
    <3>3. Of(1) = ToSet(seqs[1])
      BY <3>1
    <3> QED
      BY <1>1, <3>1, <3>2, <3>3
  <2>3. ASSUME NEW n \in T PROVE n + 1 \in T
    <3> SUFFICES ASSUME (n + 1) + 1 <= len
                 PROVE  g[(n + 1) + 1] \in Seq(S) /\ ToSet(g[(n + 1) + 1]) = Of((n + 1) + 1)
      OBVIOUS
    <3> DEFINE m == n + 1
    <3>1. m + 1 \in 1..len /\ m + 1 # 1 /\ (m + 1) - 1 = m /\ m \in Nat
      BY <1>1
    <3>2. g[m + 1] = g[m] \o seqs[m + 1]
      BY <2>1, <3>1 DEF Flattens
    <3>3. g[m] \in Seq(S) /\ ToSet(g[m]) = Of(m)
      BY <1>1
    <3>4. seqs[m + 1] \in Seq(S)
      BY <1>1, <3>1
    <3>5. Of(m + 1) = Of(m) \cup ToSet(seqs[m + 1])
      <4>1. 1..m + 1 = 1..m \cup {m + 1}
        BY <3>1
      <4> HIDE DEF m
      <4> QED
        BY <4>1
    <3> DEFINE s == g[m]
               t == seqs[m + 1]
    <3> HIDE DEF s, t, m
    <3>6. s \o t \in Seq(S) /\ ToSet(s \o t) = ToSet(s) \cup ToSet(t)
      BY <3>3, <3>4, ConcatSet DEF s, t
    <3> QED
      BY <3>2, <3>3, <3>5, <3>6 DEF s, t, m
  <2>4. T = Nat
    <3> HIDE DEF T
    <3>1. T \in SUBSET Nat
      BY DEF T
    <3> QED
      BY <2>2, <2>3, <3>1, AllNumbers
  <2> DEFINE last == len - 1
  <2>5. last \in Nat /\ last + 1 = len /\ last + 1 <= len
    BY <1>1, <1>3
  <2> HIDE DEF last, len
  <2>6. \A n \in T : n + 1 <= len => g[n + 1] \in Seq(S) /\ ToSet(g[n + 1]) = Of(n + 1)
    OBVIOUS
  <2> HIDE DEF T, Of
  <2>7. last \in T
    BY <2>4, <2>5
  <2>8. g[last + 1] \in Seq(S) /\ ToSet(g[last + 1]) = Of(last + 1)
    BY <2>5, <2>6, <2>7
  <2>9. g[len] \in Seq(S) /\ ToSet(g[len]) = Of(len)
    BY <2>5, <2>8
  <2> QED
    BY <1>1, <2>1, <2>9 DEF Of
<1> QED
  BY <1>2, <1>3

-----------------------------------------------------------------------------
\* Once: what comes of its steps.
Add(out, flag) == IF Contains(out, flag) THEN out ELSE Append(out, flag)
Listing(flags, n, g) ==
  g = [i \in 0..n |-> IF i = 0 THEN <<>> ELSE Add(g[i - 1], flags[i])]

LEMMA ListingExists ==
  ASSUME NEW flags, NEW n \in Nat
  PROVE  \E g : Listing(flags, n, g)
<1> DEFINE T == {k \in Nat : \E g : Listing(flags, k, g)}
<1>1. 0 \in T
  <2> DEFINE g == [i \in 0..0 |-> <<>>]
  <2>1. Listing(flags, 0, g)
    BY DEF Listing
  <2> QED
    BY <2>1
<1>2. ASSUME NEW k \in T PROVE k + 1 \in T
  <2>1. k \in Nat /\ \E g : Listing(flags, k, g)
    OBVIOUS
  <2>2. PICK g : Listing(flags, k, g)
    BY <2>1
  <2> HIDE DEF T
  <2> DEFINE h == [i \in 0..(k + 1) |-> IF i = 0 THEN <<>> ELSE Add(g[i - 1], flags[i])]
  <2>4. ASSUME NEW i \in 0..k PROVE h[i] = g[i]
    <3>1. i \in 0..(k + 1)
      BY <2>1
    <3>2. g[i] = IF i = 0 THEN <<>> ELSE Add(g[i - 1], flags[i])
      BY <2>2 DEF Listing
    <3> QED
      BY <3>1, <3>2
  <2>5. ASSUME NEW i \in 0..(k + 1), i # 0 PROVE h[i - 1] = g[i - 1]
    <3>1. i - 1 \in 0..k
      BY <2>1, <2>5
    <3> QED
      BY <2>4, <3>1
  <2>6. h = [i \in 0..(k + 1) |-> IF i = 0 THEN <<>> ELSE Add(h[i - 1], flags[i])]
    BY <2>5
  <2> HIDE DEF h
  <2>7. Listing(flags, k + 1, h)
    BY <2>6 DEF Listing
  <2> QED
    BY <2>1, <2>7 DEF T
<1>3. T = Nat
  <2> HIDE DEF T
  <2>1. T \in SUBSET Nat
    BY DEF T
  <2> QED
    BY <1>1, <1>2, <2>1, AllNumbers
<1> QED
  BY <1>3

LEMMA AddSet ==
  ASSUME NEW S, NEW s \in Seq(S), NEW x \in S
  PROVE  Add(s, x) \in Seq(S) /\ ToSet(Add(s, x)) = ToSet(s) \cup {x}
<1>1. CASE Contains(s, x)
  <2>1. Add(s, x) = s
    BY <1>1 DEF Add
  <2>2. x \in ToSet(s)
    BY <1>1 DEF Contains, ToSet
  <2> QED
    BY <2>1, <2>2
<1>2. CASE ~Contains(s, x)
  <2>1. Add(s, x) = s \o <<x>> /\ <<x>> \in Seq(S)
    BY <1>2 DEF Add
  <2>2. ToSet(<<x>>) = {x}
    BY DEF ToSet
  <2> DEFINE t == <<x>>
  <2> HIDE DEF t
  <2>3. s \o t \in Seq(S) /\ ToSet(s \o t) = ToSet(s) \cup ToSet(t)
    BY <2>1, ConcatSet DEF t
  <2> QED
    BY <2>1, <2>2, <2>3 DEF t
<1> QED
  BY <1>1, <1>2

LEMMA OnceCorrect ==
  ASSUME NEW S, NEW flags \in Seq(S)
  PROVE  Once(flags) \in Seq(S) /\ ToSet(Once(flags)) = ToSet(flags)
<1> DEFINE len == Len(flags)
<1>1. len \in Nat /\ DOMAIN flags = 1..len /\ \A i \in 1..len : flags[i] \in S
  OBVIOUS
<1>2. PICK g : Listing(flags, len, g) /\ Once(flags) = g[len]
  <2> DEFINE g == CHOOSE g : Listing(flags, len, g)
  <2>1. Listing(flags, len, g)
    BY <1>1, ListingExists
  <2>2. Once(flags) = g[len]
    BY DEF Once, Listing, Add
  <2> QED
    BY <2>1, <2>2
<1> DEFINE Of(n) == {flags[i] : i \in 1..n}
           T == {n \in Nat : n <= len => g[n] \in Seq(S) /\ ToSet(g[n]) = Of(n)}
<1>3. 0 \in T
  <2>1. g[0] = <<>> /\ 1..0 = {}
    BY <1>1, <1>2 DEF Listing
  <2>2. <<>> \in Seq(S) /\ ToSet(<<>>) = {}
    BY DEF ToSet
  <2> QED
    BY <2>1, <2>2
<1>4. ASSUME NEW n \in T PROVE n + 1 \in T
  <2> SUFFICES ASSUME n + 1 <= len PROVE g[n + 1] \in Seq(S) /\ ToSet(g[n + 1]) = Of(n + 1)
    OBVIOUS
  <2> DEFINE m == n + 1
  <2>1. m \in 1..len /\ m \in 0..len /\ m # 0 /\ m - 1 = n /\ n \in Nat
    BY <1>1
  <2>2. g[m] = Add(g[n], flags[m])
    BY <1>2, <2>1 DEF Listing
  <2>3. g[n] \in Seq(S) /\ ToSet(g[n]) = Of(n)
    BY <1>1
  <2>4. Of(m) = Of(n) \cup {flags[m]}
    <3>1. 1..m = 1..n \cup {m}
      BY <2>1
    <3> HIDE DEF m
    <3> QED
      BY <3>1
  <2> DEFINE s == g[n]
             x == flags[m]
  <2>5. x \in S /\ s \in Seq(S)
    BY <1>1, <2>1, <2>3
  <2> HIDE DEF s, x, m
  <2>6. Add(s, x) \in Seq(S) /\ ToSet(Add(s, x)) = ToSet(s) \cup {x}
    BY <2>5, AddSet
  <2> QED
    BY <2>2, <2>3, <2>4, <2>6 DEF s, x, m
<1>5. T = Nat
  <2> HIDE DEF T
  <2>1. T \in SUBSET Nat
    BY DEF T
  <2> QED
    BY <1>3, <1>4, <2>1, AllNumbers
<1>6. \A n \in T : n <= len => g[n] \in Seq(S) /\ ToSet(g[n]) = Of(n)
  OBVIOUS
<1>7. ToSet(flags) = Of(len)
  BY <1>1 DEF ToSet
<1> HIDE DEF T, Of
<1>8. g[len] \in Seq(S) /\ ToSet(g[len]) = Of(len)
  BY <1>1, <1>5, <1>6
<1> QED
  BY <1>2, <1>7, <1>8

-----------------------------------------------------------------------------
\* What the HTTP client makes of headers.
FramedAs(b, headers, credential, host, length, n) ==
  IF n = ContentLength THEN length
  ELSE IF b.credential # None /\ n = b.credential.header THEN credential
  ELSE IF n \in DOMAIN headers THEN headers[n] ELSE host

Carried(b, headers) ==
  DOMAIN headers \cup {Host, ContentLength}
    \cup (IF b.credential = None THEN {} ELSE {b.credential.header})

LEMMA NamesApart == Beta # ContentLength /\ Beta # Host /\ Host # ContentLength
BY DEF Beta, ContentLength, Host

LEMMA FramedCorrect ==
  ASSUME NEW b, NEW headers, NEW credential, NEW host, NEW length
  PROVE  /\ DOMAIN Framed(b, headers, credential, host, length) = Carried(b, headers)
         /\ \A n \in Carried(b, headers) :
              Framed(b, headers, credential, host, length)[n]
                = FramedAs(b, headers, credential, host, length, n)
<1> DEFINE all == IF b.credential = None THEN headers
                  ELSE With(headers, b.credential.header, credential)
           hosted == WithDefault(all, Host, host)
           framed == With(hosted, ContentLength, length)
<1>1. DOMAIN all = DOMAIN headers \cup (IF b.credential = None THEN {} ELSE {b.credential.header})
  BY DEF With
<1>2. \A n \in DOMAIN all :
        all[n] = IF b.credential # None /\ n = b.credential.header THEN credential ELSE headers[n]
  BY DEF With
<1>3. framed = Framed(b, headers, credential, host, length)
  BY DEF Framed
<1> HIDE DEF all
<1>4. DOMAIN hosted = DOMAIN all \cup {Host}
  BY DEF WithDefault, With
<1>5. \A n \in DOMAIN hosted : hosted[n] = IF n \in DOMAIN all THEN all[n] ELSE host
  BY DEF WithDefault, With
<1> HIDE DEF hosted
<1>6. DOMAIN framed = DOMAIN hosted \cup {ContentLength}
  BY DEF With
<1>7. \A n \in DOMAIN framed : framed[n] = IF n = ContentLength THEN length ELSE hosted[n]
  BY DEF With
<1> HIDE DEF framed
<1>8. DOMAIN framed = Carried(b, headers)
  BY <1>1, <1>4, <1>6 DEF Carried
<1>9. ASSUME NEW n \in Carried(b, headers)
      PROVE  framed[n] = FramedAs(b, headers, credential, host, length, n)
  BY <1>1, <1>2, <1>4, <1>5, <1>6, <1>7, <1>8 DEF FramedAs
<1> QED
  BY <1>3, <1>8, <1>9

-----------------------------------------------------------------------------
\* What crosses of the client's headers.
Crossing(client, b) == {n \in DOMAIN client : Dropped(n, b) = None}

\* What the backend's own headers make of them.
ForcedFits(b, client, forced) ==
  /\ DOMAIN forced = (Crossing(client, b) \ ForcedNames(b))
                       \cup {n \in ForcedNames(b) : ForcedValue(b, n, client) # None}
  /\ \A n \in DOMAIN forced :
       forced[n] = IF n \in ForcedNames(b) THEN <<ForcedValue(b, n, client)>> ELSE client[n]

LEMMA ForcedCorrect ==
  ASSUME NEW b, NEW client, NEW forced,
         forced = Forced(Restrict(client, Crossing(client, b)), b, client)
  PROVE  ForcedFits(b, client, forced)
<1> DEFINE out == Restrict(client, Crossing(client, b))
           filled == {n \in ForcedNames(b) : ForcedValue(b, n, client) # None}
           rest == ForcedTakes(out, ForcedNames(b) \ filled)
           made == [n \in DOMAIN rest \cup filled |->
                        IF n \in filled THEN <<ForcedValue(b, n, client)>> ELSE rest[n]]
<1>1. DOMAIN out = Crossing(client, b) /\ \A n \in Crossing(client, b) : out[n] = client[n]
  BY DEF Restrict
<1>2. made = Forced(out, b, client)
  BY DEF Forced
<1> HIDE DEF out
<1>3. DOMAIN rest = Crossing(client, b) \ (ForcedNames(b) \ filled)
  BY <1>1 DEF ForcedTakes, Restrict
<1>4. \A n \in DOMAIN rest : rest[n] = client[n]
  BY <1>1 DEF ForcedTakes, Restrict
<1> HIDE DEF rest
<1>5. DOMAIN made = DOMAIN rest \cup filled
  OBVIOUS
<1>6. \A n \in DOMAIN made :
        made[n] = IF n \in filled THEN <<ForcedValue(b, n, client)>> ELSE rest[n]
  OBVIOUS
<1> HIDE DEF made
<1>7. DOMAIN made = (Crossing(client, b) \ ForcedNames(b)) \cup filled
  BY <1>3, <1>5
<1>8. ASSUME NEW n \in DOMAIN made
      PROVE  made[n] = IF n \in ForcedNames(b) THEN <<ForcedValue(b, n, client)>> ELSE client[n]
  BY <1>3, <1>4, <1>5, <1>6, <1>7
<1> QED
  BY <1>2, <1>7, <1>8 DEF out, ForcedFits

\* The flags of both sides, and nothing else of the headers, are merged.
MergedFits(b, out, headers) ==
  /\ DOMAIN headers = DOMAIN out \cup (IF b.anthropic_beta = <<>> THEN {} ELSE {Beta})
  /\ \A n \in DOMAIN headers :
       n # Beta \/ b.anthropic_beta = <<>> => n \in DOMAIN out /\ headers[n] = out[n]
  /\ b.anthropic_beta # <<>> =>
       headers[Beta] =
         <<Once((IF Beta \in DOMAIN out THEN FlattenSeq(out[Beta]) ELSE <<>>) \o b.anthropic_beta)>>

LEMMA MergedCorrect ==
  ASSUME NEW b, NEW out, NEW headers, headers = MergeBeta(out, b)
  PROVE  MergedFits(b, out, headers)
<1>1. CASE b.anthropic_beta = <<>>
  BY <1>1 DEF MergeBeta, MergedFits
<1>2. CASE b.anthropic_beta # <<>>
  <2> DEFINE v == <<Once((IF Beta \in DOMAIN out THEN FlattenSeq(out[Beta]) ELSE <<>>)
                            \o b.anthropic_beta)>>
  <2>1. MergeBeta(out, b) = With(out, Beta, v)
    BY <1>2 DEF MergeBeta
  <2> HIDE DEF v
  <2>2. /\ DOMAIN With(out, Beta, v) = DOMAIN out \cup {Beta}
        /\ With(out, Beta, v)[Beta] = v
        /\ \A k \in DOMAIN out : k # Beta => With(out, Beta, v)[k] = out[k]
    BY DEF With
  <2> QED
    <3>1. \A n \in DOMAIN With(out, Beta, v) : n # Beta => n \in DOMAIN out
      BY <2>2
    <3> QED
      BY <1>2, <2>1, <2>2, <3>1 DEF v, MergedFits
<1> QED
  BY <1>1, <1>2

-----------------------------------------------------------------------------
ClientType(client) == client \in [DOMAIN client -> Seq(Seq(STRING)) \ {<<>>}]

\* Nothing of the connection crosses, and a credential of the client's to a passthrough
\* backend only.
LEMMA NeverCross ==
  ASSUME NEW b, NEW n, None \notin Reasons, Dropped(n, b) = None
  PROVE  /\ n \notin HopByHop \cup {Host, ContentLength}
         /\ b.kind # "passthrough" => n \notin {Authorization, XApiKey}
BY DEF Dropped, Reasons

LEMMA DroppedDomain ==
  ASSUME NEW b, NEW client, None \notin Reasons
  PROVE  DOMAIN DroppedHeaders(client, b)
           = {n \in DOMAIN client : Dropped(n, b) # None \/ Forces(b, n)}
<1>1. None # "overridden"
  BY DEF Reasons
<1> QED
  BY <1>1 DEF DroppedHeaders

LEMMA ForcedFrom ==
  ASSUME NEW b, NEW client, NEW n \in ForcedNames(b)
  PROVE  \E h \in ToSet(b.headers) :
           h.name = n /\ ForcedValue(b, n, client) = Render(h.value, client)
<1> DEFINE h == CHOOSE h \in ToSet(b.headers) : h.name = n
<1>1. h \in ToSet(b.headers) /\ h.name = n
  BY DEF ForcedNames
<1> QED
  BY <1>1 DEF ForcedValue

\* What UpstreamHeaders makes.
UpstreamFits(b, client, headers) ==
  /\ DOMAIN headers = (Crossing(client, b) \ ForcedNames(b))
                        \cup {n \in ForcedNames(b) : ForcedValue(b, n, client) # None}
                        \cup (IF b.anthropic_beta = <<>> THEN {} ELSE {Beta})
  /\ \A n \in DOMAIN headers : n # Beta \/ b.anthropic_beta = <<>> =>
       headers[n] = IF n \in ForcedNames(b) THEN <<ForcedValue(b, n, client)>> ELSE client[n]
  /\ b.anthropic_beta # <<>> /\ Beta \in Crossing(client, b) \ ForcedNames(b) =>
       headers[Beta] = <<Once(FlattenSeq(client[Beta]) \o b.anthropic_beta)>>

LEMMA UpstreamCorrect ==
  ASSUME NEW b, NEW client, NEW headers, headers = UpstreamHeaders(client, b)
  PROVE  UpstreamFits(b, client, headers)
<1> DEFINE forced == Forced(Restrict(client, Crossing(client, b)), b, client)
<1>1. headers = MergeBeta(forced, b)
  BY DEF UpstreamHeaders, Crossing
<1>0. forced = Forced(Restrict(client, Crossing(client, b)), b, client)
  OBVIOUS
<1> HIDE DEF forced
<1>2. /\ DOMAIN forced = (Crossing(client, b) \ ForcedNames(b))
                           \cup {n \in ForcedNames(b) : ForcedValue(b, n, client) # None}
      /\ \A n \in DOMAIN forced :
           forced[n] = IF n \in ForcedNames(b) THEN <<ForcedValue(b, n, client)>> ELSE client[n]
  <2>1. ForcedFits(b, client, forced)
    BY <1>0, ForcedCorrect
  <2> QED
    BY <2>1 DEF ForcedFits
<1>3. /\ DOMAIN headers = DOMAIN forced \cup (IF b.anthropic_beta = <<>> THEN {} ELSE {Beta})
      /\ \A n \in DOMAIN headers :
           n # Beta \/ b.anthropic_beta = <<>> => n \in DOMAIN forced /\ headers[n] = forced[n]
      /\ b.anthropic_beta # <<>> =>
           headers[Beta] =
             <<Once((IF Beta \in DOMAIN forced THEN FlattenSeq(forced[Beta]) ELSE <<>>)
                      \o b.anthropic_beta)>>
  BY <1>1, MergedCorrect DEF MergedFits
<1>4. DOMAIN headers = (Crossing(client, b) \ ForcedNames(b))
                         \cup {n \in ForcedNames(b) : ForcedValue(b, n, client) # None}
                         \cup (IF b.anthropic_beta = <<>> THEN {} ELSE {Beta})
  BY <1>2, <1>3
<1>5. ASSUME NEW n \in DOMAIN headers, n # Beta \/ b.anthropic_beta = <<>>
      PROVE  headers[n] = IF n \in ForcedNames(b) THEN <<ForcedValue(b, n, client)>>
                          ELSE client[n]
  BY <1>2, <1>3, <1>5
<1>6. ASSUME b.anthropic_beta # <<>>, Beta \in Crossing(client, b) \ ForcedNames(b)
      PROVE  headers[Beta] = <<Once(FlattenSeq(client[Beta]) \o b.anthropic_beta)>>
  <2>1. Beta \in DOMAIN forced /\ forced[Beta] = client[Beta]
    BY <1>2, <1>6
  <2> QED
    BY <1>3, <1>6, <2>1
<1> QED
  BY <1>4, <1>5, <1>6 DEF UpstreamFits

\* What the record says of headers agrees with what is sent.
Agree(b, client, sent, wired, dropped) ==
  /\ DOMAIN sent = DOMAIN wired
  /\ \A n \in DOMAIN sent : sent[n].value \in {Redacted, wired[n]}
  /\ \A n \in DOMAIN client :
       \/ n \in DOMAIN dropped
       \/ n \in DOMAIN sent /\ client[n] = wired[n]
       \/ n = Beta /\ ToSet(FlattenSeq(client[n])) \subseteq ToSet(wired[n][1])
       \/ b.credential # None /\ n = b.credential.header
  /\ \A n \in DOMAIN dropped \cap DOMAIN sent :
       \/ sent[n].source \in {"credential", "transport"}
       \/ sent[n].source = "backend" /\ n = Beta
       \/ /\ sent[n].source = "backend"
          /\ \E h \in ToSet(b.headers) : h.name = n /\ wired[n] = <<Render(h.value, client)>>
  /\ \A n \in DOMAIN sent : sent[n].source = "default" => wired[n] = client[n]

\* What each header is sent as, and what the record shows of it.
Ours(b, n) == b.credential # None /\ n = b.credential.header
Beside(b, headers, secret, sent, wired) ==
  /\ DOMAIN sent = DOMAIN wired /\ DOMAIN headers \subseteq DOMAIN sent
  /\ \A n \in DOMAIN sent :
       \/ /\ n = ContentLength /\ sent[n].value = <<>> /\ sent[n].source = "transport"
          /\ wired[n] = <<>>
       \/ /\ n # ContentLength /\ Ours(b, n)
          /\ sent[n].value = Redacted /\ sent[n].source = "credential"
          /\ wired[n] = <<b.credential.scheme \o <<secret>>>>
       \/ /\ n # ContentLength /\ ~Ours(b, n) /\ n \in DOMAIN headers
          /\ sent[n] = Shows(b, headers, n) /\ wired[n] = headers[n]
       \/ /\ n # ContentLength /\ ~Ours(b, n) /\ n \notin DOMAIN headers
          /\ sent[n].value = <<<<b.url.origin>>>> /\ sent[n].source = "transport"
          /\ wired[n] = <<<<b.url.origin>>>>

LEMMA BesideCorrect ==
  ASSUME NEW b, NEW secret, NEW headers, NEW sent, NEW wired,
         sent = SentHeaders(b, headers), wired = Attempted(b, headers, secret)
  PROVE  Beside(b, headers, secret, sent, wired)
<1> DEFINE shows == [n \in DOMAIN headers |-> Shows(b, headers, n)]
           credential == [value |-> Redacted, source |-> "credential"]
           host == [value |-> <<<<b.url.origin>>>>, source |-> "transport"]
           length == [value |-> <<>>, source |-> "transport"]
           named == <<b.credential.scheme \o <<secret>>>>
           origin == <<<<b.url.origin>>>>
<1>1. sent = Framed(b, shows, credential, host, length)
  BY DEF SentHeaders
<1>2. wired = Framed(b, headers, named, origin, <<>>)
  BY DEF Attempted
<1>3. DOMAIN shows = DOMAIN headers /\ \A n \in DOMAIN headers : shows[n] = Shows(b, headers, n)
  OBVIOUS
<1>4. /\ credential.value = Redacted /\ credential.source = "credential"
      /\ host.value = origin /\ host.source = "transport"
      /\ length.value = <<>> /\ length.source = "transport"
  OBVIOUS
<1> HIDE DEF shows, credential, host, length, named, origin
<1>5. DOMAIN sent = Carried(b, shows) /\ DOMAIN wired = Carried(b, headers)
  BY <1>1, <1>2, FramedCorrect
<1>6. Carried(b, shows) = Carried(b, headers)
  BY <1>3 DEF Carried
<1>7. \A n \in DOMAIN sent : sent[n] = FramedAs(b, shows, credential, host, length, n)
  BY <1>1, <1>5, FramedCorrect
<1>8. \A n \in DOMAIN wired : wired[n] = FramedAs(b, headers, named, origin, <<>>, n)
  BY <1>2, <1>5, FramedCorrect
<1>9. DOMAIN sent = DOMAIN wired /\ DOMAIN headers \subseteq DOMAIN sent
  BY <1>5, <1>6 DEF Carried
<1>10. \A n \in DOMAIN sent :
         CASE n = ContentLength -> sent[n] = length /\ wired[n] = <<>>
           [] n # ContentLength /\ Ours(b, n) -> sent[n] = credential /\ wired[n] = named
           [] n # ContentLength /\ ~Ours(b, n) /\ n \in DOMAIN headers ->
                sent[n] = Shows(b, headers, n) /\ wired[n] = headers[n]
           [] n # ContentLength /\ ~Ours(b, n) /\ n \notin DOMAIN headers ->
                sent[n] = host /\ wired[n] = origin
  BY <1>3, <1>7, <1>8, <1>9 DEF FramedAs, Ours
<1> QED
  BY <1>4, <1>9, <1>10 DEF Beside, named, origin

LEMMA HeadersAgree ==
  ASSUME NEW b, NEW client, NEW secret, NEW headers, NEW sent, NEW wired, NEW dropped,
         None \notin Reasons, BackendType(b), ClientType(client),
         headers = UpstreamHeaders(client, b), sent = SentHeaders(b, headers),
         wired = Attempted(b, headers, secret), dropped = DroppedHeaders(client, b)
  PROVE  Agree(b, client, sent, wired, dropped)
<1> DEFINE ours(n) == Ours(b, n)
<1>10. Beside(b, headers, secret, sent, wired)
  BY BesideCorrect
<1>11. /\ DOMAIN headers = (Crossing(client, b) \ ForcedNames(b))
                             \cup {n \in ForcedNames(b) : ForcedValue(b, n, client) # None}
                             \cup (IF b.anthropic_beta = <<>> THEN {} ELSE {Beta})
       /\ \A n \in DOMAIN headers : n # Beta \/ b.anthropic_beta = <<>> =>
            headers[n] = IF n \in ForcedNames(b) THEN <<ForcedValue(b, n, client)>> ELSE client[n]
       /\ b.anthropic_beta # <<>> /\ Beta \in Crossing(client, b) \ ForcedNames(b) =>
            headers[Beta] = <<Once(FlattenSeq(client[Beta]) \o b.anthropic_beta)>>
  <2>1. UpstreamFits(b, client, headers)
    BY UpstreamCorrect
  <2> QED
    BY <2>1 DEF UpstreamFits
<1>12. \A n \in DOMAIN headers :
         /\ Shows(b, headers, n).value \in {Redacted, headers[n]}
         /\ Shows(b, headers, n).source \in {"backend", "default"}
         /\ n \in ForcedNames(b) => Shows(b, headers, n).source = "backend"
         /\ n = Beta /\ b.anthropic_beta # <<>> => Shows(b, headers, n).source = "backend"
  BY DEF Shows, Forces, Beta, Authorization, XApiKey
<1>13. DOMAIN dropped = {n \in DOMAIN client : Dropped(n, b) # None \/ n \in ForcedNames(b)}
  BY DroppedDomain DEF Forces
<1>14. ASSUME NEW n \in DOMAIN sent PROVE sent[n].value \in {Redacted, wired[n]}
  BY <1>10, <1>12 DEF Beside
<1>15. ASSUME NEW n \in DOMAIN sent, sent[n].source = "default" PROVE wired[n] = client[n]
  <2>1. n # ContentLength /\ ~ours(n) /\ n \in DOMAIN headers
    BY <1>10, <1>15 DEF Beside
  <2>2. sent[n] = Shows(b, headers, n) /\ wired[n] = headers[n]
    BY <1>10, <2>1 DEF Beside
  <2>3. n \notin ForcedNames(b) /\ (n # Beta \/ b.anthropic_beta = <<>>)
    BY <1>12, <1>15, <2>1, <2>2
  <2> QED
    BY <1>11, <2>1, <2>2, <2>3
<1>16. ASSUME NEW n \in DOMAIN client, n \notin DOMAIN dropped, ~ours(n)
       PROVE  \/ n \in DOMAIN sent /\ client[n] = wired[n]
              \/ n = Beta /\ ToSet(FlattenSeq(client[n])) \subseteq ToSet(wired[n][1])
  <2>1. Dropped(n, b) = None /\ n \notin ForcedNames(b)
    BY <1>13, <1>16
  <2>2. n \in Crossing(client, b) \ ForcedNames(b) /\ n # ContentLength
    BY <2>1, NeverCross DEF Crossing
  <2>3. n \in DOMAIN headers /\ n \in DOMAIN sent
    BY <1>10, <1>11, <2>2 DEF Beside
  <2>4. wired[n] = headers[n]
    BY <1>10, <1>16, <2>2, <2>3 DEF Beside
  <2>5. CASE n # Beta \/ b.anthropic_beta = <<>>
    BY <1>11, <2>1, <2>3, <2>4, <2>5
  <2>6. CASE n = Beta /\ b.anthropic_beta # <<>>
    <3> DEFINE own == FlattenSeq(client[Beta])
               both == own \o b.anthropic_beta
    <3>1. headers[Beta] = <<Once(both)>>
      BY <1>11, <2>2, <2>6
    <3>2. client[Beta] \in Seq(Seq(STRING)) /\ b.anthropic_beta \in Seq(STRING)
      BY <1>16, <2>6 DEF ClientType, BackendType
    <3>3. own \in Seq(STRING)
      BY <3>2, FlattenCorrect
    <3> HIDE DEF own
    <3>4. both \in Seq(STRING) /\ ToSet(both) = ToSet(own) \cup ToSet(b.anthropic_beta)
      BY <3>2, <3>3, ConcatSet
    <3> HIDE DEF both
    <3>5. ToSet(Once(both)) = ToSet(both)
      BY <3>4, OnceCorrect
    <3>6. wired[n][1] = Once(both)
      BY <2>4, <2>6, <3>1
    <3> QED
      BY <2>6, <3>4, <3>5, <3>6 DEF own
  <2> QED
    BY <2>5, <2>6
<1>17. ASSUME NEW n \in DOMAIN dropped \cap DOMAIN sent
       PROVE  \/ sent[n].source \in {"credential", "transport"}
              \/ sent[n].source = "backend" /\ n = Beta
              \/ /\ sent[n].source = "backend"
                 /\ \E h \in ToSet(b.headers) :
                      h.name = n /\ wired[n] = <<Render(h.value, client)>>
  <2>1. CASE n = ContentLength \/ ours(n) \/ n \notin DOMAIN headers
    BY <1>10, <2>1 DEF Beside
  <2>2. CASE n # ContentLength /\ ~ours(n) /\ n \in DOMAIN headers
    <3>1. sent[n] = Shows(b, headers, n) /\ wired[n] = headers[n]
      BY <1>10, <2>2 DEF Beside
    <3>2. CASE n = Beta /\ b.anthropic_beta # <<>>
      BY <1>12, <2>2, <3>1, <3>2
    <3>3. CASE ~(n = Beta /\ b.anthropic_beta # <<>>)
      <4>1. n \in ForcedNames(b)
        BY <1>11, <1>13, <2>2, <3>3 DEF Crossing
      <4>2. sent[n].source = "backend" /\ wired[n] = <<ForcedValue(b, n, client)>>
        BY <1>11, <1>12, <2>2, <3>1, <3>3, <4>1
      <4> QED
        BY <4>1, <4>2, ForcedFrom
    <3> QED
      BY <3>2, <3>3
  <2> QED
    BY <2>1, <2>2
<1> QED
  BY <1>10, <1>14, <1>15, <1>16, <1>17 DEF Agree, Beside, Ours

-----------------------------------------------------------------------------
\* Refusals are strings, and a route is asked for after all else of the request is well.
LEMMA NoneApart ==
  None \notin Literals /\ None \notin Reasons /\ None \notin Errors /\ None \notin BodyErrors
  /\ None # "whole"
<1>1. None \notin Literals
  BY RequestsAssumption
<1> QED
  BY <1>1 DEF Literals

LEMMA Admitted ==
  ASSUME NEW route, None \notin Errors, session.arrives # None, session.path \notin Lists,
         Refusal(route) = None
  PROVE  /\ route # None /\ Prepared(route, messages) # None
         /\ <<"model">> \in DOMAIN session.fields
BY DEF Refusal, Errors

\* The session a request is of does not change, nor do its messages once it is handled.
Stands ==
  /\ session \in Sessions /\ Accepted(session.config)
  /\ phase \in {"handled", "sent"} =>
       /\ session.path \notin Lists /\ Refusal(Route) = None
       /\ request = [route |-> Route, headers |-> UpstreamHeaders(session.client, Route.backend),
                     body |-> Prepared(Route, messages)]
       /\ record.request_headers = SentHeaders(Route.backend, request.headers)
       /\ record.dropped_headers = DroppedHeaders(session.client, Route.backend)
  /\ phase = "sent" =>
       \E secret \in Secrets :
         /\ wire.headers = Attempted(Route.backend, request.headers, secret)
         /\ wire.body = request.body
         /\ wire.proxy = ProxyOf(session.config, Route.backend.url.origin)

LEMMA SameRequest ==
  ASSUME session' = session, messages' = messages
  PROVE  /\ Route' = Route /\ Lists' = Lists
         /\ Refusal(Route)' = Refusal(Route) /\ Prepared(Route, messages)' = Prepared(Route, messages)
<1>1. Route' = Route
  BY DEF Route, RouteOf, Model
<1>2. Prepared(Route, messages)' = Prepared(Route, messages)
  BY <1>1 DEF Prepared, Translated
<1>3. Refusal(Route)' = Refusal(Route)
  BY <1>1, <1>2 DEF Refusal, Authorized, Models, Routes, Lists, Model
<1> QED
  BY <1>1, <1>2, <1>3 DEF Lists

LEMMA StandsFirst == Init => Stands
BY DEF Init, Stands

LEMMA StandsNext == Stands /\ [Next]_vars => Stands'
<1> SUFFICES ASSUME Stands, [Next]_vars PROVE Stands'
  OBVIOUS
<1>1. session' = session
  BY DEF Next, Write, Refuse, Show, Handle, Send, Resend, Attempt, Fail, Respond, asked, vars
<1>2. session' \in Sessions /\ Accepted(session.config)'
  BY <1>1 DEF Stands
<1>3. CASE phase' \notin {"handled", "sent"}
  BY <1>2, <1>3 DEF Stands
<1>4. CASE Handle
  <2>1. messages' = messages /\ phase' = "handled"
    BY <1>4 DEF Handle
  <2>2. /\ session.path \notin Lists /\ Refusal(Route) = None
        /\ request' = [route |-> Route,
                       headers |-> UpstreamHeaders(session.client, Route.backend),
                       body |-> Prepared(Route, messages)]
        /\ record'.request_headers
             = SentHeaders(Route.backend, UpstreamHeaders(session.client, Route.backend))
        /\ record'.dropped_headers = DroppedHeaders(session.client, Route.backend)
    BY <1>4 DEF Handle
  <2> QED
    BY <1>1, <1>2, <2>1, <2>2, SameRequest DEF Stands
<1>5. ASSUME NEW secret \in Secrets, Attempt(secret), phase \in {"handled", "sent"}
      PROVE  Stands'
  <2>1. /\ messages' = messages /\ request' = request /\ record' = record /\ phase' = "sent"
        /\ wire'.headers = Attempted(request.route.backend, request.headers, secret)
        /\ wire'.body = request.body
        /\ wire'.proxy = ProxyOf(session.config, request.route.backend.url.origin)
    BY <1>5 DEF Attempt, asked
  <2>2. request.route = Route
    BY <1>5 DEF Stands
  <2> QED
    BY <1>1, <1>2, <1>5, <2>1, <2>2, SameRequest DEF Stands
<1>6. CASE UNCHANGED vars
  <2>1. messages' = messages /\ phase' = phase /\ request' = request /\ record' = record /\ wire' = wire
    BY <1>6 DEF vars, asked
  <2> QED
    BY <1>1, <1>2, <2>1, SameRequest DEF Stands
<1> QED
  BY <1>3, <1>4, <1>5, <1>6 DEF Next, Write, Refuse, Show, Send, Resend, Fail, Respond

-----------------------------------------------------------------------------
\* A model called by a name goes to a backend of the file.
LEMMA TableBackend ==
  ASSUME NEW c, Accepted(c), NEW name, Named(c, name) # {}
  PROVE  \E n \in DOMAIN c.backends : TableRoute(c, name).backend = c.backends[n]
<1> DEFINE m == CHOOSE m \in Named(c, name) : TRUE
<1>1. m \in ToSet(c.models)
  BY DEF Named
<1>2. m.backend \in DOMAIN c.backends
  BY <1>1 DEF Accepted, ValidModels
<1>3. TableRoute(c, name).backend = c.backends[m.backend]
  BY DEF TableRoute, RouteTo
<1> QED
  BY <1>2, <1>3

\* So does one a live backend tells.
LEMMA LiveBackend ==
  ASSUME NEW c, NEW tells, NEW name, BackendNames \in Seq(ToSet(BackendNames)),
         LiveCalled(c, tells, name) # None
  PROVE  \E n \in DOMAIN c.backends :
           LiveRoute(c, LiveCalled(c, tells, name)).backend = c.backends[n]
<1> DEFINE tellers == {i \in DOMAIN BackendNames :
                         IsLive(c, BackendNames[i]) /\ Telling(c, tells, name, i) # {}}
           first == Min(tellers)
<1>1. tellers # {} /\ LiveCalled(c, tells, name).backend = BackendNames[first]
  BY DEF LiveCalled
<1>2. \A i \in tellers : BackendNames[i] \in DOMAIN c.backends
  BY DEF IsLive
<1>3. DOMAIN BackendNames \subseteq Nat
  OBVIOUS
<1>4. tellers \subseteq Nat
  BY <1>3
<1> HIDE DEF tellers
<1>5. first \in tellers
  <2>1. \E x \in tellers : \A y \in tellers : x <= y
    BY <1>1, <1>4, LeastNumber
  <2> QED
    BY <2>1 DEF Min
<1> HIDE DEF first
<1>6. LiveRoute(c, LiveCalled(c, tells, name)).backend = c.backends[BackendNames[first]]
  BY <1>1 DEF LiveRoute
<1> QED
  BY <1>2, <1>5, <1>6

\* The default is a name of the table.
LEMMA DefaultNamed ==
  ASSUME NEW c, Accepted(c), FileType(c), c.default # None
  PROVE  Named(c, c.default) # {}
<1> DEFINE called == [i \in DOMAIN c.models |-> Called(c.models[i])]
<1>1. c.default \in ToSet(FlattenSeq(called))
  BY DEF Accepted, ValidModels, Names
<1>2. c.models \in Seq(ToSet(c.models))
  BY DEF FileType
<1>3. \A i \in DOMAIN c.models : Called(c.models[i]) \in Seq(STRING)
  <2> SUFFICES ASSUME NEW i \in DOMAIN c.models PROVE Called(c.models[i]) \in Seq(STRING)
    OBVIOUS
  <2>1. c.models[i].id \in STRING /\ c.models[i].aliases \in Seq(STRING)
    BY DEF FileType, ToSet
  <2> QED
    BY <2>1 DEF Called
<1>4. called \in Seq(Seq(STRING)) /\ DOMAIN called = DOMAIN c.models
  BY <1>2, <1>3
<1>5. \A i \in DOMAIN called : called[i] = Called(c.models[i])
  OBVIOUS
<1> HIDE DEF called
<1>6. ToSet(FlattenSeq(called)) = UNION {ToSet(called[i]) : i \in DOMAIN called}
  BY <1>4, FlattenCorrect
<1>7. PICK i \in DOMAIN c.models : c.default \in ToSet(Called(c.models[i]))
  BY <1>1, <1>4, <1>5, <1>6
<1> QED
  BY <1>7 DEF Named, ToSet

\* A route is to a backend of the file.
LEMMA RouteBackend ==
  ASSUME NEW c, Accepted(c), FileType(c), NEW tells, NEW name,
         BackendNames \in Seq(ToSet(BackendNames)), Routed(c, tells, name) # None
  PROVE  \E n \in DOMAIN c.backends : Routed(c, tells, name).backend = c.backends[n]
<1> DEFINE live == LiveCalled(c, tells, name)
<1>1. CASE Named(c, name) # {}
  <2>1. Routed(c, tells, name) = TableRoute(c, name)
    BY <1>1 DEF Routed
  <2> QED
    BY <1>1, <2>1, TableBackend
<1>2. CASE Named(c, name) = {} /\ live # None
  <2>1. Routed(c, tells, name) = LiveRoute(c, live)
    BY <1>2 DEF Routed
  <2> QED
    BY <1>2, <2>1, LiveBackend
<1>3. CASE Named(c, name) = {} /\ live = None
  <2>1. c.default # None /\ Routed(c, tells, name) = TableRoute(c, c.default)
    BY <1>3 DEF Routed
  <2> QED
    BY <2>1, DefaultNamed, TableBackend
<1> QED
  BY <1>1, <1>2, <1>3

-----------------------------------------------------------------------------
\* What stands between the file and the request once it is handled.
LEMMA OnItsWay ==
  ASSUME Stands, phase \in {"handled", "sent"}
  PROVE  /\ SessionType(session) /\ Accepted(session.config)
         /\ Route # None /\ request.route = Route
         /\ \E n \in DOMAIN session.config.backends : Route.backend = session.config.backends[n]
         /\ BackendType(Route.backend) /\ ValidBackend(Route.backend)
         /\ <<"model">> \in DOMAIN session.fields
         /\ Prepared(Route, messages) # None /\ request.body = Prepared(Route, messages)
<1>1. SessionType(session) /\ Accepted(session.config)
  BY RequestsAssumption DEF Stands
<1>2. /\ Route # None /\ Prepared(Route, messages) # None /\ <<"model">> \in DOMAIN session.fields
  BY <1>1, Admitted, NoneApart DEF Stands, SessionType
<1>3. Route = Routed(session.config, session.tells, Model)
  BY <1>2 DEF Route, RouteOf
<1>4. PICK n \in DOMAIN session.config.backends : Route.backend = session.config.backends[n]
  <2>1. FileType(session.config) /\ BackendNames \in Seq(ToSet(BackendNames))
    BY <1>1, RequestsAssumption DEF SessionType
  <2> QED
    BY <1>1, <1>2, <1>3, <2>1, RouteBackend
<1>5. BackendType(Route.backend) /\ ValidBackend(Route.backend)
  BY <1>1, <1>4 DEF SessionType, FileType, Accepted
<1> QED
  BY <1>1, <1>2, <1>4, <1>5 DEF Stands

\* What the record says was sent is what was.
LEMMA RecordedAlways == Stands => HeadersRecorded
<1> SUFFICES ASSUME Stands, phase = "sent" PROVE HeadersRecorded
  BY DEF HeadersRecorded
<1> DEFINE b == Route.backend
           client == session.client
<1>1. PICK secret \in Secrets : wire.headers = Attempted(b, request.headers, secret)
  BY DEF Stands
<1>2. /\ request.route.backend = b /\ request.headers = UpstreamHeaders(client, b)
      /\ record.request_headers = SentHeaders(b, request.headers)
      /\ record.dropped_headers = DroppedHeaders(client, b)
  BY DEF Stands
<1>3. BackendType(b) /\ ClientType(client) /\ None \notin Reasons
  BY OnItsWay, NoneApart DEF SessionType, ClientType
<1> HIDE DEF b, client
<1>4. Agree(b, client, record.request_headers, wire.headers, record.dropped_headers)
  BY <1>1, <1>2, <1>3, HeadersAgree
<1> QED
  BY <1>2, <1>4 DEF HeadersRecorded, Agree, client

-----------------------------------------------------------------------------
\* The backend is reached through its own proxy: those that share its origin share it.
LEMMA OwnProxy ==
  ASSUME NEW c, OneProxyPerOrigin(c), NEW n \in DOMAIN c.backends
  PROVE  ProxyOf(c, c.backends[n].url.origin) = c.backends[n].proxy
<1> DEFINE origin == c.backends[n].url.origin
           named == {k \in DOMAIN c.backends :
                       c.backends[k].url.origin = origin /\ c.backends[k].proxy # None}
<1>1. CASE named = {}
  BY <1>1 DEF ProxyOf
<1>2. CASE named # {}
  <2> DEFINE k == CHOOSE k \in named : TRUE
  <2>1. k \in named
    BY <1>2
  <2>2. c.backends[k].proxy = c.backends[n].proxy
    BY <2>1 DEF OneProxyPerOrigin
  <2>3. ProxyOf(c, origin) = c.backends[k].proxy
    BY <1>2 DEF ProxyOf
  <2> QED
    BY <2>2, <2>3
<1> QED
  BY <1>1, <1>2

\* Prefixes of paths.
LEMMA OwnPrefix ==
  ASSUME NEW p \in Seq(STRING)
  PROVE  IsPrefix(p, p)
BY DEF IsPrefix

LEMMA FirstOfPrefix ==
  ASSUME NEW p \in Seq(STRING) \ {<<>>}, NEW q \in Seq(STRING) \ {<<>>}, IsPrefix(p, q)
  PROVE  p[1] = q[1]
<1>1. Len(p) >= 1 /\ Len(q) >= 1
  OBVIOUS
<1>2. SubSeq(p, 1, Len(p))[1] = p[1] /\ SubSeq(q, 1, Len(p))[1] = q[1]
  BY <1>1 DEF IsPrefix
<1> QED
  BY <1>2 DEF IsPrefix

-----------------------------------------------------------------------------
\* SetAll, of fields no two of which are at one path.
Single(set) == \A f, g \in set : f.path = g.path => f = g

SetFits(fields, set, paths, out) ==
  /\ DOMAIN out = {q \in DOMAIN fields : ~Meets(q, paths)} \cup paths
  /\ \A f \in set : out[f.path] = f.value
  /\ \A q \in DOMAIN fields : ~Meets(q, paths) /\ q \notin paths => out[q] = fields[q]

LEMMA SetCorrect ==
  ASSUME NEW fields, NEW set, Single(set), NEW out, out = SetAll(fields, set),
         NEW paths, paths = {f.path : f \in set}
  PROVE  SetFits(fields, set, paths, out)
<1> DEFINE value(path) == (CHOOSE f \in set : f.path = path).value
           kept == {q \in DOMAIN fields : ~Meets(q, paths)}
           made == [p \in kept \cup paths |-> IF p \in paths THEN value(p) ELSE fields[p]]
<1>1. out = made
  BY DEF SetAll
<1>2. DOMAIN made = kept \cup paths
  OBVIOUS
<1>3. \A p \in kept \cup paths : made[p] = IF p \in paths THEN value(p) ELSE fields[p]
  OBVIOUS
<1> HIDE DEF made
<1>4. ASSUME NEW f \in set PROVE out[f.path] = f.value
  <2>1. f.path \in paths
    OBVIOUS
  <2>2. (CHOOSE g \in set : g.path = f.path) = f
    BY DEF Single
  <2>3. value(f.path) = f.value
    BY <2>2
  <2> HIDE DEF value
  <2> QED
    BY <1>1, <1>3, <2>1, <2>3
<1>5. ASSUME NEW q \in DOMAIN fields, ~Meets(q, paths), q \notin paths PROVE out[q] = fields[q]
  BY <1>1, <1>3, <1>5
<1> QED
  BY <1>1, <1>2, <1>4, <1>5 DEF SetFits

-----------------------------------------------------------------------------
\* The paths of a backend's fields: apart from each other, and from the model's.
LEMMA LeafType ==
  ASSUME NEW b, BackendType(b), NEW i \in DOMAIN b.set_fields
  PROVE  Leaf(b.set_fields[i]) \in Seq(STRING) \ {<<>>}
<1> DEFINE keys == b.set_fields[i].keys
<1>1. keys \in Seq(Seq(STRING) \ {<<>>}) \ {<<>>}
  <2> DEFINE F == [keys : Seq(Seq(STRING) \ {<<>>}) \ {<<>>}, value : Templates]
             s == b.set_fields
  <2>1. s \in Seq(F) /\ i \in DOMAIN s
    BY DEF BackendType
  <2> HIDE DEF s, F
  <2>2. s[i] \in F
    BY <2>1
  <2> QED
    BY <2>2 DEF s, F
<1>2. keys \in Seq(Seq(STRING)) /\ 1 \in DOMAIN keys /\ keys[1] \in Seq(STRING) \ {<<>>}
  BY <1>1
<1> HIDE DEF keys
<1>3. /\ FlattenSeq(keys) \in Seq(STRING)
      /\ ToSet(FlattenSeq(keys)) = UNION {ToSet(keys[k]) : k \in DOMAIN keys}
  BY <1>2, FlattenCorrect
<1>4. keys[1][1] \in ToSet(keys[1])
  BY <1>2 DEF ToSet
<1>5. ToSet(FlattenSeq(keys)) # {}
  BY <1>2, <1>3, <1>4
<1>6. FlattenSeq(keys) # <<>>
  BY <1>5 DEF ToSet
<1> QED
  BY <1>3, <1>6 DEF Leaf, keys

LEMMA FieldsApart ==
  ASSUME NEW b, BackendType(b), ValidBackend(b), NEW client, NEW set, set = Resolve(b, client)
  PROVE  /\ Single(set)
         /\ \A f \in set : /\ f.path \in Seq(STRING) \ {<<>>}
                           /\ f.path[1] \notin {"model", "stream"}
<1>1. \A i, j \in DOMAIN b.set_fields : i # j => ~IsPrefix(Leaf(b.set_fields[i]), Leaf(b.set_fields[j]))
  <2> DEFINE paths == SetPaths(b)
  <2>1. ~Overlaps(paths)
    BY DEF ValidBackend, ValidFields
  <2>2. DOMAIN paths = DOMAIN b.set_fields /\ \A i \in DOMAIN b.set_fields : paths[i] = Leaf(b.set_fields[i])
    BY DEF SetPaths
  <2> HIDE DEF paths
  <2> QED
    BY <2>1, <2>2 DEF Overlaps
<1>2. ASSUME NEW f \in set
      PROVE  \E i \in DOMAIN b.set_fields :
               /\ f = [path |-> Leaf(b.set_fields[i]), value |-> Render(b.set_fields[i].value, client)]
               /\ f.path = Leaf(b.set_fields[i])
  BY DEF Resolve, ToSet
<1>3. ASSUME NEW f \in set
      PROVE  f.path \in Seq(STRING) \ {<<>>} /\ f.path[1] \notin {"model", "stream"}
  <2>1. PICK i \in DOMAIN b.set_fields : f.path = Leaf(b.set_fields[i])
    BY <1>2
  <2>2. FieldOK(b.set_fields[i])
    BY DEF ValidBackend, ValidFields
  <2> QED
    BY <2>1, <2>2, LeafType DEF FieldOK
<1>4. ASSUME NEW f \in set, NEW g \in set, f.path = g.path PROVE f = g
  <2>1. PICK i \in DOMAIN b.set_fields :
          /\ f = [path |-> Leaf(b.set_fields[i]), value |-> Render(b.set_fields[i].value, client)]
          /\ f.path = Leaf(b.set_fields[i])
    BY <1>2
  <2>2. PICK j \in DOMAIN b.set_fields :
          /\ g = [path |-> Leaf(b.set_fields[j]), value |-> Render(b.set_fields[j].value, client)]
          /\ g.path = Leaf(b.set_fields[j])
    BY <1>2
  <2>3. IsPrefix(Leaf(b.set_fields[i]), Leaf(b.set_fields[j]))
    BY <1>3, <1>4, <2>1, <2>2, OwnPrefix
  <2> QED
    BY <1>1, <2>1, <2>2, <2>3
<1> QED
  BY <1>3, <1>4 DEF Single

-----------------------------------------------------------------------------
\* The leaves of an object.
Leaves(fields) ==
  /\ DOMAIN fields \subseteq Seq(STRING) \ {<<>>}
  /\ \A p, q \in DOMAIN fields : IsPrefix(p, q) => p = q

\* A backend of Messages requests is sent the client's fields, but for those that are
\* dropped or set and the model.
RelayedFits(fields, route, set, paths, kept, out) ==
  /\ \A f \in set : f.path \in DOMAIN out /\ out[f.path] = f.value
  /\ <<"model">> \in DOMAIN out /\ out[<<"model">>] = <<route.upstream_model>>
  /\ \A p \in kept \ {<<"model">>} : p \in DOMAIN out /\ out[p] = fields[p]
  /\ DOMAIN out \subseteq kept \cup paths \cup {<<"model">>}

LEMMA RelayedCorrect ==
  ASSUME NEW fields, Leaves(fields), <<"model">> \in DOMAIN fields,
         NEW route, NEW set, Single(set), NEW paths, paths = {f.path : f \in set},
         ~Meets(<<"model">>, paths), NEW out, out = Relayed(fields, route, set),
         NEW kept, kept = {p \in DOMAIN fields :
                             ~Under(p, route.backend.drop_fields) /\ ~Meets(p, paths)}
  PROVE  RelayedFits(fields, route, set, paths, kept, out)
<1> DEFINE dropped == DropAll(fields, route.backend.drop_fields)
           model == [path |-> <<"model">>, value |-> <<route.upstream_model>>]
           renamed == SetAll(dropped, {model})
<1>1. out = SetAll(renamed, set)
  BY DEF Relayed, Renamed
<1>2. /\ DOMAIN dropped = {p \in DOMAIN fields : ~Under(p, route.backend.drop_fields)}
      /\ \A p \in DOMAIN dropped : dropped[p] = fields[p]
  BY DEF DropAll, Restrict
<1> HIDE DEF dropped
<1>3. /\ DOMAIN renamed = {q \in DOMAIN dropped : ~Meets(q, {<<"model">>})} \cup {<<"model">>}
      /\ renamed[<<"model">>] = <<route.upstream_model>>
      /\ \A q \in DOMAIN dropped : ~Meets(q, {<<"model">>}) /\ q \notin {<<"model">>} =>
           renamed[q] = dropped[q]
  <2>1. Single({model}) /\ {<<"model">>} = {f.path : f \in {model}}
    BY DEF Single
  <2>2. model.path = <<"model">> /\ model.value = <<route.upstream_model>>
    OBVIOUS
  <2> HIDE DEF model
  <2> DEFINE only == {model}
             at == {<<"model">>}
  <2>3. Single(only) /\ at = {f.path : f \in only} /\ renamed = SetAll(dropped, only)
    BY <2>1
  <2>4. model \in only
    OBVIOUS
  <2> HIDE DEF only, at, renamed
  <2>5. /\ DOMAIN renamed = {q \in DOMAIN dropped : ~Meets(q, at)} \cup at
        /\ \A f \in only : renamed[f.path] = f.value
        /\ \A q \in DOMAIN dropped : ~Meets(q, at) /\ q \notin at => renamed[q] = dropped[q]
    <3>1. SetFits(dropped, only, at, renamed)
      BY <2>3, SetCorrect
    <3> QED
      BY <3>1 DEF SetFits
  <2> QED
    BY <2>2, <2>4, <2>5 DEF at
<1> HIDE DEF renamed
<1>4. \A q \in DOMAIN dropped \ {<<"model">>} : ~Meets(q, {<<"model">>})
  BY <1>2 DEF Leaves, Meets
<1>5. DOMAIN renamed = DOMAIN dropped \cup {<<"model">>}
  <2>1. \A q \in DOMAIN renamed : q \in DOMAIN dropped \cup {<<"model">>}
    BY <1>3
  <2>2. \A q \in DOMAIN dropped \cup {<<"model">>} : q \in DOMAIN renamed
    BY <1>3, <1>4
  <2> QED
    BY <2>1, <2>2
<1>6. \A q \in DOMAIN dropped \ {<<"model">>} : renamed[q] = fields[q]
  BY <1>2, <1>3, <1>4
<1>7. /\ DOMAIN out = {q \in DOMAIN renamed : ~Meets(q, paths)} \cup paths
      /\ \A f \in set : out[f.path] = f.value
      /\ \A q \in DOMAIN renamed : ~Meets(q, paths) /\ q \notin paths => out[q] = renamed[q]
  <2>1. SetFits(renamed, set, paths, out)
    BY <1>1, SetCorrect
  <2> QED
    BY <2>1 DEF SetFits
<1>8. \A f \in set : f.path \in paths
  OBVIOUS
<1>9. \A p \in paths : p \in Seq(STRING) => Meets(p, paths)
  BY OwnPrefix DEF Meets
<1>10. <<"model">> \notin paths
  <2>1. <<"model">> \in Seq(STRING)
    BY DEF Leaves
  <2> QED
    BY <1>9, <2>1
<1>11. ASSUME NEW p \in kept \ {<<"model">>} PROVE p \in DOMAIN out /\ out[p] = fields[p]
  <2>1. p \in DOMAIN dropped \ {<<"model">>} /\ ~Meets(p, paths) /\ p \in Seq(STRING)
    BY <1>2 DEF Leaves
  <2>2. p \notin paths
    BY <1>9, <2>1
  <2> QED
    BY <1>5, <1>6, <1>7, <2>1, <2>2
<1>12. DOMAIN out \subseteq kept \cup paths \cup {<<"model">>}
  BY <1>2, <1>5, <1>7
<1> QED
  BY <1>3, <1>5, <1>7, <1>8, <1>10, <1>11, <1>12 DEF RelayedFits

-----------------------------------------------------------------------------
\* A Chat Completions backend is sent a parameter for each that is written.
LEMMA ChatCorrect ==
  ASSUME NEW fields, NEW model, NEW out, out = ChatFields(fields, model)
  PROVE  /\ <<"model">> \in DOMAIN out /\ out[<<"model">>] = <<model>>
         /\ \A p \in DOMAIN fields \cap DOMAIN Parameter :
              Written(fields, p) => Parameter[p] \in DOMAIN out
         /\ \A q \in DOMAIN out :
              ToSet(out[q]) \subseteq {model} \cup OwnWords \cup OfFields(fields)
<1>1. <<"model">> \in DOMAIN out
  BY DEF ChatFields
<1>2. out[<<"model">>] = <<model>>
  BY DEF ChatFields
<1>3. \A p \in DOMAIN fields \cap DOMAIN Parameter :
        Written(fields, p) => Parameter[p] \in DOMAIN out
  BY DEF ChatFields
<1>4. ASSUME NEW q \in DOMAIN out
      PROVE  \/ out[q] \in {<<model>>, <<"true">>, <<"false">>, <<"high">>, <<"required">>}
             \/ \E p \in DOMAIN fields : out[q] = fields[p]
  <2> DEFINE said == {p \in DOMAIN fields \cap DOMAIN Parameter : Written(fields, p)}
             from == CHOOSE p \in said : Parameter[p] = q
  <2>1. \/ out[q] \in {<<model>>, <<"true">>, <<"false">>}
        \/ q \in {Parameter[p] : p \in said} /\ out[q] = ValueOf(from, fields[from])
    BY DEF ChatFields
  <2>2. ASSUME q \in {Parameter[p] : p \in said} PROVE from \in said
    BY <2>2
  <2>3. from \in said => from \in DOMAIN fields
    OBVIOUS
  <2> HIDE DEF from, said
  <2>4. ValueOf(from, fields[from]) \in {<<"false">>, <<"high">>, <<"required">>, fields[from]}
    BY DEF ValueOf
  <2> QED
    BY <2>1, <2>2, <2>3, <2>4
<1>5. ASSUME NEW q \in DOMAIN out
      PROVE  ToSet(out[q]) \subseteq {model} \cup OwnWords \cup OfFields(fields)
  <2>1. CASE \E p \in DOMAIN fields : out[q] = fields[p]
    BY <2>1 DEF OfFields
  <2>2. CASE out[q] \in {<<model>>, <<"true">>, <<"false">>, <<"high">>, <<"required">>}
    <3>1. \A word : ToSet(<<word>>) = {word}
      BY DEF ToSet
    <3> QED
      BY <2>2, <3>1 DEF OwnWords
  <2> QED
    BY <1>4, <2>1, <2>2
<1> QED
  BY <1>1, <1>2, <1>3, <1>5

\* A parameter that is there and is not dropped is written as it would be with none dropped.
LEMMA WrittenStill ==
  ASSUME NEW fields, NEW dropped, DOMAIN dropped \subseteq DOMAIN fields,
         DOMAIN fields \subseteq Seq(STRING) \ {<<>>},
         \A p \in DOMAIN dropped : dropped[p] = fields[p], ~Mistyped(dropped),
         NEW p \in DOMAIN dropped, Written(fields, p)
  PROVE  Written(dropped, p)
<1>1. CASE p = <<"tool_choice", "name">>
  <2>1. <<"tool_choice", "type">> \in DOMAIN dropped
    BY <1>1 DEF Mistyped
  <2> QED
    BY <1>1, <2>1 DEF Written
<1>2. CASE p # <<"tool_choice", "name">>
  BY <1>2 DEF Written
<1> QED
  BY <1>1, <1>2

-----------------------------------------------------------------------------
\* No set field is at, over or under the model's.
LEMMA ModelApart ==
  ASSUME NEW set, NEW paths, paths = {f.path : f \in set},
         \A f \in set : f.path \in Seq(STRING) \ {<<>>} /\ f.path[1] \notin {"model", "stream"},
         <<"model">> \in Seq(STRING) \ {<<>>}
  PROVE  ~Meets(<<"model">>, paths)
<1>1. <<"model">>[1] = "model"
  OBVIOUS
<1>2. \A f \in set : ~IsPrefix(f.path, <<"model">>) /\ ~IsPrefix(<<"model">>, f.path)
  BY <1>1, FirstOfPrefix
<1> QED
  BY <1>2 DEF Meets

\* What a translated request's fields are.
ChatFits(route, set, paths, out) ==
  /\ \A f \in set : f.path \in DOMAIN out /\ out[f.path] = f.value
  /\ out[<<"model">>] = <<route.upstream_model>>
  /\ \A p \in DOMAIN session.fields \cap DOMAIN Parameter :
       ~Under(p, route.backend.drop_fields) =>
         \/ Meets(Parameter[p], paths) \/ ~Written(session.fields, p)
         \/ Parameter[p] \in DOMAIN out
  /\ \A q \in DOMAIN out \ paths :
       ToSet(out[q]) \subseteq {route.upstream_model} \cup OwnWords \cup OfFields(session.fields)

LEMMA TranslatedCorrect ==
  ASSUME NEW route, Translated(route, messages) # None, Leaves(session.fields),
         NEW set, set = Resolve(route.backend, session.client), Single(set),
         NEW paths, paths = {f.path : f \in set}, ~Meets(<<"model">>, paths),
         \A f \in set : f.path \in Seq(STRING),
         NEW out, out = Translated(route, messages).fields
  PROVE  ChatFits(route, set, paths, out)
<1> DEFINE dropped == DropAll(session.fields, route.backend.drop_fields)
           chat == ChatFields(dropped, route.upstream_model)
<1>1. ~Mistyped(dropped) /\ out = SetAll(chat, set)
  BY DEF Translated
<1>2. /\ DOMAIN dropped = {p \in DOMAIN session.fields : ~Under(p, route.backend.drop_fields)}
      /\ \A p \in DOMAIN dropped : dropped[p] = session.fields[p]
  BY DEF DropAll, Restrict
<1>3. chat = ChatFields(dropped, route.upstream_model)
  OBVIOUS
<1> HIDE DEF dropped, chat
<1>4. /\ <<"model">> \in DOMAIN chat /\ chat[<<"model">>] = <<route.upstream_model>>
      /\ \A p \in DOMAIN dropped \cap DOMAIN Parameter :
           Written(dropped, p) => Parameter[p] \in DOMAIN chat
      /\ \A q \in DOMAIN chat :
           ToSet(chat[q]) \subseteq {route.upstream_model} \cup OwnWords \cup OfFields(dropped)
  BY <1>3, ChatCorrect
<1>5. SetFits(chat, set, paths, out)
  BY <1>1, SetCorrect
<1>6. /\ DOMAIN out = {q \in DOMAIN chat : ~Meets(q, paths)} \cup paths
      /\ \A f \in set : out[f.path] = f.value
      /\ \A q \in DOMAIN chat : ~Meets(q, paths) /\ q \notin paths => out[q] = chat[q]
  BY <1>5 DEF SetFits
<1>7. <<"model">> \notin paths
  <2>1. \A p \in paths : Meets(p, paths)
    BY OwnPrefix DEF Meets
  <2> QED
    BY <2>1
<1>8. out[<<"model">>] = <<route.upstream_model>>
  BY <1>4, <1>6, <1>7
<1>9. \A f \in set : f.path \in DOMAIN out /\ out[f.path] = f.value
  BY <1>6
<1>10. ASSUME NEW p \in DOMAIN session.fields \cap DOMAIN Parameter,
              ~Under(p, route.backend.drop_fields), ~Meets(Parameter[p], paths),
              Written(session.fields, p)
       PROVE  Parameter[p] \in DOMAIN out
  <2>1. p \in DOMAIN dropped
    BY <1>2, <1>10
  <2>2. Written(dropped, p)
    BY <1>1, <1>2, <1>10, <2>1, WrittenStill DEF Leaves
  <2> QED
    BY <1>4, <1>6, <1>10, <2>1, <2>2
<1>11. ASSUME NEW q \in DOMAIN out \ paths
       PROVE  ToSet(out[q])
                \subseteq {route.upstream_model} \cup OwnWords \cup OfFields(session.fields)
  <2>1. OfFields(dropped) \subseteq OfFields(session.fields)
    BY <1>2 DEF OfFields
  <2>2. q \in DOMAIN chat /\ out[q] = chat[q]
    BY <1>6
  <2> QED
    BY <1>4, <2>1, <2>2
<1> QED
  BY <1>8, <1>9, <1>10, <1>11 DEF ChatFits

-----------------------------------------------------------------------------
\* What the body of a request that is sent is.
BodyFits(b, set, paths, kept, fields) ==
  CASE b.kind = "passthrough" -> set = {} /\ fields = session.fields
    [] b.kind = "anthropic" -> RelayedFits(session.fields, Route, set, paths, kept, fields)
    [] b.kind = "openai" -> ChatFits(Route, set, paths, fields)

LEMMA BodyCorrect ==
  ASSUME Stands, phase = "sent", NEW b, b = Route.backend,
         NEW set, set = Resolve(b, session.client), NEW paths, paths = {f.path : f \in set},
         NEW fields, fields = wire.body.fields,
         NEW kept, kept = {p \in DOMAIN session.fields :
                             ~Under(p, b.drop_fields) /\ ~Meets(p, paths)}
  PROVE  BodyFits(b, set, paths, kept, fields)
<1>1. /\ SessionType(session) /\ Accepted(session.config)
      /\ BackendType(b) /\ ValidBackend(b)
      /\ <<"model">> \in DOMAIN session.fields
      /\ Prepared(Route, messages) # None /\ request.body = Prepared(Route, messages)
  BY OnItsWay
<1>2. wire.body = Prepared(Route, messages)
  BY <1>1 DEF Stands
<1>3. Leaves(session.fields) /\ <<"model">> \in Seq(STRING) \ {<<>>}
  BY <1>1 DEF SessionType, Leaves
<1>4. b.kind \in {"anthropic", "openai", "passthrough"}
  BY <1>1 DEF BackendType
<1>5. /\ Single(set)
      /\ \A f \in set : f.path \in Seq(STRING) \ {<<>>} /\ f.path[1] \notin {"model", "stream"}
  BY <1>1, FieldsApart
<1>6. ~Meets(<<"model">>, paths)
  BY <1>3, <1>5, ModelApart
<1>7. CASE b.kind = "passthrough"
  <2>1. fields = session.fields
    BY <1>2, <1>7 DEF Prepared
  <2>2. set = {}
    BY <1>1, <1>7 DEF ValidBackend, ValidKind, Resolve, ToSet
  <2> QED
    BY <1>7, <2>1, <2>2 DEF BodyFits
<1>8. CASE b.kind = "anthropic"
  <2>1. fields = Relayed(session.fields, Route, set)
    BY <1>2, <1>8 DEF Prepared
  <2>2. RelayedFits(session.fields, Route, set, paths, kept, fields)
    BY <1>3, <1>1, <1>5, <1>6, <2>1, RelayedCorrect
  <2> QED
    BY <1>8, <2>2 DEF BodyFits
<1>9. CASE b.kind = "openai"
  <2>1. Prepared(Route, messages) = Translated(Route, messages)
    BY <1>9 DEF Prepared
  <2>2. fields = Translated(Route, messages).fields /\ Translated(Route, messages) # None
    BY <1>1, <1>2, <2>1
  <2>3. ChatFits(Route, set, paths, fields)
    BY <1>3, <1>5, <1>6, <2>2, TranslatedCorrect
  <2> QED
    BY <1>9, <2>3 DEF BodyFits
<1> QED
  BY <1>4, <1>7, <1>8, <1>9

\* A backend is sent what its configuration says.
LEMMA ConfiguredAlways == Stands => SentAsConfigured
<1> SUFFICES ASSUME Stands, phase = "sent" PROVE SentAsConfigured
  BY DEF SentAsConfigured
<1> DEFINE b == Route.backend
           set == Resolve(b, session.client)
           paths == {f.path : f \in set}
           fields == wire.body.fields
           kept == {p \in DOMAIN session.fields : ~Under(p, b.drop_fields) /\ ~Meets(p, paths)}
<1>1. /\ SessionType(session) /\ Accepted(session.config) /\ request.route = Route
      /\ b.kind \in {"anthropic", "openai", "passthrough"}
  BY OnItsWay DEF BackendType
<1>2. wire.proxy = b.proxy
  <2>1. PICK n \in DOMAIN session.config.backends : b = session.config.backends[n]
    BY OnItsWay
  <2>2. OneProxyPerOrigin(session.config) /\ wire.proxy = ProxyOf(session.config, b.url.origin)
    BY <1>1 DEF Accepted, Stands
  <2> QED
    BY <2>1, <2>2, OwnProxy
<1>3. /\ b = Route.backend /\ set = Resolve(b, session.client) /\ paths = {f.path : f \in set}
      /\ fields = wire.body.fields
      /\ kept = {p \in DOMAIN session.fields : ~Under(p, b.drop_fields) /\ ~Meets(p, paths)}
  OBVIOUS
<1> HIDE DEF b, set, paths, fields, kept
<1>4. BodyFits(b, set, paths, kept, fields)
  BY <1>3, BodyCorrect
<1>5. CASE b.kind = "passthrough"
  BY <1>1, <1>2, <1>4, <1>5 DEF BodyFits, SentAsConfigured, b, set, paths, fields
<1>6. CASE b.kind = "anthropic"
  BY <1>1, <1>2, <1>4, <1>6 DEF BodyFits, RelayedFits, SentAsConfigured, b, set, paths, fields, kept
<1>7. CASE b.kind = "openai"
  BY <1>1, <1>2, <1>4, <1>7 DEF BodyFits, ChatFits, SentAsConfigured, b, set, paths, fields, kept
<1> QED
  BY <1>1, <1>5, <1>6, <1>7

-----------------------------------------------------------------------------
Spelled(template) == {p.text : p \in {q \in ToSet(template) : "text" \in DOMAIN q}}

LEMMA OfBackendIs ==
  ASSUME NEW b
  PROVE  /\ b.url.origin \in OfBackend(b) /\ ToSet(b.anthropic_beta) \subseteq OfBackend(b)
         /\ b.credential # None => ToSet(b.credential.scheme) \subseteq OfBackend(b)
         /\ \A h \in ToSet(b.headers) \cup ToSet(b.set_fields) : Spelled(h.value) \subseteq OfBackend(b)
<1> USE DEF OfBackend, Spelled
<1>1. b.url.origin \in OfBackend(b) /\ ToSet(b.anthropic_beta) \subseteq OfBackend(b)
  OBVIOUS
<1>2. b.credential # None => ToSet(b.credential.scheme) \subseteq OfBackend(b)
  OBVIOUS
<1>3. \A h \in ToSet(b.headers) \cup ToSet(b.set_fields) : Spelled(h.value) \subseteq OfBackend(b)
  OBVIOUS
<1> QED
  BY <1>1, <1>2, <1>3

\* The words of headers.
Words(value) == ToSet(FlattenSeq(value))

LEMMA WordsOf ==
  ASSUME NEW value \in Seq(Seq(STRING))
  PROVE  /\ FlattenSeq(value) \in Seq(STRING)
         /\ \A i \in DOMAIN value : ToSet(value[i]) \subseteq Words(value)
         /\ Words(value) = UNION {ToSet(value[i]) : i \in DOMAIN value}
<1>1. /\ FlattenSeq(value) \in Seq(STRING)
      /\ ToSet(FlattenSeq(value)) = UNION {ToSet(value[i]) : i \in DOMAIN value}
  BY FlattenCorrect
<1> QED
  BY <1>1 DEF Words

LEMMA WordsOfOne ==
  ASSUME NEW s \in Seq(STRING)
  PROVE  <<s>> \in Seq(Seq(STRING)) /\ Words(<<s>>) = ToSet(s)
<1> DEFINE v == <<s>>
<1>1. v \in Seq(Seq(STRING)) /\ DOMAIN v = {1} /\ v[1] = s
  OBVIOUS
<1> HIDE DEF v
<1>2. Words(v) = ToSet(s)
  BY <1>1, WordsOf
<1> QED
  BY <1>1, <1>2 DEF v

LEMMA ClientWords ==
  ASSUME NEW client, ClientType(client), NEW n \in DOMAIN client
  PROVE  /\ client[n] \in Seq(Seq(STRING)) /\ 1 \in DOMAIN client[n] /\ client[n][1] \in Seq(STRING)
         /\ ToSet(client[n][1]) \subseteq Words(client[n])
         /\ n \notin Credentials => Words(client[n]) \subseteq OfClient(client)
<1> DEFINE value == client[n]
<1>1. value \in Seq(Seq(STRING)) \ {<<>>}
  BY DEF ClientType
<1>2. n \notin Credentials => Words(value) \subseteq OfClient(client)
  BY DEF OfClient, Tokens, Restrict, Words
<1> HIDE DEF value
<1>3. value \in Seq(Seq(STRING)) /\ 1 \in DOMAIN value /\ value[1] \in Seq(STRING)
  BY <1>1
<1>4. ToSet(value[1]) \subseteq Words(value)
  BY <1>3, WordsOf
<1> QED
  BY <1>2, <1>3, <1>4 DEF value

\* A template that is filled has its own words and those of headers of the client's that are
\* not its credential.
LEMMA RenderWords ==
  ASSUME NEW client, ClientType(client), NEW template \in Templates, TemplateOK(template),
         NEW value, value = Render(template, client), value # None
  PROVE  /\ value \in Seq(STRING)
         /\ ToSet(value) \subseteq Spelled(template) \cup OfClient(client)
<1> DEFINE part(i) == IF "text" \in DOMAIN template[i] THEN <<template[i].text>>
                      ELSE client[template[i].header][1]
           parts == [i \in DOMAIN template |-> part(i)]
<1>1. /\ \A name \in Reads(template) : name \in DOMAIN client /\ client[name][1] # <<>>
      /\ value = FlattenSeq(parts)
  BY DEF Render
<1>2. ASSUME NEW i \in DOMAIN template
      PROVE  /\ part(i) \in Seq(STRING)
             /\ ToSet(part(i)) \subseteq Spelled(template) \cup OfClient(client)
  <2> DEFINE p == template[i]
  <2>1. p \in [text : STRING] \/ p \in [header : Seq(STRING)]
    BY DEF Templates
  <2>2. p \in ToSet(template)
    BY DEF ToSet
  <2>3. CASE p \in [text : STRING]
    <3>1. "text" \in DOMAIN p /\ p.text \in STRING
      BY <2>3
    <3>2. p.text \in Spelled(template)
      BY <2>2, <3>1 DEF Spelled
    <3>3. part(i) = <<p.text>>
      BY <3>1
    <3> HIDE DEF p
    <3>4. <<p.text>> \in Seq(STRING) /\ ToSet(<<p.text>>) = {p.text}
      BY <3>1 DEF ToSet
    <3> HIDE DEF part
    <3> QED
      BY <3>2, <3>3, <3>4
  <2>4. CASE p \in [header : Seq(STRING)]
    <3>1. "text" \notin DOMAIN p /\ "header" \in DOMAIN p
      BY <2>4
    <3>2. p.header \in Reads(template)
      BY <2>2, <3>1 DEF Reads
    <3>3. p.header \in DOMAIN client /\ p.header \notin Credentials
      BY <1>1, <3>2 DEF TemplateOK, ClientCredentials, Credentials
    <3>4. part(i) = client[p.header][1]
      BY <3>1
    <3> HIDE DEF p
    <3>5. /\ client[p.header][1] \in Seq(STRING)
          /\ ToSet(client[p.header][1]) \subseteq OfClient(client)
      BY <3>3, ClientWords
    <3> QED
      BY <3>4, <3>5
  <2> QED
    BY <2>1, <2>3, <2>4
<1>3. parts \in Seq(Seq(STRING)) /\ DOMAIN parts = DOMAIN template
      /\ \A i \in DOMAIN template : parts[i] = part(i)
  <2>1. template \in Seq([text : STRING] \cup [header : Seq(STRING)])
    BY DEF Templates
  <2> HIDE DEF part
  <2>2. DOMAIN template = 1..Len(template) /\ Len(template) \in Nat
    BY <2>1
  <2> QED
    BY <1>2, <2>2
<1> HIDE DEF part, parts
<1>4. FlattenSeq(parts) \in Seq(STRING) /\ Words(parts) = UNION {ToSet(parts[i]) : i \in DOMAIN parts}
  BY <1>3, WordsOf
<1> QED
  BY <1>1, <1>2, <1>3, <1>4 DEF Words

-----------------------------------------------------------------------------
LEMMA ForcedWords ==
  ASSUME NEW b, BackendType(b), ValidBackend(b), NEW client, ClientType(client),
         NEW n \in ForcedNames(b), ForcedValue(b, n, client) # None
  PROVE  /\ ForcedValue(b, n, client) \in Seq(STRING)
         /\ ToSet(ForcedValue(b, n, client)) \subseteq OfBackend(b) \cup OfClient(client)
<1> DEFINE value == ForcedValue(b, n, client)
<1>1. PICK h \in ToSet(b.headers) : h.name = n /\ value = Render(h.value, client)
  BY ForcedFrom
<1>2. h.value \in Templates
  <2> DEFINE F == [name : Seq(STRING), value : Templates]
             s == b.headers
  <2>1. s \in Seq(F) /\ h \in ToSet(s)
    BY DEF BackendType
  <2> HIDE DEF s, F
  <2>2. h \in F
    BY <2>1 DEF ToSet
  <2> QED
    BY <2>2 DEF F
<1>3. TemplateOK(h.value)
  BY DEF ValidBackend, ValidForced
<1> HIDE DEF value
<1>4. value # None
  BY DEF value
<1>5. value \in Seq(STRING) /\ ToSet(value) \subseteq Spelled(h.value) \cup OfClient(client)
  BY <1>1, <1>2, <1>3, <1>4, RenderWords
<1>6. Spelled(h.value) \subseteq OfBackend(b)
  BY OfBackendIs
<1> QED
  BY <1>5, <1>6 DEF value

\* What crosses has the words of the client's other headers and of the backend's own, but
\* for a credential left to a passthrough backend.
LEMMA UpstreamWords ==
  ASSUME NEW b, BackendType(b), ValidBackend(b), NEW client, ClientType(client),
         NEW headers, headers = UpstreamHeaders(client, b), NEW n \in DOMAIN headers,
         n \in ForcedNames(b) \cup {Beta} \/ n \notin Credentials
  PROVE  Words(headers[n]) \subseteq OfBackend(b) \cup OfClient(client)
<1> DEFINE forced == Forced(Restrict(client, Crossing(client, b)), b, client)
           words == OfBackend(b) \cup OfClient(client)
<1>1. headers = MergeBeta(forced, b)
  BY DEF UpstreamHeaders, Crossing
<1>2. forced = Forced(Restrict(client, Crossing(client, b)), b, client)
  OBVIOUS
<1> HIDE DEF forced
<1>3. ForcedFits(b, client, forced)
  BY <1>2, ForcedCorrect
<1>4. Beta \notin Credentials
  BY DEF Beta, Credentials, Authorization, XApiKey
<1>5. ASSUME NEW m \in DOMAIN forced, m \in ForcedNames(b) \/ m \notin Credentials
      PROVE  forced[m] \in Seq(Seq(STRING)) /\ Words(forced[m]) \subseteq words
  <2>1. CASE m \in ForcedNames(b)
    <3> DEFINE value == ForcedValue(b, m, client)
    <3>1. forced[m] = <<value>> /\ value # None
      BY <1>3, <2>1 DEF ForcedFits
    <3>2. value \in Seq(STRING) /\ ToSet(value) \subseteq words
      BY <2>1, <3>1, ForcedWords
    <3> HIDE DEF value, words
    <3> QED
      BY <3>1, <3>2, WordsOfOne
  <2>2. CASE m \notin ForcedNames(b)
    <3>1. forced[m] = client[m] /\ m \in DOMAIN client
      BY <1>3, <2>2 DEF ForcedFits, Crossing
    <3> QED
      BY <1>5, <2>2, <3>1, ClientWords
  <2> QED
    BY <2>1, <2>2
<1>6. /\ \A m \in DOMAIN headers :
           m # Beta \/ b.anthropic_beta = <<>> => m \in DOMAIN forced /\ headers[m] = forced[m]
      /\ b.anthropic_beta # <<>> =>
           headers[Beta] =
             <<Once((IF Beta \in DOMAIN forced THEN FlattenSeq(forced[Beta]) ELSE <<>>)
                      \o b.anthropic_beta)>>
  <2>1. MergedFits(b, forced, headers)
    BY <1>1, MergedCorrect
  <2> QED
    BY <2>1 DEF MergedFits
<1>7. CASE n # Beta \/ b.anthropic_beta = <<>>
  <2>1. n \in DOMAIN forced /\ headers[n] = forced[n]
    BY <1>6, <1>7
  <2> QED
    BY <1>4, <1>5, <2>1
<1>8. CASE n = Beta /\ b.anthropic_beta # <<>>
  <2> DEFINE own == IF Beta \in DOMAIN forced THEN FlattenSeq(forced[Beta]) ELSE <<>>
             both == own \o b.anthropic_beta
  <2>1. own \in Seq(STRING) /\ ToSet(own) \subseteq words
    <3>1. CASE Beta \in DOMAIN forced
      <4>1. own = FlattenSeq(forced[Beta])
        BY <3>1
      <4> HIDE DEF own, words
      <4>2. forced[Beta] \in Seq(Seq(STRING)) /\ Words(forced[Beta]) \subseteq words
        BY <1>4, <1>5, <3>1
      <4> QED
        BY <4>1, <4>2, WordsOf DEF Words
    <3>2. CASE Beta \notin DOMAIN forced
      BY <3>2 DEF ToSet
    <3> QED
      BY <3>1, <3>2
  <2>2. headers[n] = <<Once(both)>>
    BY <1>6, <1>8
  <2>3. b.anthropic_beta \in Seq(STRING) /\ ToSet(b.anthropic_beta) \subseteq words
    BY OfBackendIs DEF BackendType
  <2> HIDE DEF own, words
  <2>4. both \in Seq(STRING) /\ ToSet(both) = ToSet(own) \cup ToSet(b.anthropic_beta)
    BY <2>1, <2>3, ConcatSet
  <2> HIDE DEF both
  <2>5. Once(both) \in Seq(STRING) /\ ToSet(Once(both)) = ToSet(both)
    BY <2>4, OnceCorrect
  <2>6. Words(<<Once(both)>>) = ToSet(Once(both))
    BY <2>5, WordsOfOne
  <2>7. Words(headers[n]) \subseteq words
    BY <2>1, <2>2, <2>3, <2>4, <2>5, <2>6
  <2> QED
    BY <2>7 DEF words
<1> QED
  BY <1>7, <1>8

\* A credential of the client's crosses to a passthrough backend only.
LEMMA NoCredential ==
  ASSUME NEW b, NEW client, None \notin Reasons, b.kind # "passthrough",
         NEW headers, headers = UpstreamHeaders(client, b), NEW n \in DOMAIN headers
  PROVE  n \in ForcedNames(b) \cup {Beta} \/ n \notin Credentials
<1>1. UpstreamFits(b, client, headers)
  BY UpstreamCorrect
<1>2. n \in ForcedNames(b) \cup {Beta} \/ n \in Crossing(client, b)
  BY <1>1 DEF UpstreamFits
<1> QED
  BY <1>2, NeverCross DEF Crossing, Credentials

-----------------------------------------------------------------------------
\* The words a field is set to are the backend's own or the client's.
LEMMA SetWords ==
  ASSUME NEW b, BackendType(b), ValidBackend(b), NEW client, ClientType(client),
         NEW f \in Resolve(b, client)
  PROVE  ToSet(f.value) \subseteq OfBackend(b) \cup OfClient(client)
<1>1. PICK s \in ToSet(b.set_fields) :
        f = [path |-> Leaf(s), value |-> Render(s.value, client)] /\ f.value # None
  BY DEF Resolve
<1> DEFINE value == f.value
<1>2. value = Render(s.value, client) /\ value # None
  BY <1>1
<1>3. s.value \in Templates
  <2> DEFINE F == [keys : Seq(Seq(STRING) \ {<<>>}) \ {<<>>}, value : Templates]
             all == b.set_fields
  <2>1. all \in Seq(F) /\ s \in ToSet(all)
    BY DEF BackendType
  <2> HIDE DEF all, F
  <2>2. s \in F
    BY <2>1 DEF ToSet
  <2> QED
    BY <2>2 DEF F
<1>4. TemplateOK(s.value)
  BY DEF ValidBackend, ValidFields, FieldOK, ToSet
<1> HIDE DEF value
<1>5. ToSet(value) \subseteq Spelled(s.value) \cup OfClient(client)
  BY <1>2, <1>3, <1>4, RenderWords
<1>6. Spelled(s.value) \subseteq OfBackend(b)
  BY OfBackendIs
<1> QED
  BY <1>5, <1>6 DEF value

\* A body has the words of the file, of the client's fields and other headers, and its own.
BodyWords(b) ==
  OfClient(session.client) \cup OfBackend(b) \cup OfFields(session.fields)
    \cup {Route.upstream_model} \cup OwnWords

LEMMA BodyWordsCorrect ==
  ASSUME Stands, phase = "sent", NEW b, b = Route.backend, b.kind # "passthrough"
  PROVE  OfFields(wire.body.fields) \subseteq BodyWords(b)
<1> DEFINE set == Resolve(b, session.client)
           paths == {f.path : f \in set}
           fields == wire.body.fields
           kept == {p \in DOMAIN session.fields : ~Under(p, b.drop_fields) /\ ~Meets(p, paths)}
<1>1. /\ BackendType(b) /\ ValidBackend(b) /\ ClientType(session.client)
      /\ b.kind \in {"anthropic", "openai", "passthrough"}
  BY OnItsWay DEF BackendType, SessionType, ClientType
<1>2. /\ b = Route.backend /\ set = Resolve(b, session.client) /\ paths = {f.path : f \in set}
      /\ fields = wire.body.fields
      /\ kept = {p \in DOMAIN session.fields : ~Under(p, b.drop_fields) /\ ~Meets(p, paths)}
  OBVIOUS
<1>3. \A f \in set : ToSet(f.value) \subseteq BodyWords(b)
  BY <1>1, SetWords DEF BodyWords
<1>4. \A p \in kept : ToSet(session.fields[p]) \subseteq BodyWords(b)
  BY DEF OfFields, BodyWords
<1>5. paths = {f.path : f \in set}
  OBVIOUS
<1> HIDE DEF set, paths, fields, kept
<1>6. BodyFits(b, set, paths, kept, fields)
  BY <1>2, BodyCorrect
<1>7. ASSUME NEW p \in DOMAIN fields PROVE ToSet(fields[p]) \subseteq BodyWords(b)
  <2>1. CASE p \in paths
    <3>1. PICK f \in set : f.path = p
      BY <1>5, <2>1
    <3>2. fields[p] = f.value
      BY <1>1, <1>6, <3>1 DEF BodyFits, RelayedFits, ChatFits
    <3> QED
      BY <1>3, <3>2
  <2>2. CASE p \notin paths /\ b.kind = "anthropic"
    <3>1. RelayedFits(session.fields, Route, set, paths, kept, fields)
      BY <1>6, <2>2 DEF BodyFits
    <3>2. CASE p = <<"model">>
      <4>1. fields[p] = <<Route.upstream_model>>
        BY <3>1, <3>2 DEF RelayedFits
      <4> QED
        BY <4>1 DEF ToSet, BodyWords
    <3>3. CASE p # <<"model">>
      <4>1. p \in kept /\ fields[p] = session.fields[p]
        BY <2>2, <3>1, <3>3 DEF RelayedFits
      <4> QED
        BY <1>4, <4>1
    <3> QED
      BY <3>2, <3>3
  <2>3. CASE p \notin paths /\ b.kind = "openai"
    <3>1. ChatFits(Route, set, paths, fields)
      BY <1>6, <2>3 DEF BodyFits
    <3> QED
      BY <2>3, <3>1 DEF ChatFits, BodyWords
  <2> QED
    BY <1>1, <2>1, <2>2, <2>3
<1> QED
  BY <1>2, <1>7 DEF OfFields

-----------------------------------------------------------------------------
\* No secret crosses or is written down.
LEMMA SecretsAlways == Stands => SecretsStay
<1> SUFFICES ASSUME Stands, phase = "sent", Apart(request.route) PROVE SecretsStay
  BY DEF SecretsStay
<1> DEFINE b == Route.backend
           client == session.client
           headers == request.headers
           sent == record.request_headers
           wired == wire.headers
           shown == [n \in DOMAIN sent |-> IF sent[n].value = Redacted THEN <<>> ELSE sent[n].value]
           own == Own(client)
           ours == OfBackend(b) \cup OfClient(client)
<1>1. /\ BackendType(b) /\ ValidBackend(b) /\ ClientType(client) /\ request.route = Route
  BY OnItsWay DEF SessionType, ClientType
<1>2. PICK secret \in Secrets : wired = Attempted(b, headers, secret)
  BY DEF Stands
<1>3. headers = UpstreamHeaders(client, b) /\ sent = SentHeaders(b, headers)
  BY DEF Stands
<1>4. own \cap (BodyWords(b) \cup Secrets) = {} /\ Secrets \cap BodyWords(b) = {}
  BY <1>1 DEF Apart, BodyWords
<1>5. ours \subseteq BodyWords(b) /\ b.url.origin \in ours
      /\ (b.credential # None => ToSet(b.credential.scheme) \subseteq ours)
  BY OfBackendIs DEF BodyWords
<1>6. b.kind # "passthrough" => OfFields(wire.body.fields) \subseteq BodyWords(b)
  BY BodyWordsCorrect
<1>7. \A n \in DOMAIN sent :
        shown[n] = IF sent[n].value = Redacted THEN <<>> ELSE sent[n].value
  OBVIOUS
<1>8. DOMAIN shown = DOMAIN sent
  OBVIOUS
<1>9. None \notin Reasons /\ secret \in STRING
  BY NoneApart, RequestsAssumption
<1> HIDE DEF b, client, headers, sent, wired, shown, own
<1>10. Beside(b, headers, secret, sent, wired)
  BY <1>2, <1>3, BesideCorrect
<1>11. \A n \in DOMAIN headers :
         n \in ForcedNames(b) \cup {Beta} \/ n \notin Credentials =>
           Words(headers[n]) \subseteq ours
  BY <1>1, <1>3, UpstreamWords
<1>12. Words(<<>>) = {}
  BY DEF Words, FlattenSeq, ToSet
<1>13. Words(<<<<b.url.origin>>>>) = {b.url.origin}
  <2>1. <<b.url.origin>> \in Seq(STRING) /\ ToSet(<<b.url.origin>>) = {b.url.origin}
    BY <1>1 DEF BackendType, ToSet
  <2> QED
    BY <2>1, WordsOfOne
<1>14. ASSUME b.kind # "passthrough", NEW n \in DOMAIN wired
       PROVE  Words(wired[n]) \subseteq BodyWords(b) \cup Secrets
  <2>1. CASE wired[n] = <<>>
    BY <1>12, <2>1
  <2>2. CASE wired[n] = <<<<b.url.origin>>>>
    BY <1>5, <1>13, <2>2
  <2>3. CASE n \in DOMAIN headers /\ wired[n] = headers[n]
    BY <1>3, <1>5, <1>9, <1>11, <1>14, <2>3, NoCredential
  <2>4. CASE Ours(b, n) /\ wired[n] = <<b.credential.scheme \o <<secret>>>>
    <3> DEFINE scheme == b.credential.scheme
               one == <<secret>>
               value == scheme \o one
    <3>1. scheme \in Seq(STRING) /\ ToSet(scheme) \subseteq ours
      BY <1>1, <1>5, <2>4 DEF Ours, BackendType
    <3>2. one \in Seq(STRING) /\ ToSet(one) = {secret}
      BY <1>9 DEF ToSet
    <3> HIDE DEF scheme, one
    <3>3. value \in Seq(STRING) /\ ToSet(value) = ToSet(scheme) \cup {secret}
      BY <3>1, <3>2, ConcatSet
    <3> HIDE DEF value
    <3>4. Words(<<value>>) = ToSet(value)
      BY <3>3, WordsOfOne
    <3>5. wired[n] = <<value>>
      BY <2>4 DEF value, scheme, one
    <3> QED
      BY <1>5, <3>1, <3>3, <3>4, <3>5
  <2> QED
    BY <1>10, <2>1, <2>2, <2>3, <2>4 DEF Beside
<1>15. ASSUME NEW n \in DOMAIN sent PROVE Words(shown[n]) \subseteq ours
  <2>1. CASE shown[n] = <<>>
    BY <1>12, <2>1
  <2>2. CASE sent[n].value = <<<<b.url.origin>>>>
    BY <1>5, <1>7, <1>12, <1>13, <2>2
  <2>3. CASE n \in DOMAIN headers /\ sent[n] = Shows(b, headers, n)
    <3>1. CASE n \in Credentials \cup ForcedNames(b)
      <4>1. sent[n].value = Redacted
        BY <2>3, <3>1 DEF Shows, Forces, Credentials, Beta, Authorization, XApiKey
      <4> QED
        BY <1>7, <1>12, <4>1
    <3>2. CASE n \notin Credentials \cup ForcedNames(b)
      <4>1. sent[n].value = headers[n]
        BY <2>3, <3>2 DEF Shows, Forces, Credentials
      <4> QED
        BY <1>7, <1>11, <1>12, <2>3, <3>2, <4>1
    <3> QED
      BY <3>1, <3>2
  <2> QED
    BY <1>7, <1>10, <2>1, <2>2, <2>3 DEF Beside
<1>16. ASSUME NEW n \in ForcedNames(b) \cap DOMAIN sent
       PROVE  sent[n].value = Redacted \/ sent[n].source = "transport"
  <2>1. n \in DOMAIN headers => Shows(b, headers, n).value = Redacted
    BY DEF Shows, Forces
  <2> QED
    BY <1>10, <2>1 DEF Beside
<1>17. Tokens(shown) \subseteq ours
  BY <1>8, <1>15 DEF Tokens, Words
<1>18. b.kind # "passthrough" => Tokens(wired) \subseteq BodyWords(b) \cup Secrets
  BY <1>14 DEF Tokens, Words
<1>19. b.kind # "passthrough" => own \cap (Tokens(wired) \cup OfFields(wire.body.fields)) = {}
  BY <1>4, <1>6, <1>18
<1>20. Tokens(shown) \cap (own \cup Secrets) = {}
  BY <1>4, <1>5, <1>17
<1> QED
  BY <1>1, <1>16, <1>19, <1>20 DEF SecretsStay, b, client, sent, wired, shown, own

-----------------------------------------------------------------------------
LEMMA StandsAlways == Spec => []Stands
<1> QED
  BY StandsFirst, StandsNext, PTL DEF Spec

\* Every header of the client's is accounted for in the record, which says what was sent,
\* attempt after attempt; and no credential crosses or is written down
\* (src/upstream/headers.rs, src/server/handlers/proxy.rs).
THEOREM HeadersCorrect == Spec => []HeadersAccountedFor
<1>1. Stands => HeadersAccountedFor
  BY RecordedAlways, SecretsAlways DEF HeadersAccountedFor
<1> QED
  BY <1>1, StandsAlways, PTL

\* A backend is sent what its configuration says, whatever the file and the request
\* (src/anthropic/request.rs, src/config/set_fields.rs, src/upstream/client.rs).
THEOREM ConfiguredCorrect == Spec => []SentAsConfigured
<1> QED
  BY ConfiguredAlways, StandsAlways, PTL

-----------------------------------------------------------------------------
\* Prefixes.
LEMMA PrefixIs ==
  ASSUME NEW S, NEW s \in Seq(S), NEW t \in Seq(S)
  PROVE  IsPrefix(s, t) <=> Len(s) <= Len(t) /\ \A i \in 1..Len(s) : s[i] = t[i]
<1>1. Len(s) \in Nat /\ Len(t) \in Nat
  OBVIOUS
<1>2. SubSeq(s, 1, Len(s)) = s
  BY <1>1, SubSeqProperties, SeqEqual
<1>3. CASE Len(s) <= Len(t)
  <2>1. /\ SubSeq(t, 1, Len(s)) \in Seq(S) /\ Len(SubSeq(t, 1, Len(s))) = Len(s)
        /\ \A i \in 1..Len(s) : SubSeq(t, 1, Len(s))[i] = t[i]
    BY <1>1, <1>3, SubSeqProperties
  <2> DEFINE u == SubSeq(t, 1, Len(s))
  <2> HIDE DEF u
  <2>2. u = s <=> \A i \in 1..Len(s) : s[i] = u[i]
    BY <2>1, SeqEqual DEF u
  <2> QED
    BY <1>2, <1>3, <2>1, <2>2 DEF IsPrefix, u
<1>4. CASE ~(Len(s) <= Len(t))
  BY <1>4 DEF IsPrefix
<1> QED
  BY <1>3, <1>4

LEMMA PrefixSame ==
  ASSUME NEW S, NEW s \in Seq(S)
  PROVE  IsPrefix(s, s)
BY PrefixIs

\* What is added at the end leaves a prefix one, what is put in front of both as well.
LEMMA PrefixGrows ==
  ASSUME NEW S, NEW s \in Seq(S), NEW t \in Seq(S), NEW u \in Seq(S), IsPrefix(s, t)
  PROVE  t \o u \in Seq(S) /\ IsPrefix(s, t \o u)
<1>1. Len(s) <= Len(t) /\ \A i \in 1..Len(s) : s[i] = t[i]
  BY PrefixIs
<1> DEFINE w == t \o u
<1>2. w \in Seq(S) /\ Len(w) = Len(t) + Len(u) /\ \A i \in 1..Len(t) : w[i] = t[i]
  OBVIOUS
<1>3. Len(s) \in Nat /\ Len(t) \in Nat /\ Len(u) \in Nat
  OBVIOUS
<1> HIDE DEF w
<1>4. Len(s) <= Len(w) /\ \A i \in 1..Len(s) : s[i] = w[i]
  BY <1>1, <1>2, <1>3
<1> QED
  BY <1>2, <1>4, PrefixIs DEF w

LEMMA PrefixAfter ==
  ASSUME NEW S, NEW s \in Seq(S), NEW t \in Seq(S), NEW u \in Seq(S), IsPrefix(s, t)
  PROVE  IsPrefix(u \o s, u \o t)
<1>1. Len(s) <= Len(t) /\ \A i \in 1..Len(s) : s[i] = t[i]
  BY PrefixIs
<1> DEFINE v == u \o s
           w == u \o t
<1>2. /\ v \in Seq(S) /\ Len(v) = Len(u) + Len(s)
      /\ \A i \in 1..Len(u) + Len(s) : v[i] = IF i <= Len(u) THEN u[i] ELSE s[i - Len(u)]
  OBVIOUS
<1>3. /\ w \in Seq(S) /\ Len(w) = Len(u) + Len(t)
      /\ \A i \in 1..Len(u) + Len(t) : w[i] = IF i <= Len(u) THEN u[i] ELSE t[i - Len(u)]
  OBVIOUS
<1>4. Len(s) \in Nat /\ Len(t) \in Nat /\ Len(u) \in Nat
  OBVIOUS
<1> HIDE DEF v, w
<1>5. ASSUME NEW i \in 1..Len(v) PROVE v[i] = w[i]
  <2>1. i \in 1..Len(u) + Len(s) /\ i \in 1..Len(u) + Len(t)
    BY <1>1, <1>2, <1>4
  <2>2. CASE i <= Len(u)
    BY <1>2, <1>3, <2>1, <2>2
  <2>3. CASE ~(i <= Len(u))
    <3>1. i - Len(u) \in 1..Len(s)
      BY <1>4, <2>1, <2>3
    <3> QED
      BY <1>1, <1>2, <1>3, <2>1, <2>3, <3>1
  <2> QED
    BY <2>2, <2>3
<1>6. Len(v) <= Len(w)
  BY <1>1, <1>2, <1>3, <1>4
<1> QED
  BY <1>2, <1>3, <1>5, <1>6, PrefixIs DEF v, w

-----------------------------------------------------------------------------
\* Two runs of FlattenSeq agree as far as what they flatten does.
SameTo(s, t, n) == \A i \in 1..n : s[i] = t[i]

LEMMA FlattensAgree ==
  ASSUME NEW s, NEW t, NEW n \in Nat, NEW m \in Nat, n <= m, NEW g, NEW h,
         Flattens(s, n, g), Flattens(t, m, h), SameTo(s, t, n)
  PROVE  SameTo(g, h, n)
<1> DEFINE T == {k \in Nat : k + 1 <= n => g[k + 1] = h[k + 1]}
<1>1. \A i \in 1..n : g[i] = IF i = 1 THEN t[i] ELSE g[i - 1] \o t[i]
  BY DEF Flattens, SameTo
<1>2. \A i \in 1..m : h[i] = IF i = 1 THEN t[i] ELSE h[i - 1] \o t[i]
  BY DEF Flattens
<1>3. \A i \in 1..n : i \in 1..m
  OBVIOUS
<1>4. 0 \in T
  <2> SUFFICES ASSUME 1 <= n PROVE g[1] = h[1]
    OBVIOUS
  <2>1. 1 \in 1..n
    OBVIOUS
  <2> QED
    BY <1>1, <1>2, <1>3, <2>1
<1>5. ASSUME NEW k \in T PROVE k + 1 \in T
  <2> SUFFICES ASSUME (k + 1) + 1 <= n PROVE g[(k + 1) + 1] = h[(k + 1) + 1]
    OBVIOUS
  <2> DEFINE j == (k + 1) + 1
  <2>1. j \in 1..n /\ j # 1 /\ j - 1 = k + 1 /\ k + 1 <= n
    OBVIOUS
  <2>2. g[k + 1] = h[k + 1]
    BY <2>1
  <2> HIDE DEF j
  <2>3. g[j] = h[j]
    BY <1>1, <1>2, <1>3, <2>1, <2>2
  <2> QED
    BY <2>3 DEF j
<1>6. T = Nat
  <2> HIDE DEF T
  <2>1. T \in SUBSET Nat
    BY DEF T
  <2> QED
    BY <1>4, <1>5, <2>1, AllNumbers
<1>7. ASSUME NEW i \in 1..n PROVE g[i] = h[i]
  <2>1. i - 1 \in Nat /\ (i - 1) + 1 = i /\ i <= n
    OBVIOUS
  <2>2. i - 1 \in T
    BY <1>6, <2>1
  <2> QED
    BY <2>1, <2>2
<1> QED
  BY <1>7 DEF SameTo

LEMMA FlattenRun ==
  ASSUME NEW s, Len(s) \in Nat, Len(s) # 0
  PROVE  \E g : Flattens(s, Len(s), g) /\ FlattenSeq(s) = g[Len(s)]
<1> DEFINE g == CHOOSE g : Flattens(s, Len(s), g)
<1>1. Flattens(s, Len(s), g)
  BY FlattensExist
<1>2. FlattenSeq(s) = g[Len(s)]
  BY DEF FlattenSeq, Flattens
<1> QED
  BY <1>1, <1>2

\* Flattened, a prefix is a prefix.
LEMMA FlattenPrefix ==
  ASSUME NEW S, NEW s \in Seq(Seq(S)), NEW t \in Seq(Seq(S)), IsPrefix(s, t)
  PROVE  IsPrefix(FlattenSeq(s), FlattenSeq(t))
<1> DEFINE n == Len(s)
           m == Len(t)
<1>1. /\ n \in Nat /\ m \in Nat /\ n <= m
      /\ \A i \in 1..n : s[i] = t[i]
      /\ \A i \in 1..m : t[i] \in Seq(S)
  BY PrefixIs
<1>2. FlattenSeq(s) \in Seq(S) /\ FlattenSeq(t) \in Seq(S)
  BY FlattenCorrect
<1>3. CASE n = 0
  <2>1. FlattenSeq(s) = <<>>
    BY <1>3 DEF FlattenSeq
  <2> DEFINE e == <<>>
             f == FlattenSeq(t)
  <2>2. e \in Seq(S) /\ f \in Seq(S) /\ Len(e) <= Len(f) /\ 1..Len(e) = {}
    BY <1>2
  <2> HIDE DEF e, f
  <2>3. IsPrefix(e, f)
    BY <2>2, PrefixIs
  <2> QED
    BY <2>1, <2>3 DEF e, f
<1>4. CASE n # 0
  <2>1. PICK g : Flattens(s, n, g) /\ FlattenSeq(s) = g[n]
    BY <1>1, <1>4, FlattenRun
  <2>2. PICK h : Flattens(t, m, h) /\ FlattenSeq(t) = h[m]
    BY <1>1, <1>4, FlattenRun
  <2> HIDE DEF n, m
  <2>3. g[n] = h[n]
    <3>1. n \in 1..n
      BY <1>1, <1>4
    <3>2. SameTo(s, t, n)
      BY <1>1 DEF SameTo
    <3>3. SameTo(g, h, n)
      BY <1>1, <2>1, <2>2, <3>2, FlattensAgree
    <3> QED
      BY <3>1, <3>3 DEF SameTo
  <2> DEFINE T == {k \in Nat : n + k <= m => h[n + k] \in Seq(S) /\ IsPrefix(g[n], h[n + k])}
  <2>4. g[n] \in Seq(S)
    BY <1>2, <2>1
  <2>5. 0 \in T
    <3>1. n + 0 = n /\ IsPrefix(g[n], g[n])
      BY <1>1, <2>4, PrefixSame
    <3> QED
      BY <2>3, <2>4, <3>1
  <2>6. ASSUME NEW k \in T PROVE k + 1 \in T
    <3> SUFFICES ASSUME n + (k + 1) <= m
                 PROVE  h[n + (k + 1)] \in Seq(S) /\ IsPrefix(g[n], h[n + (k + 1)])
      OBVIOUS
    <3> DEFINE i == n + (k + 1)
               p == n + k
    <3>1. i \in 1..m /\ i # 1 /\ i - 1 = p /\ p <= m
      BY <1>1, <1>4
    <3>2. h[p] \in Seq(S) /\ IsPrefix(g[n], h[p])
      BY <3>1
    <3> HIDE DEF i, p, T
    <3>3. h[i] = h[p] \o t[i]
      BY <2>2, <3>1 DEF Flattens
    <3>4. t[i] \in Seq(S)
      BY <1>1, <3>1
    <3> DEFINE u == t[i]
               v == h[p]
               w == g[n]
    <3> HIDE DEF u, v, w
    <3>5. v \o u \in Seq(S) /\ IsPrefix(w, v \o u)
      BY <2>4, <3>2, <3>4, PrefixGrows DEF u, v, w
    <3> QED
      BY <3>3, <3>5 DEF u, v, w, i
  <2>7. T = Nat
    <3> HIDE DEF T
    <3>1. T \in SUBSET Nat
      BY DEF T
    <3> QED
      BY <2>5, <2>6, <3>1, AllNumbers
  <2> DEFINE d == m - n
  <2>8. d \in Nat /\ n + d = m /\ n + d <= m
    BY <1>1
  <2> HIDE DEF d
  <2>9. d \in T
    BY <2>7, <2>8
  <2> QED
    BY <2>1, <2>2, <2>8, <2>9
<1> QED
  BY <1>3, <1>4

-----------------------------------------------------------------------------
IsSeq(s) == s \in Seq(ToSet(s))

LEMMA SeqIs ==
  ASSUME NEW S, NEW s \in Seq(S)
  PROVE  IsSeq(s) /\ ToSet(s) \subseteq S
BY DEF IsSeq, ToSet

LEMMA SeqIn ==
  ASSUME NEW S, NEW s, IsSeq(s), ToSet(s) \subseteq S
  PROVE  s \in Seq(S)
BY DEF IsSeq

LEMMA OneIsSeq == ASSUME NEW x PROVE IsSeq(<<x>>)
<1>1. <<x>> \in Seq({x})
  OBVIOUS
<1> QED
  BY <1>1, SeqIs

LEMMA EmptyIsSeq == IsSeq(<<>>)
<1>1. <<>> \in Seq({})
  OBVIOUS
<1> QED
  BY <1>1, SeqIs

\* A list made of lists, one for each index up to a length.
AllSeq(f, n) == \A i \in 1..n : IsSeq(f[i])
Within(f, n) == UNION {ToSet(f[i]) : i \in 1..n}
Runs(f, n) == f = [i \in 1..n |-> f[i]]

LEMMA RunsIs ==
  ASSUME NEW S, NEW n \in Nat, NEW f, Runs(f, n), AllSeq(f, n), Within(f, n) \subseteq S
  PROVE  f \in Seq(Seq(S)) /\ Len(f) = n
<1>1. ASSUME NEW i \in 1..n PROVE f[i] \in Seq(S)
  <2> DEFINE x == f[i]
  <2>1. IsSeq(x) /\ ToSet(x) \subseteq S
    BY DEF AllSeq, Within
  <2> HIDE DEF x
  <2>2. x \in Seq(S)
    BY <2>1, SeqIn
  <2> QED
    BY <2>2 DEF x
<1>2. f \in [1..n -> Seq(S)]
  BY <1>1 DEF Runs
<1> QED
  BY <1>2

LEMMA FlattenIsSeq ==
  ASSUME NEW n \in Nat, NEW f, Runs(f, n), AllSeq(f, n)
  PROVE  IsSeq(FlattenSeq(f)) /\ ToSet(FlattenSeq(f)) = Within(f, n)
<1> DEFINE S == Within(f, n)
<1>1. f \in Seq(Seq(S)) /\ Len(f) = n
  BY RunsIs
<1> HIDE DEF S
<1>2. FlattenSeq(f) \in Seq(S) /\ ToSet(FlattenSeq(f)) = UNION {ToSet(f[i]) : i \in DOMAIN f}
  BY <1>1, FlattenCorrect
<1>3. DOMAIN f = 1..n
  BY <1>1
<1> QED
  BY <1>2, <1>3, SeqIs DEF S, Within

\* Longer lists of lists flatten to longer lists.
LEMMA FlattenGrows ==
  ASSUME NEW n \in Nat, NEW m \in Nat, n <= m, NEW f, NEW g, Runs(f, n), Runs(g, m),
         AllSeq(g, m), SameTo(f, g, n)
  PROVE  /\ IsSeq(FlattenSeq(f)) /\ IsSeq(FlattenSeq(g))
         /\ ToSet(FlattenSeq(f)) \subseteq ToSet(FlattenSeq(g))
         /\ ToSet(FlattenSeq(g)) = Within(g, m)
         /\ IsPrefix(FlattenSeq(f), FlattenSeq(g))
<1>1. \A i \in 1..n : i \in 1..m /\ f[i] = g[i]
  BY DEF SameTo
<1>2. AllSeq(f, n) /\ Within(f, n) \subseteq Within(g, m)
  BY <1>1 DEF AllSeq, Within
<1> DEFINE S == Within(g, m)
<1>3. f \in Seq(Seq(S)) /\ Len(f) = n
  BY <1>2, RunsIs
<1>4. g \in Seq(Seq(S)) /\ Len(g) = m
  BY RunsIs
<1> HIDE DEF S
<1>5. IsPrefix(f, g)
  <2> DEFINE T == Seq(S)
  <2>1. f \in Seq(T) /\ g \in Seq(T) /\ Len(f) <= Len(g) /\ \A i \in 1..Len(f) : f[i] = g[i]
    BY <1>1, <1>3, <1>4
  <2> HIDE DEF T
  <2> QED
    BY <2>1, PrefixIs
<1>6. IsPrefix(FlattenSeq(f), FlattenSeq(g))
  BY <1>3, <1>4, <1>5, FlattenPrefix
<1>7. /\ IsSeq(FlattenSeq(f)) /\ ToSet(FlattenSeq(f)) = Within(f, n)
      /\ IsSeq(FlattenSeq(g)) /\ ToSet(FlattenSeq(g)) = Within(g, m)
  BY <1>2, FlattenIsSeq
<1> QED
  BY <1>2, <1>6, <1>7

-----------------------------------------------------------------------------
\* A conversation and one it grew into.
Talk == {w.message : w \in Writes}
Grew(s, t) ==
  /\ s \in Seq(Talk) /\ t \in Seq(Talk)
  /\ Len(s) \in Nat /\ Len(t) \in Nat /\ Len(s) <= Len(t) /\ SameTo(s, t, Len(s))

LEMMA StripGrows ==
  ASSUME NEW s, NEW t, Grew(s, t)
  PROVE  /\ IsSeq(StripUnsigned(s)) /\ IsSeq(StripUnsigned(t))
         /\ IsPrefix(StripUnsigned(s), StripUnsigned(t))
<1> DEFINE of(c) == [i \in DOMAIN c |->
                       IF c[i].blocks = <<>> \/ Signed(c[i]).blocks # <<>>
                       THEN <<Signed(c[i])>> ELSE <<>>]
           f == of(s)
           g == of(t)
           n == Len(s)
           m == Len(t)
<1>1. DOMAIN s = 1..n /\ DOMAIN t = 1..m /\ n \in Nat /\ m \in Nat /\ n <= m
  BY DEF Grew
<1>2. Runs(f, n) /\ Runs(g, m)
  BY <1>1 DEF Runs
<1>3. SameTo(f, g, n)
  BY <1>1 DEF SameTo, Grew
<1>4. ASSUME NEW i \in 1..m PROVE IsSeq(g[i])
  <2> DEFINE x == Signed(t[i])
  <2>1. g[i] = <<>> \/ g[i] = <<x>>
    BY <1>1
  <2> HIDE DEF x, g
  <2> QED
    BY <2>1, OneIsSeq, EmptyIsSeq
<1>5. StripUnsigned(s) = FlattenSeq(f) /\ StripUnsigned(t) = FlattenSeq(g)
  BY DEF StripUnsigned
<1> HIDE DEF f, g, n, m
<1>6. AllSeq(g, m)
  BY <1>4 DEF AllSeq
<1> QED
  BY <1>1, <1>2, <1>3, <1>5, <1>6, FlattenGrows

LEMMA PrefixOf ==
  ASSUME NEW s, NEW t, IsSeq(s), IsSeq(t), IsPrefix(s, t)
  PROVE  /\ Len(s) \in Nat /\ Len(t) \in Nat /\ Len(s) <= Len(t) /\ SameTo(s, t, Len(s))
         /\ DOMAIN s = 1..Len(s) /\ DOMAIN t = 1..Len(t)
<1> DEFINE S == ToSet(s) \cup ToSet(t)
<1>1. s \in Seq(S) /\ t \in Seq(S)
  BY SeqIn
<1> HIDE DEF S
<1> QED
  BY <1>1, PrefixIs DEF SameTo

LEMMA IsPrefixIf ==
  ASSUME NEW s, NEW t, NEW n \in Nat, NEW m \in Nat, n <= m, Runs(s, n), Runs(t, m),
         SameTo(s, t, n)
  PROVE  IsSeq(s) /\ IsSeq(t) /\ IsPrefix(s, t)
<1> DEFINE S == ToSet(s) \cup ToSet(t)
<1>1. DOMAIN s = 1..n /\ DOMAIN t = 1..m
  BY DEF Runs
<1>2. s \in [1..n -> S] /\ t \in [1..m -> S]
  BY <1>1 DEF Runs, ToSet
<1> HIDE DEF S
<1>3. s \in Seq(S) /\ t \in Seq(S) /\ Len(s) = n /\ Len(t) = m
  BY <1>2
<1>4. IsPrefix(s, t)
  BY <1>3, PrefixIs DEF SameTo
<1> QED
  BY <1>3, <1>4, SeqIs

LEMMA AnthropicGrows ==
  ASSUME NEW s, NEW t, Grew(s, t)
  PROVE  IsPrefix(ForAnthropic(s), ForAnthropic(t))
<1> DEFINE u == StripUnsigned(s)
           v == StripUnsigned(t)
           f == AcceptedIds(u)
           g == AcceptedIds(v)
<1>1. IsSeq(u) /\ IsSeq(v) /\ IsPrefix(u, v)
  BY StripGrows
<1> HIDE DEF u, v
<1>2. /\ Len(u) \in Nat /\ Len(v) \in Nat /\ Len(u) <= Len(v) /\ SameTo(u, v, Len(u))
      /\ DOMAIN u = 1..Len(u) /\ DOMAIN v = 1..Len(v)
  BY <1>1, PrefixOf
<1>3. Runs(f, Len(u)) /\ Runs(g, Len(v)) /\ SameTo(f, g, Len(u))
  BY <1>2 DEF Runs, SameTo, AcceptedIds
<1> HIDE DEF f, g
<1>4. IsPrefix(f, g)
  BY <1>2, <1>3, IsPrefixIf
<1> QED
  BY <1>4 DEF f, g, u, v, ForAnthropic

-----------------------------------------------------------------------------
\* Decoding.  What a tool result names is known if any tool has the name.
LEMMA FunctionsSame ==
  ASSUME NEW names, NEW k1, NEW k2, NEW s1, NEW s2,
         \A i \in DOMAIN names : Spells(names[i], k1, s1) <=> Spells(names[i], k2, s2)
  PROVE  FunctionsBlock(names, k1, s1) = FunctionsBlock(names, k2, s2)
<1> DEFINE how(k, sp, i) == IF Spells(names[i], k, sp) THEN "defined" ELSE "named"
           of(k, sp) == [i \in DOMAIN names |->
                          IF \E j \in 1..i - 1 : names[j] = names[i] THEN <<>>
                          ELSE <<<<"function", names[i], how(k, sp, i)>>>>]
<1>1. \A i \in DOMAIN names : how(k1, s1, i) = how(k2, s2, i)
  OBVIOUS
<1> HIDE DEF how
<1>2. of(k1, s1) = of(k2, s2)
  BY <1>1
<1>3. /\ FunctionsBlock(names, k1, s1) = FlattenSeq(of(k1, s1))
      /\ FunctionsBlock(names, k2, s2) = FlattenSeq(of(k2, s2))
  BY DEF FunctionsBlock, how
<1> QED
  BY <1>2, <1>3

LEMMA PartsSame ==
  ASSUME NEW b, NEW k1, NEW k2, NEW s1, NEW s2,
         \A name \in NamedBy(b) : Spells(name, k1, s1) <=> Spells(name, k2, s2)
  PROVE  PartsOfBlock(b, k1, s1) = PartsOfBlock(b, k2, s2)
<1>1. CASE b.type = "tool_result"
  <2> DEFINE names == References(b.content)
  <2>1. \A i \in DOMAIN names : names[i] \in NamedBy(b)
    BY <1>1 DEF NamedBy, ToSet
  <2> HIDE DEF names
  <2>2. FunctionsBlock(names, k1, s1) = FunctionsBlock(names, k2, s2)
    BY <2>1, FunctionsSame
  <2>3. ResultPart(b, k1, s1) = ResultPart(b, k2, s2)
    BY <2>2 DEF ResultPart, names
  <2> QED
    BY <1>1, <2>3 DEF PartsOfBlock
<1>2. CASE b.type # "tool_result"
  BY <1>2 DEF PartsOfBlock
<1> QED
  BY <1>1, <1>2

LEMMA ReferencedGrows ==
  ASSUME NEW s, NEW t, Grew(s, t)
  PROVE  Referenced(s) \subseteq Referenced(t)
<1>1. ASSUME NEW i \in DOMAIN s PROVE i \in DOMAIN t /\ s[i] = t[i]
  BY DEF Grew, SameTo
<1> QED
  BY <1>1 DEF Referenced

LEMMA NamedBeforeSame ==
  ASSUME NEW s, NEW t, Grew(s, t), NEW i \in 1..Len(s), NEW k
  PROVE  NamedBefore(s, i, k) = NamedBefore(t, i, k)
<1>1. s[i] = t[i]
  BY DEF Grew, SameTo
<1>2. SubSeq(s, 1, i - 1) = SubSeq(t, 1, i - 1)
  <2> DEFINE x == SubSeq(s, 1, i - 1)
             y == SubSeq(t, 1, i - 1)
  <2>1. i - 1 \in Nat /\ i - 1 <= Len(s) /\ i - 1 <= Len(t)
    BY DEF Grew
  <2>2. /\ x \in Seq(Talk) /\ Len(x) = i - 1 /\ \A j \in 1..i - 1 : x[j] = s[j]
        /\ y \in Seq(Talk) /\ Len(y) = i - 1 /\ \A j \in 1..i - 1 : y[j] = t[j]
    BY <2>1, SubSeqProperties DEF Grew
  <2>3. \A j \in 1..i - 1 : s[j] = t[j]
    BY <2>1 DEF Grew, SameTo
  <2> HIDE DEF x, y
  <2> QED
    BY <2>1, <2>2, <2>3, SeqEqual
<1> QED
  BY <1>1, <1>2 DEF NamedBefore

LEMMA DecodedSame ==
  ASSUME NEW s, NEW t, Grew(s, t), NEW tools, NEW i \in 1..Len(s)
  PROVE  DecodeMessage(s, i, Known(tools, s)) = DecodeMessage(t, i, Known(tools, t))
<1> DEFINE blocks == s[i].blocks
           k1 == Known(tools, s)
           k2 == Known(tools, t)
<1>1. s[i] = t[i] /\ i \in DOMAIN s
  BY DEF Grew, SameTo
<1>2. ASSUME NEW k \in DOMAIN blocks
      PROVE  PartsOfBlock(blocks[k], k1, k1 \cap NamedBefore(s, i, k))
               = PartsOfBlock(blocks[k], k2, k2 \cap NamedBefore(t, i, k))
  <2> DEFINE b == blocks[k]
             s1 == k1 \cap NamedBefore(s, i, k)
             s2 == k2 \cap NamedBefore(t, i, k)
  <2>1. NamedBy(b) \subseteq Referenced(s)
    BY <1>1 DEF Referenced, ToSet
  <2>2. NamedBy(b) \subseteq Referenced(t)
    BY <2>1, ReferencedGrows
  <2>3. ASSUME NEW name \in NamedBy(b) PROVE name \in k1 <=> name \in k2
    BY <2>1, <2>2 DEF Known, IsSent
  <2>4. NamedBefore(s, i, k) = NamedBefore(t, i, k)
    BY NamedBeforeSame
  <2> HIDE DEF b, k1, k2
  <2>5. \A name \in NamedBy(b) : Spells(name, k1, s1) <=> Spells(name, k2, s2)
    BY <2>3, <2>4 DEF Spells
  <2> HIDE DEF s1, s2
  <2>6. PartsOfBlock(b, k1, s1) = PartsOfBlock(b, k2, s2)
    BY <2>5, PartsSame
  <2> QED
    BY <2>6 DEF b, s1, s2
<1> HIDE DEF k1, k2
<1> DEFINE f == [k \in DOMAIN blocks |-> PartsOfBlock(blocks[k], k1, k1 \cap NamedBefore(s, i, k))]
           g == [k \in DOMAIN blocks |-> PartsOfBlock(blocks[k], k2, k2 \cap NamedBefore(t, i, k))]
<1>3. f = g
  BY <1>2
<1>4. /\ DecodeMessage(s, i, k1) = [role |-> s[i].role, parts |-> FlattenSeq(f)]
      /\ DecodeMessage(t, i, k2) = [role |-> s[i].role, parts |-> FlattenSeq(g)]
  BY <1>1 DEF DecodeMessage
<1> HIDE DEF f, g
<1> QED
  BY <1>3, <1>4 DEF k1, k2

\* What a message decodes to has a sequence of parts.
LEMMA PartsIsSeq == ASSUME NEW b, NEW k, NEW sp PROVE IsSeq(PartsOfBlock(b, k, sp))
<1>1. \/ PartsOfBlock(b, k, sp) = <<>>
      \/ PartsOfBlock(b, k, sp) = <<[kind |-> "text", text |-> TextOf(b)]>>
      \/ PartsOfBlock(b, k, sp) = <<[kind |-> "image", image |-> b.data]>>
      \/ PartsOfBlock(b, k, sp) =
           <<[kind |-> "use", id |-> b.id, name |-> b.name, input |-> b.input]>>
      \/ PartsOfBlock(b, k, sp) = <<ResultPart(b, k, sp)>>
  BY DEF PartsOfBlock
<1> QED
  BY <1>1, OneIsSeq, EmptyIsSeq

LEMMA DecodedIsSeq ==
  ASSUME NEW s \in Seq(Talk), NEW i \in 1..Len(s), NEW k
  PROVE  IsSeq(DecodeMessage(s, i, k).parts)
<1> DEFINE blocks == s[i].blocks
           f == [j \in DOMAIN blocks |-> PartsOfBlock(blocks[j], k, k \cap NamedBefore(s, i, j))]
           n == Len(blocks)
<1>1. IsSeq(blocks)
  <2>1. PICK w \in Writes : s[i] = w.message
    BY DEF Talk
  <2> QED
    BY <2>1, RequestsAssumption DEF IsSeq
<1>2. n \in Nat /\ DOMAIN blocks = 1..n
  <2> HIDE DEF blocks
  <2> QED
    BY <1>1 DEF IsSeq
<1>3. Runs(f, n) /\ AllSeq(f, n)
  BY <1>2, PartsIsSeq DEF Runs, AllSeq
<1>4. DecodeMessage(s, i, k).parts = FlattenSeq(f)
  BY DEF DecodeMessage
<1> HIDE DEF f, n
<1> QED
  BY <1>2, <1>3, <1>4, FlattenIsSeq

-----------------------------------------------------------------------------
\* Encoding.
LEMMA KindIsSeq ==
  ASSUME NEW parts, IsSeq(parts), NEW kind
  PROVE  IsSeq(OfKind(parts, kind))
<1> DEFINE f == [i \in DOMAIN parts |-> IF parts[i].kind = kind THEN <<parts[i]>> ELSE <<>>]
           n == Len(parts)
<1>1. n \in Nat /\ DOMAIN parts = 1..n
  BY DEF IsSeq
<1>2. ASSUME NEW i \in 1..n PROVE IsSeq(f[i])
  <2>1. f[i] = <<>> \/ f[i] = <<parts[i]>>
    BY <1>1
  <2> HIDE DEF f
  <2> QED
    BY <2>1, OneIsSeq, EmptyIsSeq
<1>3. Runs(f, n)
  BY <1>1 DEF Runs
<1>4. OfKind(parts, kind) = FlattenSeq(f)
  BY DEF OfKind
<1> HIDE DEF f, n
<1> QED
  BY <1>1, <1>2, <1>3, <1>4, FlattenIsSeq DEF AllSeq

LEMMA EncodedIsSeq ==
  ASSUME NEW m, IsSeq(m.parts)
  PROVE  IsSeq(EncodeMessage(m))
<1> DEFINE results == OfKind(m.parts, "result")
           tools == [i \in DOMAIN results |-> ToolMessage(results[i])]
           content == FlattenSeq([i \in DOMAIN m.parts |-> Piece(m.parts[i])])
           said == Message(m.role, content, OfKind(m.parts, "use"))
           S == ToSet(tools) \cup {said}
<1>1. IsSeq(results)
  BY KindIsSeq
<1>2. EncodeMessage(m) = tools \/ EncodeMessage(m) = Append(tools, said)
  BY DEF EncodeMessage
<1> HIDE DEF results, said
<1>3. tools \in Seq(S)
  <2>1. Len(results) \in Nat /\ DOMAIN results = 1..Len(results)
    BY <1>1 DEF IsSeq
  <2>2. tools \in [1..Len(results) -> S]
    BY <2>1 DEF ToSet
  <2> HIDE DEF tools, S
  <2> QED
    BY <2>1, <2>2
<1>4. said \in S
  OBVIOUS
<1> HIDE DEF tools, S
<1>5. EncodeMessage(m) \in Seq(S)
  BY <1>2, <1>3, <1>4
<1> QED
  BY <1>5, SeqIs

LEMMA NextIsSeq ==
  ASSUME NEW m, IsSeq(m.parts), NEW placement, NEW leading
  PROVE  IsSeq(EncodeNext(m, placement, leading))
<1>1. \/ EncodeNext(m, placement, leading) = <<>>
      \/ EncodeNext(m, placement, leading) = <<Reminder(m)>>
      \/ EncodeNext(m, placement, leading) = EncodeMessage(m)
  BY DEF EncodeNext
<1> QED
  BY <1>1, OneIsSeq, EmptyIsSeq, EncodedIsSeq

\* Nothing is moved to the front, so what is encoded stays where it is.
LEMMA EncodeGrows ==
  ASSUME NEW n \in Nat, NEW m \in Nat, n <= m, NEW d, NEW e, Runs(d, n), Runs(e, m),
         SameTo(d, e, n), \A i \in 1..m : IsSeq(e[i].parts),
         NEW system, NEW placement, placement # "merge"
  PROVE  IsPrefix(Encode(system, d, placement), Encode(system, e, placement))
<1> DEFINE first == Texts(system) \o <<>>
           head == IF first = <<>> THEN <<>> ELSE <<Message("system", first, <<>>)>>
           f == [i \in DOMAIN d |-> EncodeNext(d[i], placement, first = <<>> /\ i = 1)]
           g == [i \in DOMAIN e |-> EncodeNext(e[i], placement, first = <<>> /\ i = 1)]
<1>1. /\ Encode(system, d, placement) = head \o FlattenSeq(f)
      /\ Encode(system, e, placement) = head \o FlattenSeq(g)
  BY DEF Encode
<1> HIDE DEF first
<1>2. IsSeq(head)
  BY OneIsSeq, EmptyIsSeq
<1> HIDE DEF head
<1>3. DOMAIN d = 1..n /\ DOMAIN e = 1..m
  BY DEF Runs
<1>4. Runs(f, n) /\ Runs(g, m)
  BY <1>3 DEF Runs
<1>5. AllSeq(g, m)
  BY <1>3, NextIsSeq DEF AllSeq
<1>6. SameTo(f, g, n)
  BY <1>3 DEF SameTo
<1> HIDE DEF f, g
<1> DEFINE u == FlattenSeq(f)
           v == FlattenSeq(g)
           S == ToSet(head) \cup ToSet(v)
<1>7. IsSeq(u) /\ IsSeq(v) /\ ToSet(u) \subseteq ToSet(v) /\ IsPrefix(u, v)
  BY <1>4, <1>5, <1>6, FlattenGrows
<1> HIDE DEF u, v
<1>8. u \in Seq(S) /\ v \in Seq(S) /\ head \in Seq(S)
  BY <1>2, <1>7, SeqIn
<1> HIDE DEF S
<1>9. IsPrefix(head \o u, head \o v)
  BY <1>7, <1>8, PrefixAfter
<1> QED
  BY <1>1, <1>9 DEF u, v

LEMMA OpenAiGrows ==
  ASSUME NEW s, NEW t, Grew(s, t), NEW tools, NEW system, NEW placement, placement # "merge",
         Decode(s, tools) # None, Decode(t, tools) # None
  PROVE  IsPrefix(Encode(system, Decode(s, tools), placement),
                  Encode(system, Decode(t, tools), placement))
<1> DEFINE n == Len(s)
           m == Len(t)
           d == [i \in DOMAIN s |-> DecodeMessage(s, i, Known(tools, s))]
           e == [i \in DOMAIN t |-> DecodeMessage(t, i, Known(tools, t))]
<1>1. Decode(s, tools) = d /\ Decode(t, tools) = e
  BY DEF Decode
<1>2. /\ n \in Nat /\ m \in Nat /\ n <= m /\ DOMAIN s = 1..n /\ DOMAIN t = 1..m
      /\ t \in Seq(Talk)
  BY DEF Grew
<1>3. Runs(d, n) /\ Runs(e, m)
  BY <1>2 DEF Runs
<1>4. \A i \in 1..m : IsSeq(e[i].parts)
  BY <1>2, DecodedIsSeq
<1>5. SameTo(d, e, n)
  BY <1>2, DecodedSame DEF SameTo
<1> HIDE DEF d, e, n, m
<1>6. IsPrefix(Encode(system, d, placement), Encode(system, e, placement))
  BY <1>2, <1>3, <1>4, <1>5, EncodeGrows
<1> QED
  BY <1>1, <1>6

-----------------------------------------------------------------------------
\* What was made of a request was made of a beginning of the conversation there is now.
Behind ==
  /\ messages \in Seq(Talk)
  /\ request # None =>
       /\ request.route = Route
       /\ \E s : /\ Grew(s, messages)
                /\ request.body = Prepared(Route, s) /\ Prepared(Route, s) # None

Kinds == {"passthrough", "anthropic", "openai"}

LEMMA PreparedGrows ==
  ASSUME NEW route, route.backend.kind \in Kinds, route.placement # "merge",
         NEW s, NEW t, Grew(s, t), Prepared(route, s) # None, Prepared(route, t) # None
  PROVE  IsPrefix(Prepared(route, s).messages, Prepared(route, t).messages)
<1>1. CASE route.backend.kind = "passthrough"
  <2>1. Prepared(route, s).messages = s /\ Prepared(route, t).messages = t
    BY <1>1 DEF Prepared
  <2>2. IsPrefix(s, t)
    BY PrefixIs DEF Grew, SameTo
  <2> QED
    BY <2>1, <2>2
<1>2. CASE route.backend.kind = "anthropic"
  <2>1. /\ Prepared(route, s).messages = ForAnthropic(s)
        /\ Prepared(route, t).messages = ForAnthropic(t)
    BY <1>2 DEF Prepared
  <2> QED
    BY <2>1, AnthropicGrows
<1>3. CASE route.backend.kind = "openai"
  <2> DEFINE sent(c) == Encode(session.system, Decode(c, session.tools), route.placement)
  <2>1. /\ Prepared(route, s) = Translated(route, s)
        /\ Prepared(route, t) = Translated(route, t)
    BY <1>3 DEF Prepared
  <2>2. /\ Decode(s, session.tools) # None /\ Prepared(route, s).messages = sent(s)
        /\ Decode(t, session.tools) # None /\ Prepared(route, t).messages = sent(t)
    BY <2>1 DEF Translated
  <2>3. IsPrefix(sent(s), sent(t))
    BY <2>2, OpenAiGrows
  <2> HIDE DEF sent
  <2> QED
    BY <2>2, <2>3
<1> QED
  BY <1>1, <1>2, <1>3 DEF Kinds

LEMMA GrewAlso ==
  ASSUME NEW s, NEW t, Grew(s, t), NEW m \in Talk
  PROVE  Append(t, m) \in Seq(Talk) /\ Grew(s, Append(t, m))
<1> DEFINE u == Append(t, m)
<1>1. t \in Seq(Talk) /\ s \in Seq(Talk)
  BY DEF Grew
<1>2. u \in Seq(Talk) /\ Len(u) = Len(t) + 1 /\ \A i \in 1..Len(t) : u[i] = t[i]
  BY <1>1
<1> HIDE DEF u
<1> QED
  BY <1>1, <1>2 DEF Grew, SameTo

LEMMA Admits ==
  ASSUME session \in Sessions, Accepted(session.config), session.path \notin Lists,
         Refusal(Route) = None
  PROVE  Route.backend.kind \in Kinds /\ Prepared(Route, messages) # None
<1>1. SessionType(session) /\ None \notin Errors /\ BackendNames \in Seq(ToSet(BackendNames))
  BY NoneApart, RequestsAssumption
<1>2. Route # None /\ Prepared(Route, messages) # None
  BY <1>1, Admitted, NoneApart DEF SessionType
<1>3. Route = Routed(session.config, session.tells, Model)
  BY <1>2 DEF Route, RouteOf
<1>4. PICK n \in DOMAIN session.config.backends : Route.backend = session.config.backends[n]
  <2>1. FileType(session.config)
    BY <1>1 DEF SessionType
  <2> QED
    BY <1>1, <1>2, <1>3, <2>1, RouteBackend
<1> QED
  BY <1>1, <1>2, <1>4 DEF SessionType, FileType, BackendType, Kinds

LEMMA BehindFirst == Init => Behind
<1> SUFFICES ASSUME Init PROVE Behind
  OBVIOUS
<1>1. messages = <<>> /\ request = None
  BY DEF Init
<1> QED
  BY <1>1 DEF Behind

LEMMA SameBody ==
  ASSUME session' = session, NEW s
  PROVE  Route' = Route /\ Prepared(Route, s)' = Prepared(Route, s)
<1>1. Route' = Route
  BY DEF Route, RouteOf, Model
<1> QED
  BY <1>1 DEF Prepared, Translated

LEMMA BehindNext == Stands /\ Behind /\ [Next]_vars => Behind'
<1> SUFFICES ASSUME Stands, Behind, [Next]_vars PROVE Behind'
  OBVIOUS
<1>1. session' = session
  BY DEF Next, Write, Refuse, Show, Handle, Send, Resend, Attempt, Fail, Respond, asked, vars
<1>2. CASE Write
  <2>1. PICK w \in Writes : messages' = Append(messages, w.message)
    BY <1>2 DEF Write
  <2>2. request' = request /\ w.message \in Talk
    BY <1>2 DEF Write, Talk
  <2>3. messages' \in Seq(Talk)
    BY <2>1, <2>2 DEF Behind
  <2>4. ASSUME request # None
        PROVE  /\ request'.route = Route'
               /\ \E s : /\ Grew(s, messages')
                        /\ request'.body = Prepared(Route, s)' /\ Prepared(Route, s)' # None
    <3>1. PICK s : /\ Grew(s, messages)
                   /\ request.body = Prepared(Route, s) /\ Prepared(Route, s) # None
      BY <2>4 DEF Behind
    <3>2. Grew(s, messages')
      BY <2>1, <2>2, <3>1, GrewAlso
    <3>3. Route' = Route /\ Prepared(Route, s)' = Prepared(Route, s) /\ request.route = Route
      BY <1>1, <2>4, SameBody DEF Behind
    <3> QED
      BY <2>2, <3>1, <3>2, <3>3
  <2> QED
    BY <2>2, <2>3, <2>4 DEF Behind
<1>3. CASE Handle
  <2>1. /\ messages' = messages /\ request'.route = Route
        /\ request'.body = Prepared(Route, messages)
        /\ session.path \notin Lists /\ Refusal(Route) = None
    BY <1>3 DEF Handle
  <2>2. Prepared(Route, messages) # None
    BY <2>1, Admits DEF Stands
  <2>3. PICK s : s = messages
    OBVIOUS
  <2>4. Grew(s, messages')
    BY <2>1, <2>3 DEF Behind, Grew, SameTo
  <2>5. Route' = Route /\ Prepared(Route, s)' = Prepared(Route, s)
    BY <1>1, SameBody
  <2>6. /\ request'.route = Route'
        /\ \E c : /\ Grew(c, messages')
                 /\ request'.body = Prepared(Route, c)' /\ Prepared(Route, c)' # None
    BY <2>1, <2>2, <2>3, <2>4, <2>5
  <2> QED
    BY <2>1, <2>6 DEF Behind
<1>4. CASE messages' = messages /\ request' = request
  <2>1. ASSUME request # None
        PROVE  /\ request'.route = Route'
               /\ \E s : /\ Grew(s, messages')
                        /\ request'.body = Prepared(Route, s)' /\ Prepared(Route, s)' # None
    <3>1. PICK s : /\ Grew(s, messages)
                   /\ request.body = Prepared(Route, s) /\ Prepared(Route, s) # None
      BY <2>1 DEF Behind
    <3>2. Route' = Route /\ Prepared(Route, s)' = Prepared(Route, s) /\ request.route = Route
      BY <1>1, <2>1, SameBody DEF Behind
    <3> QED
      BY <1>4, <3>1, <3>2
  <2> QED
    BY <1>4, <2>1 DEF Behind
<1> QED
  BY <1>2, <1>3, <1>4 DEF Next, Refuse, Show, Send, Resend, Attempt, Fail, Respond, asked, vars

\* What a backend has been sent of a conversation stays as it was in every later request
\* (src/anthropic/decode.rs, src/openai/request.rs, src/anthropic/request.rs).
THEOREM PrefixCorrect == Spec => PrefixKept
<1>1. ASSUME Stands, Behind, Next, phase' = "handled", request # None,
             request.route.placement # "merge"
      PROVE  IsPrefix(request.body.messages, request'.body.messages)
  <2>1. CASE Handle
    <3>1. /\ request'.body = Prepared(Route, messages)
          /\ session.path \notin Lists /\ Refusal(Route) = None
      BY <2>1 DEF Handle
    <3>2. Route.backend.kind \in Kinds /\ Prepared(Route, messages) # None
      BY <1>1, <3>1, Admits DEF Stands
    <3>3. PICK s : /\ Grew(s, messages)
                   /\ request.body = Prepared(Route, s) /\ Prepared(Route, s) # None
      BY <1>1 DEF Behind
    <3>4. Route.placement # "merge"
      BY <1>1 DEF Behind
    <3>5. IsPrefix(Prepared(Route, s).messages, Prepared(Route, messages).messages)
      BY <3>2, <3>3, <3>4, PreparedGrows
    <3> QED
      BY <3>1, <3>3, <3>5
  <2>2. CASE ~Handle
    BY <1>1, <2>2 DEF Next, Write, Refuse, Show, Send, Resend, Attempt, Fail, Respond
  <2> QED
    BY <2>1, <2>2
<1>2. Stands /\ Behind /\ [Next]_vars
        => [phase' = "handled" /\ request # None /\ request.route.placement # "merge" =>
              IsPrefix(request.body.messages, request'.body.messages)]_vars
  BY <1>1
<1>3. Spec => []Behind
  BY BehindFirst, BehindNext, StandsAlways, PTL DEF Spec
<1> QED
  BY <1>2, <1>3, StandsAlways, PTL DEF Spec, PrefixKept

-----------------------------------------------------------------------------
\* Induction along a sequence, and what goes through one piece by piece.
LEMMA AllSequences ==
  ASSUME NEW S, NEW T \in SUBSET Seq(S), <<>> \in T,
         \A s \in T : \A x \in S : Append(s, x) \in T
  PROVE  T = Seq(S)
<1> DEFINE K == {k \in Nat : \A s \in Seq(S) : Len(s) = k => s \in T}
<1>1. 0 \in K
  <2>1. ASSUME NEW s \in Seq(S), Len(s) = 0 PROVE s \in T
    <3>1. s = <<>>
      BY <2>1
    <3> QED
      BY <3>1
  <2> QED
    BY <2>1
<1>2. ASSUME NEW k \in K PROVE k + 1 \in K
  <2> SUFFICES ASSUME NEW s \in Seq(S), Len(s) = k + 1 PROVE s \in T
    OBVIOUS
  <2>1. k \in Nat /\ \A t \in Seq(S) : Len(t) = k => t \in T
    OBVIOUS
  <2> HIDE DEF K
  <2>2. s # <<>>
    <3>1. Len(<<>>) = 0
      OBVIOUS
    <3> QED
      BY <2>1, <3>1
  <2>3. PICK t \in Seq(S), x \in S : s = Append(t, x)
    BY <2>2, SequenceEmptyOrAppend
  <2>4. Len(t) = k
    BY <2>1, <2>3
  <2> QED
    BY <2>1, <2>3, <2>4
<1>3. K = Nat
  <2> HIDE DEF K
  <2>1. K \in SUBSET Nat
    BY DEF K
  <2> QED
    BY <1>1, <1>2, <2>1, AllNumbers
<1>4. ASSUME NEW s \in Seq(S) PROVE s \in T
  <2>1. Len(s) \in K
    BY <1>3
  <2> QED
    BY <2>1
<1> QED
  BY <1>4

LEMMA FlattenNone == FlattenSeq(<<>>) = <<>>
<1>1. Len(<<>>) = 0
  OBVIOUS
<1> QED
  BY <1>1 DEF FlattenSeq

LEMMA FlattenLast ==
  ASSUME NEW S, NEW s \in Seq(Seq(S)), NEW x \in Seq(S)
  PROVE  FlattenSeq(Append(s, x)) = FlattenSeq(s) \o x
<1> DEFINE t == Append(s, x)
           n == Len(s)
           m == n + 1
<1>1. /\ n \in Nat /\ m \in Nat /\ n <= m /\ m \in 1..m /\ m - 1 = n /\ m # 0
      /\ Len(t) = m /\ t[m] = x /\ \A i \in 1..n : t[i] = s[i]
  OBVIOUS
<1> HIDE DEF t, n
<1>2. PICK h : Flattens(t, m, h) /\ FlattenSeq(t) = h[m]
  BY <1>1, FlattenRun
<1>3. h[m] = IF m = 1 THEN x ELSE h[n] \o x
  <2>1. h[m] = IF m = 1 THEN t[m] ELSE h[m - 1] \o t[m]
    BY <1>1, <1>2 DEF Flattens
  <2> QED
    BY <1>1, <2>1
<1>4. CASE n = 0
  <2>1. FlattenSeq(s) = <<>>
    BY <1>4 DEF FlattenSeq, n
  <2>2. <<>> \o x = x
    OBVIOUS
  <2> QED
    BY <1>2, <1>3, <1>4, <2>1, <2>2 DEF t
<1>5. CASE n # 0
  <2>1. PICK g : Flattens(s, n, g) /\ FlattenSeq(s) = g[n]
    BY <1>1, <1>5, FlattenRun DEF n
  <2>2. SameTo(s, t, n)
    BY <1>1 DEF SameTo
  <2>3. SameTo(g, h, n)
    BY <1>1, <1>2, <2>1, <2>2, FlattensAgree
  <2>4. g[n] = h[n] /\ m # 1
    BY <1>1, <1>5, <2>3 DEF SameTo
  <2> QED
    BY <1>2, <1>3, <2>1, <2>4 DEF t
<1> QED
  BY <1>1, <1>4, <1>5

LEMMA FlattenOne ==
  ASSUME NEW S, NEW x \in Seq(S)
  PROVE  FlattenSeq(<<x>>) = x
<1> DEFINE e == <<>>
<1>1. e \in Seq(Seq(S)) /\ <<x>> = Append(e, x) /\ e \o x = x
  OBVIOUS
<1>2. FlattenSeq(e) = e
  BY FlattenNone
<1> HIDE DEF e
<1>3. FlattenSeq(Append(e, x)) = FlattenSeq(e) \o x
  BY <1>1, FlattenLast
<1> QED
  BY <1>1, <1>2, <1>3

\* phi for each element of s, one after the other.
Cat(phi, s) == FlattenSeq([i \in 1..Len(s) |-> phi[s[i]]])
Maps(phi, S, T) == \A x \in S : phi[x] \in Seq(T)

LEMMA CatType ==
  ASSUME NEW S, NEW T, NEW phi, Maps(phi, S, T), NEW s \in Seq(S)
  PROVE  /\ Cat(phi, s) \in Seq(T)
         /\ ToSet(Cat(phi, s)) = UNION {ToSet(phi[s[i]]) : i \in 1..Len(s)}
<1> DEFINE f == [i \in 1..Len(s) |-> phi[s[i]]]
<1>1. \A i \in 1..Len(s) : phi[s[i]] \in Seq(T)
  BY DEF Maps
<1>2. Len(s) \in Nat
  OBVIOUS
<1>3. f \in Seq(Seq(T)) /\ DOMAIN f = 1..Len(s)
  BY <1>1, <1>2
<1>4. \A i \in DOMAIN f : f[i] = phi[s[i]]
  OBVIOUS
<1> HIDE DEF f
<1>5. FlattenSeq(f) \in Seq(T) /\ ToSet(FlattenSeq(f)) = UNION {ToSet(f[i]) : i \in DOMAIN f}
  BY <1>3, FlattenCorrect
<1> QED
  BY <1>3, <1>4, <1>5 DEF Cat, f

LEMMA CatNone == ASSUME NEW phi PROVE Cat(phi, <<>>) = <<>>
<1>1. [i \in 1..Len(<<>>) |-> phi[<<>>[i]]] = <<>>
  OBVIOUS
<1> QED
  BY <1>1, FlattenNone DEF Cat

LEMMA CatLast ==
  ASSUME NEW S, NEW T, NEW phi, Maps(phi, S, T), NEW s \in Seq(S), NEW x \in S
  PROVE  Cat(phi, Append(s, x)) = Cat(phi, s) \o phi[x]
<1> DEFINE t == Append(s, x)
           f == [i \in 1..Len(s) |-> phi[s[i]]]
           g == [i \in 1..Len(t) |-> phi[t[i]]]
           y == phi[x]
<1>1. /\ Len(s) \in Nat /\ Len(t) = Len(s) + 1 /\ t[Len(s) + 1] = x
      /\ \A i \in 1..Len(s) : t[i] = s[i]
  OBVIOUS
<1>2. y \in Seq(T) /\ \A i \in 1..Len(s) : phi[s[i]] \in Seq(T)
  BY DEF Maps
<1> HIDE DEF t
<1>3. f \in Seq(Seq(T)) /\ Len(f) = Len(s) /\ \A i \in 1..Len(s) : f[i] = phi[s[i]]
  BY <1>1, <1>2
<1>4. g \in Seq(Seq(T)) /\ Len(g) = Len(s) + 1 /\ g[Len(s) + 1] = y
      /\ \A i \in 1..Len(s) : g[i] = phi[s[i]]
  <2>1. \A i \in 1..Len(s) + 1 : g[i] = IF i = Len(s) + 1 THEN y ELSE phi[s[i]]
    BY <1>1
  <2>2. \A i \in 1..Len(s) + 1 : g[i] \in Seq(T)
    BY <1>1, <1>2, <2>1
  <2>3. g \in [1..Len(s) + 1 -> Seq(T)]
    BY <1>1, <2>2
  <2> DEFINE n == Len(s)
  <2>4. n \in Nat
    BY <1>1
  <2> HIDE DEF g, y
  <2>5. g \in Seq(Seq(T)) /\ Len(g) = n + 1
    <3> DEFINE Y == Seq(T)
    <3>1. n + 1 \in Nat /\ g \in [1..n + 1 -> Y]
      BY <2>3, <2>4
    <3> HIDE DEF n, Y
    <3>2. g \in Seq(Y) /\ Len(g) = n + 1
      BY <3>1
    <3> QED
      BY <3>2 DEF Y
  <2>6. g[n + 1] = y
    BY <2>1, <2>4
  <2>7. \A i \in 1..n : g[i] = phi[s[i]]
    BY <2>1, <2>4
  <2> QED
    BY <2>5, <2>6, <2>7
<1> HIDE DEF y, f, g
<1>5. g = Append(f, y)
  <2> DEFINE Y == Seq(T)
             h == Append(f, y)
  <2>1. f \in Seq(Y) /\ g \in Seq(Y) /\ y \in Y
    BY <1>2, <1>3, <1>4
  <2> HIDE DEF Y
  <2>2. h \in Seq(Y) /\ Len(h) = Len(f) + 1 /\ h[Len(f) + 1] = y
        /\ \A i \in 1..Len(f) : h[i] = f[i]
    BY <2>1
  <2> HIDE DEF h
  <2>3. ASSUME NEW i \in 1..Len(g) PROVE g[i] = h[i]
    <3>1. i \in 1..Len(s) \/ i = Len(s) + 1
      BY <1>1, <1>4
    <3>2. \A j \in 1..Len(s) : g[j] = h[j]
      BY <1>3, <1>4, <2>2
    <3>3. g[Len(s) + 1] = h[Len(s) + 1]
      BY <1>3, <1>4, <2>2
    <3> QED
      BY <3>1, <3>2, <3>3
  <2>4. Len(g) = Len(h)
    BY <1>3, <1>4, <2>2
  <2>5. g = h
    BY <2>1, <2>2, <2>3, <2>4, SeqEqual
  <2> QED
    BY <2>5 DEF h
<1>6. FlattenSeq(Append(f, y)) = FlattenSeq(f) \o y
  BY <1>2, <1>3, FlattenLast
<1>7. Cat(phi, t) = FlattenSeq(g) /\ Cat(phi, s) = FlattenSeq(f)
  BY DEF Cat, f, g
<1> QED
  BY <1>5, <1>6, <1>7 DEF t, y

LEMMA CatConcat ==
  ASSUME NEW S, NEW T, NEW phi, Maps(phi, S, T), NEW s \in Seq(S), NEW t \in Seq(S)
  PROVE  s \o t \in Seq(S) /\ Cat(phi, s \o t) = Cat(phi, s) \o Cat(phi, t)
<1> DEFINE G == {u \in Seq(S) : Cat(phi, s \o u) = Cat(phi, s) \o Cat(phi, u)}
<1>0. Cat(phi, s) \in Seq(T)
  BY CatType
<1>1. <<>> \in G
  <2> DEFINE e == <<>>
             a == Cat(phi, s)
  <2>1. e \in Seq(S) /\ s \o e = s
    OBVIOUS
  <2>2. a \o e = a
    <3> HIDE DEF a
    <3> QED
      BY <1>0 DEF a
  <2>3. Cat(phi, e) = e
    BY CatNone
  <2> HIDE DEF e
  <2>4. Cat(phi, s \o e) = Cat(phi, s) \o Cat(phi, e)
    BY <2>1, <2>2, <2>3
  <2> QED
    BY <2>1, <2>4 DEF e
<1>2. ASSUME NEW u \in G, NEW x \in S PROVE Append(u, x) \in G
  <2>1. u \in Seq(S) /\ Cat(phi, s \o u) = Cat(phi, s) \o Cat(phi, u)
    OBVIOUS
  <2> HIDE DEF G
  <2>2. Append(u, x) \in Seq(S) /\ s \o u \in Seq(S) /\ s \o Append(u, x) = Append(s \o u, x)
    BY <2>1
  <2> DEFINE v == s \o u
             w == Append(u, x)
             a == Cat(phi, s)
             b == Cat(phi, u)
             y == phi[x]
  <2>8. v \in Seq(S)
    BY <2>2
  <2> HIDE DEF v
  <2>3. Cat(phi, Append(v, x)) = Cat(phi, v) \o y
    BY <2>8, CatLast
  <2>4. Cat(phi, w) = b \o y
    BY <2>1, CatLast
  <2>5. y \in Seq(T) /\ b \in Seq(T) /\ a \in Seq(T)
    BY <1>0, <2>1, CatType DEF Maps
  <2> HIDE DEF a, b, y, w
  <2>6. (a \o b) \o y = a \o (b \o y)
    BY <2>5, ConcatAssociative
  <2>7. Cat(phi, s \o w) = Cat(phi, s) \o Cat(phi, w)
    BY <2>1, <2>2, <2>3, <2>4, <2>6 DEF v, w, a, b
  <2> QED
    BY <2>2, <2>7 DEF G, w
<1>3. G = Seq(S)
  <2>1. G \in SUBSET Seq(S)
    OBVIOUS
  <2> HIDE DEF G
  <2> QED
    BY <1>1, <1>2, <2>1, AllSequences
<1>4. t \in G
  BY <1>3
<1> QED
  BY <1>4

\* What is read off a list of lists is read off each list.
LEMMA CatFlatten ==
  ASSUME NEW S, NEW T, NEW phi, Maps(phi, S, T), NEW f \in Seq(Seq(S))
  PROVE  Cat(phi, FlattenSeq(f)) = FlattenSeq([i \in 1..Len(f) |-> Cat(phi, f[i])])
<1> DEFINE psi == [x \in Seq(S) |-> Cat(phi, x)]
           R == Seq(S)
           G == {u \in Seq(R) : Cat(phi, FlattenSeq(u)) = Cat(psi, u)}
<1>0. Maps(psi, R, T)
  BY CatType DEF Maps
<1> HIDE DEF psi
<1>1. <<>> \in G
  BY FlattenNone, CatNone
<1>2. ASSUME NEW u \in G, NEW x \in R PROVE Append(u, x) \in G
  <2>1. u \in Seq(R) /\ Cat(phi, FlattenSeq(u)) = Cat(psi, u)
    OBVIOUS
  <2> HIDE DEF G
  <2> DEFINE v == FlattenSeq(u)
             w == Append(u, x)
  <2>2. FlattenSeq(w) = v \o x /\ v \in Seq(S) /\ x \in Seq(S) /\ w \in Seq(R)
    BY <2>1, FlattenLast, FlattenCorrect
  <2> HIDE DEF v
  <2>3. Cat(phi, v \o x) = Cat(phi, v) \o Cat(phi, x)
    BY <2>2, CatConcat
  <2> HIDE DEF R
  <2>4. Cat(psi, w) = Cat(psi, u) \o psi[x]
    BY <1>0, <2>1, CatLast
  <2>5. psi[x] = Cat(phi, x)
    BY DEF psi, R
  <2>6. Cat(phi, FlattenSeq(w)) = Cat(psi, w)
    BY <2>1, <2>2, <2>3, <2>4, <2>5 DEF v
  <2> QED
    BY <2>2, <2>6 DEF G
<1>3. G = Seq(R)
  <2>1. G \in SUBSET Seq(R)
    OBVIOUS
  <2> HIDE DEF G, R
  <2> QED
    BY <1>1, <1>2, <2>1, AllSequences
<1>4. f \in G
  BY <1>3
<1>5. \A i \in 1..Len(f) : psi[f[i]] = Cat(phi, f[i])
  BY DEF psi
<1>6. [i \in 1..Len(f) |-> psi[f[i]]] = [i \in 1..Len(f) |-> Cat(phi, f[i])]
  BY <1>5
<1> QED
  BY <1>4, <1>6 DEF Cat

\* The same without naming what the lists hold.
EachSeq(phi, s) == \A x \in ToSet(s) : IsSeq(phi[x])
Gives(phi, S) == UNION {ToSet(phi[x]) : x \in S}

LEMMA GivesMaps ==
  ASSUME NEW S, NEW phi, \A x \in S : IsSeq(phi[x])
  PROVE  Maps(phi, S, Gives(phi, S))
<1>1. ASSUME NEW x \in S PROVE phi[x] \in Seq(Gives(phi, S))
  <2> DEFINE y == phi[x]
             T == Gives(phi, S)
  <2>1. IsSeq(y) /\ ToSet(y) \subseteq T
    BY DEF Gives
  <2> HIDE DEF y, T
  <2>2. y \in Seq(T)
    BY <2>1, SeqIn
  <2> QED
    BY <2>2 DEF y, T
<1> QED
  BY <1>1 DEF Maps

LEMMA ReadType ==
  ASSUME NEW phi, NEW s, IsSeq(s), EachSeq(phi, s)
  PROVE  /\ IsSeq(Cat(phi, s))
         /\ ToSet(Cat(phi, s)) = UNION {ToSet(phi[s[i]]) : i \in DOMAIN s}
<1> DEFINE S == ToSet(s)
           T == Gives(phi, S)
<1>1. Maps(phi, S, T)
  BY GivesMaps DEF EachSeq
<1>2. s \in Seq(S)
  BY DEF IsSeq
<1>3. DOMAIN s = 1..Len(s)
  BY <1>2
<1> HIDE DEF S, T
<1>4. /\ Cat(phi, s) \in Seq(T)
      /\ ToSet(Cat(phi, s)) = UNION {ToSet(phi[s[i]]) : i \in 1..Len(s)}
  BY <1>1, <1>2, CatType
<1>5. IsSeq(Cat(phi, s))
  BY <1>4, SeqIs
<1> QED
  BY <1>3, <1>4, <1>5

LEMMA ReadConcat ==
  ASSUME NEW phi, NEW s, NEW t, IsSeq(s), IsSeq(t), EachSeq(phi, s), EachSeq(phi, t)
  PROVE  Cat(phi, s \o t) = Cat(phi, s) \o Cat(phi, t)
<1> DEFINE S == ToSet(s) \cup ToSet(t)
           T == Gives(phi, S)
<1>1. Maps(phi, S, T)
  BY GivesMaps DEF EachSeq
<1>2. s \in Seq(S) /\ t \in Seq(S)
  BY SeqIn
<1> HIDE DEF S, T
<1> QED
  BY <1>1, <1>2, CatConcat

LEMMA BothSeq ==
  ASSUME NEW s, NEW t, IsSeq(s), IsSeq(t)
  PROVE  IsSeq(s \o t) /\ ToSet(s \o t) = ToSet(s) \cup ToSet(t)
<1> DEFINE S == ToSet(s) \cup ToSet(t)
<1>1. s \in Seq(S) /\ t \in Seq(S)
  BY SeqIn
<1> HIDE DEF S
<1>2. s \o t \in Seq(S) /\ ToSet(s \o t) = ToSet(s) \cup ToSet(t)
  BY <1>1, ConcatSet
<1> QED
  BY <1>2, SeqIs

LEMMA WithEmpty ==
  ASSUME NEW s, IsSeq(s)
  PROVE  s \o <<>> = s /\ <<>> \o s = s
<1>1. s \in Seq(ToSet(s))
  BY DEF IsSeq
<1> QED
  BY <1>1, ConcatEmptySeq

LEMMA ReadFlatten ==
  ASSUME NEW phi, NEW n \in Nat, NEW f, Runs(f, n), AllSeq(f, n),
         \A x \in Within(f, n) : IsSeq(phi[x])
  PROVE  Cat(phi, FlattenSeq(f)) = FlattenSeq([i \in 1..n |-> Cat(phi, f[i])])
<1> DEFINE S == Within(f, n)
           T == Gives(phi, S)
<1>1. Maps(phi, S, T)
  BY GivesMaps
<1>2. f \in Seq(Seq(S)) /\ Len(f) = n
  BY RunsIs
<1> HIDE DEF S, T
<1> QED
  BY <1>1, <1>2, CatFlatten

LEMMA ReadOne ==
  ASSUME NEW phi, NEW x, IsSeq(phi[x])
  PROVE  Cat(phi, <<x>>) = phi[x]
<1> DEFINE y == phi[x]
<1>1. [i \in 1..Len(<<x>>) |-> phi[<<x>>[i]]] = <<y>>
  OBVIOUS
<1>2. Cat(phi, <<x>>) = FlattenSeq(<<y>>)
  BY <1>1 DEF Cat
<1>3. y \in Seq(ToSet(y))
  BY DEF IsSeq
<1> HIDE DEF y
<1>4. FlattenSeq(<<y>>) = y
  BY <1>3, FlattenOne
<1> QED
  BY <1>2, <1>4 DEF y

LEMMA ReadSame ==
  ASSUME NEW phi, NEW psi, NEW s, IsSeq(s), \A x \in ToSet(s) : phi[x] = psi[x]
  PROVE  Cat(phi, s) = Cat(psi, s)
<1>1. \A i \in 1..Len(s) : s[i] \in ToSet(s)
  BY DEF IsSeq
<1>2. [i \in 1..Len(s) |-> phi[s[i]]] = [i \in 1..Len(s) |-> psi[s[i]]]
  BY <1>1
<1> QED
  BY <1>2 DEF Cat

\* Lists of nothing, and of one each.
LEMMA FlattenNothing ==
  ASSUME NEW n \in Nat, NEW f, Runs(f, n), \A i \in 1..n : f[i] = <<>>
  PROVE  FlattenSeq(f) = <<>>
<1>1. AllSeq(f, n)
  BY EmptyIsSeq DEF AllSeq
<1>2. Within(f, n) = {}
  <2>1. ToSet(<<>>) = {}
    BY DEF ToSet
  <2> QED
    BY <2>1 DEF Within
<1> DEFINE v == FlattenSeq(f)
<1>3. IsSeq(v) /\ ToSet(v) = {}
  BY <1>1, <1>2, FlattenIsSeq
<1> HIDE DEF v
<1>4. v \in Seq({})
  BY <1>3 DEF IsSeq
<1>5. v = <<>>
  BY <1>4
<1> QED
  BY <1>5 DEF v

LEMMA FlattenSingles ==
  ASSUME NEW s, IsSeq(s)
  PROVE  FlattenSeq([i \in 1..Len(s) |-> <<s[i]>>]) = s
<1> DEFINE S == ToSet(s)
           phi == [x \in S |-> <<x>>]
           G == {u \in Seq(S) : Cat(phi, u) = u}
<1>0. \A x \in S : phi[x] = <<x>> /\ <<x>> \in Seq(S)
  OBVIOUS
<1>1. Maps(phi, S, S)
  BY <1>0 DEF Maps
<1> HIDE DEF phi
<1>2. <<>> \in G
  BY CatNone
<1>3. ASSUME NEW u \in G, NEW x \in S PROVE Append(u, x) \in G
  <2>1. u \in Seq(S) /\ Cat(phi, u) = u
    OBVIOUS
  <2> HIDE DEF G
  <2> HIDE DEF S
  <2>2. Cat(phi, Append(u, x)) = Cat(phi, u) \o phi[x]
    <3>1. u \in Seq(S) /\ x \in S
      BY <2>1
    <3> QED
      BY ONLY <1>1, <3>1, CatLast
  <2>3. Append(u, x) = u \o <<x>> /\ Append(u, x) \in Seq(S)
    BY <2>1, AppendIsConcat
  <2> QED
    BY <1>0, <2>1, <2>2, <2>3 DEF G
<1>4. G = Seq(S)
  <2>1. G \in SUBSET Seq(S)
    OBVIOUS
  <2> HIDE DEF G, S
  <2> QED
    BY <1>2, <1>3, <2>1, AllSequences
<1>5. s \in G
  BY <1>4 DEF IsSeq
<1>6. \A i \in 1..Len(s) : s[i] \in S
  BY DEF IsSeq
<1>7. [i \in 1..Len(s) |-> phi[s[i]]] = [i \in 1..Len(s) |-> <<s[i]>>]
  BY <1>0, <1>6
<1> QED
  BY <1>5, <1>7 DEF Cat

LEMMA ReadNothing ==
  ASSUME NEW phi, NEW s, IsSeq(s), \A x \in ToSet(s) : phi[x] = <<>>
  PROVE  Cat(phi, s) = <<>>
<1> DEFINE f == [i \in 1..Len(s) |-> phi[s[i]]]
<1>1. Len(s) \in Nat /\ \A i \in 1..Len(s) : s[i] \in ToSet(s)
  BY DEF IsSeq
<1>2. Runs(f, Len(s)) /\ \A i \in 1..Len(s) : f[i] = <<>>
  BY <1>1 DEF Runs
<1> HIDE DEF f
<1>3. FlattenSeq(f) = <<>>
  BY <1>1, <1>2, FlattenNothing
<1> QED
  BY <1>3 DEF Cat, f

\* Block by block: each makes one part at most, and is read as that part is.
ReadAs(f, pi, g, n) ==
  \A k \in 1..n : /\ IsSeq(g[k])
                  /\ \/ f[k] = <<>> /\ g[k] = <<>>
                     \/ \E p : f[k] = <<p>> /\ pi[p] = g[k]

LEMMA BlocksRead ==
  ASSUME NEW n \in Nat, NEW f, Runs(f, n), NEW g, Runs(g, n), NEW pi, ReadAs(f, pi, g, n)
  PROVE  Cat(pi, FlattenSeq(f)) = FlattenSeq(g)
<1>1. ASSUME NEW k \in 1..n
      PROVE  IsSeq(f[k]) /\ Cat(pi, f[k]) = g[k] /\ \A x \in ToSet(f[k]) : IsSeq(pi[x])
  <2>1. CASE f[k] = <<>> /\ g[k] = <<>>
    <3>1. ToSet(<<>>) = {}
      BY DEF ToSet
    <3> QED
      BY <2>1, <3>1, EmptyIsSeq, CatNone
  <2>2. CASE \E p : f[k] = <<p>> /\ pi[p] = g[k]
    <3>1. PICK p : f[k] = <<p>> /\ pi[p] = g[k]
      BY <2>2
    <3>2. IsSeq(pi[p])
      BY <3>1 DEF ReadAs
    <3>3. ToSet(<<p>>) = {p}
      BY DEF ToSet
    <3> QED
      BY <3>1, <3>2, <3>3, OneIsSeq, ReadOne
  <2> QED
    BY <2>1, <2>2 DEF ReadAs
<1>2. AllSeq(f, n) /\ \A x \in Within(f, n) : IsSeq(pi[x])
  BY <1>1 DEF AllSeq, Within
<1>3. Cat(pi, FlattenSeq(f)) = FlattenSeq([i \in 1..n |-> Cat(pi, f[i])])
  BY <1>2, ReadFlatten
<1>4. [i \in 1..n |-> Cat(pi, f[i])] = g
  BY <1>1 DEF Runs
<1> QED
  BY <1>3, <1>4

-----------------------------------------------------------------------------
\* The items of a text.
AllIn(text, heads) == \A x \in ToSet(text) : x[1] \in heads
NoneIn(text, heads) == \A x \in ToSet(text) : x[1] \notin heads
Keep(S, heads) == [x \in S |-> IF x[1] \in heads THEN <<x>> ELSE <<>>]

LEMMA KeepIs ==
  ASSUME NEW S, NEW heads, NEW x \in S
  PROVE  /\ Keep(S, heads)[x] = IF x[1] \in heads THEN <<x>> ELSE <<>>
         /\ IsSeq(Keep(S, heads)[x])
<1>1. Keep(S, heads)[x] = IF x[1] \in heads THEN <<x>> ELSE <<>>
  BY DEF Keep
<1> QED
  BY <1>1, OneIsSeq, EmptyIsSeq

LEMMA ItemsIsCat ==
  ASSUME NEW S, NEW text, IsSeq(text), ToSet(text) \subseteq S, NEW heads
  PROVE  Items(text, heads) = Cat(Keep(S, heads), text) /\ EachSeq(Keep(S, heads), text)
<1>1. DOMAIN text = 1..Len(text) /\ \A i \in 1..Len(text) : text[i] \in S
  BY DEF IsSeq, ToSet
<1>2. \A i \in 1..Len(text) :
        Keep(S, heads)[text[i]] = IF text[i][1] \in heads THEN <<text[i]>> ELSE <<>>
  BY <1>1, KeepIs
<1>3. [i \in DOMAIN text |-> IF text[i][1] \in heads THEN <<text[i]>> ELSE <<>>]
        = [i \in 1..Len(text) |-> Keep(S, heads)[text[i]]]
  BY <1>1, <1>2
<1>4. EachSeq(Keep(S, heads), text)
  BY KeepIs DEF EachSeq
<1> QED
  BY <1>3, <1>4 DEF Items, Cat

LEMMA ItemsType ==
  ASSUME NEW text, IsSeq(text), NEW heads
  PROVE  IsSeq(Items(text, heads))
<1>1. /\ Items(text, heads) = Cat(Keep(ToSet(text), heads), text)
      /\ EachSeq(Keep(ToSet(text), heads), text)
  BY ItemsIsCat
<1> QED
  BY <1>1, ReadType

LEMMA ItemsConcat ==
  ASSUME NEW s, NEW t, IsSeq(s), IsSeq(t), NEW heads
  PROVE  Items(s \o t, heads) = Items(s, heads) \o Items(t, heads)
<1> DEFINE S == ToSet(s) \cup ToSet(t)
           phi == Keep(S, heads)
           u == s \o t
<1>1. IsSeq(u) /\ ToSet(u) = S
  BY BothSeq
<1> HIDE DEF u
<1>2. Items(u, heads) = Cat(phi, u)
  BY <1>1, ItemsIsCat
<1>3. /\ Items(s, heads) = Cat(phi, s) /\ EachSeq(phi, s)
      /\ Items(t, heads) = Cat(phi, t) /\ EachSeq(phi, t)
  BY ItemsIsCat
<1> HIDE DEF phi
<1>4. Cat(phi, s \o t) = Cat(phi, s) \o Cat(phi, t)
  BY <1>3, ReadConcat
<1> QED
  BY <1>2, <1>3, <1>4 DEF u

LEMMA ItemsFlatten ==
  ASSUME NEW n \in Nat, NEW f, Runs(f, n), AllSeq(f, n), NEW heads
  PROVE  Items(FlattenSeq(f), heads) = FlattenSeq([i \in 1..n |-> Items(f[i], heads)])
<1> DEFINE S == Within(f, n)
           phi == Keep(S, heads)
           u == FlattenSeq(f)
<1>1. IsSeq(u) /\ ToSet(u) = S
  BY FlattenIsSeq
<1> HIDE DEF u
<1>2. Items(u, heads) = Cat(phi, u)
  BY <1>1, ItemsIsCat
<1>3. \A x \in S : IsSeq(phi[x])
  BY KeepIs
<1>4. ASSUME NEW i \in 1..n PROVE Items(f[i], heads) = Cat(phi, f[i])
  <2> DEFINE y == f[i]
  <2>1. IsSeq(y) /\ ToSet(y) \subseteq S
    BY DEF AllSeq, Within
  <2> HIDE DEF y, S
  <2> QED
    BY <2>1, ItemsIsCat DEF y
<1> HIDE DEF phi
<1>5. Cat(phi, FlattenSeq(f)) = FlattenSeq([i \in 1..n |-> Cat(phi, f[i])])
  BY <1>3, ReadFlatten
<1>6. [i \in 1..n |-> Cat(phi, f[i])] = [i \in 1..n |-> Items(f[i], heads)]
  BY <1>4
<1> QED
  BY <1>2, <1>5, <1>6 DEF u

LEMMA ItemsNone ==
  ASSUME NEW text, IsSeq(text), NEW heads, NoneIn(text, heads)
  PROVE  Items(text, heads) = <<>>
<1> DEFINE phi == Keep(ToSet(text), heads)
<1>1. Items(text, heads) = Cat(phi, text)
  BY ItemsIsCat
<1>2. \A x \in ToSet(text) : phi[x] = <<>>
  BY KeepIs DEF NoneIn
<1> HIDE DEF phi
<1> QED
  BY <1>1, <1>2, ReadNothing

LEMMA ItemsAll ==
  ASSUME NEW text, IsSeq(text), NEW heads, AllIn(text, heads)
  PROVE  Items(text, heads) = text
<1> DEFINE phi == Keep(ToSet(text), heads)
<1>1. Items(text, heads) = Cat(phi, text)
  BY ItemsIsCat
<1>2. \A i \in 1..Len(text) : text[i] \in ToSet(text)
  BY DEF IsSeq
<1>3. \A i \in 1..Len(text) : phi[text[i]] = <<text[i]>>
  <2>1. \A x \in ToSet(text) : phi[x] = <<x>>
    BY KeepIs DEF AllIn
  <2> HIDE DEF phi
  <2> QED
    BY <1>2, <2>1
<1> HIDE DEF phi
<1>4. [i \in 1..Len(text) |-> phi[text[i]]] = [i \in 1..Len(text) |-> <<text[i]>>]
  BY <1>3
<1> QED
  BY <1>1, <1>4, FlattenSingles DEF Cat

LEMMA ItemsOfNone == ASSUME NEW heads PROVE Items(<<>>, heads) = <<>>
<1>1. NoneIn(<<>>, heads)
  BY DEF NoneIn, ToSet
<1> QED
  BY <1>1, EmptyIsSeq, ItemsNone

\* A text that can be read: a list of items of these kinds.
Text(text, heads) == IsSeq(text) /\ AllIn(text, heads)

LEMMA TextConcat ==
  ASSUME NEW s, NEW t, NEW heads, Text(s, heads), Text(t, heads)
  PROVE  Text(s \o t, heads)
<1>1. IsSeq(s \o t) /\ ToSet(s \o t) = ToSet(s) \cup ToSet(t)
  BY BothSeq DEF Text
<1> QED
  BY <1>1 DEF Text, AllIn

LEMMA TextFlatten ==
  ASSUME NEW n \in Nat, NEW f, Runs(f, n), NEW heads, \A i \in 1..n : Text(f[i], heads)
  PROVE  Text(FlattenSeq(f), heads)
<1>1. AllSeq(f, n)
  BY DEF AllSeq, Text
<1>2. IsSeq(FlattenSeq(f)) /\ ToSet(FlattenSeq(f)) = Within(f, n)
  BY <1>1, FlattenIsSeq
<1> QED
  BY <1>2 DEF Text, AllIn, Within

LEMMA TextNone == ASSUME NEW heads PROVE Text(<<>>, heads)
<1>1. AllIn(<<>>, heads)
  BY DEF AllIn, ToSet
<1> QED
  BY <1>1, EmptyIsSeq DEF Text

LEMMA TextOne == ASSUME NEW x, NEW heads, x[1] \in heads PROVE Text(<<x>>, heads)
<1>1. AllIn(<<x>>, heads)
  BY DEF AllIn, ToSet
<1> QED
  BY <1>1, OneIsSeq DEF Text

\* Mapped to items, a list is a text.
LEMMA TextRuns ==
  ASSUME NEW n \in Nat, NEW f, Runs(f, n), NEW heads, \A i \in 1..n : f[i][1] \in heads
  PROVE  Text(f, heads)
<1> DEFINE S == ToSet(f)
<1>1. DOMAIN f = 1..n
  BY DEF Runs
<1>2. f \in [1..n -> S]
  BY <1>1 DEF Runs, ToSet
<1>3. f \in Seq(S)
  <2> HIDE DEF S
  <2> QED
    BY <1>2
<1>4. AllIn(f, heads)
  BY <1>1 DEF AllIn, ToSet
<1> QED
  BY <1>3, <1>4 DEF Text, IsSeq

LEMMA TextApart ==
  ASSUME NEW text, NEW heads, Text(text, heads), NEW others, heads \cap others = {}
  PROVE  Items(text, others) = <<>>
<1>1. NoneIn(text, others)
  BY DEF Text, AllIn, NoneIn
<1> QED
  BY <1>1, ItemsNone DEF Text

LEMMA TextKept ==
  ASSUME NEW text, NEW heads, Text(text, heads), NEW others, heads \subseteq others
  PROVE  Items(text, others) = text /\ Text(text, others)
<1>1. AllIn(text, others)
  BY DEF Text, AllIn
<1> QED
  BY <1>1, ItemsAll DEF Text

-----------------------------------------------------------------------------
\* What blocks are made into.
LEMMA TextsText ==
  ASSUME NEW tokens, IsSeq(tokens)
  PROVE  Text(Texts(tokens), {"text"})
<1>1. Len(tokens) \in Nat /\ DOMAIN tokens = 1..Len(tokens)
  BY DEF IsSeq
<1> DEFINE f == Texts(tokens)
<1>2. Runs(f, Len(tokens)) /\ \A i \in 1..Len(tokens) : f[i] = <<"text", tokens[i]>>
  BY <1>1 DEF Runs, Texts
<1> HIDE DEF f
<1>3. \A i \in 1..Len(tokens) : f[i][1] \in {"text"}
  BY <1>2
<1>4. Text(f, {"text"})
  BY <1>1, <1>2, <1>3, TextRuns
<1> QED
  BY <1>4 DEF f

WellSaid(b) == b.type = "text" => IsSeq(b.text)

LEMMA TextOfText ==
  ASSUME NEW b, WellSaid(b)
  PROVE  Text(TextOf(b), Wording)
<1>1. {"text"} \subseteq Wording
  BY DEF Wording
<1>2. CASE b.type = "text"
  <2>1. TextOf(b) = Texts(b.text)
    BY <1>2 DEF TextOf
  <2>2. Text(Texts(b.text), {"text"})
    BY <1>2, TextsText DEF WellSaid
  <2> QED
    BY <1>1, <2>1, <2>2, TextKept
<1>3. CASE b.type = "document"
  <2>1. TextOf(b) = DocumentText(b)
    BY <1>3 DEF TextOf
  <2>2. DocumentText(b) = Texts(<<b.data>>) \/ DocumentText(b) = <<<<"omitted", b.data>>>>
    BY DEF DocumentText
  <2>3. Text(Texts(<<b.data>>), Wording)
    BY <1>1, OneIsSeq, TextsText, TextKept
  <2>4. Text(<<<<"omitted", b.data>>>>, Wording)
    BY TextOne DEF Wording
  <2> QED
    BY <2>1, <2>2, <2>3, <2>4
<1>4. CASE b.type \notin {"text", "document"}
  <2>1. TextOf(b) = <<>>
    BY <1>4 DEF TextOf
  <2> QED
    BY <2>1, TextNone
<1> QED
  BY <1>2, <1>3, <1>4

LEMMA SeqDomain ==
  ASSUME NEW s, IsSeq(s)
  PROVE  /\ Len(s) \in Nat /\ DOMAIN s = 1..Len(s)
         /\ \A i \in 1..Len(s) : s[i] \in ToSet(s)
BY DEF IsSeq

LEMMA SayingText ==
  ASSUME NEW blocks, IsSeq(blocks), \A b \in ToSet(blocks) : WellSaid(b)
  PROVE  Text(Saying(blocks), Wording)
<1> DEFINE n == Len(blocks)
           f == [k \in DOMAIN blocks |-> TextOf(blocks[k])]
<1>1. n \in Nat /\ DOMAIN blocks = 1..n /\ \A k \in 1..n : blocks[k] \in ToSet(blocks)
  BY SeqDomain
<1>2. Runs(f, n)
  BY <1>1 DEF Runs
<1>3. \A k \in 1..n : Text(f[k], Wording)
  BY <1>1, TextOfText
<1>4. Saying(blocks) = FlattenSeq(f)
  BY DEF Saying
<1> HIDE DEF f, n
<1> QED
  BY <1>1, <1>2, <1>3, <1>4, TextFlatten

LEMMA NamesSeq ==
  ASSUME NEW blocks, IsSeq(blocks)
  PROVE  IsSeq(References(blocks)) /\ IsSeq(Images(blocks))
<1> DEFINE n == Len(blocks)
           f == [k \in DOMAIN blocks |->
                   IF blocks[k].type = "tool_reference" THEN <<blocks[k].name>> ELSE <<>>]
           g == [k \in DOMAIN blocks |->
                   IF blocks[k].type = "image" THEN <<blocks[k].data>> ELSE <<>>]
<1>1. n \in Nat /\ DOMAIN blocks = 1..n
  BY SeqDomain
<1>2. Runs(f, n) /\ Runs(g, n)
  BY <1>1 DEF Runs
<1>3. ASSUME NEW k \in 1..n PROVE IsSeq(f[k]) /\ IsSeq(g[k])
  <2>1. /\ f[k] = <<>> \/ f[k] = <<blocks[k].name>>
        /\ g[k] = <<>> \/ g[k] = <<blocks[k].data>>
    BY <1>1
  <2> HIDE DEF f, g
  <2> QED
    BY <2>1, OneIsSeq, EmptyIsSeq
<1>4. References(blocks) = FlattenSeq(f) /\ Images(blocks) = FlattenSeq(g)
  BY DEF References, Images
<1> HIDE DEF f, g, n
<1> QED
  BY <1>1, <1>2, <1>3, <1>4, FlattenIsSeq DEF AllSeq

LEMMA FunctionsText ==
  ASSUME NEW names, IsSeq(names), NEW known, NEW spelled
  PROVE  Text(FunctionsBlock(names, known, spelled), {"function"})
<1> DEFINE item(i) == <<"function", names[i],
                        IF Spells(names[i], known, spelled) THEN "defined" ELSE "named">>
           n == Len(names)
           f == [i \in DOMAIN names |->
                   IF \E k \in 1..i - 1 : names[k] = names[i] THEN <<>> ELSE <<item(i)>>]
<1>1. n \in Nat /\ DOMAIN names = 1..n
  BY SeqDomain
<1>2. Runs(f, n)
  BY <1>1 DEF Runs
<1>3. ASSUME NEW i \in 1..n PROVE Text(f[i], {"function"})
  <2>1. f[i] = <<>> \/ f[i] = <<item(i)>>
    BY <1>1
  <2>2. item(i)[1] = "function"
    OBVIOUS
  <2> HIDE DEF f, item
  <2>3. Text(<<item(i)>>, {"function"})
    BY <2>2, TextOne
  <2> QED
    BY <2>1, <2>3, TextNone
<1>4. FunctionsBlock(names, known, spelled) = FlattenSeq(f)
  BY DEF FunctionsBlock
<1> HIDE DEF f, n
<1> QED
  BY <1>1, <1>2, <1>3, <1>4, TextFlatten

LEMMA ImagedText ==
  ASSUME NEW images, IsSeq(images)
  PROVE  Text(Imaged(images), {"image"})
<1>1. Len(images) \in Nat /\ DOMAIN images = 1..Len(images)
  BY SeqDomain
<1> DEFINE f == Imaged(images)
<1>2. Runs(f, Len(images)) /\ \A i \in 1..Len(images) : f[i] = <<"image", images[i]>>
  BY <1>1 DEF Runs, Imaged
<1> HIDE DEF f
<1>3. \A i \in 1..Len(images) : f[i][1] \in {"image"}
  BY <1>2
<1>4. Text(f, {"image"})
  BY <1>1, <1>2, <1>3, TextRuns
<1> QED
  BY <1>4 DEF f

\* Between two texts without such an item.
Lacks(text, heads) == Items(text, heads) = <<>>
LEMMA ItemsBetween ==
  ASSUME NEW heads, NEW s, NEW t, NEW u, NEW v, IsSeq(s), IsSeq(t), IsSeq(u), IsSeq(v),
         Lacks(s, heads), Lacks(v, heads)
  PROVE  Items((s \o (t \o u)) \o v, heads) = Items(t, heads) \o Items(u, heads)
<1> DEFINE b == t \o u
           c == s \o b
<1>0. IsSeq(b)
  BY BothSeq
<1>1. Items(b, heads) = Items(t, heads) \o Items(u, heads)
  BY ItemsConcat
<1> HIDE DEF b
<1>2. IsSeq(s \o b) /\ Items(s \o b, heads) = Items(s, heads) \o Items(b, heads)
  <2>1. IsSeq(s \o b)
    BY <1>0, BothSeq
  <2>2. Items(s \o b, heads) = Items(s, heads) \o Items(b, heads)
    BY <1>0, ItemsConcat
  <2> QED
    BY <2>1, <2>2
<1>3. IsSeq(c) /\ Items(c, heads) = Items(b, heads)
  <2>1. IsSeq(Items(b, heads))
    BY <1>0, ItemsType
  <2>2. <<>> \o Items(b, heads) = Items(b, heads)
    BY <2>1, WithEmpty
  <2> QED
    BY <1>2, <2>2 DEF Lacks
<1> HIDE DEF c
<1>4. Items(c \o v, heads) = Items(c, heads) \o Items(v, heads)
  BY <1>3, ItemsConcat
<1>5. IsSeq(Items(c, heads))
  BY <1>3, ItemsType
<1>6. Items(c, heads) \o <<>> = Items(c, heads)
  BY <1>5, WithEmpty
<1>7. Items(c \o v, heads) = Items(b, heads)
  BY <1>3, <1>4, <1>6 DEF Lacks
<1> QED
  BY <1>1, <1>7 DEF b, c

\* A result as the message of its tool.
LEMMA ToolMessageIs ==
  ASSUME NEW b, BlockType(b), b.type = "tool_result", NEW known, NEW spelled,
         NEW p, p = ResultPart(b, known, spelled)
  PROVE  /\ ResultIn(ToolMessage(p)) = ResultOf(b)
         /\ ToolSays(ToolMessage(p)) = FunctionsBlock(References(b.content), known, spelled)
<1> DEFINE said == Saying(b.content)
           functions == FunctionsBlock(References(b.content), known, spelled)
           error == IF p.is_error = "yes" THEN <<<<"tool error">>>> ELSE <<>>
           follow == IF p.images = <<>> THEN <<>> ELSE <<<<"images follow">>>>
           text == said \o functions
           content == (error \o text) \o follow
<1>1. /\ p.text = text /\ p.id = b.id /\ p.is_error = b.is_error
  BY DEF ResultPart, Saying
<1>2. /\ ToolMessage(p).role = "tool" /\ ToolMessage(p).id = p.id
      /\ ToolMessage(p).content = content
  BY <1>1 DEF ToolMessage
<1>3. Text(said, Wording)
  BY SayingText DEF BlockType, WellSaid, IsSeq
<1>4. Text(functions, {"function"})
  BY NamesSeq, FunctionsText DEF BlockType, IsSeq
<1>5. Text(error, {"tool error"})
  BY TextOne, TextNone
<1>6. Text(follow, {"images follow"})
  BY TextOne, TextNone
<1> HIDE DEF said, functions, follow
<1>7. ASSUME NEW heads, heads = Wording \/ heads = {"function"}
      PROVE  Items(content, heads) = Items(said, heads) \o Items(functions, heads)
  <2> HIDE DEF error
  <2>1. Items(error, heads) = <<>> /\ Items(follow, heads) = <<>>
    <3>1. {"tool error"} \cap heads = {} /\ {"images follow"} \cap heads = {}
      BY <1>7 DEF Wording
    <3>2. Items(error, heads) = <<>>
      BY <1>5, <3>1, TextApart
    <3>3. Items(follow, heads) = <<>>
      BY <1>6, <3>1, TextApart
    <3> QED
      BY <3>2, <3>3
  <2>2. IsSeq(said) /\ IsSeq(functions) /\ IsSeq(error) /\ IsSeq(follow)
    BY <1>3, <1>4, <1>5, <1>6 DEF Text
  <2> QED
    BY <2>1, <2>2, ItemsBetween DEF Lacks
<1>8. Items(said, Wording) = said /\ Items(said, {"function"}) = <<>>
  BY <1>3, TextKept, TextApart DEF Wording
<1>9. Items(functions, Wording) = <<>> /\ Items(functions, {"function"}) = functions
  BY <1>4, TextKept, TextApart DEF Wording
<1>10. Items(content, Wording) = said /\ Items(content, {"function"}) = functions
  <2>1. said \o <<>> = said /\ <<>> \o functions = functions
    BY <1>3, <1>4, WithEmpty DEF Text
  <2> HIDE DEF content
  <2> QED
    BY <1>7, <1>8, <1>9, <2>1
<1>11. content # <<>> /\ content[1] = <<"tool error">> <=> b.is_error = "yes"
  <2> DEFINE rest == text \o follow
  <2>1. Text(text, {"text", "omitted", "function"})
    <3>1. Text(said, {"text", "omitted", "function"}) /\ Text(functions, {"text", "omitted", "function"})
      BY <1>3, <1>4, TextKept DEF Wording
    <3> QED
      BY <3>1, TextConcat
  <2>2. Text(rest, {"text", "omitted", "function", "images follow"})
    <3>1. /\ Text(text, {"text", "omitted", "function", "images follow"})
          /\ Text(follow, {"text", "omitted", "function", "images follow"})
      BY <1>6, <2>1, TextKept
    <3> HIDE DEF text
    <3> QED
      BY <3>1, TextConcat
  <2>3. content = error \o rest
    <3> DEFINE S == (ToSet(error) \cup ToSet(text)) \cup ToSet(follow)
    <3>1. IsSeq(error) /\ IsSeq(text) /\ IsSeq(follow)
      BY <1>5, <1>6, <2>1 DEF Text
    <3> HIDE DEF error, text
    <3>2. error \in Seq(S) /\ text \in Seq(S) /\ follow \in Seq(S)
      BY <3>1, SeqIn
    <3> HIDE DEF S
    <3> QED
      BY <3>2, ConcatAssociative
  <2> HIDE DEF rest, text, content
  <2>4. CASE b.is_error = "yes"
    <3> DEFINE x == <<"tool error">>
               S == {x} \cup ToSet(rest)
    <3>1. error = <<x>>
      BY <1>1, <2>4
    <3>2. rest \in Seq(S) /\ x \in S
      BY <2>2, SeqIn DEF Text
    <3> HIDE DEF x, S, error
    <3>3. <<x>> \o rest # <<>> /\ (<<x>> \o rest)[1] = x
      BY <3>2
    <3> QED
      BY <2>3, <2>4, <3>1, <3>3 DEF x
  <2>5. CASE b.is_error # "yes"
    <3>1. error = <<>>
      BY <1>1, <2>5
    <3>2. content = rest
      <4>1. IsSeq(rest)
        BY <2>2 DEF Text
      <4> HIDE DEF error
      <4> QED
        BY <2>3, <3>1, <4>1, WithEmpty
    <3>3. ASSUME rest # <<>>, rest[1] = <<"tool error">> PROVE FALSE
      <4>1. rest[1] \in ToSet(rest)
        <5>1. IsSeq(rest)
          BY <2>2 DEF Text
        <5>2. Len(rest) # 0
          <6>1. rest \in Seq(ToSet(rest))
            BY <5>1 DEF IsSeq
          <6> DEFINE R == ToSet(rest)
          <6>2. rest \in Seq(R)
            BY <6>1
          <6> HIDE DEF R
          <6>3. Len(rest) = 0 => rest = <<>>
            BY <6>2
          <6> QED
            BY <3>3, <6>3
        <5>3. 1 \in 1..Len(rest)
          BY <5>1, <5>2, SeqDomain
        <5> QED
          BY <5>1, <5>3, SeqDomain
      <4>2. rest[1][1] \in {"text", "omitted", "function", "images follow"}
        BY <2>2, <4>1 DEF Text, AllIn
      <4>3. rest[1][1] = "tool error"
        <5> DEFINE x == <<"tool error">>
                   y == rest[1]
        <5>1. x[1] = "tool error" /\ y = x
          BY <3>3
        <5> HIDE DEF x
        <5>2. y[1] = "tool error"
          BY <5>1
        <5> QED
          BY <5>2
      <4> QED
        BY <4>2, <4>3
    <3> QED
      BY <2>5, <3>2, <3>3
  <2> QED
    BY <2>4, <2>5
<1> HIDE DEF content
<1>12. ResultOf(b) = <<<<b.id, IF b.is_error = "yes" THEN "failed" ELSE "done", said>>>>
  BY DEF ResultOf, said
<1> QED
  BY <1>1, <1>2, <1>10, <1>11, <1>12 DEF ResultIn, ToolSays, functions

-----------------------------------------------------------------------------
\* What is read of a message of a chat, and of a part of a message before it is encoded.
Pictures == {"image", "images of"}
ReadIn(r, m) ==
  IF r = "calls" THEN CallsIn(m)
  ELSE IF r = "results" THEN ResultIn(m)
  ELSE IF r = "says" THEN ToolSays(m)
  ELSE IF r = "words" THEN SaysItself(m)
  ELSE ImageIn(m)

PartReads(r, p) ==
  IF r = "calls" THEN IF p.kind = "use" THEN <<<<p.id, p.name, p.input>>>> ELSE <<>>
  ELSE IF r \in {"results", "says"}
  THEN IF p.kind = "result" THEN ReadIn(r, ToolMessage(p)) ELSE <<>>
  ELSE IF r = "words" THEN Items(Piece(p), Wording)
  ELSE Items(Piece(p), Pictures)

ReadBy(r, chat) == FlattenSeq([i \in 1..Len(chat) |-> ReadIn(r, chat[i])])
PartsBy(r, parts) == FlattenSeq([i \in 1..Len(parts) |-> PartReads(r, parts[i])])

Whole(m) == IsSeq(m.content) /\ IsSeq(m.calls)
AllWhole(chat) == IsSeq(chat) /\ \A m \in ToSet(chat) : Whole(m)
PartType(p) ==
  /\ p.kind = "text" => Text(p.text, Wording)
  /\ p.kind = "result" => Text(p.text, {"text", "omitted", "function"}) /\ IsSeq(p.images)
AllParts(parts) == IsSeq(parts) /\ \A p \in ToSet(parts) : PartType(p)

LEMMA RunsIsSeq ==
  ASSUME NEW n \in Nat, NEW f, Runs(f, n)
  PROVE  IsSeq(f) /\ Len(f) = n
<1> DEFINE S == ToSet(f)
<1>1. f \in [1..n -> S]
  BY DEF Runs, ToSet
<1>2. f \in Seq(S) /\ Len(f) = n
  <2> HIDE DEF S
  <2> QED
    BY <1>1
<1> QED
  BY <1>2 DEF IsSeq

LEMMA CallsInType ==
  ASSUME NEW m, IsSeq(m.calls)
  PROVE  IsSeq(CallsIn(m)) /\ Len(CallsIn(m)) = Len(m.calls)
<1>1. Len(m.calls) \in Nat /\ DOMAIN m.calls = 1..Len(m.calls)
  BY SeqDomain
<1>2. Runs(CallsIn(m), Len(m.calls))
  BY <1>1 DEF Runs, CallsIn
<1> QED
  BY <1>1, <1>2, RunsIsSeq

LEMMA ReadInType ==
  ASSUME NEW m, Whole(m), NEW r
  PROVE  IsSeq(ReadIn(r, m))
<1>1. IsSeq(CallsIn(m))
  BY CallsInType DEF Whole
<1>2. IsSeq(ResultIn(m))
  BY OneIsSeq, EmptyIsSeq DEF ResultIn
<1>3. IsSeq(Items(m.content, {"function"})) /\ IsSeq(Items(m.content, Wording))
      /\ IsSeq(Items(m.content, Pictures))
  BY ItemsType DEF Whole
<1>4. IsSeq(ToolSays(m)) /\ IsSeq(SaysItself(m)) /\ IsSeq(ImageIn(m))
  BY <1>3, EmptyIsSeq DEF ToolSays, SaysItself, ImageIn, Pictures
<1> QED
  BY <1>1, <1>2, <1>4 DEF ReadIn

\* Reading a chat, message by message.
By(r, S) == [m \in S |-> ReadIn(r, m)]

LEMMA ReadByIs ==
  ASSUME NEW chat, AllWhole(chat), NEW S, ToSet(chat) \subseteq S, NEW r
  PROVE  ReadBy(r, chat) = Cat(By(r, S), chat) /\ EachSeq(By(r, S), chat)
<1>1. \A i \in 1..Len(chat) : chat[i] \in S
  BY SeqDomain DEF AllWhole
<1>2. [i \in 1..Len(chat) |-> ReadIn(r, chat[i])] = [i \in 1..Len(chat) |-> By(r, S)[chat[i]]]
  BY <1>1 DEF By
<1>3. \A m \in ToSet(chat) : IsSeq(ReadIn(r, m))
  BY ReadInType DEF AllWhole
<1>4. EachSeq(By(r, S), chat)
  BY <1>3 DEF EachSeq, By
<1> QED
  BY <1>2, <1>4 DEF ReadBy, Cat

LEMMA ReadByType ==
  ASSUME NEW chat, AllWhole(chat), NEW r
  PROVE  IsSeq(ReadBy(r, chat))
<1>1. ReadBy(r, chat) = Cat(By(r, ToSet(chat)), chat) /\ EachSeq(By(r, ToSet(chat)), chat)
  BY ReadByIs
<1> QED
  BY <1>1, ReadType DEF AllWhole

LEMMA ReadByConcat ==
  ASSUME NEW s, NEW t, AllWhole(s), AllWhole(t), NEW r
  PROVE  AllWhole(s \o t) /\ ReadBy(r, s \o t) = ReadBy(r, s) \o ReadBy(r, t)
<1> DEFINE S == ToSet(s) \cup ToSet(t)
           u == s \o t
           phi == By(r, S)
<1>1. IsSeq(u) /\ ToSet(u) = S
  BY BothSeq DEF AllWhole
<1>2. AllWhole(u)
  BY <1>1 DEF AllWhole
<1> HIDE DEF u
<1>3. ReadBy(r, u) = Cat(phi, u)
  BY <1>1, <1>2, ReadByIs
<1>4. /\ ReadBy(r, s) = Cat(phi, s) /\ EachSeq(phi, s)
      /\ ReadBy(r, t) = Cat(phi, t) /\ EachSeq(phi, t)
  BY ReadByIs
<1> HIDE DEF phi
<1>5. Cat(phi, s \o t) = Cat(phi, s) \o Cat(phi, t)
  BY <1>4, ReadConcat DEF AllWhole
<1> QED
  BY <1>2, <1>3, <1>4, <1>5 DEF u

LEMMA ReadByFlatten ==
  ASSUME NEW n \in Nat, NEW f, Runs(f, n), \A i \in 1..n : AllWhole(f[i]), NEW r
  PROVE  /\ AllWhole(FlattenSeq(f))
         /\ ReadBy(r, FlattenSeq(f)) = FlattenSeq([i \in 1..n |-> ReadBy(r, f[i])])
<1> DEFINE S == Within(f, n)
           u == FlattenSeq(f)
           phi == By(r, S)
<1>0. AllSeq(f, n)
  BY DEF AllSeq, AllWhole
<1>1. IsSeq(u) /\ ToSet(u) = S
  BY <1>0, FlattenIsSeq
<1> HIDE DEF u
<1>2. AllWhole(u)
  BY <1>1 DEF AllWhole, Within
<1>3. ReadBy(r, u) = Cat(phi, u)
  BY <1>1, <1>2, ReadByIs
<1>4. \A m \in S : IsSeq(phi[m])
  BY ReadInType DEF By, AllWhole, Within
<1>5. ASSUME NEW i \in 1..n PROVE ReadBy(r, f[i]) = Cat(phi, f[i])
  <2>1. AllWhole(f[i]) /\ ToSet(f[i]) \subseteq S
    BY DEF Within
  <2> HIDE DEF S
  <2> QED
    BY <2>1, ReadByIs
<1> HIDE DEF phi
<1>6. Cat(phi, FlattenSeq(f)) = FlattenSeq([i \in 1..n |-> Cat(phi, f[i])])
  BY <1>0, <1>4, ReadFlatten
<1>7. [i \in 1..n |-> Cat(phi, f[i])] = [i \in 1..n |-> ReadBy(r, f[i])]
  BY <1>5
<1> QED
  BY <1>2, <1>3, <1>6, <1>7 DEF u

LEMMA ReadByOne ==
  ASSUME NEW m, Whole(m), NEW r
  PROVE  AllWhole(<<m>>) /\ ReadBy(r, <<m>>) = ReadIn(r, m)
<1>1. ToSet(<<m>>) = {m}
  BY DEF ToSet
<1>2. AllWhole(<<m>>)
  BY <1>1, OneIsSeq DEF AllWhole
<1> DEFINE S == {m}
           phi == By(r, S)
<1>3. ReadBy(r, <<m>>) = Cat(phi, <<m>>)
  BY <1>1, <1>2, ReadByIs
<1>4. phi[m] = ReadIn(r, m) /\ IsSeq(phi[m])
  BY ReadInType DEF By
<1> HIDE DEF phi
<1>5. Cat(phi, <<m>>) = phi[m]
  BY <1>4, ReadOne
<1> QED
  BY <1>2, <1>3, <1>4, <1>5

LEMMA ReadByNone == ASSUME NEW r PROVE AllWhole(<<>>) /\ ReadBy(r, <<>>) = <<>>
<1>1. ToSet(<<>>) = {}
  BY DEF ToSet
<1>2. AllWhole(<<>>)
  BY <1>1, EmptyIsSeq DEF AllWhole
<1>3. ReadBy(r, <<>>) = Cat(By(r, {}), <<>>)
  BY <1>1, <1>2, ReadByIs
<1> QED
  BY <1>2, <1>3, CatNone

-----------------------------------------------------------------------------
\* A message is read as its parts are.
LEMMA PieceIs ==
  ASSUME NEW p, PartType(p)
  PROVE  IsSeq(Piece(p))
<1>1. CASE p.kind = "text"
  BY <1>1 DEF Piece, PartType, Text
<1>2. CASE p.kind = "image"
  <2>1. Piece(p) = Imaged(<<p.image>>)
    BY <1>2 DEF Piece
  <2> QED
    BY <2>1, OneIsSeq, ImagedText DEF Text
<1>3. CASE p.kind = "result" /\ p.images # <<>>
  <2> DEFINE id == <<<<"images of", p.id>>>>
             pictures == Imaged(p.images)
  <2>1. Piece(p) = id \o pictures
    BY <1>3 DEF Piece
  <2>2. IsSeq(id) /\ IsSeq(pictures)
    BY <1>3, OneIsSeq, ImagedText DEF PartType, Text
  <2> HIDE DEF id, pictures
  <2> QED
    BY <2>1, <2>2, BothSeq
<1>4. CASE p.kind \notin {"text", "image"} /\ ~(p.kind = "result" /\ p.images # <<>>)
  <2>1. Piece(p) = <<>>
    BY <1>4 DEF Piece
  <2> QED
    BY <2>1, EmptyIsSeq
<1> QED
  BY <1>1, <1>2, <1>3, <1>4

LEMMA ToolWhole ==
  ASSUME NEW p, PartType(p), p.kind = "result"
  PROVE  Whole(ToolMessage(p)) /\ ToolMessage(p).role = "tool" /\ ToolMessage(p).calls = <<>>
<1> DEFINE error == IF p.is_error = "yes" THEN <<<<"tool error">>>> ELSE <<>>
           follow == IF p.images = <<>> THEN <<>> ELSE <<<<"images follow">>>>
<1>1. IsSeq(error) /\ IsSeq(follow) /\ IsSeq(p.text)
  BY OneIsSeq, EmptyIsSeq DEF PartType, Text
<1>2. ToolMessage(p).content = (error \o p.text) \o follow
  BY DEF ToolMessage
<1>3. ToolMessage(p).role = "tool" /\ ToolMessage(p).calls = <<>>
  BY DEF ToolMessage
<1> HIDE DEF error, follow
<1> DEFINE t == error \o p.text
<1>4. IsSeq(t)
  BY <1>1, BothSeq
<1> HIDE DEF t
<1>5. IsSeq(t \o follow)
  BY <1>1, <1>4, BothSeq
<1> QED
  BY <1>2, <1>3, <1>5, EmptyIsSeq DEF Whole, t

LEMMA PartReadsType ==
  ASSUME NEW p, PartType(p), NEW r
  PROVE  IsSeq(PartReads(r, p))
<1>1. p.kind = "result" => IsSeq(ReadIn(r, ToolMessage(p)))
  BY ToolWhole, ReadInType
<1>2. IsSeq(Items(Piece(p), Wording)) /\ IsSeq(Items(Piece(p), Pictures))
  BY PieceIs, ItemsType
<1>3. IsSeq(<<<<p.id, p.name, p.input>>>>) /\ IsSeq(<<>>)
  BY OneIsSeq, EmptyIsSeq
<1> QED
  BY <1>1, <1>2, <1>3 DEF PartReads

PartsRead(r, S) == [p \in S |-> PartReads(r, p)]

\* Reading only the parts of a kind, when the others are read as nothing.
LEMMA KindRead ==
  ASSUME NEW parts, AllParts(parts), NEW kind, NEW r,
         \A p \in ToSet(parts) : p.kind # kind => PartReads(r, p) = <<>>
  PROVE  /\ Cat(PartsRead(r, ToSet(parts)), OfKind(parts, kind)) = PartsBy(r, parts)
         /\ IsSeq(OfKind(parts, kind))
         /\ ToSet(OfKind(parts, kind)) = {p \in ToSet(parts) : p.kind = kind}
<1> DEFINE n == Len(parts)
           f == [i \in DOMAIN parts |-> IF parts[i].kind = kind THEN <<parts[i]>> ELSE <<>>]
           g == [i \in 1..n |-> PartReads(r, parts[i])]
           pi == PartsRead(r, ToSet(parts))
<1>1. n \in Nat /\ DOMAIN parts = 1..n /\ \A i \in 1..n : parts[i] \in ToSet(parts)
  BY SeqDomain DEF AllParts
<1>2. Runs(f, n) /\ Runs(g, n)
  BY <1>1 DEF Runs
<1>3. ASSUME NEW i \in 1..n
      PROVE  /\ IsSeq(g[i])
             /\ \/ f[i] = <<>> /\ g[i] = <<>>
                \/ \E p : f[i] = <<p>> /\ pi[p] = g[i]
  <2>1. g[i] = PartReads(r, parts[i]) /\ PartType(parts[i]) /\ parts[i] \in ToSet(parts)
    BY <1>1 DEF AllParts
  <2>2. IsSeq(g[i])
    BY <2>1, PartReadsType
  <2>3. pi[parts[i]] = g[i]
    BY <2>1 DEF PartsRead
  <2>4. IF parts[i].kind = kind THEN f[i] = <<parts[i]>> ELSE f[i] = <<>> /\ g[i] = <<>>
    BY <1>1, <2>1
  <2> HIDE DEF f, g, pi
  <2> QED
    BY <2>2, <2>3, <2>4
<1>4. OfKind(parts, kind) = FlattenSeq(f) /\ PartsBy(r, parts) = FlattenSeq(g)
  BY DEF OfKind, PartsBy
<1>5. ReadAs(f, pi, g, n)
  BY <1>3 DEF ReadAs
<1>6. ASSUME NEW i \in 1..n
      PROVE  IsSeq(f[i]) /\ ToSet(f[i]) = {p \in {parts[i]} : p.kind = kind}
  <2>1. f[i] = IF parts[i].kind = kind THEN <<parts[i]>> ELSE <<>>
    BY <1>1
  <2>2. ToSet(<<parts[i]>>) = {parts[i]} /\ ToSet(<<>>) = {}
    BY DEF ToSet
  <2> HIDE DEF f
  <2> QED
    BY <2>1, <2>2, OneIsSeq, EmptyIsSeq
<1> HIDE DEF f, g, pi, n
<1>7. Cat(pi, FlattenSeq(f)) = FlattenSeq(g)
  BY <1>1, <1>2, <1>5, BlocksRead
<1>8. AllSeq(f, n)
  BY <1>6 DEF AllSeq
<1>9. IsSeq(FlattenSeq(f)) /\ ToSet(FlattenSeq(f)) = Within(f, n)
  BY <1>1, <1>2, <1>8, FlattenIsSeq
<1>10. Within(f, n) = {p \in ToSet(parts) : p.kind = kind}
  <2>1. ToSet(parts) = {parts[i] : i \in 1..n}
    BY <1>1 DEF ToSet
  <2>2. Within(f, n) = UNION {{p \in {parts[i]} : p.kind = kind} : i \in 1..n}
    BY <1>6 DEF Within
  <2> QED
    BY <2>1, <2>2
<1> QED
  BY <1>4, <1>7, <1>9, <1>10 DEF pi

\* The tool messages of a message: its results, in their order.
ToolsOf(parts) ==
  [i \in DOMAIN OfKind(parts, "result") |-> ToolMessage(OfKind(parts, "result")[i])]
ContentOf(parts) == FlattenSeq([i \in DOMAIN parts |-> Piece(parts[i])])

LEMMA ToolsRead ==
  ASSUME NEW parts, AllParts(parts), NEW r
  PROVE  /\ AllWhole(ToolsOf(parts))
         /\ ReadBy(r, ToolsOf(parts)) =
              IF r \in {"results", "says"} THEN PartsBy(r, parts) ELSE <<>>
<1> DEFINE results == OfKind(parts, "result")
           n == Len(results)
           tools == ToolsOf(parts)
           g == [i \in 1..n |-> ReadIn(r, tools[i])]
<1>1. IsSeq(results) /\ ToSet(results) = {p \in ToSet(parts) : p.kind = "result"}
  <2>1. \A p \in ToSet(parts) : p.kind # "result" => PartReads("results", p) = <<>>
    BY DEF PartReads
  <2> QED
    BY <2>1, KindRead
<1>2. n \in Nat /\ DOMAIN results = 1..n /\ \A i \in 1..n : results[i] \in ToSet(results)
  <2> HIDE DEF results
  <2> QED
    BY <1>1, SeqDomain
<1>3. \A i \in 1..n : PartType(results[i]) /\ results[i].kind = "result" /\ results[i] \in ToSet(parts)
  BY <1>1, <1>2 DEF AllParts
<1>4. tools = [i \in 1..n |-> ToolMessage(results[i])]
  BY <1>2 DEF ToolsOf
<1> HIDE DEF results, n
<1>5. Runs(tools, n)
  BY <1>4 DEF Runs
<1>6. IsSeq(tools) /\ Len(tools) = n
  BY <1>2, <1>5, RunsIsSeq
<1>7. \A i \in 1..n : Whole(tools[i]) /\ tools[i].role = "tool" /\ tools[i].calls = <<>>
  BY <1>3, <1>4, ToolWhole
<1>8. AllWhole(tools)
  <2>1. DOMAIN tools = 1..n
    BY <1>5 DEF Runs
  <2> QED
    BY <1>6, <1>7, <2>1 DEF AllWhole, ToSet
<1>9. ReadBy(r, tools) = FlattenSeq(g)
  BY <1>6 DEF ReadBy
<1>10. CASE r \in {"results", "says"}
  <2> DEFINE pi == PartsRead(r, ToSet(parts))
  <2>1. \A p \in ToSet(parts) : p.kind # "result" => PartReads(r, p) = <<>>
    BY <1>10 DEF PartReads
  <2>2. Cat(pi, OfKind(parts, "result")) = PartsBy(r, parts)
    BY <2>1, KindRead
  <2>3. \A i \in 1..n : pi[results[i]] = g[i]
    <3>1. \A i \in 1..n : PartReads(r, results[i]) = ReadIn(r, ToolMessage(results[i]))
      BY <1>3, <1>10 DEF PartReads
    <3>2. \A i \in 1..n : tools[i] = ToolMessage(results[i])
      BY <1>4
    <3> HIDE DEF tools
    <3> QED
      BY <1>3, <3>1, <3>2 DEF PartsRead
  <2> HIDE DEF pi
  <2>4. [i \in 1..Len(results) |-> pi[results[i]]] = g
    BY <2>3 DEF n
  <2>5. Cat(pi, results) = FlattenSeq(g)
    BY <2>4 DEF Cat
  <2> QED
    BY <1>8, <1>9, <1>10, <2>2, <2>5 DEF results
<1>11. CASE r \notin {"results", "says"}
  <2>1. ASSUME NEW i \in 1..n PROVE g[i] = <<>>
    <3> DEFINE t == tools[i]
    <3>1. t.role = "tool" /\ t.calls = <<>> /\ g[i] = ReadIn(r, t)
      BY <1>7
    <3> HIDE DEF t, g
    <3>2. SaysItself(t) = <<>> /\ ImageIn(t) = <<>>
      BY <3>1 DEF SaysItself, ImageIn
    <3>3. CallsIn(t) = <<>>
      BY <3>1 DEF CallsIn
    <3> QED
      BY <1>11, <3>1, <3>2, <3>3 DEF ReadIn
  <2>2. Runs(g, n)
    BY DEF Runs
  <2> HIDE DEF g
  <2>3. FlattenSeq(g) = <<>>
    BY <1>2, <2>1, <2>2, FlattenNothing
  <2> QED
    BY <1>8, <1>9, <1>11, <2>3
<1> QED
  BY <1>10, <1>11

LEMMA ContentRead ==
  ASSUME NEW parts, AllParts(parts)
  PROVE  /\ IsSeq(ContentOf(parts))
         /\ Items(ContentOf(parts), Wording) = PartsBy("words", parts)
         /\ Items(ContentOf(parts), Pictures) = PartsBy("images", parts)
<1> DEFINE n == Len(parts)
           f == [i \in DOMAIN parts |-> Piece(parts[i])]
<1>1. n \in Nat /\ DOMAIN parts = 1..n /\ \A i \in 1..n : parts[i] \in ToSet(parts)
  BY SeqDomain DEF AllParts
<1>2. Runs(f, n)
  BY <1>1 DEF Runs
<1>3. \A i \in 1..n : IsSeq(f[i]) /\ f[i] = Piece(parts[i])
  BY <1>1, PieceIs DEF AllParts
<1>4. ContentOf(parts) = FlattenSeq(f)
  BY DEF ContentOf
<1> HIDE DEF f
<1>5. AllSeq(f, n)
  BY <1>3 DEF AllSeq
<1>6. IsSeq(FlattenSeq(f))
  BY <1>1, <1>2, <1>5, FlattenIsSeq
<1>7. ASSUME NEW heads
      PROVE  Items(FlattenSeq(f), heads) = FlattenSeq([i \in 1..n |-> Items(Piece(parts[i]), heads)])
  <2>1. Items(FlattenSeq(f), heads) = FlattenSeq([i \in 1..n |-> Items(f[i], heads)])
    BY <1>1, <1>2, <1>5, ItemsFlatten
  <2>2. [i \in 1..n |-> Items(f[i], heads)] = [i \in 1..n |-> Items(Piece(parts[i]), heads)]
    BY <1>3
  <2> QED
    BY <2>1, <2>2
<1>8. PartsBy("words", parts) = FlattenSeq([i \in 1..n |-> Items(Piece(parts[i]), Wording)])
  BY DEF PartsBy, PartReads
<1>9. PartsBy("images", parts) = FlattenSeq([i \in 1..n |-> Items(Piece(parts[i]), Pictures)])
  BY DEF PartsBy, PartReads
<1> QED
  BY <1>4, <1>6, <1>7, <1>8, <1>9

LEMMA CallsRead ==
  ASSUME NEW parts, AllParts(parts), NEW m, m.calls = OfKind(parts, "use")
  PROVE  IsSeq(m.calls) /\ CallsIn(m) = PartsBy("calls", parts)
<1> DEFINE calls == OfKind(parts, "use")
           pi == PartsRead("calls", ToSet(parts))
           s == CallsIn(m)
<1>1. \A p \in ToSet(parts) : p.kind # "use" => PartReads("calls", p) = <<>>
  BY DEF PartReads
<1>2. /\ Cat(pi, calls) = PartsBy("calls", parts) /\ IsSeq(calls)
      /\ ToSet(calls) = {p \in ToSet(parts) : p.kind = "use"}
  BY <1>1, KindRead
<1> HIDE DEF calls
<1>3. Len(calls) \in Nat /\ DOMAIN calls = 1..Len(calls) /\ \A i \in 1..Len(calls) : calls[i] \in ToSet(calls)
  BY <1>2, SeqDomain
<1>4. m.calls = calls
  BY DEF calls
<1>5. IsSeq(s) /\ Len(s) = Len(calls)
  BY <1>2, <1>4, CallsInType
<1>6. \A i \in 1..Len(calls) : s[i] = <<calls[i].id, calls[i].name, calls[i].input>>
  BY <1>3, <1>4 DEF CallsIn
<1>7. \A i \in 1..Len(calls) : pi[calls[i]] = <<<<calls[i].id, calls[i].name, calls[i].input>>>>
  BY <1>2, <1>3 DEF PartsRead, PartReads
<1> HIDE DEF s, pi
<1>8. [i \in 1..Len(calls) |-> pi[calls[i]]] = [i \in 1..Len(s) |-> <<s[i]>>]
  BY <1>5, <1>6, <1>7
<1>9. Cat(pi, calls) = s
  BY <1>5, <1>8, FlattenSingles DEF Cat
<1> QED
  BY <1>2, <1>4, <1>9 DEF s

LEMMA EncodeRead ==
  ASSUME NEW m, m.role # "tool", AllParts(m.parts), NEW r \in {"calls", "results", "says", "words", "images"}
  PROVE  AllWhole(EncodeMessage(m)) /\ ReadBy(r, EncodeMessage(m)) = PartsBy(r, m.parts)
<1> DEFINE tools == ToolsOf(m.parts)
           content == ContentOf(m.parts)
           calls == OfKind(m.parts, "use")
           said == Message(m.role, content, calls)
<1>1. EncodeMessage(m) = IF content = <<>> /\ calls = <<>> /\ tools # <<>> THEN tools
                         ELSE Append(tools, said)
  BY DEF EncodeMessage, Placeless, ToolsOf, ContentOf
<1>2. /\ AllWhole(tools)
      /\ ReadBy(r, tools) = IF r \in {"results", "says"} THEN PartsBy(r, m.parts) ELSE <<>>
  BY ToolsRead
<1>3. /\ IsSeq(content) /\ Items(content, Wording) = PartsBy("words", m.parts)
      /\ Items(content, Pictures) = PartsBy("images", m.parts)
  BY ContentRead
<1>4. said.role = m.role /\ said.content = content /\ said.calls = calls
  BY DEF Message
<1> HIDE DEF tools, content, said
<1>5. IsSeq(calls) /\ CallsIn(said) = PartsBy("calls", m.parts)
  BY <1>4, CallsRead
<1> HIDE DEF calls
<1>6. Whole(said)
  BY <1>3, <1>4, <1>5 DEF Whole
<1>7. ReadIn(r, said) = IF r \in {"results", "says"} THEN <<>> ELSE PartsBy(r, m.parts)
  <2>1. ResultIn(said) = <<>> /\ ToolSays(said) = <<>>
    BY <1>4 DEF ResultIn, ToolSays
  <2>2. SaysItself(said) = Items(content, Wording) /\ ImageIn(said) = Items(content, Pictures)
    BY <1>4 DEF SaysItself, ImageIn, Pictures
  <2> QED
    BY <1>3, <1>5, <2>1, <2>2 DEF ReadIn
<1>8. CASE content = <<>> /\ calls = <<>> /\ tools # <<>>
  <2>1. EncodeMessage(m) = tools
    BY <1>1, <1>8
  <2>2. r \notin {"results", "says"} => PartsBy(r, m.parts) = <<>>
    <3>1. CallsIn(said) = <<>>
      BY <1>4, <1>8 DEF CallsIn
    <3>2. Items(content, Wording) = <<>> /\ Items(content, Pictures) = <<>>
      BY <1>8, ItemsOfNone
    <3> QED
      BY <1>3, <1>5, <3>1, <3>2
  <2> QED
    BY <1>2, <2>1, <2>2
<1>9. CASE ~(content = <<>> /\ calls = <<>> /\ tools # <<>>)
  <2>1. EncodeMessage(m) = tools \o <<said>>
    <3>1. EncodeMessage(m) = Append(tools, said)
      BY <1>1, <1>9
    <3> DEFINE S == ToSet(tools) \cup {said}
    <3>2. tools \in Seq(S) /\ said \in S
      BY <1>2, SeqIn DEF AllWhole
    <3> HIDE DEF S
    <3> QED
      BY <3>1, <3>2, AppendIsConcat
  <2>2. AllWhole(<<said>>) /\ ReadBy(r, <<said>>) = ReadIn(r, said)
    BY <1>6, ReadByOne
  <2> DEFINE one == <<said>>
  <2> HIDE DEF one
  <2>3. AllWhole(tools \o one) /\ ReadBy(r, tools \o one) = ReadBy(r, tools) \o ReadBy(r, one)
    <3>1. AllWhole(one)
      BY <2>2 DEF one
    <3> QED
      BY <1>2, <3>1, ReadByConcat
  <2>4. ReadBy(r, tools) \o ReadBy(r, one) = PartsBy(r, m.parts)
    <3>1. IsSeq(ReadBy(r, tools)) /\ IsSeq(ReadIn(r, said))
      BY <1>2, <1>6, ReadByType, ReadInType
    <3>2. ReadBy(r, one) = ReadIn(r, said)
      BY <2>2 DEF one
    <3>3. ReadBy(r, tools) \o <<>> = ReadBy(r, tools) /\ <<>> \o ReadIn(r, said) = ReadIn(r, said)
      BY <3>1, WithEmpty
    <3> QED
      BY <1>2, <1>7, <3>2, <3>3
  <2> QED
    BY <2>1, <2>3, <2>4 DEF one
<1> QED
  BY <1>8, <1>9

-----------------------------------------------------------------------------
\* What is read of a block before it is decoded.
Readings == {"calls", "results", "says", "words", "images"}
FunctionsOf(b, known, spelled) ==
  IF b.type = "tool_result" THEN FunctionsBlock(References(b.content), known, spelled) ELSE <<>>
BlockReads(r, b, known, spelled) ==
  IF r = "calls" THEN CallOf(b)
  ELSE IF r = "results" THEN ResultOf(b)
  ELSE IF r = "says" THEN FunctionsOf(b, known, spelled)
  ELSE IF r = "words" THEN TextOf(b)
  ELSE PicturesOf(b)

PartsType(b, known, spelled) ==
  \/ PartsOfBlock(b, known, spelled) = <<>>
     /\ \A r \in Readings : BlockReads(r, b, known, spelled) = <<>>
  \/ \E p : /\ PartsOfBlock(b, known, spelled) = <<p>> /\ PartType(p)
            /\ \A r \in Readings : BlockReads(r, b, known, spelled) = PartReads(r, p)

LEMMA KindsApart ==
  /\ Wording \cap Pictures = {} /\ Pictures \cap Wording = {}
  /\ {"image"} \cap Wording = {} /\ {"image"} \subseteq Pictures
BY DEF Wording, Pictures

LEMMA PicturesText ==
  ASSUME NEW id, NEW images, IsSeq(images)
  PROVE  Text(<<<<"images of", id>>>> \o Imaged(images), Pictures)
<1>1. Text(<<<<"images of", id>>>>, Pictures)
  <2> DEFINE x == <<"images of", id>>
  <2>1. x[1] \in Pictures
    BY DEF Pictures
  <2> HIDE DEF x
  <2>2. Text(<<x>>, Pictures)
    BY <2>1, TextOne
  <2> QED
    BY <2>2 DEF x
<1>2. Text(Imaged(images), Pictures)
  BY ImagedText, TextKept DEF Pictures
<1> DEFINE s == <<<<"images of", id>>>>
           t == Imaged(images)
<1> HIDE DEF s, t
<1>3. Text(s \o t, Pictures)
  BY <1>1, <1>2, TextConcat DEF s, t
<1> QED
  BY <1>3 DEF s, t

LEMMA TextPart ==
  ASSUME NEW b, BlockType(b), b.type \in {"text", "document"}, NEW known, NEW spelled
  PROVE  PartsType(b, known, spelled)
<1> DEFINE p == [kind |-> "text", text |-> TextOf(b)]
<1>1. PartsOfBlock(b, known, spelled) = <<p>>
  BY DEF PartsOfBlock
<1>2. p.kind = "text" /\ p.text = TextOf(b)
  OBVIOUS
<1>3. Text(TextOf(b), Wording)
  BY TextOfText DEF BlockType, WellSaid, IsSeq
<1> HIDE DEF p
<1>4. PartType(p) /\ Piece(p) = TextOf(b)
  BY <1>2, <1>3 DEF PartType, Piece
<1>5. Items(Piece(p), Wording) = TextOf(b) /\ Items(Piece(p), Pictures) = <<>>
  <2>1. Items(TextOf(b), Wording) = TextOf(b)
    BY <1>3, TextKept
  <2>2. Items(TextOf(b), Pictures) = <<>>
    BY <1>3, TextApart, KindsApart
  <2> QED
    BY <1>4, <2>1, <2>2
<1>6. /\ CallOf(b) = <<>> /\ ResultOf(b) = <<>> /\ FunctionsOf(b, known, spelled) = <<>>
      /\ PicturesOf(b) = <<>>
  BY DEF CallOf, ResultOf, FunctionsOf, PicturesOf
<1>7. ASSUME NEW r \in Readings PROVE BlockReads(r, b, known, spelled) = PartReads(r, p)
  BY <1>2, <1>5, <1>6 DEF BlockReads, PartReads, Readings
<1> QED
  BY <1>1, <1>4, <1>7 DEF PartsType

LEMMA ImagePart ==
  ASSUME NEW b, b.type = "image", NEW known, NEW spelled
  PROVE  PartsType(b, known, spelled)
<1> DEFINE p == [kind |-> "image", image |-> b.data]
<1>1. PartsOfBlock(b, known, spelled) = <<p>>
  BY DEF PartsOfBlock
<1>2. p.kind = "image" /\ p.image = b.data
  OBVIOUS
<1> HIDE DEF p
<1>3. PartType(p) /\ Piece(p) = Imaged(<<b.data>>)
  BY <1>2 DEF PartType, Piece
<1>4. Text(Piece(p), {"image"})
  BY <1>3, OneIsSeq, ImagedText
<1>5. Items(Piece(p), Wording) = <<>> /\ Items(Piece(p), Pictures) = Piece(p)
  <2>1. Items(Piece(p), Pictures) = Piece(p)
    BY <1>4, TextKept, KindsApart
  <2>2. Items(Piece(p), Wording) = <<>>
    BY <1>4, TextApart, KindsApart
  <2> QED
    BY <2>1, <2>2
<1>6. /\ CallOf(b) = <<>> /\ ResultOf(b) = <<>> /\ FunctionsOf(b, known, spelled) = <<>>
      /\ TextOf(b) = <<>> /\ PicturesOf(b) = Imaged(<<b.data>>)
  BY DEF CallOf, ResultOf, FunctionsOf, PicturesOf, TextOf
<1>7. ASSUME NEW r \in Readings PROVE BlockReads(r, b, known, spelled) = PartReads(r, p)
  BY <1>2, <1>3, <1>5, <1>6 DEF BlockReads, PartReads, Readings
<1> QED
  BY <1>1, <1>3, <1>7 DEF PartsType

LEMMA UsePart ==
  ASSUME NEW b, b.type = "tool_use", NEW known, NEW spelled
  PROVE  PartsType(b, known, spelled)
<1> DEFINE p == [kind |-> "use", id |-> b.id, name |-> b.name, input |-> b.input]
<1>1. PartsOfBlock(b, known, spelled) = <<p>>
  BY DEF PartsOfBlock
<1>2. p.kind = "use" /\ p.id = b.id /\ p.name = b.name /\ p.input = b.input
  OBVIOUS
<1> HIDE DEF p
<1>3. PartType(p) /\ Piece(p) = <<>>
  BY <1>2 DEF PartType, Piece
<1>4. Items(Piece(p), Wording) = <<>> /\ Items(Piece(p), Pictures) = <<>>
  BY <1>3, ItemsOfNone
<1>5. /\ CallOf(b) = <<<<b.id, b.name, b.input>>>> /\ ResultOf(b) = <<>>
      /\ FunctionsOf(b, known, spelled) = <<>> /\ TextOf(b) = <<>> /\ PicturesOf(b) = <<>>
  BY DEF CallOf, ResultOf, FunctionsOf, PicturesOf, TextOf
<1>6. ASSUME NEW r \in Readings PROVE BlockReads(r, b, known, spelled) = PartReads(r, p)
  BY <1>2, <1>4, <1>5 DEF BlockReads, PartReads, Readings
<1> QED
  BY <1>1, <1>3, <1>6 DEF PartsType

LEMMA ResultPartType ==
  ASSUME NEW b, BlockType(b), b.type = "tool_result", NEW known, NEW spelled
  PROVE  PartsType(b, known, spelled)
<1> DEFINE p == ResultPart(b, known, spelled)
           said == Saying(b.content)
           functions == FunctionsBlock(References(b.content), known, spelled)
<1>1. PartsOfBlock(b, known, spelled) = <<p>>
  BY DEF PartsOfBlock
<1>2. /\ p.kind = "result" /\ p.id = b.id /\ p.images = Images(b.content)
      /\ p.text = said \o functions
  BY DEF ResultPart, Saying
<1>3. IsSeq(p.images)
  BY <1>2, NamesSeq DEF BlockType, IsSeq
<1>4. Text(p.text, {"text", "omitted", "function"})
  <2>1. Text(said, Wording)
    BY SayingText DEF BlockType, WellSaid, IsSeq
  <2>2. Text(functions, {"function"})
    BY NamesSeq, FunctionsText DEF BlockType, IsSeq
  <2> HIDE DEF said, functions
  <2>3. Text(said, {"text", "omitted", "function"}) /\ Text(functions, {"text", "omitted", "function"})
    BY <2>1, <2>2, TextKept DEF Wording
  <2> HIDE DEF p
  <2> QED
    BY <1>2, <2>3, TextConcat
<1>5. /\ ResultIn(ToolMessage(p)) = ResultOf(b)
      /\ ToolSays(ToolMessage(p)) = functions
  BY ToolMessageIs
<1> HIDE DEF p, functions, said
<1>6. PartType(p)
  BY <1>2, <1>3, <1>4 DEF PartType
<1>7. Items(Piece(p), Wording) = <<>> /\ Items(Piece(p), Pictures) = PicturesOf(b)
  <2>1. CASE p.images # <<>>
    <3>1. Piece(p) = <<<<"images of", b.id>>>> \o Imaged(p.images)
      BY <1>2, <2>1 DEF Piece
    <3>2. PicturesOf(b) = Piece(p)
      BY <1>2, <2>1, <3>1 DEF PicturesOf
    <3>3. Text(Piece(p), Pictures)
      BY <1>3, <3>1, PicturesText
    <3>4. Items(Piece(p), Pictures) = Piece(p)
      BY <3>3, TextKept
    <3>5. Items(Piece(p), Wording) = <<>>
      BY <3>3, TextApart, KindsApart
    <3> QED
      BY <3>2, <3>4, <3>5
  <2>2. CASE p.images = <<>>
    <3>1. Piece(p) = <<>> /\ PicturesOf(b) = <<>>
      BY <1>2, <2>2 DEF Piece, PicturesOf
    <3> QED
      BY <3>1, ItemsOfNone
  <2> QED
    BY <2>1, <2>2
<1>8. /\ CallOf(b) = <<>> /\ FunctionsOf(b, known, spelled) = functions /\ TextOf(b) = <<>>
  BY DEF CallOf, FunctionsOf, TextOf, functions
<1>9. ASSUME NEW r \in Readings PROVE BlockReads(r, b, known, spelled) = PartReads(r, p)
  <2>1. /\ ReadIn("results", ToolMessage(p)) = ResultIn(ToolMessage(p))
        /\ ReadIn("says", ToolMessage(p)) = ToolSays(ToolMessage(p))
    BY DEF ReadIn
  <2> QED
    BY <1>2, <1>5, <1>7, <1>8, <2>1 DEF BlockReads, PartReads, Readings
<1> QED
  BY <1>1, <1>6, <1>9 DEF PartsType

LEMMA EveryPart ==
  ASSUME NEW b, BlockType(b), NEW known, NEW spelled
  PROVE  PartsType(b, known, spelled)
<1>1. CASE b.type \notin {"text", "document", "image", "tool_use", "tool_result"}
  <2>1. PartsOfBlock(b, known, spelled) = <<>>
    BY <1>1 DEF PartsOfBlock
  <2>2. /\ CallOf(b) = <<>> /\ ResultOf(b) = <<>> /\ FunctionsOf(b, known, spelled) = <<>>
        /\ TextOf(b) = <<>> /\ PicturesOf(b) = <<>>
    BY <1>1 DEF CallOf, ResultOf, FunctionsOf, PicturesOf, TextOf
  <2>3. \A r \in Readings : BlockReads(r, b, known, spelled) = <<>>
    BY <2>2 DEF BlockReads, Readings
  <2> QED
    BY <2>1, <2>3 DEF PartsType
<1> QED
  BY <1>1, TextPart, ImagePart, UsePart, ResultPartType

-----------------------------------------------------------------------------
\* A message is read as its blocks are.
BlocksBy(r, s, i, known) ==
  FlattenSeq([k \in 1..Len(s[i].blocks) |->
    BlockReads(r, s[i].blocks[k], known, known \cap NamedBefore(s, i, k))])

LEMMA TalkBlocks ==
  ASSUME NEW s \in Seq(Talk), NEW i \in 1..Len(s)
  PROVE  /\ IsSeq(s[i].blocks) /\ \A b \in ToSet(s[i].blocks) : BlockType(b)
         /\ Len(s[i].blocks) \in Nat /\ DOMAIN s[i].blocks = 1..Len(s[i].blocks)
         /\ \A k \in 1..Len(s[i].blocks) : s[i].blocks[k] \in ToSet(s[i].blocks)
<1>1. PICK w \in Writes : s[i] = w.message
  BY DEF Talk
<1>2. IsSeq(s[i].blocks) /\ \A b \in ToSet(s[i].blocks) : BlockType(b)
  BY <1>1, RequestsAssumption DEF IsSeq
<1> QED
  BY <1>2, SeqDomain

LEMMA MessageRead ==
  ASSUME NEW s \in Seq(Talk), NEW i \in 1..Len(s), NEW known,
         NEW parts, parts = DecodeMessage(s, i, known).parts
  PROVE  /\ AllParts(parts)
         /\ \A r \in Readings : /\ PartsBy(r, parts) = BlocksBy(r, s, i, known)
                                /\ IsSeq(PartsBy(r, parts))
<1> DEFINE blocks == s[i].blocks
           n == Len(blocks)
           spelled(k) == known \cap NamedBefore(s, i, k)
           f == [k \in DOMAIN blocks |-> PartsOfBlock(blocks[k], known, spelled(k))]
<1>1. /\ n \in Nat /\ DOMAIN blocks = 1..n
      /\ \A k \in 1..n : PartsType(blocks[k], known, spelled(k))
  BY TalkBlocks, EveryPart
<1>2. parts = FlattenSeq(f)
  BY DEF DecodeMessage
<1> HIDE DEF blocks, n
<1>3. Runs(f, n) /\ \A k \in 1..n : f[k] = PartsOfBlock(blocks[k], known, spelled(k))
  BY <1>1 DEF Runs
<1> HIDE DEF f, spelled
<1>4. ASSUME NEW k \in 1..n PROVE IsSeq(f[k]) /\ \A p \in ToSet(f[k]) : PartType(p)
  <2>1. PartsType(blocks[k], known, spelled(k)) /\ f[k] = PartsOfBlock(blocks[k], known, spelled(k))
    BY <1>1, <1>3
  <2>2. f[k] = <<>> \/ \E p : f[k] = <<p>> /\ PartType(p)
    BY <2>1 DEF PartsType
  <2>3. ToSet(<<>>) = {} /\ \A p : ToSet(<<p>>) = {p}
    BY DEF ToSet
  <2> QED
    BY <2>2, <2>3, EmptyIsSeq, OneIsSeq
<1>5. AllSeq(f, n)
  BY <1>4 DEF AllSeq
<1>6. IsSeq(parts) /\ ToSet(parts) = Within(f, n)
  BY <1>1, <1>2, <1>3, <1>5, FlattenIsSeq
<1>7. AllParts(parts)
  BY <1>4, <1>6 DEF AllParts, Within
<1>8. ASSUME NEW r \in Readings
      PROVE  PartsBy(r, parts) = BlocksBy(r, s, i, known) /\ IsSeq(PartsBy(r, parts))
  <2> DEFINE g == [k \in 1..n |-> BlockReads(r, blocks[k], known, spelled(k))]
             pi == PartsRead(r, ToSet(parts))
  <2>1. Runs(g, n)
    BY DEF Runs
  <2>2. ASSUME NEW k \in 1..n
        PROVE  /\ IsSeq(g[k])
               /\ \/ f[k] = <<>> /\ g[k] = <<>>
                  \/ \E p : f[k] = <<p>> /\ pi[p] = g[k]
    <3>1. PartsType(blocks[k], known, spelled(k)) /\ f[k] = PartsOfBlock(blocks[k], known, spelled(k))
      BY <1>1, <1>3
    <3>2. CASE f[k] = <<>> /\ BlockReads(r, blocks[k], known, spelled(k)) = <<>>
      BY <3>2, EmptyIsSeq
    <3>3. CASE \E p : f[k] = <<p>> /\ PartType(p)
                        /\ BlockReads(r, blocks[k], known, spelled(k)) = PartReads(r, p)
      <4>1. PICK p : f[k] = <<p>> /\ PartType(p)
                       /\ BlockReads(r, blocks[k], known, spelled(k)) = PartReads(r, p)
        BY <3>3
      <4>2. p \in ToSet(parts)
        <5>1. p \in ToSet(f[k])
          BY <4>1 DEF ToSet
        <5> QED
          BY <1>6, <5>1 DEF Within
      <4>3. g[k] = PartReads(r, p) /\ pi[p] = PartReads(r, p)
        BY <4>1, <4>2 DEF PartsRead
      <4>4. IsSeq(PartReads(r, p))
        BY <4>1, PartReadsType
      <4> QED
        BY <4>1, <4>3, <4>4
    <3> QED
      BY <3>1, <3>2, <3>3 DEF PartsType
  <2>3. ReadAs(f, pi, g, n)
    BY <2>2 DEF ReadAs
  <2>4. BlocksBy(r, s, i, known) = FlattenSeq(g)
    BY DEF BlocksBy, n, blocks, spelled
  <2>5. PartsBy(r, parts) = Cat(pi, parts)
    <3>1. \A j \in 1..Len(parts) : parts[j] \in ToSet(parts)
      BY <1>6, SeqDomain
    <3>2. [j \in 1..Len(parts) |-> PartReads(r, parts[j])] = [j \in 1..Len(parts) |-> pi[parts[j]]]
      BY <3>1 DEF PartsRead
    <3> QED
      BY <3>2 DEF PartsBy, Cat
  <2>6. AllSeq(g, n)
    BY <2>2 DEF AllSeq
  <2> HIDE DEF g, pi
  <2>7. Cat(pi, FlattenSeq(f)) = FlattenSeq(g)
    BY <1>1, <1>3, <2>1, <2>3, BlocksRead
  <2>8. IsSeq(FlattenSeq(g))
    BY <1>1, <2>1, <2>6, FlattenIsSeq
  <2> QED
    BY <1>2, <2>4, <2>5, <2>7, <2>8
<1> QED
  BY <1>7, <1>8

-----------------------------------------------------------------------------
\* A message of the system holds text alone.
LEMMA SystemRead ==
  ASSUME NEW m, AllParts(m.parts), \A p \in ToSet(m.parts) : p.kind = "text"
  PROVE  /\ PlainText(m) = PartsBy("words", m.parts) /\ Text(PlainText(m), Wording)
         /\ \A r \in Readings \ {"words"} : PartsBy(r, m.parts) = <<>>
<1> DEFINE parts == m.parts
           texts == OfKind(parts, "text")
           n == Len(texts)
           pi == PartsRead("words", ToSet(parts))
           f == [i \in DOMAIN texts |-> texts[i].text]
<1>1. \A p \in ToSet(parts) : p.kind # "text" => PartReads("words", p) = <<>>
  OBVIOUS
<1>2. /\ Cat(pi, texts) = PartsBy("words", parts) /\ IsSeq(texts)
      /\ ToSet(texts) = {p \in ToSet(parts) : p.kind = "text"}
  BY <1>1, KindRead
<1>3. n \in Nat /\ DOMAIN texts = 1..n /\ \A i \in 1..n : texts[i] \in ToSet(texts)
  <2> HIDE DEF texts
  <2> QED
    BY <1>2, SeqDomain
<1>4. ASSUME NEW p \in ToSet(parts)
      PROVE  /\ Text(p.text, Wording) /\ pi[p] = p.text
             /\ \A r \in Readings \ {"words"} : PartReads(r, p) = <<>>
  <2>1. PartType(p) /\ p.kind = "text"
    BY DEF AllParts
  <2>2. Text(p.text, Wording) /\ Piece(p) = p.text
    BY <2>1 DEF PartType, Piece
  <2>3. Items(Piece(p), Wording) = p.text
    BY <2>2, TextKept
  <2>4. Items(Piece(p), Pictures) = <<>>
    BY <2>2, TextApart, KindsApart
  <2>5. PartReads("words", p) = p.text /\ \A r \in Readings \ {"words"} : PartReads(r, p) = <<>>
    BY <2>1, <2>3, <2>4 DEF PartReads, Readings
  <2> QED
    BY <2>2, <2>5 DEF PartsRead
<1>5. PlainText(m) = FlattenSeq(f)
  BY DEF PlainText
<1>6. Runs(f, n) /\ \A i \in 1..n : f[i] = texts[i].text
  BY <1>3 DEF Runs
<1> HIDE DEF texts, pi, f
<1>7. \A i \in 1..n : f[i] = pi[texts[i]] /\ Text(f[i], Wording)
  BY <1>2, <1>3, <1>4, <1>6
<1>8. f = [i \in 1..n |-> pi[texts[i]]]
  BY <1>6, <1>7 DEF Runs
<1>9. PlainText(m) = PartsBy("words", parts)
  BY <1>2, <1>5, <1>8 DEF Cat
<1>10. Text(PlainText(m), Wording)
  <2> HIDE DEF n
  <2> QED
    BY <1>3, <1>5, <1>6, <1>7, TextFlatten
<1>11. ASSUME NEW r \in Readings \ {"words"} PROVE PartsBy(r, parts) = <<>>
  <2> DEFINE g == [i \in 1..Len(parts) |-> PartReads(r, parts[i])]
  <2>1. Len(parts) \in Nat /\ \A i \in 1..Len(parts) : parts[i] \in ToSet(parts)
    BY SeqDomain DEF AllParts
  <2>2. Runs(g, Len(parts)) /\ \A i \in 1..Len(parts) : g[i] = <<>>
    BY <1>4, <2>1 DEF Runs
  <2> HIDE DEF g
  <2>3. FlattenSeq(g) = <<>>
    BY <2>1, <2>2, FlattenNothing
  <2> QED
    BY <2>3 DEF PartsBy, g
<1> QED
  BY <1>9, <1>10, <1>11

LEMMA ReminderRead ==
  ASSUME NEW m, Text(PlainText(m), Wording), NEW r \in Readings
  PROVE  AllWhole(<<Reminder(m)>>)
         /\ ReadBy(r, <<Reminder(m)>>) = IF r = "words" THEN PlainText(m) ELSE <<>>
<1> DEFINE text == PlainText(m)
           open == <<<<"<system-reminder>">>>>
           close == <<<<"</system-reminder>">>>>
           x == Reminder(m)
           all == {"text", "omitted", "<system-reminder>", "</system-reminder>"}
<1>1. x.role = "user" /\ x.content = (open \o text) \o close /\ x.calls = <<>>
  BY DEF Reminder, Message
<1>2. Text(open, {"<system-reminder>"}) /\ Text(close, {"</system-reminder>"})
  BY TextOne
<1>3. Text(text, all) /\ Text(open, all) /\ Text(close, all)
  BY <1>2, TextKept DEF Wording
<1> HIDE DEF text, open, close, x
<1>4. Text((open \o text) \o close, all)
  <2> DEFINE t == open \o text
  <2>1. Text(t, all)
    BY <1>3, TextConcat
  <2> HIDE DEF t
  <2>2. Text(t \o close, all)
    BY <1>3, <2>1, TextConcat
  <2> QED
    BY <2>2 DEF t
<1>5. Items(x.content, Pictures) = <<>>
  <2>1. all \cap Pictures = {}
    BY DEF Pictures
  <2> QED
    BY <1>1, <1>4, <2>1, TextApart
<1>6. Items(x.content, Wording) = text
  <2>1. Lacks(open, Wording) /\ Lacks(close, Wording)
    <3>1. {"<system-reminder>"} \cap Wording = {} /\ {"</system-reminder>"} \cap Wording = {}
      BY DEF Wording
    <3>2. Items(open, Wording) = <<>>
      BY <1>2, <3>1, TextApart
    <3>3. Items(close, Wording) = <<>>
      BY <1>2, <3>1, TextApart
    <3> QED
      BY <3>2, <3>3 DEF Lacks
  <2> DEFINE none == <<>>
  <2>2. IsSeq(none) /\ Items(none, Wording) = none
    BY EmptyIsSeq, ItemsOfNone
  <2>3. IsSeq(open) /\ IsSeq(close) /\ IsSeq(text)
    BY <1>3 DEF Text
  <2>4. text \o none = text
    BY <2>3, WithEmpty
  <2> HIDE DEF none
  <2>5. Items((open \o (text \o none)) \o close, Wording) = Items(text, Wording) \o Items(none, Wording)
    <3> DEFINE w == Wording
    <3>1. IsSeq(open) /\ IsSeq(text) /\ IsSeq(none) /\ IsSeq(close)
      BY <2>2, <2>3
    <3>2. Lacks(open, w) /\ Lacks(close, w)
      BY <2>1
    <3> HIDE DEF w
    <3>3. Items((open \o (text \o none)) \o close, w) = Items(text, w) \o Items(none, w)
      BY ONLY <3>1, <3>2, ItemsBetween
    <3> QED
      BY <3>3 DEF w
  <2>6. Items(text, Wording) = text
    BY TextKept DEF text
  <2> QED
    BY <1>1, <2>2, <2>4, <2>5, <2>6
<1>7. Whole(x)
  BY <1>1, <1>4, EmptyIsSeq DEF Whole, Text
<1>8. ReadIn(r, x) = IF r = "words" THEN text ELSE <<>>
  <2>1. CallsIn(x) = <<>>
    BY <1>1 DEF CallsIn
  <2>2. ResultIn(x) = <<>> /\ ToolSays(x) = <<>> /\ SaysItself(x) = text /\ ImageIn(x) = <<>>
    BY <1>1, <1>5, <1>6 DEF ResultIn, ToolSays, SaysItself, ImageIn, Pictures
  <2> QED
    BY <2>1, <2>2 DEF ReadIn, Readings
<1> QED
  BY <1>7, <1>8, ReadByOne DEF x, text

-----------------------------------------------------------------------------
\* A chat is read as the conversation is.
LEMMA WordsAre ==
  ASSUME NEW s \in Seq(Talk), NEW i \in 1..Len(s), NEW known
  PROVE  BlocksBy("words", s, i, known) = Saying(s[i].blocks) /\ IsSeq(Saying(s[i].blocks))
<1>1. [k \in 1..Len(s[i].blocks) |->
         BlockReads("words", s[i].blocks[k], known, known \cap NamedBefore(s, i, k))]
        = [k \in DOMAIN s[i].blocks |-> TextOf(s[i].blocks[k])]
  BY TalkBlocks DEF BlockReads
<1>2. Text(Saying(s[i].blocks), Wording)
  BY TalkBlocks, SayingText DEF BlockType, WellSaid, IsSeq
<1> QED
  BY <1>1, <1>2 DEF BlocksBy, Saying, Text

LEMMA NextRead ==
  ASSUME NEW s \in Seq(Talk), NEW i \in 1..Len(s), NEW known,
         NEW m, m = DecodeMessage(s, i, known), Decodable(s[i], m),
         NEW placement, NEW leading
  PROVE  /\ AllWhole(EncodeNext(m, placement, leading)) /\ m.role = s[i].role
         /\ s[i].role \in {"user", "assistant", "system"}
         /\ s[i].role = "system" => PlainText(m) = Saying(s[i].blocks)
         /\ \A r \in Readings :
              ReadBy(r, EncodeNext(m, placement, leading)) =
                IF r = "words" /\ s[i].role = "system" /\ placement = "merge" THEN <<>>
                ELSE BlocksBy(r, s, i, known)
<1> DEFINE parts == m.parts
<1>1. m.role = s[i].role /\ s[i].role \in {"user", "assistant", "system"}
  BY DEF DecodeMessage, Decodable
<1>2. \A p \in ToSet(parts) : p.kind \in Allowed(s[i].role)
  BY DEF Decodable
<1>3. parts = DecodeMessage(s, i, known).parts
  OBVIOUS
<1> HIDE DEF parts
<1>4. /\ AllParts(parts)
      /\ \A r \in Readings : PartsBy(r, parts) = BlocksBy(r, s, i, known) /\ IsSeq(PartsBy(r, parts))
  BY <1>3, MessageRead
<1>5. BlocksBy("words", s, i, known) = Saying(s[i].blocks)
  BY WordsAre
<1>6. s[i].role = "system" =>
        /\ PlainText(m) = PartsBy("words", parts) /\ Text(PlainText(m), Wording)
        /\ \A r \in Readings \ {"words"} : PartsBy(r, parts) = <<>>
  <2> SUFFICES ASSUME s[i].role = "system"
               PROVE  /\ PlainText(m) = PartsBy("words", parts) /\ Text(PlainText(m), Wording)
                      /\ \A r \in Readings \ {"words"} : PartsBy(r, parts) = <<>>
    OBVIOUS
  <2>1. \A p \in ToSet(m.parts) : p.kind = "text"
    BY <1>2 DEF Allowed, parts
  <2>2. AllParts(m.parts)
    BY <1>4 DEF parts
  <2> QED
    BY <2>1, <2>2, SystemRead DEF parts
<1>7. "words" \in Readings
  BY DEF Readings
<1>8. s[i].role = "system" => PlainText(m) = Saying(s[i].blocks)
  BY <1>4, <1>5, <1>6, <1>7
<1>9. CASE s[i].role = "system" /\ placement = "merge"
  <2>1. EncodeNext(m, placement, leading) = <<>>
    BY <1>1, <1>9 DEF EncodeNext
  <2>2. AllWhole(<<>>) /\ \A r : ReadBy(r, <<>>) = <<>>
    BY ReadByNone
  <2>3. \A r \in Readings \ {"words"} : BlocksBy(r, s, i, known) = <<>>
    BY <1>4, <1>6, <1>9
  <2> QED
    BY <1>1, <1>8, <1>9, <2>1, <2>2, <2>3
<1>10. CASE s[i].role = "system" /\ placement = "user" /\ ~leading
  <2>1. EncodeNext(m, placement, leading) = <<Reminder(m)>>
    BY <1>1, <1>10 DEF EncodeNext
  <2>2. Text(PlainText(m), Wording)
    BY <1>6, <1>10
  <2>3. AllWhole(<<Reminder(m)>>)
    BY <2>2, <1>7, ReminderRead
  <2>4. ASSUME NEW r \in Readings PROVE ReadBy(r, <<Reminder(m)>>) = BlocksBy(r, s, i, known)
    <3>1. ReadBy(r, <<Reminder(m)>>) = IF r = "words" THEN PlainText(m) ELSE <<>>
      BY <2>2, ReminderRead
    <3>2. CASE r = "words"
      BY <3>1, <3>2, <1>4, <1>6, <1>7, <1>10
    <3>3. CASE r # "words"
      BY <3>1, <3>3, <1>4, <1>6, <1>10
    <3> QED
      BY <3>2, <3>3
  <2> QED
    BY <1>1, <1>8, <1>10, <2>1, <2>3, <2>4
<1>11. CASE ~(s[i].role = "system" /\ placement = "merge")
              /\ ~(s[i].role = "system" /\ placement = "user" /\ ~leading)
  <2>1. EncodeNext(m, placement, leading) = EncodeMessage(m)
    BY <1>1, <1>11 DEF EncodeNext
  <2>2. m.role # "tool" /\ AllParts(m.parts)
    BY <1>1, <1>4 DEF parts
  <2>3. AllWhole(EncodeMessage(m)) /\ \A r \in Readings : ReadBy(r, EncodeMessage(m)) = PartsBy(r, parts)
    <3>1. ASSUME NEW r \in Readings
          PROVE  AllWhole(EncodeMessage(m)) /\ ReadBy(r, EncodeMessage(m)) = PartsBy(r, m.parts)
      BY <2>2, EncodeRead DEF Readings
    <3> QED
      BY <3>1, <1>7 DEF parts
  <2> QED
    BY <1>1, <1>4, <1>8, <1>11, <2>1, <2>3
<1> QED
  BY <1>9, <1>10, <1>11

\* What stands before the messages.
HeadOf(first) == IF first = <<>> THEN <<>> ELSE <<Message("system", first, <<>>)>>

LEMMA HeadRead ==
  ASSUME NEW first, Text(first, Wording), NEW r \in Readings
  PROVE  AllWhole(HeadOf(first)) /\ ReadBy(r, HeadOf(first)) = IF r = "words" THEN first ELSE <<>>
<1>1. CASE first = <<>>
  <2>1. HeadOf(first) = <<>>
    BY <1>1 DEF HeadOf
  <2> QED
    BY <1>1, <2>1, ReadByNone
<1>2. CASE first # <<>>
  <2> DEFINE x == Message("system", first, <<>>)
  <2>1. HeadOf(first) = <<x>>
    BY <1>2 DEF HeadOf
  <2>2. x.role = "system" /\ x.content = first /\ x.calls = <<>>
    BY DEF Message
  <2> HIDE DEF x
  <2>3. Whole(x)
    BY <2>2, EmptyIsSeq DEF Whole, Text
  <2>4. Items(first, Wording) = first
    BY TextKept
  <2>5. Items(first, Pictures) = <<>>
    BY TextApart, KindsApart
  <2>6. ReadIn(r, x) = IF r = "words" THEN first ELSE <<>>
    <3>1. CallsIn(x) = <<>>
      BY <2>2 DEF CallsIn
    <3>2. ResultIn(x) = <<>> /\ ToolSays(x) = <<>> /\ SaysItself(x) = first /\ ImageIn(x) = <<>>
      BY <2>2, <2>4, <2>5 DEF ResultIn, ToolSays, SaysItself, ImageIn, Pictures
    <3> QED
      BY <3>1, <3>2 DEF ReadIn, Readings
  <2> QED
    BY <2>1, <2>3, <2>6, ReadByOne
<1> QED
  BY <1>1, <1>2

SaidIn(s, roles) ==
  FlattenSeq([i \in DOMAIN s |-> IF s[i].role \in roles THEN Saying(s[i].blocks) ELSE <<>>])

LEMMA SaidInText ==
  ASSUME NEW s \in Seq(Talk), NEW roles
  PROVE  Text(SaidIn(s, roles), Wording)
<1> DEFINE n == Len(s)
           f == [i \in DOMAIN s |-> IF s[i].role \in roles THEN Saying(s[i].blocks) ELSE <<>>]
<1>1. n \in Nat /\ DOMAIN s = 1..n
  OBVIOUS
<1>2. Runs(f, n)
  BY <1>1 DEF Runs
<1>3. ASSUME NEW i \in 1..n PROVE Text(f[i], Wording)
  <2>1. Text(Saying(s[i].blocks), Wording)
    BY TalkBlocks, SayingText DEF BlockType, WellSaid, IsSeq
  <2>2. f[i] = Saying(s[i].blocks) \/ f[i] = <<>>
    BY <1>1
  <2> QED
    BY <2>1, <2>2, TextNone
<1>4. SaidIn(s, roles) = FlattenSeq(f)
  BY DEF SaidIn
<1> HIDE DEF f, n
<1> QED
  BY <1>1, <1>2, <1>3, <1>4, TextFlatten

TalkBy(r, s, known) == FlattenSeq([i \in 1..Len(s) |-> BlocksBy(r, s, i, known)])
Everyone == {"system", "user", "assistant"}
WordsOfTalk(s, system, placement) ==
  Texts(system) \o
    (IF placement = "merge" THEN SaidIn(s, {"system"}) \o SaidIn(s, {"user", "assistant"})
     ELSE SaidIn(s, Everyone))

LEMMA ChatRead ==
  ASSUME NEW s \in Seq(Talk), NEW tools, Decode(s, tools) # None, NEW system, IsSeq(system),
         NEW placement, NEW chat, chat = Encode(system, Decode(s, tools), placement),
         NEW r \in Readings
  PROVE  /\ AllWhole(chat)
         /\ ReadBy(r, chat) = IF r = "words" THEN WordsOfTalk(s, system, placement)
                              ELSE TalkBy(r, s, Known(tools, s))
<1> DEFINE n == Len(s)
           known == Known(tools, s)
           d == [i \in DOMAIN s |-> DecodeMessage(s, i, known)]
           merged == IF placement # "merge" THEN <<>>
                     ELSE FlattenSeq([i \in DOMAIN d |->
                            IF d[i].role = "system" THEN PlainText(d[i]) ELSE <<>>])
           first == Texts(system) \o merged
           leads(i) == first = <<>> /\ i = 1
           f == [i \in DOMAIN d |-> EncodeNext(d[i], placement, leads(i))]
<1>1. Decode(s, tools) = d /\ \A i \in DOMAIN s : Decodable(s[i], d[i])
  BY DEF Decode
<1>2. n \in Nat /\ DOMAIN s = 1..n /\ DOMAIN d = 1..n /\ \A i \in 1..n : d[i] = DecodeMessage(s, i, known)
  OBVIOUS
<1>3. chat = HeadOf(first) \o FlattenSeq(f)
  BY <1>1 DEF Encode, HeadOf
<1> HIDE DEF d, known
<1>4. ASSUME NEW i \in 1..n
      PROVE  /\ AllWhole(f[i]) /\ d[i].role = s[i].role
             /\ s[i].role \in Everyone
             /\ s[i].role = "system" => PlainText(d[i]) = Saying(s[i].blocks)
             /\ ReadBy(r, f[i]) =
                  IF r = "words" /\ s[i].role = "system" /\ placement = "merge" THEN <<>>
                  ELSE BlocksBy(r, s, i, known)
  <2> DEFINE m == d[i]
             leading == leads(i)
  <2>1. m = DecodeMessage(s, i, known) /\ Decodable(s[i], m) /\ f[i] = EncodeNext(m, placement, leading)
    BY <1>1, <1>2
  <2> HIDE DEF m, leading, f
  <2> QED
    BY <1>2, <2>1, NextRead DEF Everyone, m
<1>5. merged = IF placement = "merge" THEN SaidIn(s, {"system"}) ELSE <<>>
  <2>1. \A i \in 1..n : (IF d[i].role = "system" THEN PlainText(d[i]) ELSE <<>>)
                         = (IF s[i].role \in {"system"} THEN Saying(s[i].blocks) ELSE <<>>)
    BY <1>4
  <2>2. [i \in DOMAIN d |-> IF d[i].role = "system" THEN PlainText(d[i]) ELSE <<>>]
          = [i \in DOMAIN s |-> IF s[i].role \in {"system"} THEN Saying(s[i].blocks) ELSE <<>>]
    BY <1>2, <2>1
  <2> QED
    BY <2>2 DEF SaidIn
<1>6. Runs(f, n)
  BY <1>2 DEF Runs
<1> HIDE DEF merged, f
<1>7. Text(first, Wording) /\ Text(merged, Wording) /\ Text(Texts(system), Wording)
  <2>1. Text(Texts(system), Wording)
    <3>1. Text(Texts(system), {"text"})
      BY TextsText
    <3> QED
      BY <3>1, TextKept DEF Wording
  <2>2. Text(merged, Wording)
    BY <1>5, SaidInText, TextNone
  <2> QED
    BY <2>1, <2>2, TextConcat
<1>8. /\ AllWhole(HeadOf(first))
      /\ ReadBy(r, HeadOf(first)) = IF r = "words" THEN first ELSE <<>>
  BY <1>7, HeadRead
<1> DEFINE g == [i \in 1..n |-> ReadBy(r, f[i])]
<1>9. AllWhole(FlattenSeq(f)) /\ ReadBy(r, FlattenSeq(f)) = FlattenSeq(g)
  BY <1>2, <1>4, <1>6, ReadByFlatten
<1> HIDE DEF first, g
<1>10. /\ AllWhole(chat)
       /\ ReadBy(r, chat) = ReadBy(r, HeadOf(first)) \o FlattenSeq(g)
  <2> DEFINE h == HeadOf(first)
             t == FlattenSeq(f)
  <2>1. AllWhole(h) /\ AllWhole(t)
    BY <1>8, <1>9
  <2>2. chat = h \o t /\ ReadBy(r, t) = FlattenSeq(g)
    BY <1>3, <1>9
  <2> HIDE DEF h, t
  <2>3. AllWhole(h \o t)
    BY <2>1, ReadByConcat
  <2>4. ReadBy(r, h \o t) = ReadBy(r, h) \o ReadBy(r, t)
    BY <2>1, ReadByConcat
  <2> QED
    BY <2>2, <2>3, <2>4 DEF h
<1>11. IsSeq(FlattenSeq(g))
  BY <1>9, ReadByType
<1>12. CASE r # "words"
  <2>1. g = [i \in 1..n |-> BlocksBy(r, s, i, known)]
    BY <1>4, <1>12 DEF g
  <2>2. <<>> \o FlattenSeq(g) = FlattenSeq(g)
    BY <1>11, WithEmpty
  <2>3. ReadBy(r, chat) = FlattenSeq(g)
    BY <1>8, <1>10, <1>12, <2>2
  <2>4. TalkBy(r, s, known) = FlattenSeq(g)
    BY <2>1 DEF TalkBy
  <2> QED
    BY <1>10, <1>12, <2>3, <2>4 DEF known
<1>13. CASE r = "words" /\ placement = "merge"
  <2>1. \A i \in 1..n : ReadBy(r, f[i]) =
                          IF s[i].role \in {"user", "assistant"} THEN Saying(s[i].blocks) ELSE <<>>
    <3>1. \A i \in 1..n : BlocksBy("words", s, i, known) = Saying(s[i].blocks)
      BY WordsAre
    <3> QED
      BY <1>4, <1>13, <3>1 DEF Everyone
  <2>2. g = [i \in DOMAIN s |-> IF s[i].role \in {"user", "assistant"} THEN Saying(s[i].blocks) ELSE <<>>]
    BY <1>2, <2>1 DEF g
  <2>3. FlattenSeq(g) = SaidIn(s, {"user", "assistant"})
    BY <2>2 DEF SaidIn
  <2> DEFINE a == Texts(system)
             b == SaidIn(s, {"system"})
             c == SaidIn(s, {"user", "assistant"})
  <2>4. ReadBy(r, chat) = (a \o b) \o c
    BY <1>5, <1>8, <1>10, <1>13, <2>3 DEF first
  <2>5. IsSeq(a) /\ IsSeq(b) /\ IsSeq(c)
    BY <1>7, SaidInText DEF Text
  <2>6. WordsOfTalk(s, system, placement) = a \o (b \o c)
    BY <1>13 DEF WordsOfTalk
  <2> HIDE DEF a, b, c
  <2>7. (a \o b) \o c = a \o (b \o c)
    <3> DEFINE S == (ToSet(a) \cup ToSet(b)) \cup ToSet(c)
    <3>1. a \in Seq(S) /\ b \in Seq(S) /\ c \in Seq(S)
      BY <2>5, SeqIn
    <3> HIDE DEF S
    <3> QED
      BY <3>1, ConcatAssociative
  <2> QED
    BY <1>10, <1>13, <2>4, <2>6, <2>7
<1>14. CASE r = "words" /\ placement # "merge"
  <2>1. \A i \in 1..n : ReadBy(r, f[i]) =
                          IF s[i].role \in Everyone THEN Saying(s[i].blocks) ELSE <<>>
    <3>1. \A i \in 1..n : BlocksBy("words", s, i, known) = Saying(s[i].blocks)
      BY WordsAre
    <3> QED
      BY <1>4, <1>14, <3>1
  <2>2. g = [i \in DOMAIN s |-> IF s[i].role \in Everyone THEN Saying(s[i].blocks) ELSE <<>>]
    BY <1>2, <2>1 DEF g
  <2>3. FlattenSeq(g) = SaidIn(s, Everyone)
    BY <2>2 DEF SaidIn
  <2>4. first = Texts(system)
    <3> DEFINE a == Texts(system)
    <3>1. IsSeq(a)
      BY <1>7 DEF Text
    <3> HIDE DEF a
    <3>2. a \o <<>> = a
      BY <3>1, WithEmpty
    <3> QED
      BY <1>5, <1>14, <3>2 DEF first, a
  <2>5. ReadBy(r, chat) = Texts(system) \o SaidIn(s, Everyone)
    BY <1>8, <1>10, <1>14, <2>3, <2>4
  <2> QED
    BY <1>10, <1>14, <2>5 DEF WordsOfTalk
<1> QED
  BY <1>12, <1>13, <1>14

-----------------------------------------------------------------------------
\* Definitions in their order: each is spelled where its function is first named.
NewAt(fs, i) == \A k \in 1..i - 1 : fs[k][2] # fs[i][2]
IsDefined(f) == f[3] = "defined"
SpelledOnce(fs, known, before) ==
  /\ IsSeq(fs)
  /\ \A i \in 1..Len(fs) :
       IsDefined(fs[i]) <=> fs[i][2] \in known /\ fs[i][2] \notin before /\ NewAt(fs, i)
NamesIn(fs) == {f[2] : f \in ToSet(fs)}

LEMMA ConcatAt ==
  ASSUME NEW s, NEW t, IsSeq(s), IsSeq(t)
  PROVE  /\ IsSeq(s \o t) /\ Len(s \o t) = Len(s) + Len(t) /\ Len(s) \in Nat /\ Len(t) \in Nat
         /\ \A i \in 1..Len(s) : (s \o t)[i] = s[i]
         /\ \A i \in 1..Len(t) : (s \o t)[Len(s) + i] = t[i]
<1> DEFINE S == ToSet(s) \cup ToSet(t)
<1>1. s \in Seq(S) /\ t \in Seq(S)
  BY SeqIn
<1>2. IsSeq(s \o t)
  BY BothSeq
<1> HIDE DEF S
<1>3. /\ Len(s \o t) = Len(s) + Len(t) /\ Len(s) \in Nat /\ Len(t) \in Nat
      /\ \A i \in 1..Len(s) : (s \o t)[i] = s[i]
      /\ \A i \in 1..Len(t) : (s \o t)[Len(s) + i] = t[i]
  BY <1>1
<1> QED
  BY <1>2, <1>3

LEMMA OnceConcat ==
  ASSUME NEW s, NEW t, NEW known, NEW before, SpelledOnce(s, known, before),
         SpelledOnce(t, known, before \cup NamesIn(s))
  PROVE  SpelledOnce(s \o t, known, before) /\ NamesIn(s \o t) = NamesIn(s) \cup NamesIn(t)
<1> DEFINE u == s \o t
           n == Len(s)
           m == Len(t)
<1>1. /\ IsSeq(u) /\ Len(u) = n + m /\ n \in Nat /\ m \in Nat
      /\ \A i \in 1..n : u[i] = s[i]
      /\ \A i \in 1..m : u[n + i] = t[i]
  BY ConcatAt DEF SpelledOnce
<1>2. ToSet(u) = ToSet(s) \cup ToSet(t)
  BY BothSeq DEF SpelledOnce
<1>3. NamesIn(u) = NamesIn(s) \cup NamesIn(t)
  BY <1>2 DEF NamesIn
<1>4. NamesIn(s) = {s[i][2] : i \in 1..n}
  <2>1. ToSet(s) = {s[i] : i \in 1..n}
    BY SeqDomain DEF SpelledOnce, ToSet
  <2> QED
    BY <2>1 DEF NamesIn
<1> HIDE DEF u, n, m
<1>5. ASSUME NEW i \in 1..n
      PROVE  IsDefined(u[i]) <=> u[i][2] \in known /\ u[i][2] \notin before /\ NewAt(u, i)
  <2>1. u[i] = s[i] /\ \A k \in 1..i - 1 : u[k] = s[k]
    BY <1>1
  <2>2. NewAt(u, i) <=> NewAt(s, i)
    BY <2>1 DEF NewAt
  <2>3. IsDefined(s[i]) <=> s[i][2] \in known /\ s[i][2] \notin before /\ NewAt(s, i)
    BY DEF SpelledOnce, n
  <2> QED
    BY <2>1, <2>2, <2>3
<1>6. ASSUME NEW j \in 1..m
      PROVE  LET i == n + j
             IN IsDefined(u[i]) <=> u[i][2] \in known /\ u[i][2] \notin before /\ NewAt(u, i)
  <2> DEFINE i == n + j
  <2>1. u[i] = t[j] /\ \A k \in 1..j - 1 : u[n + k] = t[k]
    BY <1>1
  <2>2. IsDefined(t[j]) <=> t[j][2] \in known /\ t[j][2] \notin before \cup NamesIn(s) /\ NewAt(t, j)
    BY DEF SpelledOnce, m
  <2>3. ASSUME NewAt(u, i) PROVE NewAt(t, j) /\ t[j][2] \notin NamesIn(s)
    <3>1. ASSUME NEW k \in 1..j - 1 PROVE t[k][2] # t[j][2]
      <4>1. n + k \in 1..i - 1
        BY <1>1
      <4> QED
        BY <2>1, <2>3, <4>1 DEF NewAt
    <3>2. ASSUME NEW k \in 1..n PROVE s[k][2] # t[j][2]
      <4>1. k \in 1..i - 1 /\ u[k] = s[k]
        BY <1>1
      <4> QED
        BY <2>1, <2>3, <4>1 DEF NewAt
    <3> QED
      BY <1>4, <3>1, <3>2 DEF NewAt
  <2>4. ASSUME NewAt(t, j), t[j][2] \notin NamesIn(s) PROVE NewAt(u, i)
    <3>1. ASSUME NEW k \in 1..i - 1 PROVE u[k][2] # u[i][2]
      <4>1. CASE k \in 1..n
        BY <1>1, <1>4, <2>1, <2>4, <4>1
      <4>2. CASE k \notin 1..n
        <5>1. k - n \in 1..j - 1 /\ n + (k - n) = k
          BY <1>1, <4>2
        <5>2. u[k] = t[k - n]
          BY <2>1, <5>1
        <5> QED
          BY <2>1, <2>4, <5>1, <5>2 DEF NewAt
      <4> QED
        BY <4>1, <4>2
    <3> QED
      BY <3>1 DEF NewAt
  <2> HIDE DEF i
  <2>5. NewAt(u, i) <=> NewAt(t, j) /\ t[j][2] \notin NamesIn(s)
    BY <2>3, <2>4
  <2>6. IsDefined(u[i]) <=> u[i][2] \in known /\ u[i][2] \notin before /\ NewAt(u, i)
    BY <2>1, <2>2, <2>5
  <2> QED
    BY <2>6 DEF i
<1>7. ASSUME NEW i \in 1..Len(u)
      PROVE  IsDefined(u[i]) <=> u[i][2] \in known /\ u[i][2] \notin before /\ NewAt(u, i)
  <2>1. CASE i \in 1..n
    BY <1>5, <2>1
  <2>2. CASE i \notin 1..n
    <3>1. i - n \in 1..m /\ n + (i - n) = i
      BY <1>1, <2>2
    <3> QED
      BY <1>6, <3>1
  <2> QED
    BY <2>1, <2>2
<1>8. SpelledOnce(u, known, before)
  BY <1>1, <1>7 DEF SpelledOnce
<1> QED
  BY <1>3, <1>8 DEF u

LEMMA OnceNone ==
  ASSUME NEW known, NEW before
  PROVE  SpelledOnce(<<>>, known, before) /\ NamesIn(<<>>) = {}
<1>1. Len(<<>>) = 0 /\ ToSet(<<>>) = {}
  BY DEF ToSet
<1> QED
  BY <1>1, EmptyIsSeq DEF SpelledOnce, NamesIn

\* Each list is spelled after the ones before it.
InTurn(f, n, known, N) ==
  /\ \A i \in 1..n : SpelledOnce(f[i], known, N[i])
  /\ \A i \in 1..n : N[i + 1] = N[i] \cup NamesIn(f[i])

LEMMA OnceFlatten ==
  ASSUME NEW n \in Nat, NEW f, Runs(f, n), NEW known, NEW N, InTurn(f, n, known, N)
  PROVE  /\ SpelledOnce(FlattenSeq(f), known, N[1])
         /\ N[n + 1] = N[1] \cup NamesIn(FlattenSeq(f))
<1>1. IsSeq(f) /\ Len(f) = n
  BY RunsIsSeq
<1>2. CASE n = 0
  <2>1. FlattenSeq(f) = <<>>
    BY <1>1, <1>2 DEF FlattenSeq
  <2> QED
    BY <1>2, <2>1, OnceNone
<1>3. CASE n # 0
  <2>1. PICK g : Flattens(f, n, g) /\ FlattenSeq(f) = g[n]
    BY <1>1, <1>3, FlattenRun
  <2>2. \A i \in 1..n : g[i] = IF i = 1 THEN f[i] ELSE g[i - 1] \o f[i]
    BY <2>1 DEF Flattens
  <2> DEFINE T == {k \in Nat : k + 1 <= n => /\ SpelledOnce(g[k + 1], known, N[1])
                                             /\ N[(k + 1) + 1] = N[1] \cup NamesIn(g[k + 1])}
  <2>3. 0 \in T
    <3>1. 1 \in 1..n
      BY <1>3
    <3>2. g[1] = f[1] /\ SpelledOnce(f[1], known, N[1]) /\ N[1 + 1] = N[1] \cup NamesIn(f[1])
      BY <2>2, <3>1 DEF InTurn
    <3> QED
      BY <3>2
  <2>4. ASSUME NEW k \in T PROVE k + 1 \in T
    <3>1. k \in Nat /\ (k + 1 <= n => /\ SpelledOnce(g[k + 1], known, N[1])
                                      /\ N[(k + 1) + 1] = N[1] \cup NamesIn(g[k + 1]))
      OBVIOUS
    <3> HIDE DEF T
    <3> SUFFICES ASSUME (k + 1) + 1 <= n
                 PROVE  /\ SpelledOnce(g[(k + 1) + 1], known, N[1])
                        /\ N[((k + 1) + 1) + 1] = N[1] \cup NamesIn(g[(k + 1) + 1])
      BY <3>1 DEF T
    <3> DEFINE j == k + 1
               i == j + 1
    <3>2. j \in 1..n /\ i \in 1..n /\ i # 1 /\ i - 1 = j /\ j <= n
      BY <3>1
    <3>3. SpelledOnce(g[j], known, N[1]) /\ N[i] = N[1] \cup NamesIn(g[j])
      BY <3>1, <3>2
    <3> HIDE DEF i, j
    <3>4. g[i] = g[j] \o f[i]
      BY <2>2, <3>2
    <3>5. SpelledOnce(f[i], known, N[1] \cup NamesIn(g[j])) /\ N[i + 1] = N[i] \cup NamesIn(f[i])
      BY <3>2, <3>3 DEF InTurn
    <3>6. SpelledOnce(g[i], known, N[1]) /\ NamesIn(g[i]) = NamesIn(g[j]) \cup NamesIn(f[i])
      <4> DEFINE s == g[j]
                 t == f[i]
                 before == N[1]
      <4>1. SpelledOnce(s, known, before) /\ SpelledOnce(t, known, before \cup NamesIn(s))
        BY <3>3, <3>5
      <4> HIDE DEF s, t, before
      <4>2. SpelledOnce(s \o t, known, before)
        BY <4>1, OnceConcat
      <4>3. NamesIn(s \o t) = NamesIn(s) \cup NamesIn(t)
        BY <4>1, OnceConcat
      <4> QED
        BY <3>4, <4>2, <4>3 DEF s, t, before
    <3>7. SpelledOnce(g[i], known, N[1]) /\ N[i + 1] = N[1] \cup NamesIn(g[i])
      BY <3>3, <3>5, <3>6
    <3> QED
      BY <3>7 DEF i, j
  <2>5. T = Nat
    <3> HIDE DEF T
    <3>1. T \in SUBSET Nat
      BY DEF T
    <3> QED
      BY <2>3, <2>4, <3>1, AllNumbers
  <2>6. n - 1 \in T /\ (n - 1) + 1 = n
    <3> HIDE DEF T
    <3>1. n - 1 \in Nat /\ (n - 1) + 1 = n
      BY <1>3
    <3> QED
      BY <2>5, <3>1
  <2>7. SpelledOnce(g[n], known, N[1]) /\ N[n + 1] = N[1] \cup NamesIn(g[n])
    BY <2>6
  <2> QED
    BY <2>1, <2>7
<1> QED
  BY <1>2, <1>3

Adds(before, names, fs) == before \cup ToSet(names) = before \cup NamesIn(fs)

LEMMA UnionAnd == ASSUME NEW Y, NEW z PROVE UNION (Y \cup {z}) = (UNION Y) \cup z
<1>1. ASSUME NEW e \in UNION (Y \cup {z}) PROVE e \in (UNION Y) \cup z
  OBVIOUS
<1>2. ASSUME NEW e \in (UNION Y) \cup z PROVE e \in UNION (Y \cup {z})
  <2>1. CASE e \in z
    <3>1. z \in Y \cup {z}
      OBVIOUS
    <3> QED
      BY <2>1, <3>1
  <2>2. CASE e \in UNION Y
    <3>1. PICK y \in Y : e \in y
      BY <2>2
    <3>2. y \in Y \cup {z}
      OBVIOUS
    <3> QED
      BY <3>1, <3>2
  <2> QED
    BY <2>1, <2>2
<1> QED
  BY <1>1, <1>2

LEMMA FunctionsOnce ==
  ASSUME NEW names, IsSeq(names), NEW known, NEW before,
         NEW fs, fs = FunctionsBlock(names, known, known \cap before)
  PROVE  SpelledOnce(fs, known, before) /\ Adds(before, names, fs)
<1> DEFINE n == Len(names)
           old(i) == \E k \in 1..i - 1 : names[k] = names[i]
           item(i) == <<"function", names[i],
                        IF Spells(names[i], known, known \cap before) THEN "defined" ELSE "named">>
           f == [i \in DOMAIN names |-> IF old(i) THEN <<>> ELSE <<item(i)>>]
           N == [i \in 1..n + 1 |-> before \cup {names[j] : j \in 1..i - 1}]
<1>1. n \in Nat /\ DOMAIN names = 1..n /\ ToSet(names) = {names[j] : j \in 1..n}
  BY SeqDomain DEF ToSet
<1>2. Runs(f, n)
  BY <1>1 DEF Runs
<1>3. fs = FlattenSeq(f)
  BY DEF FunctionsBlock
<1>4. /\ N[1] = before /\ N[n + 1] = before \cup ToSet(names)
      /\ \A i \in 1..n : N[i] = before \cup {names[j] : j \in 1..i - 1}
      /\ \A i \in 1..n : N[i + 1] = N[i] \cup {names[i]}
  <2>1. 1 \in 1..n + 1 /\ n + 1 \in 1..n + 1 /\ 1..1 - 1 = {} /\ (n + 1) - 1 = n
    BY <1>1
  <2>2. ASSUME NEW i \in 1..n
        PROVE  i \in 1..n + 1 /\ i + 1 \in 1..n + 1 /\ 1..(i + 1) - 1 = (1..i - 1) \cup {i}
    BY <1>1
  <2>3. N[1] = before /\ N[n + 1] = before \cup ToSet(names)
    BY <1>1, <2>1
  <2>4. ASSUME NEW i \in 1..n
        PROVE  /\ N[i] = before \cup {names[j] : j \in 1..i - 1}
               /\ N[i + 1] = N[i] \cup {names[i]}
    BY <2>2
  <2> QED
    BY <2>3, <2>4
<1> HIDE DEF N
<1>5. ASSUME NEW i \in 1..n
      PROVE  SpelledOnce(f[i], known, N[i]) /\ N[i + 1] = N[i] \cup NamesIn(f[i])
  <2>1. CASE old(i)
    <3>1. f[i] = <<>>
      BY <1>1, <2>1
    <3>2. names[i] \in N[i]
      BY <1>4, <2>1
    <3> HIDE DEF f
    <3>3. SpelledOnce(<<>>, known, N[i]) /\ NamesIn(<<>>) = {}
      BY OnceNone
    <3>4. N[i] \cup {names[i]} = N[i]
      BY <3>2
    <3>5. N[i] \cup {} = N[i]
      OBVIOUS
    <3> QED
      BY <1>4, <3>1, <3>3, <3>4, <3>5
  <2>2. CASE ~old(i)
    <3> DEFINE x == item(i)
               fi == f[i]
    <3>1. fi = <<x>>
      BY <1>1, <2>2
    <3>2. /\ x[2] = names[i]
          /\ IsDefined(x) <=> names[i] \in known /\ names[i] \notin before
      BY DEF IsDefined, Spells
    <3>3. names[i] \notin N[i] <=> names[i] \notin before
      BY <1>4, <2>2
    <3> HIDE DEF x, f, fi
    <3>4. ToSet(fi) = {x} /\ Len(fi) = 1 /\ fi[1] = x /\ IsSeq(fi)
      BY <3>1, OneIsSeq DEF ToSet
    <3>5. NamesIn(fi) = {names[i]}
      BY <3>2, <3>4 DEF NamesIn
    <3>6. NewAt(fi, 1)
      BY DEF NewAt
    <3>7. SpelledOnce(fi, known, N[i])
      <4>1. \A j \in 1..Len(fi) : j = 1
        BY <3>4
      <4> QED
        BY <3>2, <3>3, <3>4, <3>6, <4>1 DEF SpelledOnce
    <3> QED
      BY <1>4, <3>5, <3>7 DEF fi
  <2> QED
    BY <2>1, <2>2
<1>6. InTurn(f, n, known, N)
  BY <1>5 DEF InTurn
<1> HIDE DEF f, n
<1>7. SpelledOnce(FlattenSeq(f), known, N[1]) /\ N[n + 1] = N[1] \cup NamesIn(FlattenSeq(f))
  BY <1>1, <1>2, <1>6, OnceFlatten
<1> QED
  BY <1>3, <1>4, <1>7 DEF Adds

\* What the first i messages refer to.
UpTo(s, i) == UNION {NamedBy(b) : b \in UNION {ToSet(s[j].blocks) : j \in 1..i}}

LEMMA UpToIs ==
  ASSUME NEW s \in Seq(Talk), NEW i \in 0..Len(s)
  PROVE  Referenced(SubSeq(s, 1, i)) = UpTo(s, i)
<1> DEFINE x == SubSeq(s, 1, i)
<1>1. i \in Nat /\ i <= Len(s)
  OBVIOUS
<1>2. x \in Seq(Talk) /\ Len(x) = i /\ \A j \in 1..i : x[j] = s[j]
  BY <1>1, SubSeqProperties
<1> HIDE DEF x
<1>3. DOMAIN x = 1..i
  BY <1>2
<1> QED
  BY <1>2, <1>3 DEF Referenced, UpTo, x

LEMMA BlocksOnce ==
  ASSUME NEW s \in Seq(Talk), NEW i \in 1..Len(s), NEW known
  PROVE  /\ SpelledOnce(BlocksBy("says", s, i, known), known, UpTo(s, i - 1))
         /\ UpTo(s, i) = UpTo(s, i - 1) \cup NamesIn(BlocksBy("says", s, i, known))
<1> DEFINE blocks == s[i].blocks
           n == Len(blocks)
           before(k) == NamedBefore(s, i, k)
           f == [k \in 1..n |-> BlockReads("says", blocks[k], known, known \cap before(k))]
           N == [k \in 1..n + 1 |-> before(k)]
<1>1. /\ n \in Nat /\ DOMAIN blocks = 1..n /\ \A k \in 1..n : BlockType(blocks[k])
      /\ ToSet(blocks) = {blocks[k] : k \in 1..n}
  BY TalkBlocks DEF ToSet
<1>2. \A k : before(k) = UpTo(s, i - 1) \cup UNION {NamedBy(blocks[j]) : j \in 1..k - 1}
  <2>1. i - 1 \in 0..Len(s)
    OBVIOUS
  <2>2. Referenced(SubSeq(s, 1, i - 1)) = UpTo(s, i - 1)
    BY <2>1, UpToIs
  <2> QED
    BY <2>2 DEF NamedBefore
<1>3. UpTo(s, i) = UpTo(s, i - 1) \cup UNION {NamedBy(blocks[j]) : j \in 1..n}
  <2>1. 1..i = (1..i - 1) \cup {i}
    OBVIOUS
  <2>2. UNION {ToSet(s[j].blocks) : j \in 1..i}
          = (UNION {ToSet(s[j].blocks) : j \in 1..i - 1}) \cup ToSet(s[i].blocks)
    <3> DEFINE I == 1..i
               J == 1..i - 1
               x(j) == ToSet(s[j].blocks)
    <3>1. I = J \cup {i}
      BY <2>1
    <3> HIDE DEF I, J, x
    <3>2. {x(j) : j \in I} = {x(j) : j \in J} \cup {x(i)}
      BY <3>1
    <3>3. UNION {x(j) : j \in I} = (UNION {x(j) : j \in J}) \cup x(i)
      <4> DEFINE X == {x(j) : j \in I}
                 Y == {x(j) : j \in J}
      <4>1. X = Y \cup {x(i)}
        BY <3>2
      <4> HIDE DEF X, Y
      <4>2. UNION X = (UNION Y) \cup x(i)
        BY <4>1, UnionAnd
      <4> QED
        BY <4>2 DEF X, Y
    <3> QED
      BY <3>3 DEF I, J, x
  <2>3. UpTo(s, i) = UpTo(s, i - 1) \cup UNION {NamedBy(b) : b \in ToSet(s[i].blocks)}
    BY <2>2 DEF UpTo
  <2>4. UNION {NamedBy(b) : b \in ToSet(blocks)} = UNION {NamedBy(blocks[j]) : j \in 1..n}
    BY <1>1
  <2> QED
    BY <2>3, <2>4
<1> HIDE DEF blocks, n
<1>4. Runs(f, n)
  BY DEF Runs
<1>5. BlocksBy("says", s, i, known) = FlattenSeq(f)
  BY DEF BlocksBy, blocks, n
<1>6. /\ N[1] = UpTo(s, i - 1) /\ N[n + 1] = UpTo(s, i)
      /\ \A k \in 1..n : N[k] = before(k) /\ N[k + 1] = N[k] \cup NamedBy(blocks[k])
  <2>1. 1 \in 1..n + 1 /\ n + 1 \in 1..n + 1 /\ 1..1 - 1 = {} /\ (n + 1) - 1 = n
    BY <1>1
  <2>2. ASSUME NEW k \in 1..n
        PROVE  k \in 1..n + 1 /\ k + 1 \in 1..n + 1 /\ 1..(k + 1) - 1 = (1..k - 1) \cup {k}
    BY <1>1
  <2> HIDE DEF before
  <2>3. N[1] = UpTo(s, i - 1) /\ N[n + 1] = UpTo(s, i)
    BY <1>2, <1>3, <2>1
  <2>4. ASSUME NEW k \in 1..n
        PROVE  N[k] = before(k) /\ N[k + 1] = N[k] \cup NamedBy(blocks[k])
    <3>1. N[k] = before(k) /\ N[k + 1] = before(k + 1)
      BY <2>2
    <3>2. before(k + 1) = before(k) \cup NamedBy(blocks[k])
      BY <1>2, <2>2
    <3> QED
      BY <3>1, <3>2
  <2> QED
    BY <2>3, <2>4
<1> HIDE DEF N, before
<1>7. ASSUME NEW k \in 1..n
      PROVE  SpelledOnce(f[k], known, N[k]) /\ N[k + 1] = N[k] \cup NamesIn(f[k])
  <2> DEFINE b == blocks[k]
  <2>1. f[k] = FunctionsOf(b, known, known \cap N[k])
    BY <1>6 DEF BlockReads
  <2>2. BlockType(b) /\ N[k + 1] = N[k] \cup NamedBy(b)
    BY <1>1, <1>6
  <2> HIDE DEF b, f
  <2>3. CASE b.type = "tool_result"
    <3> DEFINE names == References(b.content)
               before1 == N[k]
               fs == FunctionsBlock(names, known, known \cap before1)
    <3>1. IsSeq(names)
      BY <2>2, <2>3, NamesSeq DEF BlockType, IsSeq
    <3>2. f[k] = fs /\ NamedBy(b) = ToSet(names)
      BY <2>1, <2>3 DEF FunctionsOf, NamedBy
    <3> HIDE DEF names, before1
    <3>3. fs = FunctionsBlock(names, known, known \cap before1)
      OBVIOUS
    <3> HIDE DEF fs
    <3>4. SpelledOnce(fs, known, before1)
      BY <3>1, <3>3, FunctionsOnce
    <3>5. Adds(before1, names, fs)
      BY <3>1, <3>3, FunctionsOnce
    <3> QED
      BY <2>2, <3>2, <3>4, <3>5 DEF before1, Adds
  <2>4. CASE b.type # "tool_result"
    <3>1. f[k] = <<>> /\ NamedBy(b) = {}
      BY <2>1, <2>4 DEF FunctionsOf, NamedBy
    <3> QED
      BY <2>2, <3>1, OnceNone
  <2> QED
    BY <2>3, <2>4
<1>8. InTurn(f, n, known, N)
  BY <1>7 DEF InTurn
<1> HIDE DEF f
<1>9. SpelledOnce(FlattenSeq(f), known, N[1]) /\ N[n + 1] = N[1] \cup NamesIn(FlattenSeq(f))
  BY <1>1, <1>4, <1>8, OnceFlatten
<1> QED
  BY <1>5, <1>6, <1>9

LEMMA TalkOnce ==
  ASSUME NEW s \in Seq(Talk), NEW known
  PROVE  /\ SpelledOnce(TalkBy("says", s, known), known, {})
         /\ Referenced(s) = NamesIn(TalkBy("says", s, known))
<1> DEFINE n == Len(s)
           f == [i \in 1..n |-> BlocksBy("says", s, i, known)]
           N == [i \in 1..n + 1 |-> UpTo(s, i - 1)]
<1>1. n \in Nat /\ DOMAIN s = 1..n
  OBVIOUS
<1>2. Runs(f, n) /\ TalkBy("says", s, known) = FlattenSeq(f)
  BY DEF Runs, TalkBy
<1>3. N[1] = {} /\ N[n + 1] = Referenced(s)
  <2>1. 1 \in 1..n + 1 /\ n + 1 \in 1..n + 1 /\ 1..1 - 1 = {} /\ (n + 1) - 1 = n
    BY <1>1
  <2>2. UpTo(s, 1 - 1) = {}
    BY <2>1 DEF UpTo
  <2>3. UpTo(s, n) = Referenced(s)
    BY <1>1 DEF UpTo, Referenced
  <2> QED
    BY <2>1, <2>2, <2>3
<1>4. ASSUME NEW i \in 1..n
      PROVE  SpelledOnce(f[i], known, N[i]) /\ N[i + 1] = N[i] \cup NamesIn(f[i])
  <2>1. i \in 1..n + 1 /\ i + 1 \in 1..n + 1 /\ (i + 1) - 1 = i
    BY <1>1
  <2>2. N[i] = UpTo(s, i - 1) /\ N[i + 1] = UpTo(s, i)
    BY <2>1
  <2> HIDE DEF N
  <2>3. f[i] = BlocksBy("says", s, i, known)
    OBVIOUS
  <2> HIDE DEF f
  <2> QED
    BY <2>2, <2>3, BlocksOnce
<1>5. InTurn(f, n, known, N)
  BY <1>4 DEF InTurn
<1> HIDE DEF f, N, n
<1>6. SpelledOnce(FlattenSeq(f), known, N[1]) /\ N[n + 1] = N[1] \cup NamesIn(FlattenSeq(f))
  BY <1>1, <1>2, <1>5, OnceFlatten
<1> QED
  BY <1>2, <1>3, <1>6

-----------------------------------------------------------------------------
\* What is read of a conversation, as the property says it.
LEMMA TalkIs ==
  ASSUME NEW s \in Seq(Talk), NEW known
  PROVE  /\ TalkBy("calls", s, known) =
              FlattenSeq([i \in DOMAIN s |->
                FlattenSeq([k \in DOMAIN s[i].blocks |-> CallOf(s[i].blocks[k])])])
         /\ TalkBy("results", s, known) =
              FlattenSeq([i \in DOMAIN s |->
                FlattenSeq([k \in DOMAIN s[i].blocks |-> ResultOf(s[i].blocks[k])])])
         /\ TalkBy("images", s, known) =
              FlattenSeq([i \in DOMAIN s |->
                FlattenSeq([k \in DOMAIN s[i].blocks |-> PicturesOf(s[i].blocks[k])])])
<1>1. DOMAIN s = 1..Len(s) /\ \A i \in 1..Len(s) : DOMAIN s[i].blocks = 1..Len(s[i].blocks)
  BY TalkBlocks
<1>2. \A i \in 1..Len(s) :
        /\ BlocksBy("calls", s, i, known) =
             FlattenSeq([k \in DOMAIN s[i].blocks |-> CallOf(s[i].blocks[k])])
        /\ BlocksBy("results", s, i, known) =
             FlattenSeq([k \in DOMAIN s[i].blocks |-> ResultOf(s[i].blocks[k])])
        /\ BlocksBy("images", s, i, known) =
             FlattenSeq([k \in DOMAIN s[i].blocks |-> PicturesOf(s[i].blocks[k])])
  BY <1>1 DEF BlocksBy, BlockReads
<1> QED
  BY <1>1, <1>2 DEF TalkBy

LEMMA ReferencedAre ==
  ASSUME NEW s \in Seq(Talk)
  PROVE  ToSet(FlattenSeq([i \in DOMAIN s |->
           FlattenSeq([k \in DOMAIN s[i].blocks |-> ReferencedBy(s[i].blocks[k])])])) = Referenced(s)
<1> DEFINE n == Len(s)
           of(i) == [k \in DOMAIN s[i].blocks |-> ReferencedBy(s[i].blocks[k])]
           f == [i \in DOMAIN s |-> FlattenSeq(of(i))]
<1>1. n \in Nat /\ DOMAIN s = 1..n
  OBVIOUS
<1>2. Runs(f, n) /\ \A i \in 1..n : f[i] = FlattenSeq(of(i))
  BY <1>1 DEF Runs
<1>3. ASSUME NEW i \in 1..n
      PROVE  IsSeq(f[i]) /\ ToSet(f[i]) = UNION {NamedBy(b) : b \in ToSet(s[i].blocks)}
  <2> DEFINE blocks == s[i].blocks
             m == Len(blocks)
             g == of(i)
  <2>1. /\ m \in Nat /\ DOMAIN blocks = 1..m /\ ToSet(blocks) = {blocks[k] : k \in 1..m}
        /\ \A k \in 1..m : BlockType(blocks[k])
    BY TalkBlocks DEF ToSet
  <2>2. Runs(g, m) /\ \A k \in 1..m : g[k] = ReferencedBy(blocks[k])
    BY <2>1 DEF Runs
  <2>3. f[i] = FlattenSeq(g)
    BY <1>2
  <2> HIDE DEF blocks, m, g, f
  <2>4. ASSUME NEW k \in 1..m PROVE IsSeq(g[k]) /\ ToSet(g[k]) = NamedBy(blocks[k])
    <3> DEFINE b == blocks[k]
    <3>1. g[k] = ReferencedBy(b) /\ BlockType(b)
      BY <2>1, <2>2
    <3> HIDE DEF b
    <3>2. CASE b.type = "tool_result"
      <4>1. IsSeq(References(b.content))
        BY <3>1, <3>2, NamesSeq DEF BlockType, IsSeq
      <4> QED
        BY <3>1, <3>2, <4>1 DEF ReferencedBy, NamedBy, b
    <3>3. CASE b.type # "tool_result"
      <4>1. ToSet(<<>>) = {}
        BY DEF ToSet
      <4> QED
        BY <3>1, <3>3, <4>1, EmptyIsSeq DEF ReferencedBy, NamedBy, b
    <3> QED
      BY <3>2, <3>3
  <2>5. AllSeq(g, m)
    BY <2>4 DEF AllSeq
  <2>6. IsSeq(FlattenSeq(g)) /\ ToSet(FlattenSeq(g)) = Within(g, m)
    BY <2>1, <2>2, <2>5, FlattenIsSeq
  <2>7. Within(g, m) = UNION {NamedBy(blocks[k]) : k \in 1..m}
    BY <2>4 DEF Within
  <2>8. UNION {NamedBy(b) : b \in ToSet(blocks)} = UNION {NamedBy(blocks[k]) : k \in 1..m}
    BY <2>1
  <2> QED
    BY <2>3, <2>6, <2>7, <2>8 DEF blocks
<1> HIDE DEF f, of
<1>4. AllSeq(f, n)
  BY <1>3 DEF AllSeq
<1>5. ToSet(FlattenSeq(f)) = Within(f, n)
  BY <1>1, <1>2, <1>4, FlattenIsSeq
<1>6. Within(f, n) = UNION {UNION {NamedBy(b) : b \in ToSet(s[i].blocks)} : i \in 1..n}
  BY <1>3 DEF Within
<1>7. Referenced(s) = UNION {UNION {NamedBy(b) : b \in ToSet(s[i].blocks)} : i \in 1..n}
  BY <1>1 DEF Referenced
<1> QED
  BY <1>5, <1>6, <1>7 DEF f, of

LEMMA SentAre ==
  ASSUME NEW tools, IsSeq(tools), NEW s
  PROVE  ToSet(SentTools(tools, s)) = {t \in ToSet(tools) : IsSent(t, s)}
<1> DEFINE n == Len(tools)
           f == [i \in DOMAIN tools |-> IF IsSent(tools[i], s) THEN <<tools[i]>> ELSE <<>>]
<1>1. n \in Nat /\ DOMAIN tools = 1..n /\ ToSet(tools) = {tools[i] : i \in 1..n}
  BY SeqDomain DEF ToSet
<1>2. Runs(f, n)
  BY <1>1 DEF Runs
<1>3. ASSUME NEW i \in 1..n
      PROVE  IsSeq(f[i]) /\ ToSet(f[i]) = {t \in {tools[i]} : IsSent(t, s)}
  <2>1. f[i] = IF IsSent(tools[i], s) THEN <<tools[i]>> ELSE <<>>
    BY <1>1
  <2>2. ToSet(<<tools[i]>>) = {tools[i]} /\ ToSet(<<>>) = {}
    BY DEF ToSet
  <2> HIDE DEF f
  <2> QED
    BY <2>1, <2>2, OneIsSeq, EmptyIsSeq
<1>4. SentTools(tools, s) = FlattenSeq(f)
  BY DEF SentTools
<1> HIDE DEF f
<1>5. AllSeq(f, n)
  BY <1>3 DEF AllSeq
<1>6. ToSet(FlattenSeq(f)) = Within(f, n)
  BY <1>1, <1>2, <1>5, FlattenIsSeq
<1>7. Within(f, n) = UNION {{t \in {tools[i]} : IsSent(t, s)} : i \in 1..n}
  BY <1>3 DEF Within
<1>8. UNION {{t \in {tools[i]} : IsSent(t, s)} : i \in 1..n} = {t \in ToSet(tools) : IsSent(t, s)}
  BY <1>1
<1> QED
  BY <1>4, <1>6, <1>7, <1>8

LEMMA FunctionsAre ==
  ASSUME NEW s \in Seq(Talk), NEW tools, IsSeq(tools), NEW sent, sent = ToSet(SentTools(tools, s)),
         NEW fs, fs = TalkBy("says", s, Known(tools, s))
  PROVE  /\ {fs[i][2] : i \in DOMAIN fs} = Referenced(s)
         /\ \A i \in DOMAIN fs :
              fs[i][3] = "defined" <=>
                /\ \E t \in sent : t.name = fs[i][2]
                /\ \A k \in 1..i - 1 : fs[k][2] # fs[i][2]
         /\ sent = {t \in ToSet(tools) : t.defer_loading # "yes" \/ t.name \in Referenced(s)}
<1> DEFINE known == Known(tools, s)
<1>1. sent = {t \in ToSet(tools) : IsSent(t, s)}
  BY SentAre
<1>2. known = {t.name : t \in sent}
  BY <1>1 DEF Known
<1>3. sent = {t \in ToSet(tools) : t.defer_loading # "yes" \/ t.name \in Referenced(s)}
  BY <1>1 DEF IsSent, Deferred
<1> HIDE DEF known
<1>4. SpelledOnce(fs, known, {}) /\ Referenced(s) = NamesIn(fs)
  BY TalkOnce DEF known
<1>5. DOMAIN fs = 1..Len(fs)
  BY <1>4, SeqDomain DEF SpelledOnce
<1>6. {fs[i][2] : i \in DOMAIN fs} = Referenced(s)
  BY <1>4 DEF NamesIn, ToSet
<1>7. ASSUME NEW i \in DOMAIN fs
      PROVE  fs[i][3] = "defined" <=>
                /\ \E t \in sent : t.name = fs[i][2]
                /\ \A k \in 1..i - 1 : fs[k][2] # fs[i][2]
  <2>1. IsDefined(fs[i]) <=> fs[i][2] \in known /\ NewAt(fs, i)
    BY <1>4, <1>5 DEF SpelledOnce
  <2>2. fs[i][2] \in known <=> \E t \in sent : t.name = fs[i][2]
    BY <1>2
  <2> QED
    BY <2>1, <2>2 DEF IsDefined, NewAt
<1> QED
  BY <1>3, <1>6, <1>7

LEMMA FaithfulAlways == Stands /\ messages \in Seq(Talk) => ChatIsFaithful
<1> SUFFICES ASSUME Stands, messages \in Seq(Talk), Chatted PROVE ChatIsFaithful
  BY DEF ChatIsFaithful
<1>1. phase = "sent" /\ request.route.backend.kind = "openai"
  BY DEF Chatted
<1>2. PICK s : s = messages
  OBVIOUS
<1>3. PICK tools : tools = session.tools
  OBVIOUS
<1>4. PICK system : system = session.system
  OBVIOUS
<1>5. PICK placement : placement = Route.placement
  OBVIOUS
<1>6. PICK chat : chat = wire.body.messages
  OBVIOUS
<1>7. /\ IsSeq(tools) /\ IsSeq(system) /\ s \in Seq(Talk)
      /\ request.route = Route /\ Prepared(Route, s) # None /\ request.body = Prepared(Route, s)
      /\ wire.body = request.body
  BY <1>1, <1>2, <1>3, <1>4, OnItsWay DEF SessionType, IsSeq, Stands
<1>8. Prepared(Route, s) = Translated(Route, s)
  BY <1>1, <1>7 DEF Prepared
<1>9. /\ Decode(s, tools) # None /\ chat = Encode(system, Decode(s, tools), placement)
      /\ wire.body.tools = SentTools(tools, s)
  BY <1>3, <1>4, <1>5, <1>6, <1>7, <1>8 DEF Translated
<1> DEFINE known == Known(tools, s)
<1>10. \A r \in Readings :
         /\ AllWhole(chat)
         /\ ReadBy(r, chat) = IF r = "words" THEN WordsOfTalk(s, system, placement)
                              ELSE TalkBy(r, s, known)
  BY <1>7, <1>9, ChatRead
<1>11. DOMAIN chat = 1..Len(chat)
  BY <1>10, SeqDomain DEF AllWhole, Readings
<1>12. /\ Each(chat, CallsIn) = ReadBy("calls", chat)
       /\ Each(chat, ResultIn) = ReadBy("results", chat)
       /\ Each(chat, ToolSays) = ReadBy("says", chat)
       /\ Each(chat, SaysItself) = ReadBy("words", chat)
       /\ Each(chat, ImageIn) = ReadBy("images", chat)
  BY <1>11 DEF Each, ReadBy, ReadIn
<1>13. /\ EachBlock(CallOf) = TalkBy("calls", s, known)
       /\ EachBlock(ResultOf) = TalkBy("results", s, known)
       /\ EachBlock(PicturesOf) = TalkBy("images", s, known)
  BY <1>2, <1>7, TalkIs DEF EachBlock
<1>14. ToSet(EachBlock(ReferencedBy)) = Referenced(s)
  BY <1>2, <1>7, ReferencedAre DEF EachBlock
<1>15. \A roles : SaidBy(roles) = SaidIn(s, roles)
  BY <1>2 DEF SaidBy, SaidIn
<1>16. Each(chat, SaysItself) =
         Texts(system) \o
           (IF placement = "merge" THEN SaidBy({"system"}) \o SaidBy({"user", "assistant"})
            ELSE SaidBy({"system", "user", "assistant"}))
  BY <1>10, <1>12, <1>15 DEF WordsOfTalk, Everyone, Readings
<1>17. /\ Each(chat, CallsIn) = EachBlock(CallOf)
       /\ Each(chat, ResultIn) = EachBlock(ResultOf)
       /\ Each(chat, ImageIn) = EachBlock(PicturesOf)
  BY <1>10, <1>12, <1>13 DEF Readings
<1> DEFINE fs == Each(chat, ToolSays)
           sent == ToSet(SentTools(tools, s))
<1>18. fs = TalkBy("says", s, known)
  BY <1>10, <1>12 DEF Readings
<1> HIDE DEF fs
<1>19. /\ {fs[i][2] : i \in DOMAIN fs} = Referenced(s)
       /\ \A i \in DOMAIN fs :
            fs[i][3] = "defined" <=>
              /\ \E t \in sent : t.name = fs[i][2]
              /\ \A k \in 1..i - 1 : fs[k][2] # fs[i][2]
       /\ sent = {t \in ToSet(tools) : t.defer_loading # "yes" \/ t.name \in Referenced(s)}
  <2> PICK gs : gs = fs
    OBVIOUS
  <2> QED
    BY <1>7, <1>18, FunctionsAre
<1> HIDE DEF sent
<1>20. sent = ToSet(wire.body.tools) /\ request.route.placement = placement
  BY <1>5, <1>7, <1>9 DEF sent
<1> QED
  BY <1>3, <1>4, <1>6, <1>14, <1>16, <1>17, <1>19, <1>20 DEF ChatIsFaithful, fs

-----------------------------------------------------------------------------
\* Every call is answered in the message after it.
ResultsOf(m) == Ids(m, "tool_result")
UsesOf(m) == Ids(m, "tool_use")
PairedAt(s, i) ==
  /\ ResultsOf(s[i]) = IF i = 1 THEN {} ELSE UsesOf(s[i - 1])
  /\ ResultsOf(s[i]) # {} => s[i].role = "user"
Paired(s) == s \in Seq(Talk) /\ \A i \in 1..Len(s) : PairedAt(s, i)

LEMMA PairedGrows ==
  ASSUME NEW s, Paired(s), NEW m \in Talk,
         IF s = <<>> THEN ResultsOf(m) = {}
         ELSE ResultsOf(m) = UsesOf(s[Len(s)]) /\ (UsesOf(s[Len(s)]) # {} => m.role = "user")
  PROVE  Paired(Append(s, m))
<1> DEFINE t == Append(s, m)
           n == Len(s)
<1>1. /\ s \in Seq(Talk) /\ n \in Nat /\ t \in Seq(Talk) /\ Len(t) = n + 1 /\ t[n + 1] = m
      /\ \A i \in 1..n : t[i] = s[i]
  BY DEF Paired
<1>2. s = <<>> <=> n = 0
  BY <1>1
<1> HIDE DEF t, n
<1>3. ASSUME NEW i \in 1..n PROVE PairedAt(t, i)
  <2>1. PairedAt(s, i) /\ t[i] = s[i]
    BY <1>1 DEF Paired, n
  <2>2. i # 1 => t[i - 1] = s[i - 1]
    BY <1>1
  <2> QED
    BY <2>1, <2>2 DEF PairedAt
<1>4. PairedAt(t, n + 1)
  <2>1. CASE n = 0
    <3>1. ResultsOf(m) = {} /\ n + 1 = 1
      BY <1>1, <1>2, <2>1
    <3> QED
      BY <1>1, <3>1 DEF PairedAt
  <2>2. CASE n # 0
    <3>1. n + 1 # 1 /\ (n + 1) - 1 = n /\ t[n] = s[n]
      BY <1>1, <2>2
    <3>2. ResultsOf(m) = UsesOf(s[n]) /\ (UsesOf(s[n]) # {} => m.role = "user")
      BY <1>2, <2>2 DEF n
    <3> QED
      BY <1>1, <3>1, <3>2 DEF PairedAt
  <2> QED
    BY <2>1, <2>2
<1>5. \A i \in 1..n + 1 : i \in 1..n \/ i = n + 1
  BY <1>1
<1> QED
  BY <1>1, <1>3, <1>4, <1>5 DEF Paired, t

LEMMA PairedFirst == Init => Paired(messages)
<1> SUFFICES ASSUME Init PROVE Paired(messages)
  OBVIOUS
<1>1. messages = <<>>
  BY DEF Init
<1>2. Len(<<>>) = 0
  OBVIOUS
<1> QED
  BY <1>1, <1>2 DEF Paired

LEMMA PairedNext == Paired(messages) /\ [Next]_vars => Paired(messages')
<1> SUFFICES ASSUME Paired(messages), [Next]_vars PROVE Paired(messages')
  OBVIOUS
<1>1. CASE Write
  <2>1. PICK w \in Writes : Follows(w.message) /\ messages' = Append(messages, w.message)
    BY <1>1 DEF Write
  <2>2. PICK m : m = w.message
    OBVIOUS
  <2>3. PICK s : s = messages
    OBVIOUS
  <2>4. m \in Talk /\ Paired(s)
    BY <2>2, <2>3 DEF Talk
  <2>5. IF s = <<>> THEN ResultsOf(m) = {}
        ELSE ResultsOf(m) = UsesOf(s[Len(s)]) /\ (UsesOf(s[Len(s)]) # {} => m.role = "user")
    <3>1. CASE s = <<>>
      BY <2>1, <2>2, <2>3, <3>1 DEF Follows, ResultsOf, Ids
    <3>2. CASE s # <<>>
      BY <2>1, <2>2, <2>3, <3>2 DEF Follows, ResultsOf, UsesOf
    <3> QED
      BY <3>1, <3>2
  <2>6. Paired(Append(s, m))
    BY <2>4, <2>5, PairedGrows
  <2> QED
    BY <2>1, <2>2, <2>3, <2>6
<1>2. CASE messages' = messages
  BY <1>2
<1> QED
  BY <1>1, <1>2 DEF Next, Refuse, Show, Handle, Send, Resend, Attempt, Fail, Respond, asked, vars

-----------------------------------------------------------------------------
\* A chat in which results come right after their calls, and what may come next.
AnswersFound(chat) == \A i \in DOMAIN chat : chat[i].role = "tool" => FollowsCall(chat, i)
CallIds(m) == {c.id : c \in ToSet(m.calls)}
Ends(chat, ids) ==
  ids # {} => /\ Len(chat) # 0 /\ chat[Len(chat)].role # "tool"
              /\ ids \subseteq CallIds(chat[Len(chat)])
ToolsFirst(chat, ids) ==
  \E n \in 0..Len(chat) :
    /\ \A j \in 1..n : chat[j].role = "tool" /\ chat[j].id \in ids
    /\ \A j \in n + 1..Len(chat) : chat[j].role # "tool"

LEMMA AnswersGrow ==
  ASSUME NEW s, NEW t, IsSeq(s), IsSeq(t), NEW ids, NEW others,
         AnswersFound(s), Ends(s, ids), ToolsFirst(t, ids), Ends(t, others)
  PROVE  AnswersFound(s \o t) /\ Ends(s \o t, others)
<1> DEFINE u == s \o t
           n == Len(s)
           m == Len(t)
<1>1. /\ IsSeq(u) /\ Len(u) = n + m /\ n \in Nat /\ m \in Nat
      /\ \A i \in 1..n : u[i] = s[i]
      /\ \A i \in 1..m : u[n + i] = t[i]
  BY ConcatAt
<1>2. DOMAIN s = 1..n /\ DOMAIN u = 1..n + m
  BY <1>1, SeqDomain
<1>3. PICK l \in 0..m : /\ \A j \in 1..l : t[j].role = "tool" /\ t[j].id \in ids
                        /\ \A j \in l + 1..m : t[j].role # "tool"
  BY DEF ToolsFirst
<1>4. Ends(s, ids) /\ Ends(t, others)
  OBVIOUS
<1> HIDE DEF u, n, m
<1>5. ASSUME NEW i \in 1..n, u[i].role = "tool" PROVE FollowsCall(u, i)
  <2>1. u[i] = s[i] /\ \A k \in 1..i - 1 : u[k] = s[k]
    BY <1>1
  <2>2. FollowsCall(s, i)
    BY <1>2, <1>5, <2>1 DEF AnswersFound
  <2>3. PICK k \in 1..i - 1 : /\ \A j \in k + 1..i - 1 : s[j].role = "tool"
                              /\ s[k].role # "tool" /\ \E c \in ToSet(s[k].calls) : c.id = s[i].id
    BY <2>2 DEF FollowsCall
  <2>4. \A j \in k + 1..i - 1 : u[j] = s[j]
    BY <2>1
  <2> QED
    BY <2>1, <2>3, <2>4 DEF FollowsCall
<1>6. ASSUME NEW j \in 1..m, u[n + j].role = "tool" PROVE FollowsCall(u, n + j)
  <2>1. u[n + j] = t[j]
    BY <1>1
  <2>2. j \in 1..l
    BY <1>1, <1>3, <1>6, <2>1
  <2>3. t[j].id \in ids
    BY <1>3, <2>2
  <2>4. n # 0 /\ s[n].role # "tool" /\ ids \subseteq CallIds(s[n])
    BY <1>4, <2>3 DEF Ends, n
  <2>5. n \in 1..n /\ u[n] = s[n]
    BY <1>1, <2>4
  <2>6. \E c \in ToSet(s[n].calls) : c.id = t[j].id
    BY <2>3, <2>4 DEF CallIds
  <2>7. ASSUME NEW i \in n + 1..(n + j) - 1 PROVE u[i].role = "tool"
    <3>1. i - n \in 1..l /\ i - n \in 1..m /\ n + (i - n) = i
      BY <1>1, <1>3, <2>2
    <3>2. u[i] = t[i - n]
      BY <1>1, <3>1
    <3> QED
      BY <1>3, <3>1, <3>2
  <2>8. n \in 1..(n + j) - 1
    BY <1>1, <2>4
  <2> QED
    BY <2>1, <2>4, <2>5, <2>6, <2>7, <2>8 DEF FollowsCall
<1>7. AnswersFound(u)
  <2>1. ASSUME NEW i \in 1..n + m, u[i].role = "tool" PROVE FollowsCall(u, i)
    <3>1. CASE i \in 1..n
      BY <1>5, <2>1, <3>1
    <3>2. CASE i \notin 1..n
      <4>1. i - n \in 1..m /\ n + (i - n) = i
        BY <1>1, <3>2
      <4> QED
        BY <1>6, <2>1, <4>1
    <3> QED
      BY <3>1, <3>2
  <2> QED
    BY <1>2, <2>1 DEF AnswersFound
<1>8. Ends(u, others)
  <2> SUFFICES ASSUME others # {} PROVE Ends(u, others)
    BY DEF Ends
  <2>1. m # 0 /\ t[m].role # "tool" /\ others \subseteq CallIds(t[m])
    BY <1>4 DEF Ends, m
  <2>2. m \in 1..m /\ Len(u) = n + m /\ n + m # 0
    BY <1>1, <2>1
  <2>3. u[n + m] = t[m]
    BY <1>1, <2>2
  <2> QED
    BY <2>1, <2>2, <2>3 DEF Ends
<1> QED
  BY <1>7, <1>8 DEF u

-----------------------------------------------------------------------------
\* The calls and the results of a message are those of its blocks.
PartFrom(p, b) ==
  /\ p.kind = "use" => b.type = "tool_use" /\ p.id = b.id
  /\ p.kind = "result" => b.type = "tool_result" /\ p.id = b.id

LEMMA PartFromBlock ==
  ASSUME NEW b, NEW known, NEW spelled, NEW part, part = PartsOfBlock(b, known, spelled)
  PROVE  /\ \A p \in ToSet(part) : PartFrom(p, b)
         /\ b.type = "tool_use" => \E p \in ToSet(part) : p.kind = "use" /\ p.id = b.id
<1>0. ToSet(<<>>) = {} /\ \A p : ToSet(<<p>>) = {p}
  BY DEF ToSet
<1>1. CASE b.type \in {"text", "document"}
  <2> DEFINE p == [kind |-> "text", text |-> TextOf(b)]
  <2>1. part = <<p>> /\ p.kind = "text"
    BY <1>1 DEF PartsOfBlock
  <2> HIDE DEF p
  <2> QED
    BY <1>0, <1>1, <2>1 DEF PartFrom
<1>2. CASE b.type = "image"
  <2> DEFINE p == [kind |-> "image", image |-> b.data]
  <2>1. part = <<p>> /\ p.kind = "image"
    BY <1>2 DEF PartsOfBlock
  <2> HIDE DEF p
  <2> QED
    BY <1>0, <1>2, <2>1 DEF PartFrom
<1>3. CASE b.type = "tool_use"
  <2> DEFINE p == [kind |-> "use", id |-> b.id, name |-> b.name, input |-> b.input]
  <2>1. part = <<p>> /\ p.kind = "use" /\ p.id = b.id
    BY <1>3 DEF PartsOfBlock
  <2> HIDE DEF p
  <2> QED
    BY <1>0, <1>3, <2>1 DEF PartFrom
<1>4. CASE b.type = "tool_result"
  <2> DEFINE p == ResultPart(b, known, spelled)
  <2>1. part = <<p>> /\ p.kind = "result" /\ p.id = b.id
    BY <1>4 DEF PartsOfBlock, ResultPart
  <2> HIDE DEF p
  <2> QED
    BY <1>0, <1>4, <2>1 DEF PartFrom
<1>5. CASE b.type \notin {"text", "document", "image", "tool_use", "tool_result"}
  <2>1. part = <<>>
    BY <1>5 DEF PartsOfBlock
  <2> QED
    BY <1>0, <1>5, <2>1
<1> QED
  BY <1>1, <1>2, <1>3, <1>4, <1>5

\* No result but these, and each of these calls.
Carries(parts, results, uses) ==
  /\ \A p \in ToSet(parts) : p.kind = "result" => p.id \in results
  /\ \A id \in uses : \E p \in ToSet(parts) : p.kind = "use" /\ p.id = id

LEMMA PartIds ==
  ASSUME NEW s \in Seq(Talk), NEW i \in 1..Len(s), NEW known,
         NEW parts, parts = DecodeMessage(s, i, known).parts
  PROVE  Carries(parts, ResultsOf(s[i]), UsesOf(s[i]))
<1> DEFINE blocks == s[i].blocks
           n == Len(blocks)
           spelled(k) == known \cap NamedBefore(s, i, k)
           f == [k \in DOMAIN blocks |-> PartsOfBlock(blocks[k], known, spelled(k))]
<1>1. n \in Nat /\ DOMAIN blocks = 1..n /\ ToSet(blocks) = {blocks[k] : k \in 1..n}
  BY TalkBlocks DEF ToSet
<1>2. parts = FlattenSeq(f)
  BY DEF DecodeMessage
<1>3. /\ ResultsOf(s[i]) = {b.id : b \in {c \in ToSet(blocks) : c.type = "tool_result"}}
      /\ UsesOf(s[i]) = {b.id : b \in {c \in ToSet(blocks) : c.type = "tool_use"}}
  BY DEF ResultsOf, UsesOf, Ids, Blocks
<1> HIDE DEF blocks, n
<1>4. Runs(f, n) /\ \A k \in 1..n : f[k] = PartsOfBlock(blocks[k], known, spelled(k))
  BY <1>1 DEF Runs
<1> HIDE DEF f, spelled
<1>5. AllSeq(f, n)
  BY <1>4, PartsIsSeq DEF AllSeq
<1>6. ToSet(parts) = Within(f, n)
  BY <1>1, <1>2, <1>4, <1>5, FlattenIsSeq
<1>7. ASSUME NEW k \in 1..n
      PROVE  /\ \A p \in ToSet(f[k]) : PartFrom(p, blocks[k])
             /\ blocks[k].type = "tool_use" =>
                  \E p \in ToSet(f[k]) : p.kind = "use" /\ p.id = blocks[k].id
  BY <1>4, PartFromBlock
<1>8. ASSUME NEW p \in ToSet(parts), p.kind = "result" PROVE p.id \in ResultsOf(s[i])
  <2>1. PICK k \in 1..n : p \in ToSet(f[k])
    BY <1>6 DEF Within
  <2>2. blocks[k].type = "tool_result" /\ p.id = blocks[k].id
    BY <1>7, <1>8, <2>1 DEF PartFrom
  <2> QED
    BY <1>1, <1>3, <2>2
<1>9. ASSUME NEW id \in UsesOf(s[i]) PROVE \E p \in ToSet(parts) : p.kind = "use" /\ p.id = id
  <2>1. PICK k \in 1..n : blocks[k].type = "tool_use" /\ id = blocks[k].id
    BY <1>1, <1>3
  <2>2. PICK p \in ToSet(f[k]) : p.kind = "use" /\ p.id = blocks[k].id
    BY <1>7, <2>1
  <2>3. p \in ToSet(parts)
    BY <1>6 DEF Within
  <2> QED
    BY <2>1, <2>2, <2>3
<1> QED
  BY <1>8, <1>9 DEF Carries

LEMMA KindSet ==
  ASSUME NEW parts, IsSeq(parts), NEW kind
  PROVE  ToSet(OfKind(parts, kind)) = {p \in ToSet(parts) : p.kind = kind}
<1> DEFINE n == Len(parts)
           f == [i \in DOMAIN parts |-> IF parts[i].kind = kind THEN <<parts[i]>> ELSE <<>>]
<1>1. n \in Nat /\ DOMAIN parts = 1..n /\ ToSet(parts) = {parts[i] : i \in 1..n}
  BY SeqDomain DEF ToSet
<1>2. Runs(f, n)
  BY <1>1 DEF Runs
<1>3. ASSUME NEW i \in 1..n
      PROVE  IsSeq(f[i]) /\ ToSet(f[i]) = {p \in {parts[i]} : p.kind = kind}
  <2>1. f[i] = IF parts[i].kind = kind THEN <<parts[i]>> ELSE <<>>
    BY <1>1
  <2>2. ToSet(<<parts[i]>>) = {parts[i]} /\ ToSet(<<>>) = {}
    BY DEF ToSet
  <2> HIDE DEF f
  <2> QED
    BY <2>1, <2>2, OneIsSeq, EmptyIsSeq
<1>4. OfKind(parts, kind) = FlattenSeq(f)
  BY DEF OfKind
<1> HIDE DEF f
<1>5. AllSeq(f, n)
  BY <1>3 DEF AllSeq
<1>6. ToSet(FlattenSeq(f)) = Within(f, n)
  BY <1>1, <1>2, <1>5, FlattenIsSeq
<1>7. Within(f, n) = UNION {{p \in {parts[i]} : p.kind = kind} : i \in 1..n}
  BY <1>3 DEF Within
<1>8. UNION {{p \in {parts[i]} : p.kind = kind} : i \in 1..n} = {p \in ToSet(parts) : p.kind = kind}
  BY <1>1
<1> QED
  BY <1>4, <1>6, <1>7, <1>8

LEMMA EncodedAnswers ==
  ASSUME NEW m, IsSeq(m.parts), m.role # "tool", NEW results, NEW uses,
         Carries(m.parts, results, uses)
  PROVE  ToolsFirst(EncodeMessage(m), results) /\ Ends(EncodeMessage(m), uses)
<1> DEFINE found == OfKind(m.parts, "result")
           n == Len(found)
           tools == ToolsOf(m.parts)
           content == ContentOf(m.parts)
           calls == OfKind(m.parts, "use")
           said == Message(m.role, content, calls)
<1>1. EncodeMessage(m) = IF content = <<>> /\ calls = <<>> /\ tools # <<>> THEN tools
                         ELSE Append(tools, said)
  BY DEF EncodeMessage, Placeless, ToolsOf, ContentOf
<1>2. IsSeq(found) /\ ToSet(found) = {p \in ToSet(m.parts) : p.kind = "result"}
  BY KindIsSeq, KindSet
<1>3. IsSeq(calls) /\ ToSet(calls) = {p \in ToSet(m.parts) : p.kind = "use"}
  BY KindIsSeq, KindSet
<1>4. said.role = m.role /\ said.calls = calls
  BY DEF Message
<1>5. tools = [i \in DOMAIN found |-> ToolMessage(found[i])]
  BY DEF ToolsOf
<1>14. /\ \A p \in ToSet(m.parts) : p.kind = "result" => p.id \in results
       /\ \A id \in uses : \E p \in ToSet(m.parts) : p.kind = "use" /\ p.id = id
  BY DEF Carries
<1> HIDE DEF found, tools, content, calls, said
<1>6. n \in Nat /\ DOMAIN found = 1..n /\ \A i \in 1..n : found[i] \in ToSet(found)
  BY <1>2, SeqDomain
<1> HIDE DEF n
<1>7. Runs(tools, n) /\ \A i \in 1..n : tools[i] = ToolMessage(found[i])
  BY <1>5, <1>6 DEF Runs
<1>8. IsSeq(tools) /\ Len(tools) = n
  BY <1>6, <1>7, RunsIsSeq
<1>9. \A i \in 1..n : tools[i].role = "tool" /\ tools[i].id \in results
  <2>1. ASSUME NEW i \in 1..n PROVE ToolMessage(found[i]).role = "tool" /\ ToolMessage(found[i]).id \in results
    <3>1. found[i].id \in results
      BY <1>2, <1>6, <1>14
    <3>2. ToolMessage(found[i]).role = "tool" /\ ToolMessage(found[i]).id = found[i].id
      BY DEF ToolMessage
    <3> QED
      BY <3>1, <3>2
  <2> QED
    BY <1>7, <2>1
<1>10. calls = <<>> => uses = {}
  <2> SUFFICES ASSUME calls = <<>>, NEW id \in uses PROVE FALSE
    OBVIOUS
  <2>1. ToSet(calls) = {}
    BY DEF ToSet
  <2> QED
    BY <1>3, <1>14, <2>1
<1>11. uses \subseteq CallIds(said)
  BY <1>3, <1>4, <1>14 DEF CallIds
<1>12. CASE content = <<>> /\ calls = <<>> /\ tools # <<>>
  <2>1. EncodeMessage(m) = tools
    BY <1>1, <1>12
  <2>2. ToolsFirst(tools, results)
    <3>1. n \in 0..Len(tools) /\ \A j \in n + 1..Len(tools) : FALSE
      BY <1>6, <1>8
    <3> QED
      BY <1>9, <3>1 DEF ToolsFirst
  <2>3. Ends(tools, uses)
    BY <1>10, <1>12 DEF Ends
  <2> QED
    BY <2>1, <2>2, <2>3
<1>13. CASE ~(content = <<>> /\ calls = <<>> /\ tools # <<>>)
  <2> DEFINE S == ToSet(tools) \cup {said}
             x == Append(tools, said)
  <2>1. tools \in Seq(S) /\ said \in S
    BY <1>8, SeqIn
  <2> HIDE DEF S
  <2>2. Len(x) = n + 1 /\ x[n + 1] = said /\ \A i \in 1..n : x[i] = tools[i]
    BY <1>8, <2>1
  <2>3. EncodeMessage(m) = x
    BY <1>1, <1>13
  <2> HIDE DEF x
  <2>4. n \in 0..Len(x) /\ \A j \in n + 1..Len(x) : j = n + 1
    BY <1>6, <2>2
  <2>5. ToolsFirst(x, results)
    BY <1>4, <1>9, <2>2, <2>4 DEF ToolsFirst
  <2>6. Ends(x, uses)
    <3>1. Len(x) # 0
      BY <1>6, <2>2
    <3> QED
      BY <1>4, <1>11, <2>2, <3>1 DEF Ends
  <2> QED
    BY <2>3, <2>5, <2>6
<1> QED
  BY <1>12, <1>13

\* Each list answers the calls of the one before it, U[i] those of f[i].
AnswerInTurn(f, n, U) ==
  \A i \in 1..n : /\ IsSeq(f[i]) /\ Ends(f[i], U[i])
                  /\ ToolsFirst(f[i], IF i = 1 THEN {} ELSE U[i - 1])

LEMMA AnswersFlatten ==
  ASSUME NEW h, IsSeq(h), AnswersFound(h), NEW n \in Nat, NEW f, Runs(f, n),
         NEW U, AnswerInTurn(f, n, U)
  PROVE  AnswersFound(h \o FlattenSeq(f))
<1>1. IsSeq(f) /\ Len(f) = n
  BY RunsIsSeq
<1>2. CASE n = 0
  <2>1. FlattenSeq(f) = <<>> /\ h \o <<>> = h
    BY <1>1, <1>2, WithEmpty DEF FlattenSeq
  <2> QED
    BY <2>1
<1>3. CASE n # 0
  <2>1. PICK g : Flattens(f, n, g) /\ FlattenSeq(f) = g[n]
    BY <1>1, <1>3, FlattenRun
  <2>2. \A i \in 1..n : g[i] = IF i = 1 THEN f[i] ELSE g[i - 1] \o f[i]
    BY <2>1 DEF Flattens
  <2> DEFINE Holds(i) == IsSeq(g[i]) /\ AnswersFound(h \o g[i]) /\ Ends(h \o g[i], U[i])
             T == {k \in Nat : k + 1 <= n => Holds(k + 1)}
  <2>3. 0 \in T
    <3> DEFINE t == f[1]
               uses == U[1]
               none == {}
    <3>1. 1 \in 1..n
      BY <1>3
    <3>2. g[1] = t
      BY <2>2, <3>1
    <3>3. IsSeq(t) /\ Ends(t, uses) /\ ToolsFirst(t, none)
      BY <3>1 DEF AnswerInTurn
    <3>4. Ends(h, none)
      BY DEF Ends
    <3> HIDE DEF t, uses, none
    <3>5. AnswersFound(h \o t) /\ Ends(h \o t, uses)
      BY <3>3, <3>4, AnswersGrow
    <3>6. Holds(1)
      BY <3>2, <3>3, <3>5 DEF uses
    <3> QED
      BY <3>6
  <2>4. ASSUME NEW k \in T PROVE k + 1 \in T
    <3>1. k \in Nat /\ (k + 1 <= n => Holds(k + 1))
      OBVIOUS
    <3> HIDE DEF T
    <3> SUFFICES ASSUME (k + 1) + 1 <= n PROVE Holds((k + 1) + 1)
      BY <3>1 DEF T
    <3> DEFINE j == k + 1
               i == j + 1
    <3>2. j \in 1..n /\ i \in 1..n /\ i # 1 /\ i - 1 = j /\ j <= n
      BY <3>1
    <3>3. Holds(j)
      BY <3>1, <3>2
    <3> HIDE DEF i, j
    <3> DEFINE s == g[j]
               t == f[i]
               u == h \o s
               before == U[j]
               uses == U[i]
    <3>4. g[i] = s \o t
      BY <2>2, <3>2
    <3>5. IsSeq(s) /\ AnswersFound(u) /\ Ends(u, before)
      BY <3>3
    <3>6. IsSeq(t) /\ Ends(t, uses) /\ ToolsFirst(t, before)
      BY <3>2 DEF AnswerInTurn
    <3> HIDE DEF s, t, before, uses
    <3>7. IsSeq(u) /\ IsSeq(s \o t)
      BY <3>5, <3>6, BothSeq
    <3>8. u \o t = h \o (s \o t)
      <4> DEFINE S == (ToSet(h) \cup ToSet(s)) \cup ToSet(t)
      <4>1. h \in Seq(S) /\ s \in Seq(S) /\ t \in Seq(S)
        BY <3>5, <3>6, SeqIn
      <4> HIDE DEF S
      <4> QED
        BY <4>1, ConcatAssociative
    <3> HIDE DEF u
    <3>9. AnswersFound(u \o t) /\ Ends(u \o t, uses)
      BY <3>5, <3>6, <3>7, AnswersGrow
    <3>10. Holds(i)
      BY <3>4, <3>7, <3>8, <3>9 DEF uses
    <3> QED
      BY <3>10 DEF i, j
  <2>5. T = Nat
    <3> HIDE DEF T
    <3>1. T \in SUBSET Nat
      BY DEF T
    <3> QED
      BY <2>3, <2>4, <3>1, AllNumbers
  <2>6. n - 1 \in T /\ (n - 1) + 1 = n
    <3> HIDE DEF T
    <3>1. n - 1 \in Nat /\ (n - 1) + 1 = n
      BY <1>3
    <3> QED
      BY <2>5, <3>1
  <2>7. Holds(n)
    BY <2>6
  <2> QED
    BY <2>1, <2>7
<1> QED
  BY <1>2, <1>3

LEMMA PartOfBlocks ==
  ASSUME NEW s \in Seq(Talk), NEW i \in 1..Len(s), NEW known,
         NEW m, m = DecodeMessage(s, i, known), Decodable(s[i], m)
  PROVE  /\ m.role = s[i].role /\ s[i].role \in {"user", "assistant", "system"}
         /\ IsSeq(m.parts)
         /\ s[i].role = "system" => UsesOf(s[i]) = {}
<1> DEFINE parts == DecodeMessage(s, i, known).parts
<1>1. /\ m.role = s[i].role /\ s[i].role \in {"user", "assistant", "system"}
      /\ \A p \in ToSet(parts) : p.kind \in Allowed(s[i].role)
  BY DEF DecodeMessage, Decodable
<1>2. m.parts = parts
  OBVIOUS
<1> HIDE DEF parts
<1>3. AllParts(parts)
  BY MessageRead DEF parts
<1>4. \A id \in UsesOf(s[i]) : \E p \in ToSet(parts) : p.kind = "use" /\ p.id = id
  BY PartIds DEF Carries, parts
<1>5. ASSUME s[i].role = "system", NEW id \in UsesOf(s[i]) PROVE FALSE
  <2>1. PICK p \in ToSet(parts) : p.kind = "use"
    BY <1>4, <1>5
  <2> QED
    BY <1>1, <1>5, <2>1 DEF Allowed
<1> QED
  BY <1>1, <1>2, <1>3, <1>5 DEF AllParts

LEMMA NextAnswers ==
  ASSUME NEW s, Paired(s), NEW i \in 1..Len(s), NEW known,
         NEW m, m = DecodeMessage(s, i, known), Decodable(s[i], m),
         NEW placement, NEW leading, NEW next, next = EncodeNext(m, placement, leading)
  PROVE  IsSeq(next) /\ ToolsFirst(next, ResultsOf(s[i])) /\ Ends(next, UsesOf(s[i]))
<1> DEFINE results == ResultsOf(s[i])
           uses == UsesOf(s[i])
           parts == m.parts
<1>0. s \in Seq(Talk)
  BY DEF Paired
<1>1. /\ m.role = s[i].role /\ s[i].role \in {"user", "assistant", "system"}
      /\ IsSeq(m.parts)
      /\ s[i].role = "system" => uses = {}
  BY <1>0, PartOfBlocks
<1>2. IsSeq(next)
  BY <1>1, NextIsSeq
<1>3. Carries(parts, results, uses)
  <2>1. parts = DecodeMessage(s, i, known).parts
    OBVIOUS
  <2> HIDE DEF parts
  <2> QED
    BY <1>0, <2>1, PartIds
<1> HIDE DEF results, uses
<1>5. CASE next = <<>> /\ m.role = "system"
  <2>1. Len(<<>>) = 0
    OBVIOUS
  <2> QED
    BY <1>1, <1>2, <1>5, <2>1 DEF ToolsFirst, Ends, results, uses
<1>6. CASE next = <<Reminder(m)>> /\ m.role = "system"
  <2> DEFINE x == Reminder(m)
  <2>1. x.role = "user"
    BY DEF Reminder, Message
  <2>2. next = <<x>>
    BY <1>6
  <2> HIDE DEF x
  <2>3. Len(next) = 1 /\ next[1] = x /\ 0 \in 0..1 /\ \A j \in 0 + 1..1 : j = 1
    BY <2>2
  <2>4. ToolsFirst(next, results)
    BY <2>1, <2>3 DEF ToolsFirst
  <2> QED
    BY <1>1, <1>2, <1>6, <2>4 DEF Ends, results, uses
<1>7. CASE next = EncodeMessage(m)
  <2>1. m.role # "tool"
    BY <1>1
  <2>2. ToolsFirst(EncodeMessage(m), results) /\ Ends(EncodeMessage(m), uses)
    BY <1>1, <1>3, <2>1, EncodedAnswers
  <2> QED
    BY <1>2, <1>7, <2>2 DEF results, uses
<1> QED
  BY <1>5, <1>6, <1>7 DEF EncodeNext

LEMMA ChatAnswers ==
  ASSUME NEW s, Paired(s), NEW tools, Decode(s, tools) # None, NEW system, IsSeq(system),
         NEW placement, NEW chat, chat = Encode(system, Decode(s, tools), placement)
  PROVE  AnswersFound(chat)
<1> DEFINE n == Len(s)
           known == Known(tools, s)
           d == [i \in DOMAIN s |-> DecodeMessage(s, i, known)]
           merged == IF placement # "merge" THEN <<>>
                     ELSE FlattenSeq([i \in DOMAIN d |->
                            IF d[i].role = "system" THEN PlainText(d[i]) ELSE <<>>])
           first == Texts(system) \o merged
           leads(i) == first = <<>> /\ i = 1
           f == [i \in DOMAIN d |-> EncodeNext(d[i], placement, leads(i))]
           U == [i \in 1..n |-> UsesOf(s[i])]
<1>1. Decode(s, tools) = d /\ \A i \in DOMAIN s : Decodable(s[i], d[i])
  BY DEF Decode
<1>0. s \in Seq(Talk)
  BY DEF Paired
<1>2. n \in Nat /\ DOMAIN s = 1..n /\ DOMAIN d = 1..n /\ \A i \in 1..n : d[i] = DecodeMessage(s, i, known)
  BY <1>0
<1>3. chat = HeadOf(first) \o FlattenSeq(f)
  BY <1>1 DEF Encode, HeadOf
<1> HIDE DEF d, known, first
<1>4. Runs(f, n)
  BY <1>2 DEF Runs
<1>5. ASSUME NEW i \in 1..n
      PROVE  IsSeq(f[i]) /\ ToolsFirst(f[i], ResultsOf(s[i])) /\ Ends(f[i], UsesOf(s[i]))
  <2> DEFINE m == d[i]
             leading == leads(i)
             next == f[i]
  <2>1. m = DecodeMessage(s, i, known) /\ Decodable(s[i], m) /\ next = EncodeNext(m, placement, leading)
    BY <1>1, <1>2
  <2> HIDE DEF m, leading, next, f
  <2>2. IsSeq(next) /\ ToolsFirst(next, ResultsOf(s[i])) /\ Ends(next, UsesOf(s[i]))
    BY <2>1, NextAnswers DEF n
  <2> QED
    BY <2>2 DEF next
<1>6. AnswerInTurn(f, n, U)
  <2> HIDE DEF f
  <2>1. ASSUME NEW i \in 1..n
        PROVE  /\ IsSeq(f[i]) /\ Ends(f[i], U[i])
               /\ ToolsFirst(f[i], IF i = 1 THEN {} ELSE U[i - 1])
    <3>1. PairedAt(s, i) /\ (i # 1 => i - 1 \in 1..n)
      BY <1>2 DEF Paired
    <3>2. ResultsOf(s[i]) = (IF i = 1 THEN {} ELSE U[i - 1])
      BY <3>1 DEF PairedAt
    <3> QED
      BY <1>5, <3>2
  <2> HIDE DEF U
  <2> QED
    BY <2>1 DEF AnswerInTurn
<1>7. IsSeq(HeadOf(first)) /\ AnswersFound(HeadOf(first))
  <2>1. CASE first = <<>>
    <3>1. HeadOf(first) = <<>> /\ DOMAIN <<>> = {}
      BY <2>1 DEF HeadOf
    <3> QED
      BY <3>1, EmptyIsSeq DEF AnswersFound
  <2>2. CASE first # <<>>
    <3> DEFINE x == Message("system", first, <<>>)
    <3>1. HeadOf(first) = <<x>> /\ x.role = "system"
      BY <2>2 DEF HeadOf, Message
    <3> HIDE DEF x
    <3>2. IsSeq(<<x>>) /\ DOMAIN <<x>> = {1} /\ <<x>>[1] = x
      BY OneIsSeq
    <3> QED
      BY <3>1, <3>2 DEF AnswersFound
  <2> QED
    BY <2>1, <2>2
<1> DEFINE h == HeadOf(first)
<1>8. IsSeq(h) /\ AnswersFound(h) /\ chat = h \o FlattenSeq(f)
  BY <1>3, <1>7
<1> HIDE DEF f, U, h, n
<1> QED
  BY <1>2, <1>4, <1>6, <1>8, AnswersFlatten

-----------------------------------------------------------------------------
\* The same for an Anthropic backend: what is taken out leaves calls and results where
\* they were.
Found(u) ==
  \A i \in DOMAIN u : ResultsOf(u[i]) # {} => i > 1 /\ ResultsOf(u[i]) \subseteq UsesOf(u[i - 1])
Closes(u, ids) == ids # {} => Len(u) # 0 /\ ids \subseteq UsesOf(u[Len(u)])
OneOrNone(t, results, uses) ==
  \/ t = <<>> /\ uses = {}
  \/ \E x : t = <<x>> /\ ResultsOf(x) \subseteq results /\ UsesOf(x) = uses

LEMMA FoundGrows ==
  ASSUME NEW u, IsSeq(u), Found(u), NEW ids, Closes(u, ids), NEW t, NEW uses, OneOrNone(t, ids, uses)
  PROVE  IsSeq(u \o t) /\ Found(u \o t) /\ Closes(u \o t, uses)
<1>1. CASE t = <<>> /\ uses = {}
  <2>1. u \o <<>> = u
    BY WithEmpty
  <2> QED
    BY <1>1, <2>1 DEF Closes
<1>2. CASE \E x : t = <<x>> /\ ResultsOf(x) \subseteq ids /\ UsesOf(x) = uses
  <2>1. PICK x : t = <<x>> /\ ResultsOf(x) \subseteq ids /\ UsesOf(x) = uses
    BY <1>2
  <2> DEFINE v == u \o t
             n == Len(u)
  <2>2. IsSeq(t) /\ Len(t) = 1 /\ t[1] = x
    BY <2>1, OneIsSeq
  <2>3. /\ IsSeq(v) /\ Len(v) = n + 1 /\ n \in Nat
        /\ \A i \in 1..n : v[i] = u[i]
        /\ v[n + 1] = x
    <3>1. 1 \in 1..Len(t)
      BY <2>2
    <3>0. IsSeq(t)
      BY <2>2
    <3>2. /\ IsSeq(v) /\ Len(v) = n + Len(t) /\ n \in Nat
          /\ \A i \in 1..n : v[i] = u[i]
          /\ \A i \in 1..Len(t) : v[n + i] = t[i]
      BY <3>0, ConcatAt
    <3> HIDE DEF v, n
    <3> QED
      BY <2>2, <3>1, <3>2
  <2>4. DOMAIN u = 1..n /\ DOMAIN v = 1..n + 1
    BY <2>3, SeqDomain
  <2>5. Closes(u, ids)
    OBVIOUS
  <2> HIDE DEF v, n
  <2>6. ASSUME NEW i \in 1..n + 1, ResultsOf(v[i]) # {}
        PROVE  i > 1 /\ ResultsOf(v[i]) \subseteq UsesOf(v[i - 1])
    <3>1. CASE i \in 1..n
      <4>1. v[i] = u[i]
        BY <2>3, <3>1
      <4>2. i > 1 /\ ResultsOf(u[i]) \subseteq UsesOf(u[i - 1])
        BY <2>4, <2>6, <3>1, <4>1 DEF Found
      <4>3. v[i - 1] = u[i - 1]
        BY <2>3, <3>1, <4>2
      <4> QED
        BY <4>1, <4>2, <4>3
    <3>2. CASE i = n + 1
      <4>1. ids # {} /\ ResultsOf(x) \subseteq ids /\ v[i] = x
        BY <2>1, <2>3, <2>6, <3>2
      <4>2. n # 0 /\ ids \subseteq UsesOf(u[n])
        BY <2>5, <4>1 DEF Closes, n
      <4>3. i > 1 /\ i - 1 = n /\ v[n] = u[n]
        BY <2>3, <3>2, <4>2
      <4> QED
        BY <4>1, <4>2, <4>3
    <3> QED
      BY <2>3, <3>1, <3>2
  <2>7. Found(v)
    BY <2>4, <2>6 DEF Found
  <2>8. Closes(v, uses)
    <3>1. Len(v) # 0
      BY <2>3
    <3> QED
      BY <2>1, <2>3, <3>1 DEF Closes
  <2> QED
    BY <2>3, <2>7, <2>8 DEF v
<1> QED
  BY <1>1, <1>2 DEF OneOrNone

FoundInTurn(f, n, U) == \A i \in 1..n : OneOrNone(f[i], IF i = 1 THEN {} ELSE U[i - 1], U[i])

LEMMA FoundFlatten ==
  ASSUME NEW n \in Nat, NEW f, Runs(f, n), NEW U, FoundInTurn(f, n, U)
  PROVE  IsSeq(FlattenSeq(f)) /\ Found(FlattenSeq(f))
<1> DEFINE none == {}
           e == <<>>
<1>1. IsSeq(f) /\ Len(f) = n
  BY RunsIsSeq
<1>0. IsSeq(e) /\ Found(e) /\ Closes(e, none)
  BY EmptyIsSeq DEF Found, Closes
<1>2. CASE n = 0
  <2>1. FlattenSeq(f) = e
    BY <1>1, <1>2 DEF FlattenSeq
  <2> QED
    BY <1>0, <2>1
<1>3. CASE n # 0
  <2>1. PICK g : Flattens(f, n, g) /\ FlattenSeq(f) = g[n]
    BY <1>1, <1>3, FlattenRun
  <2>2. \A i \in 1..n : g[i] = IF i = 1 THEN f[i] ELSE g[i - 1] \o f[i]
    BY <2>1 DEF Flattens
  <2> DEFINE Holds(i) == IsSeq(g[i]) /\ Found(g[i]) /\ Closes(g[i], U[i])
             T == {k \in Nat : k + 1 <= n => Holds(k + 1)}
  <2>3. 0 \in T
    <3> DEFINE t == f[1]
               uses == U[1]
    <3>1. 1 \in 1..n
      BY <1>3
    <3>2. g[1] = t
      BY <2>2, <3>1
    <3>3. OneOrNone(t, none, uses)
      BY <3>1 DEF FoundInTurn
    <3>4. e \o t = t
      <4>1. IsSeq(t)
        BY <3>3, EmptyIsSeq, OneIsSeq DEF OneOrNone
      <4> HIDE DEF t
      <4> QED
        BY <4>1, WithEmpty
    <3> HIDE DEF t, uses, none, e
    <3>5. IsSeq(e \o t) /\ Found(e \o t) /\ Closes(e \o t, uses)
      BY <1>0, <3>3, FoundGrows
    <3>6. Holds(1)
      BY <3>2, <3>4, <3>5 DEF uses
    <3> QED
      BY <3>6
  <2>4. ASSUME NEW k \in T PROVE k + 1 \in T
    <3>1. k \in Nat /\ (k + 1 <= n => Holds(k + 1))
      OBVIOUS
    <3> HIDE DEF T
    <3> SUFFICES ASSUME (k + 1) + 1 <= n PROVE Holds((k + 1) + 1)
      BY <3>1 DEF T
    <3> DEFINE j == k + 1
               i == j + 1
    <3>2. j \in 1..n /\ i \in 1..n /\ i # 1 /\ i - 1 = j /\ j <= n
      BY <3>1
    <3>3. Holds(j)
      BY <3>1, <3>2
    <3> HIDE DEF i, j
    <3> DEFINE s == g[j]
               t == f[i]
               before == U[j]
               uses == U[i]
    <3>4. g[i] = s \o t
      BY <2>2, <3>2
    <3>5. IsSeq(s) /\ Found(s) /\ Closes(s, before)
      BY <3>3
    <3>6. OneOrNone(t, before, uses)
      BY <3>2 DEF FoundInTurn
    <3> HIDE DEF s, t, before, uses
    <3>7. IsSeq(s \o t) /\ Found(s \o t) /\ Closes(s \o t, uses)
      BY <3>5, <3>6, FoundGrows
    <3>8. Holds(i)
      BY <3>4, <3>7 DEF uses
    <3> QED
      BY <3>8 DEF i, j
  <2>5. T = Nat
    <3> HIDE DEF T
    <3>1. T \in SUBSET Nat
      BY DEF T
    <3> QED
      BY <2>3, <2>4, <3>1, AllNumbers
  <2>6. n - 1 \in T /\ (n - 1) + 1 = n
    <3> HIDE DEF T
    <3>1. n - 1 \in Nat /\ (n - 1) + 1 = n
      BY <1>3
    <3> QED
      BY <2>5, <3>1
  <2>7. Holds(n)
    BY <2>6
  <2> QED
    BY <2>1, <2>7
<1> QED
  BY <1>2, <1>3

\* What is signed of a list of blocks.
SignedOf(blocks) ==
  FlattenSeq([k \in DOMAIN blocks |-> IF Unsigned(blocks[k]) THEN <<>> ELSE <<blocks[k]>>])

LEMMA SignedBlocks ==
  ASSUME NEW blocks, IsSeq(blocks)
  PROVE  /\ IsSeq(SignedOf(blocks))
         /\ ToSet(SignedOf(blocks)) = {b \in ToSet(blocks) : ~Unsigned(b)}
<1> DEFINE n == Len(blocks)
           f == [k \in DOMAIN blocks |-> IF Unsigned(blocks[k]) THEN <<>> ELSE <<blocks[k]>>]
<1>1. n \in Nat /\ DOMAIN blocks = 1..n /\ ToSet(blocks) = {blocks[k] : k \in 1..n}
  BY SeqDomain DEF ToSet
<1>2. Runs(f, n)
  BY <1>1 DEF Runs
<1>3. ASSUME NEW k \in 1..n
      PROVE  IsSeq(f[k]) /\ ToSet(f[k]) = {b \in {blocks[k]} : ~Unsigned(b)}
  <2>1. f[k] = IF Unsigned(blocks[k]) THEN <<>> ELSE <<blocks[k]>>
    BY <1>1
  <2>2. ToSet(<<blocks[k]>>) = {blocks[k]} /\ ToSet(<<>>) = {}
    BY DEF ToSet
  <2> HIDE DEF f
  <2> QED
    BY <2>1, <2>2, OneIsSeq, EmptyIsSeq
<1>4. SignedOf(blocks) = FlattenSeq(f)
  BY DEF SignedOf
<1> HIDE DEF f
<1>5. AllSeq(f, n)
  BY <1>3 DEF AllSeq
<1>6. IsSeq(FlattenSeq(f)) /\ ToSet(FlattenSeq(f)) = Within(f, n)
  BY <1>1, <1>2, <1>5, FlattenIsSeq
<1>7. Within(f, n) = UNION {{b \in {blocks[k]} : ~Unsigned(b)} : k \in 1..n}
  BY <1>3 DEF Within
<1>8. UNION {{b \in {blocks[k]} : ~Unsigned(b)} : k \in 1..n} = {b \in ToSet(blocks) : ~Unsigned(b)}
  BY <1>1
<1> QED
  BY <1>4, <1>6, <1>7, <1>8

LEMMA SignedIds ==
  ASSUME NEW m \in Talk
  PROVE  /\ ResultsOf(Signed(m)) = ResultsOf(m) /\ UsesOf(Signed(m)) = UsesOf(m)
         /\ Signed(m).blocks = <<>> => UsesOf(m) = {}
         /\ IsSeq(Signed(m).blocks) /\ \A b \in ToSet(Signed(m).blocks) : BlockType(b)
<1>1. PICK w \in Writes : m = w.message
  BY DEF Talk
<1>2. IsSeq(m.blocks) /\ \A b \in ToSet(m.blocks) : BlockType(b)
  BY <1>1, RequestsAssumption DEF IsSeq
<1> DEFINE blocks == m.blocks
           signed == Signed(m).blocks
<1>3. signed = SignedOf(blocks)
  BY DEF Signed, SignedOf
<1> HIDE DEF blocks, signed
<1>4. IsSeq(signed) /\ ToSet(signed) = {b \in ToSet(blocks) : ~Unsigned(b)}
  BY <1>2, <1>3, SignedBlocks DEF blocks
<1>5. \A b \in ToSet(blocks) : b.type \in {"tool_use", "tool_result"} => ~Unsigned(b)
  BY DEF Unsigned
<1>6. \A type \in {"tool_use", "tool_result"} : Ids(Signed(m), type) = Ids(m, type)
  <2>1. \A type \in {"tool_use", "tool_result"} : Blocks(Signed(m), type) = Blocks(m, type)
    BY <1>4, <1>5 DEF Blocks, blocks, signed
  <2> QED
    BY <2>1 DEF Ids
<1>7. signed = <<>> => UsesOf(m) = {}
  <2> SUFFICES ASSUME signed = <<>> PROVE UsesOf(m) = {}
    OBVIOUS
  <2>1. ToSet(signed) = {}
    BY DEF ToSet
  <2>2. Blocks(Signed(m), "tool_use") = {}
    BY <2>1 DEF Blocks, signed
  <2>3. Ids(Signed(m), "tool_use") = {}
    BY <2>2 DEF Ids
  <2> QED
    BY <1>6, <2>3 DEF UsesOf
<1> QED
  BY <1>2, <1>4, <1>6, <1>7 DEF ResultsOf, UsesOf, blocks, signed

\* What the ids of a message become.
Made(ids) == {AcceptedId[id] : id \in ids}

LEMMA AcceptedIsIds ==
  ASSUME NEW m, IsSeq(m.blocks), \A b \in ToSet(m.blocks) : BlockType(b)
  PROVE  /\ ResultsOf(WithAcceptedIds(m)) = Made(ResultsOf(m))
         /\ UsesOf(WithAcceptedIds(m)) = Made(UsesOf(m))
         /\ \A id \in ResultsOf(m) : id \in DOMAIN AcceptedId
<1> DEFINE blocks == m.blocks
           n == Len(blocks)
           kinds == {"tool_use", "tool_result"}
<1>1. /\ n \in Nat /\ DOMAIN blocks = 1..n /\ ToSet(blocks) = {blocks[k] : k \in 1..n}
      /\ \A k \in 1..n : BlockType(blocks[k])
  BY SeqDomain DEF ToSet
<1>2. WithAcceptedIds(m).blocks = [k \in DOMAIN blocks |-> AcceptId(blocks[k])]
  BY DEF WithAcceptedIds
<1> HIDE DEF blocks, n
<1>3. ToSet(WithAcceptedIds(m).blocks) = {AcceptId(b) : b \in ToSet(blocks)}
  BY <1>1, <1>2 DEF ToSet
<1>4. ASSUME NEW b \in ToSet(blocks)
      PROVE  /\ AcceptId(b).type = b.type
             /\ b.type \in kinds => AcceptId(b).id = AcceptedId[b.id] /\ b.id \in DOMAIN AcceptedId
  <2>1. BlockType(b)
    BY <1>1
  <2>2. CASE b.type \in kinds
    <3>1. {"type", "id"} \subseteq DOMAIN b /\ b.id \in DOMAIN AcceptedId
      BY <2>1, <2>2 DEF BlockType
    <3>2. AcceptId(b) = With(b, "id", AcceptedId[b.id])
      BY <2>2 DEF AcceptId
    <3>3. AcceptId(b).type = b.type /\ AcceptId(b).id = AcceptedId[b.id]
      BY <3>1, <3>2 DEF With
    <3> QED
      BY <3>1, <3>3
  <2>3. CASE b.type \notin kinds
    BY <2>3 DEF AcceptId
  <2> QED
    BY <2>2, <2>3
<1>5. ASSUME NEW type \in kinds
      PROVE  Ids(WithAcceptedIds(m), type) = Made(Ids(m, type))
  <2>1. Blocks(m, type) = {b \in ToSet(blocks) : b.type = type}
    BY DEF Blocks, blocks
  <2>2. Blocks(WithAcceptedIds(m), type) = {AcceptId(b) : b \in Blocks(m, type)}
    BY <1>3, <1>4, <2>1 DEF Blocks
  <2>3. \A b \in Blocks(m, type) : AcceptId(b).id = AcceptedId[b.id]
    BY <1>4, <2>1
  <2>4. Ids(WithAcceptedIds(m), type) = {AcceptId(b).id : b \in Blocks(m, type)}
    BY <2>2 DEF Ids
  <2>5. Made(Ids(m, type)) = {AcceptedId[b.id] : b \in Blocks(m, type)}
    BY DEF Made, Ids
  <2> QED
    BY <2>3, <2>4, <2>5
<1>6. \A id \in ResultsOf(m) : id \in DOMAIN AcceptedId
  BY <1>4 DEF ResultsOf, Ids, Blocks, blocks
<1> QED
  BY <1>5, <1>6 DEF ResultsOf, UsesOf

LEMMA RelayAnswers ==
  ASSUME NEW s, Paired(s), NEW sent, sent = ForAnthropic(s)
  PROVE  \A i \in DOMAIN sent : \A id \in ResultsOf(sent[i]) :
           i > 1 /\ id \in UsesOf(sent[i - 1]) /\ AcceptedId[id] = id
<1> DEFINE n == Len(s)
           f == [i \in DOMAIN s |->
                   IF s[i].blocks = <<>> \/ Signed(s[i]).blocks # <<>> THEN <<Signed(s[i])>> ELSE <<>>]
           U == [i \in 1..n |-> UsesOf(s[i])]
           u == StripUnsigned(s)
<1>0. s \in Seq(Talk)
  BY DEF Paired
<1>1. n \in Nat /\ DOMAIN s = 1..n /\ \A i \in 1..n : s[i] \in Talk
  BY <1>0
<1>2. u = FlattenSeq(f) /\ sent = AcceptedIds(u)
  BY DEF StripUnsigned, ForAnthropic
<1> HIDE DEF u
<1>3. Runs(f, n)
  BY <1>1 DEF Runs
<1>4. ASSUME NEW i \in 1..n
      PROVE  f[i] = IF s[i].blocks = <<>> \/ Signed(s[i]).blocks # <<>> THEN <<Signed(s[i])>> ELSE <<>>
  BY <1>1
<1> HIDE DEF f
<1>5. ASSUME NEW i \in 1..n
      PROVE  OneOrNone(f[i], IF i = 1 THEN {} ELSE U[i - 1], U[i])
  <2> DEFINE x == Signed(s[i])
  <2>1. PairedAt(s, i) /\ (i # 1 => i - 1 \in 1..n)
    BY <1>1 DEF Paired
  <2>2. ResultsOf(s[i]) = (IF i = 1 THEN {} ELSE U[i - 1])
    BY <2>1 DEF PairedAt
  <2>3. U[i] = UsesOf(s[i])
    OBVIOUS
  <2>4. s[i] \in Talk
    BY <1>1
  <2>5. /\ ResultsOf(x) = ResultsOf(s[i]) /\ UsesOf(x) = UsesOf(s[i])
        /\ x.blocks = <<>> => UsesOf(s[i]) = {}
    <3> DEFINE m == s[i]
    <3>1. m \in Talk
      BY <2>4
    <3> HIDE DEF m
    <3>2. /\ ResultsOf(Signed(m)) = ResultsOf(m) /\ UsesOf(Signed(m)) = UsesOf(m)
          /\ Signed(m).blocks = <<>> => UsesOf(m) = {}
      BY <3>1, SignedIds
    <3> QED
      BY <3>2 DEF m
  <2> HIDE DEF x, U
  <2>6. f[i] = <<x>> \/ (f[i] = <<>> /\ x.blocks = <<>>)
    BY <1>4 DEF x
  <2> QED
    BY <2>2, <2>3, <2>5, <2>6 DEF OneOrNone
<1>6. FoundInTurn(f, n, U)
  BY <1>5 DEF FoundInTurn
<1>7. AllSeq(f, n)
  BY <1>5, EmptyIsSeq, OneIsSeq DEF AllSeq, OneOrNone
<1>8. IsSeq(u) /\ Found(u)
  <2> HIDE DEF U, n
  <2> QED
    BY <1>1, <1>2, <1>3, <1>6, FoundFlatten
<1>9. ToSet(u) = Within(f, n)
  <2> HIDE DEF n
  <2> QED
    BY <1>1, <1>2, <1>3, <1>7, FlattenIsSeq
<1> DEFINE l == Len(u)
<1>10. l \in Nat /\ DOMAIN u = 1..l /\ \A i \in 1..l : u[i] \in ToSet(u)
  BY <1>8, SeqDomain
<1>11. ASSUME NEW m \in ToSet(u) PROVE IsSeq(m.blocks) /\ \A b \in ToSet(m.blocks) : BlockType(b)
  <2>1. PICK i \in 1..n : m \in ToSet(f[i])
    BY <1>9 DEF Within
  <2>2. m = Signed(s[i]) /\ s[i] \in Talk
    <3>1. ToSet(<<Signed(s[i])>>) = {Signed(s[i])} /\ ToSet(<<>>) = {}
      BY DEF ToSet
    <3> QED
      BY <1>1, <1>4, <2>1, <3>1
  <2> DEFINE o == s[i]
  <2>3. o \in Talk /\ m = Signed(o)
    BY <2>2
  <2> HIDE DEF o
  <2> QED
    BY <2>3, SignedIds
<1>12. DOMAIN sent = 1..l /\ \A i \in 1..l : sent[i] = WithAcceptedIds(u[i])
  BY <1>2, <1>10 DEF AcceptedIds
<1> HIDE DEF l, n, U
<1>13. ASSUME NEW i \in 1..l
       PROVE  /\ ResultsOf(sent[i]) = Made(ResultsOf(u[i])) /\ UsesOf(sent[i]) = Made(UsesOf(u[i]))
              /\ \A id \in ResultsOf(u[i]) : id \in DOMAIN AcceptedId
  <2> DEFINE m == u[i]
  <2>1. IsSeq(m.blocks) /\ \A b \in ToSet(m.blocks) : BlockType(b)
    BY <1>10, <1>11
  <2>2. sent[i] = WithAcceptedIds(m)
    BY <1>12
  <2> HIDE DEF m
  <2>3. /\ ResultsOf(WithAcceptedIds(m)) = Made(ResultsOf(m))
        /\ UsesOf(WithAcceptedIds(m)) = Made(UsesOf(m))
        /\ \A id \in ResultsOf(m) : id \in DOMAIN AcceptedId
    BY <2>1, AcceptedIsIds
  <2> QED
    BY <2>2, <2>3 DEF m
<1>14. ASSUME NEW i \in 1..l, NEW id \in ResultsOf(sent[i])
       PROVE  i > 1 /\ id \in UsesOf(sent[i - 1]) /\ AcceptedId[id] = id
  <2>1. PICK old \in ResultsOf(u[i]) : id = AcceptedId[old]
    BY <1>13 DEF Made
  <2>2. i > 1 /\ old \in UsesOf(u[i - 1]) /\ old \in DOMAIN AcceptedId
    BY <1>8, <1>10, <1>13, <2>1 DEF Found
  <2>3. i - 1 \in 1..l
    BY <1>10, <2>2
  <2>4. id \in UsesOf(sent[i - 1])
    BY <1>13, <2>1, <2>2, <2>3 DEF Made
  <2>5. AcceptedId[AcceptedId[old]] = AcceptedId[old]
    BY <2>2, RequestsAssumption
  <2> QED
    BY <2>1, <2>2, <2>4, <2>5
<1> QED
  BY <1>12, <1>14

LEMMA AnswersAlways == Stands /\ Paired(messages) => AnswersFindTheirCalls
<1> SUFFICES ASSUME Stands, Paired(messages), phase = "sent" PROVE AnswersFindTheirCalls
  BY DEF AnswersFindTheirCalls
<1> DEFINE kind == request.route.backend.kind
<1>2. PICK s : s = messages
  OBVIOUS
<1>3. PICK tools : tools = session.tools
  OBVIOUS
<1>4. PICK system : system = session.system
  OBVIOUS
<1>5. PICK placement : placement = Route.placement
  OBVIOUS
<1>6. PICK sent : sent = wire.body.messages
  OBVIOUS
<1>7. /\ IsSeq(tools) /\ IsSeq(system) /\ Paired(s)
      /\ request.route = Route /\ Prepared(Route, s) # None /\ request.body = Prepared(Route, s)
      /\ wire.body = request.body
  BY <1>2, <1>3, <1>4, OnItsWay DEF SessionType, IsSeq, Stands
<1>8. kind = "openai" => \A i \in DOMAIN sent : sent[i].role = "tool" => FollowsCall(sent, i)
  <2> SUFFICES ASSUME kind = "openai" PROVE AnswersFound(sent)
    BY DEF AnswersFound
  <2>1. Prepared(Route, s) = Translated(Route, s)
    BY <1>7 DEF Prepared
  <2>2. Decode(s, tools) # None /\ sent = Encode(system, Decode(s, tools), placement)
    BY <1>3, <1>4, <1>5, <1>6, <1>7, <2>1 DEF Translated
  <2> QED
    BY <1>7, <2>2, ChatAnswers
<1>9. kind = "anthropic" =>
        \A i \in DOMAIN sent : \A id \in Ids(sent[i], "tool_result") :
          i > 1 /\ id \in Ids(sent[i - 1], "tool_use") /\ AcceptedId[id] = id
  <2> SUFFICES ASSUME kind = "anthropic"
               PROVE  \A i \in DOMAIN sent : \A id \in ResultsOf(sent[i]) :
                        i > 1 /\ id \in UsesOf(sent[i - 1]) /\ AcceptedId[id] = id
    BY DEF ResultsOf, UsesOf
  <2>1. sent = ForAnthropic(s)
    BY <1>6, <1>7 DEF Prepared
  <2> QED
    BY <1>7, <2>1, RelayAnswers
<1>10. kind = "passthrough" => sent = messages
  BY <1>2, <1>6, <1>7 DEF Prepared
<1> QED
  BY <1>6, <1>8, <1>9, <1>10 DEF AnswersFindTheirCalls

Answered == Paired(messages)

\* A backend is told the conversation the client had, whole and so that it is taken: for an
\* OpenAI backend every call, result, text and image in order, each result right after its
\* call, the definitions spelled once; for an Anthropic one results under the ids their
\* calls have, in characters it takes; src/anthropic/decode.rs, src/openai/request.rs,
\* src/anthropic/request.rs.
THEOREM ConversationCorrect == Spec => []ConversationKept
<1>1. Init => Answered
  BY PairedFirst DEF Answered
<1>2. Answered /\ [Next]_vars => Answered'
  BY PairedNext DEF Answered
<1>3. Stands /\ Answered => ConversationKept
  BY FaithfulAlways, AnswersAlways DEF ConversationKept, Paired, Answered
<1> QED
  BY <1>1, <1>2, <1>3, StandsAlways, PTL DEF Spec

-----------------------------------------------------------------------------
\* The newest of some places is the largest, 0 when there is none.
LEMMA NewestIs ==
  ASSUME NEW S \in SUBSET Nat, NEW m \in Nat, m \in S \cup {0}, \A x \in S : x <= m
  PROVE  About!Newest(S) = m
<1> DEFINE T == S \cup {0}
<1>1. m \in T /\ \A x \in T : x \in Nat /\ m >= x
  OBVIOUS
<1> HIDE DEF T
<1> DEFINE z == About!Max(T)
<1>2. z \in T /\ \A y \in T : z >= y
  <2>1. \E x \in T : \A y \in T : x >= y
    BY <1>1
  <2>2. z = CHOOSE x \in T : \A y \in T : x >= y
    BY DEF About!Max
  <2> HIDE DEF z
  <2> QED
    BY <2>1, <2>2
<1> HIDE DEF z
<1>3. z = m
  BY <1>1, <1>2
<1> QED
  BY <1>3 DEF About!Newest, T, z

LEMMA SameFlatten == ASSUME NEW s PROVE About!FlattenSeq(s) = FlattenSeq(s)
  BY DEF About!FlattenSeq, FlattenSeq

LEMMA SameToSet == ASSUME NEW s PROVE About!ToSet(s) = ToSet(s)
  BY DEF About!ToSet, ToSet

\* The turn a conversation is in, at the newest message that opens one.
TurnAt(s, t) ==
  \E at \in Nat :
    /\ at # 0 => at \in 1..Len(s) /\ Opens(s[at])
    /\ \A i \in 1..Len(s) : Opens(s[i]) => i <= at
    /\ t = IF at = 0 THEN <<>> ELSE About!Read(s[at]).prompt

LEMMA TurnPromptIs ==
  ASSUME NEW s \in Seq(Talk), NEW t, TurnAt(s, t)
  PROVE  About!TurnPrompt(s) = t
<1>1. PICK at \in Nat :
        /\ at # 0 => at \in 1..Len(s) /\ Opens(s[at])
        /\ \A i \in 1..Len(s) : Opens(s[i]) => i <= at
        /\ t = IF at = 0 THEN <<>> ELSE About!Read(s[at]).prompt
  BY DEF TurnAt
<1> DEFINE S == {i \in DOMAIN s : s[i].role = "user" /\ About!EndsReading(About!Read(s[i]))}
<1>2. DOMAIN s = 1..Len(s) /\ Len(s) \in Nat
  OBVIOUS
<1>3. S = {i \in 1..Len(s) : Opens(s[i])}
  BY <1>2 DEF Opens
<1>4. About!TurnPrompt(s) = IF About!Newest(S) = 0 THEN <<>>
                            ELSE About!Read(s[About!Newest(S)]).prompt
  BY DEF About!TurnPrompt
<1> HIDE DEF S
<1>5. S \in SUBSET Nat /\ at \in S \cup {0} /\ \A x \in S : x <= at
  BY <1>1, <1>2, <1>3
<1>6. About!Newest(S) = at
  BY <1>5, NewestIs
<1> QED
  BY <1>1, <1>4, <1>6

LEMMA TurnGrows ==
  ASSUME NEW s \in Seq(Talk), NEW m \in Talk, NEW t, TurnAt(s, t), NEW u,
         u = IF Opens(m) THEN About!Read(m).prompt ELSE t
  PROVE  TurnAt(Append(s, m), u)
<1>1. PICK at \in Nat :
        /\ at # 0 => at \in 1..Len(s) /\ Opens(s[at])
        /\ \A i \in 1..Len(s) : Opens(s[i]) => i <= at
        /\ t = IF at = 0 THEN <<>> ELSE About!Read(s[at]).prompt
  BY DEF TurnAt
<1> DEFINE r == Append(s, m)
           n == Len(s)
<1>2. /\ n \in Nat /\ Len(r) = n + 1 /\ r[n + 1] = m /\ \A i \in 1..n : r[i] = s[i]
      /\ at # 0 => at \in 1..n
  BY <1>1
<1> HIDE DEF r
<1>3. CASE Opens(m)
  <2>1. n + 1 \in Nat /\ n + 1 # 0 /\ n + 1 \in 1..Len(r) /\ Opens(r[n + 1])
        /\ \A i \in 1..Len(r) : i <= n + 1
    BY <1>2, <1>3
  <2>2. u = About!Read(r[n + 1]).prompt
    BY <1>2, <1>3
  <2> QED
    BY <2>1, <2>2 DEF TurnAt, r
<1>4. CASE ~Opens(m)
  <2>1. at # 0 => at \in 1..Len(r) /\ Opens(r[at]) /\ r[at] = s[at]
    BY <1>1, <1>2
  <2>2. \A i \in 1..Len(r) : Opens(r[i]) => i <= at
    <3> TAKE i \in 1..Len(r)
    <3>1. i = n + 1 \/ i \in 1..n
      BY <1>2
    <3> QED
      BY <1>1, <1>2, <1>4, <3>1
  <2>3. u = IF at = 0 THEN <<>> ELSE About!Read(r[at]).prompt
    BY <1>1, <1>4, <2>1
  <2> QED
    BY <2>1, <2>2, <2>3 DEF TurnAt, r
<1> QED
  BY <1>3, <1>4

\* A bounded set of numbers has a greatest.
LEMMA GreatestNumber ==
  ASSUME NEW n \in Nat, NEW T \in SUBSET (1..n), T # {}
  PROVE  \E x \in T : \A y \in T : y <= x
<1> DEFINE R == {n - x : x \in T}
<1>1. R \in SUBSET Nat /\ R # {}
  <2>1. \A x \in T : n - x \in Nat
    OBVIOUS
  <2>2. PICK x \in T : TRUE
    OBVIOUS
  <2>3. n - x \in R
    OBVIOUS
  <2> QED
    BY <2>1, <2>3
<1> HIDE DEF R
<1>2. PICK r \in R : \A q \in R : r <= q
  BY <1>1, LeastNumber
<1>3. PICK x \in T : r = n - x
  BY DEF R
<1>4. ASSUME NEW y \in T PROVE y <= x
  <2>1. n - y \in R
    BY DEF R
  <2>2. n - x <= n - y
    BY <1>2, <1>3, <2>1
  <2> QED
    BY <2>2
<1> QED
  BY <1>4

\* The user's last message is the last that is spoken.
LEMMA LastSpokenIs ==
  ASSUME NEW s \in Seq(Talk), Len(s) # 0, s[Len(s)].role = "user"
  PROVE  About!LastSpoken(s) = Len(s)
<1> DEFINE S == {i \in DOMAIN s : s[i].role \in {"user", "assistant"}}
           n == Len(s)
<1>1. DOMAIN s = 1..n /\ n \in Nat
  OBVIOUS
<1>2. S \in SUBSET Nat /\ n \in S \cup {0} /\ \A x \in S : x <= n
  BY <1>1
<1>3. About!LastSpoken(s) = About!Newest(S)
  BY DEF About!LastSpoken
<1> HIDE DEF S, n
<1>4. About!Newest(S) = n
  BY <1>1, <1>2, NewestIs
<1> QED
  BY <1>3, <1>4 DEF n

LEMMA AnswersIs ==
  ASSUME NEW s \in Seq(Talk), Len(s) # 0, s[Len(s)].role = "user"
  PROVE  About!Answers(s) <=> \E b \in ToSet(s[Len(s)].blocks) : b.type = "tool_result"
<1>1. About!LastSpoken(s) = Len(s)
  BY LastSpokenIs
<1> DEFINE n == Len(s)
           blocks == s[n].blocks
<1>2. n # 0 /\ About!ToSet(blocks) = ToSet(blocks)
  BY SameToSet
<1> QED
  BY <1>1, <1>2 DEF About!Answers

\* The results among blocks, their ids in order.
IdsOf(blocks) ==
  FlattenSeq([k \in DOMAIN blocks |->
    IF blocks[k].type = "tool_result" THEN <<blocks[k].id>> ELSE <<>>])
ResultsAt(blocks) == {k \in DOMAIN blocks : blocks[k].type = "tool_result"}

LEMMA ReadResults == ASSUME NEW m PROVE About!Read(m).results = IdsOf(m.blocks)
<1> DEFINE f == [k \in DOMAIN m.blocks |->
                  IF m.blocks[k].type = "tool_result" THEN <<m.blocks[k].id>> ELSE <<>>]
<1>1. About!FlattenSeq(f) = FlattenSeq(f)
  BY SameFlatten
<1> QED
  BY <1>1 DEF About!Read, IdsOf

LEMMA IdsCounted ==
  ASSUME NEW blocks, IsSeq(blocks)
  PROVE  /\ IdsOf(blocks) \in Seq({b.id : b \in {c \in ToSet(blocks) : c.type = "tool_result"}})
         /\ Len(IdsOf(blocks)) = Cardinality(ResultsAt(blocks))
<1> DEFINE S == ToSet(blocks)
           I == {b.id : b \in {c \in S : c.type = "tool_result"}}
           phi == [b \in S |-> IF b.type = "tool_result" THEN <<b.id>> ELSE <<>>]
           G == {u \in Seq(S) : /\ Len(Cat(phi, u)) = Cardinality(ResultsAt(u))
                                /\ IsFiniteSet(ResultsAt(u))}
<1>1. \A b \in S : /\ phi[b] = IF b.type = "tool_result" THEN <<b.id>> ELSE <<>>
                   /\ phi[b] \in Seq(I)
  <2> TAKE b \in S
  <2>1. CASE b.type = "tool_result"
    <3>1. b.id \in I
      BY <2>1
    <3> HIDE DEF I
    <3>2. <<b.id>> \in Seq(I)
      BY <3>1
    <3> QED
      BY <2>1, <3>2
  <2>2. CASE b.type # "tool_result"
    BY <2>2
  <2> QED
    BY <2>1, <2>2
<1>2. Maps(phi, S, I)
  BY <1>1 DEF Maps
<1> HIDE DEF phi, I
<1>3. <<>> \in G
  <2>1. ResultsAt(<<>>) = {} /\ Len(<<>>) = 0 /\ <<>> \in Seq(S)
    BY DEF ResultsAt
  <2>2. IsFiniteSet({}) /\ Cardinality({}) = 0
    BY FS_EmptySet
  <2>3. Cat(phi, <<>>) = <<>>
    BY CatNone
  <2> QED
    BY <2>1, <2>2, <2>3
<1>4. ASSUME NEW u \in G, NEW x \in S PROVE Append(u, x) \in G
  <2> DEFINE t == Append(u, x)
             n == Len(u)
             R == ResultsAt(u)
             c == Cat(phi, u)
  <2>1. u \in Seq(S) /\ Len(c) = Cardinality(R) /\ IsFiniteSet(R)
    OBVIOUS
  <2> HIDE DEF G, S
  <2>2. /\ t \in Seq(S) /\ n \in Nat /\ Len(t) = n + 1 /\ t[n + 1] = x
        /\ \A i \in 1..n : t[i] = u[i]
    BY <2>1
  <2>3. Cat(phi, t) = c \o phi[x] /\ c \in Seq(I)
    BY <1>2, <2>1, CatLast, CatType
  <2>4. DOMAIN t = 1..n + 1 /\ DOMAIN u = 1..n
    BY <2>1, <2>2
  <2> HIDE DEF t, c
  <2>5. CASE x.type = "tool_result"
    <3>1. ResultsAt(t) = R \cup {n + 1} /\ n + 1 \notin R
      BY <2>2, <2>4, <2>5 DEF ResultsAt
    <3> HIDE DEF R
    <3>2. IsFiniteSet(R \cup {n + 1}) /\ Cardinality(R \cup {n + 1}) = Cardinality(R) + 1
      BY <2>1, <3>1, FS_AddElement
    <3>3. phi[x] = <<x.id>> /\ <<x.id>> \in Seq(I)
      BY <1>1, <2>5
    <3>4. Len(c \o phi[x]) = Len(c) + 1
      BY <2>3, <3>3
    <3> QED
      BY <2>1, <2>2, <2>3, <3>1, <3>2, <3>4 DEF G, t
  <2>6. CASE x.type # "tool_result"
    <3>1. ResultsAt(t) = R
      BY <2>2, <2>4, <2>6 DEF ResultsAt
    <3>2. phi[x] = <<>>
      BY <1>1, <2>6
    <3>3. Len(c \o phi[x]) = Len(c)
      BY <2>3, <3>2
    <3> QED
      BY <2>1, <2>2, <2>3, <3>1, <3>3 DEF G, t
  <2> QED
    BY <2>5, <2>6
<1>5. G = Seq(S)
  <2>1. G \in SUBSET Seq(S)
    OBVIOUS
  <2> HIDE DEF G, S
  <2> QED
    BY <1>3, <1>4, <2>1, AllSequences
<1>6. blocks \in G
  BY <1>5 DEF IsSeq
<1>7. IdsOf(blocks) = Cat(phi, blocks)
  <2>1. DOMAIN blocks = 1..Len(blocks) /\ \A i \in 1..Len(blocks) : blocks[i] \in S
    BY DEF IsSeq
  <2> HIDE DEF S
  <2> QED
    BY <1>1, <2>1 DEF IdsOf, Cat
<1>8. Cat(phi, blocks) \in Seq(I)
  <2>1. blocks \in Seq(S)
    BY DEF IsSeq
  <2> HIDE DEF S
  <2> QED
    BY <1>2, <2>1, CatType
<1> QED
  BY <1>6, <1>7, <1>8 DEF I

-----------------------------------------------------------------------------
\* The same induction up to a bound.
LEMMA NumbersTo ==
  ASSUME NEW n \in Nat, NEW T \in SUBSET (0..n), 0 \in T,
         \A k \in T : k < n => k + 1 \in T
  PROVE  T = 0..n
<1> DEFINE S == {k \in Nat : k <= n => k \in T}
<1>1. 0 \in S
  OBVIOUS
<1>2. ASSUME NEW k \in S PROVE k + 1 \in S
  <2>1. k \in Nat /\ (k <= n => k \in T)
    OBVIOUS
  <2>2. k + 1 \in Nat /\ (k + 1 <= n => k <= n /\ k < n)
    BY <2>1
  <2> HIDE DEF S
  <2>3. k + 1 <= n => k + 1 \in T
    BY <2>1, <2>2
  <2> QED
    BY <2>2, <2>3 DEF S
<1>3. S = Nat
  <2> HIDE DEF S
  <2>1. S \in SUBSET Nat
    BY DEF S
  <2> QED
    BY <1>1, <1>2, <2>1, AllNumbers
<1>4. \A k \in 0..n : k \in T
  BY <1>3
<1> QED
  BY <1>4

\* n steps of F from x; whatever takes them while it is in X stays there.
Steps(f, x, n, F) == f = [m \in 0..n |-> IF m = 0 THEN x ELSE F[m][f[m - 1]]]
Walks(f, X, x, n, F) ==
  f[0] = x /\ \A m \in 1..n : f[m - 1] \in X => f[m] = F[m][f[m - 1]]
Closed(X, n, F) == \A m \in 1..n : \A y \in X : F[m][y] \in X

LEMMA StepsExist ==
  ASSUME NEW x, NEW n \in Nat, NEW F
  PROVE  \E f : Steps(f, x, n, F)
<1> DEFINE T == {k \in 0..n : \E f : Steps(f, x, k, F)}
<1>1. 0 \in T
  <2> DEFINE f == [m \in 0..0 |-> x]
  <2>1. Steps(f, x, 0, F)
    BY DEF Steps
  <2> QED
    BY <2>1
<1>2. ASSUME NEW k \in T, k < n PROVE k + 1 \in T
  <2>1. k \in 0..n /\ k + 1 \in 0..n /\ \E f : Steps(f, x, k, F)
    BY <1>2
  <2>2. PICK f : Steps(f, x, k, F)
    BY <2>1
  <2> HIDE DEF T
  <2> DEFINE y == F[k + 1][f[k]]
             g == [m \in 0..(k + 1) |-> IF m = k + 1 THEN y ELSE f[m]]
  <2>3. \A m \in 0..k : g[m] = f[m] /\ f[m] = IF m = 0 THEN x ELSE F[m][f[m - 1]]
    BY <2>1, <2>2 DEF Steps
  <2>4. g[k + 1] = y /\ g = [m \in 0..(k + 1) |-> g[m]]
    BY <2>1
  <2> HIDE DEF g
  <2>5. ASSUME NEW m \in 0..(k + 1)
        PROVE  g[m] = IF m = 0 THEN x ELSE F[m][g[m - 1]]
    <3>1. CASE m = k + 1
      <4>1. m # 0 /\ m - 1 = k /\ k \in 0..k
        BY <2>1, <3>1
      <4>2. g[m - 1] = f[k]
        BY <2>3, <4>1
      <4> QED
        BY <2>4, <3>1, <4>1, <4>2
    <3>2. CASE m # k + 1
      <4>1. m \in 0..k /\ (m # 0 => m - 1 \in 0..k)
        BY <2>1, <3>2
      <4> QED
        BY <2>3, <4>1
    <3> QED
      BY <3>1, <3>2
  <2>6. Steps(g, x, k + 1, F)
    BY <2>4, <2>5 DEF Steps
  <2> QED
    BY <2>1, <2>6 DEF T
<1>3. T = 0..n
  <2> HIDE DEF T
  <2>1. T \in SUBSET (0..n)
    BY DEF T
  <2> QED
    BY <1>1, <1>2, <2>1, NumbersTo
<1>4. n \in T
  <2> HIDE DEF T
  <2>1. n \in 0..n
    OBVIOUS
  <2> QED
    BY <1>3, <2>1
<1> QED
  BY <1>4

LEMMA StepsStay ==
  ASSUME NEW X, NEW x \in X, NEW n \in Nat, NEW F, Closed(X, n, F), NEW f, Walks(f, X, x, n, F)
  PROVE  /\ f[0] = x
         /\ \A m \in 0..n : f[m] \in X
         /\ \A m \in 1..n : m - 1 \in 0..n /\ f[m] = F[m][f[m - 1]]
<1> DEFINE T == {k \in 0..n : f[k] \in X}
<1>1. 0 \in T
  BY DEF Walks
<1>2. ASSUME NEW k \in T, k < n PROVE k + 1 \in T
  <2>1. k + 1 \in 1..n /\ k + 1 \in 0..n /\ (k + 1) - 1 = k /\ f[k] \in X
    BY <1>2
  <2>2. f[k + 1] = F[k + 1][f[k]]
    BY <2>1 DEF Walks
  <2> QED
    BY <2>1, <2>2 DEF Closed
<1>3. T = 0..n
  <2> HIDE DEF T
  <2>1. T \in SUBSET (0..n)
    BY DEF T
  <2> QED
    BY <1>1, <1>2, <2>1, NumbersTo
<1>4. \A m \in 0..n : f[m] \in X
  BY <1>3
<1>5. ASSUME NEW m \in 1..n PROVE m - 1 \in 0..n /\ f[m] = F[m][f[m - 1]]
  <2>1. m - 1 \in 0..n
    OBVIOUS
  <2> QED
    BY <1>4, <2>1 DEF Walks
<1> QED
  BY <1>4, <1>5 DEF Walks

LEMMA StepsWalk ==
  ASSUME NEW X, NEW x, NEW n \in Nat, NEW F, NEW f, Steps(f, x, n, F)
  PROVE  Walks(f, X, x, n, F)
BY DEF Steps, Walks

-----------------------------------------------------------------------------
\* What a step counts.
Counts(R) == \A r \in R : r.count \in Nat
Sums(f, r) ==
  /\ f[0] = 0 /\ \A k \in 0..Len(r) : f[k] \in Nat
  /\ \A k \in 1..Len(r) : k - 1 \in 0..Len(r) /\ f[k] = f[k - 1] + r[k].count

LEMMA CountedIs ==
  ASSUME NEW R, Counts(R), NEW r \in Seq(R)
  PROVE  \E f : Sums(f, r) /\ Counted(r) = f[Len(r)]
<1> DEFINE n == Len(r)
           F == [m \in 1..n |-> [y \in Nat |-> y + r[m].count]]
           Sum(f) == f = [k \in 0..n |-> IF k = 0 THEN 0 ELSE f[k - 1] + r[k].count]
           h == CHOOSE f : Sum(f)
<1>1. n \in Nat /\ 0 \in Nat /\ \A m \in 1..n : r[m].count \in Nat
  BY DEF Counts
<1>2. \A m \in 1..n : \A y \in Nat : F[m][y] = y + r[m].count /\ F[m][y] \in Nat
  BY <1>1
<1>3. Closed(Nat, n, F)
  BY <1>2 DEF Closed
<1> HIDE DEF F
<1>4. \E f : Sum(f)
  <2>1. PICK f : Steps(f, 0, n, F)
    BY <1>1, StepsExist
  <2>2. Walks(f, Nat, 0, n, F)
    BY <1>1, <2>1, StepsWalk
  <2>3. \A m \in 0..n : f[m] \in Nat
    BY <1>1, <1>3, <2>2, StepsStay
  <2>4. f = [k \in 0..n |-> IF k = 0 THEN 0 ELSE F[k][f[k - 1]]]
    BY <2>1 DEF Steps
  <2>5. \A k \in 0..n : k # 0 => F[k][f[k - 1]] = f[k - 1] + r[k].count
    <3> SUFFICES ASSUME NEW k \in 0..n, k # 0 PROVE F[k][f[k - 1]] = f[k - 1] + r[k].count
      OBVIOUS
    <3>1. k \in 1..n /\ k - 1 \in 0..n
      BY <1>1
    <3> QED
      BY <1>2, <2>3, <3>1
  <2>6. Sum(f)
    BY <2>4, <2>5
  <2> QED
    BY <2>6
<1>5. Sum(h)
  BY <1>4
<1>6. Counted(r) = h[n]
  BY DEF Counted
<1> HIDE DEF h
<1>7. Walks(h, Nat, 0, n, F)
  <2>1. \A k \in 0..n : h[k] = IF k = 0 THEN 0 ELSE h[k - 1] + r[k].count
    BY <1>5
  <2>2. \A k \in 1..n : k \in 0..n /\ k # 0
    BY <1>1
  <2>3. 0 \in 0..n
    BY <1>1
  <2> QED
    BY <1>2, <2>1, <2>2, <2>3 DEF Walks
<1> HIDE DEF n
<1>8. /\ h[0] = 0 /\ \A m \in 0..n : h[m] \in Nat
      /\ \A m \in 1..n : m - 1 \in 0..n /\ h[m] = F[m][h[m - 1]]
  <2> DEFINE X == Nat
  <2>1. 0 \in X /\ Closed(X, n, F) /\ Walks(h, X, 0, n, F)
    BY <1>1, <1>3, <1>7
  <2> HIDE DEF X
  <2>2. /\ h[0] = 0 /\ \A m \in 0..n : h[m] \in X
        /\ \A m \in 1..n : m - 1 \in 0..n /\ h[m] = F[m][h[m - 1]]
    BY ONLY <1>1, <2>1, StepsStay
  <2> QED
    BY <2>2 DEF X
<1>9. Sums(h, r)
  BY <1>2, <1>8 DEF Sums, n
<1> QED
  BY <1>6, <1>9 DEF n

\* One more call adds one to the count, wherever it is counted.
LEMMA CountedMore ==
  ASSUME NEW R, Counts(R), NEW r \in Seq(R), NEW t \in Seq(R), NEW at \in Nat,
         at \in 1..Len(t),
         \/ Len(t) = Len(r) + 1 /\ at = Len(t) /\ t[at].count = 1
         \/ Len(t) = Len(r) /\ t[at].count = r[at].count + 1,
         \A k \in 1..Len(t) : k # at => t[k] = r[k]
  PROVE  Counted(t) = Counted(r) + 1
<1>1. PICK f : Sums(f, r) /\ Counted(r) = f[Len(r)]
  BY CountedIs
<1>2. PICK g : Sums(g, t) /\ Counted(t) = g[Len(t)]
  BY CountedIs
<1> DEFINE n == Len(r)
           l == Len(t)
<1>3. n \in Nat /\ l \in Nat /\ n <= l
  OBVIOUS
<1>4. /\ f[0] = 0 /\ \A k \in 0..n : f[k] \in Nat
      /\ \A k \in 1..n : k - 1 \in 0..n /\ f[k] = f[k - 1] + r[k].count
  BY <1>1 DEF Sums
<1>5. /\ g[0] = 0 /\ \A k \in 0..l : g[k] \in Nat
      /\ \A k \in 1..l : k - 1 \in 0..l /\ g[k] = g[k - 1] + t[k].count
  BY <1>2 DEF Sums
<1>6. /\ \A k \in 1..n : r[k].count \in Nat
      /\ \A k \in 1..l : t[k].count \in Nat
  BY DEF Counts
<1>7. CASE l = n + 1 /\ at = l /\ t[at].count = 1
  <2> DEFINE T == {k \in 0..n : g[k] = f[k]}
  <2>1. 0 \in T
    BY <1>3, <1>4, <1>5
  <2>2. ASSUME NEW k \in T, k < n PROVE k + 1 \in T
    <3>1. /\ k + 1 \in 1..n /\ k + 1 \in 1..l /\ k + 1 # at /\ (k + 1) - 1 = k
          /\ k + 1 \in 0..n /\ g[k] = f[k]
      BY <1>3, <1>7, <2>2
    <3>2. t[k + 1] = r[k + 1]
      BY <3>1
    <3> QED
      BY <1>4, <1>5, <3>1, <3>2
  <2>3. T = 0..n
    <3> HIDE DEF T
    <3>1. T \in SUBSET (0..n)
      BY DEF T
    <3> QED
      BY <1>3, <2>1, <2>2, <3>1, NumbersTo
  <2>4. g[n] = f[n]
    BY <1>3, <2>3
  <2>5. g[l] = g[n] + 1
    BY <1>3, <1>5, <1>7
  <2> QED
    BY <1>1, <1>2, <2>4, <2>5
<1>8. CASE l = n /\ t[at].count = r[at].count + 1
  <2> DEFINE T == {k \in 0..n : g[k] = IF k < at THEN f[k] ELSE f[k] + 1}
  <2>1. 0 \in T
    BY <1>3, <1>4, <1>5
  <2>2. ASSUME NEW k \in T, k < n PROVE k + 1 \in T
    <3>1. /\ k + 1 \in 1..n /\ k + 1 \in 1..l /\ (k + 1) - 1 = k /\ k \in 0..n
          /\ k + 1 \in 0..n /\ g[k] = IF k < at THEN f[k] ELSE f[k] + 1
      BY <1>3, <1>8, <2>2
    <3> DEFINE m == k + 1
    <3>2. g[m] = g[k] + t[m].count /\ f[m] = f[k] + r[m].count /\ f[k] \in Nat
          /\ r[m].count \in Nat
      BY <1>4, <1>5, <1>6, <3>1
    <3>3. CASE m = at
      <4>1. g[k] = f[k] /\ t[m].count = r[m].count + 1
        BY <1>8, <3>1, <3>3
      <4> QED
        BY <3>1, <3>2, <3>3, <4>1
    <3>4. CASE m # at
      <4>1. t[m] = r[m]
        BY <3>1, <3>4
      <4>2. k < at <=> m < at
        BY <3>1, <3>4
      <4> QED
        BY <3>1, <3>2, <4>1, <4>2
    <3> QED
      BY <3>3, <3>4
  <2>3. T = 0..n
    <3> HIDE DEF T
    <3>1. T \in SUBSET (0..n)
      BY DEF T
    <3> QED
      BY <1>3, <2>1, <2>2, <3>1, NumbersTo
  <2>4. n \in 0..n /\ ~(n < at)
    BY <1>3, <1>8
  <2>5. g[n] = f[n] + 1
    BY <2>3, <2>4
  <2> QED
    BY <1>1, <1>2, <1>8, <2>5
<1> QED
  BY <1>7, <1>8

-----------------------------------------------------------------------------
\* What is returned, each call named and counted.
CalledAs(N, H) == [name : N, hint : H, count : Nat]
NamedIn(call, N, H) == call.name \in N /\ call.hint \in H

LEMMA MinIs ==
  ASSUME NEW S \in SUBSET Nat, S # {}
  PROVE  About!Min(S) \in S
<1>1. PICK x \in S : \A y \in S : x <= y
  BY LeastNumber
<1>2. About!Min(S) = CHOOSE z \in S : \A y \in S : z <= y
  BY DEF About!Min
<1> QED
  BY <1>1, <1>2

LEMMA NameAdds ==
  ASSUME NEW N, NEW H, NEW y \in Seq(CalledAs(N, H)), NEW call, NamedIn(call, N, H)
  PROVE  /\ About!Name(y, call) \in Seq(CalledAs(N, H))
         /\ Counted(About!Name(y, call)) = Counted(y) + 1
<1> DEFINE E == CalledAs(N, H)
           same == {i \in DOMAIN y : call.hint = None /\ y[i].hint = None /\ y[i].name = call.name}
           at == About!Min(same)
           n == Len(y)
           t == About!Name(y, call)
<1>1. Counts(E)
  BY DEF Counts, CalledAs
<1>2. y \in Seq(E) /\ n \in Nat /\ DOMAIN y = 1..n /\ \A i \in 1..n : y[i] \in E
  OBVIOUS
<1>3. CASE same = {}
  <2> DEFINE x == [name |-> call.name, hint |-> call.hint, count |-> 1]
  <2>1. t = Append(y, x)
    BY <1>3 DEF About!Name
  <2>2. x \in E /\ x.count = 1
    BY DEF CalledAs, NamedIn
  <2> HIDE DEF x, t, E
  <2>3. /\ t \in Seq(E) /\ Len(t) = n + 1 /\ t[n + 1] = x /\ n + 1 \in 1..Len(t) /\ n + 1 \in Nat
        /\ \A k \in 1..Len(t) : k # n + 1 => t[k] = y[k]
    BY <1>2, <2>1, <2>2
  <2>4. Counted(t) = Counted(y) + 1
    BY <1>1, <1>2, <2>2, <2>3, CountedMore
  <2> QED
    BY <2>3, <2>4 DEF t, E
<1>4. CASE same # {}
  <2>1. at \in same /\ at \in 1..n /\ at \in Nat
    <3>1. same \in SUBSET Nat
      BY <1>2
    <3> HIDE DEF same
    <3>2. at \in same
      BY <1>4, <3>1, MinIs
    <3> QED
      BY <1>2, <3>1, <3>2 DEF same
  <2> DEFINE x == [name |-> y[at].name, hint |-> y[at].hint, count |-> y[at].count + 1]
  <2>2. t = [y EXCEPT ![at] = x]
    BY <1>4 DEF About!Name
  <2>3. x \in E /\ x.count = y[at].count + 1
    BY <1>2, <2>1 DEF CalledAs
  <2> HIDE DEF x, t, E, at
  <2>4. /\ t \in Seq(E) /\ Len(t) = n /\ t[at] = x
        /\ \A k \in 1..Len(t) : k # at => t[k] = y[k]
    BY <1>2, <2>1, <2>2, <2>3
  <2>5. Counted(t) = Counted(y) + 1
    BY <1>1, <1>2, <2>1, <2>3, <2>4, CountedMore
  <2> QED
    BY <2>4, <2>5 DEF t, E
<1> QED
  BY <1>3, <1>4

LEMMA CountedNone == Counted(<<>>) = 0
<1> DEFINE R == [count : Nat]
           e == <<>>
<1>1. e \in Seq(R) /\ Counts(R) /\ Len(e) = 0
  BY DEF Counts
<1> HIDE DEF R, e
<1>2. PICK f : Sums(f, e) /\ Counted(e) = f[Len(e)]
  BY <1>1, CountedIs
<1> QED
  BY <1>1, <1>2 DEF Sums, e

LEMMA ToolNamesCorrect ==
  ASSUME NEW s, NEW ids, NEW n \in Nat, n = Len(ids), NEW N, NEW H,
         \A k \in 1..n : NamedIn(About!CallOf(s, ids[k]), N, H)
  PROVE  /\ About!ToolNames(s, ids) \in Seq(CalledAs(N, H))
         /\ Counted(About!ToolNames(s, ids)) = n
<1> DEFINE X == Seq(CalledAs(N, H))
           F == [m \in 1..n |-> [y \in X |-> About!Name(y, About!CallOf(s, ids[m]))]]
           Titles(f) == f = [k \in 0..n |-> IF k = 0 THEN <<>>
                                           ELSE About!Name(f[k - 1], About!CallOf(s, ids[k]))]
           h == CHOOSE f : Titles(f)
<1>1. \A m \in 1..n : \A y \in X : /\ F[m][y] = About!Name(y, About!CallOf(s, ids[m]))
                                   /\ F[m][y] \in X /\ Counted(F[m][y]) = Counted(y) + 1
  <2> TAKE m \in 1..n
  <2> TAKE y \in X
  <2>1. F[m][y] = About!Name(y, About!CallOf(s, ids[m]))
    OBVIOUS
  <2>2. PICK call : call = About!CallOf(s, ids[m])
    OBVIOUS
  <2> HIDE DEF F
  <2>3. NamedIn(call, N, H)
    BY <2>2
  <2>4. About!Name(y, call) \in X /\ Counted(About!Name(y, call)) = Counted(y) + 1
    BY <2>3, NameAdds
  <2> QED
    BY <2>1, <2>2, <2>4
<1>2. Closed(X, n, F)
  BY <1>1 DEF Closed
<1>3. About!ToolNames(s, ids) = h[n]
  BY DEF About!ToolNames
<1>4. <<>> \in X
  OBVIOUS
<1> HIDE DEF F, X
<1>5. \E f : Titles(f)
  <2>1. PICK f : Steps(f, <<>>, n, F)
    BY StepsExist
  <2>2. Walks(f, X, <<>>, n, F)
    BY <1>4, <2>1, StepsWalk
  <2>3. \A m \in 0..n : f[m] \in X
    BY <1>2, <1>4, <2>2, StepsStay
  <2>4. f = [k \in 0..n |-> IF k = 0 THEN <<>> ELSE F[k][f[k - 1]]]
    BY <2>1 DEF Steps
  <2>5. ASSUME NEW k \in 0..n, k # 0 PROVE F[k][f[k - 1]] = About!Name(f[k - 1], About!CallOf(s, ids[k]))
    <3>1. k \in 1..n /\ k - 1 \in 0..n
      BY <2>5
    <3>2. f[k - 1] \in X
      BY <2>3, <3>1
    <3> QED
      BY <1>1, <3>1, <3>2
  <2>6. Titles(f)
    BY <2>4, <2>5
  <2> QED
    BY <2>6
<1>6. Titles(h)
  BY <1>5
<1> HIDE DEF h
<1>7. Walks(h, X, <<>>, n, F)
  <2>1. \A k \in 0..n : h[k] = IF k = 0 THEN <<>> ELSE About!Name(h[k - 1], About!CallOf(s, ids[k]))
    BY <1>6
  <2>2. 0 \in 0..n /\ \A k \in 1..n : k \in 0..n /\ k # 0
    OBVIOUS
  <2> QED
    BY <1>1, <2>1, <2>2 DEF Walks
<1>8. /\ h[0] = <<>> /\ \A m \in 0..n : h[m] \in X
      /\ \A m \in 1..n : m - 1 \in 0..n /\ h[m] = F[m][h[m - 1]]
  BY <1>2, <1>4, <1>7, StepsStay
<1> DEFINE T == {k \in 0..n : Counted(h[k]) = k}
<1>9. 0 \in T
  BY <1>8, CountedNone
<1>10. ASSUME NEW k \in T, k < n PROVE k + 1 \in T
  <2>1. k \in Nat /\ k + 1 \in 1..n /\ k + 1 \in 0..n /\ (k + 1) - 1 = k /\ Counted(h[k]) = k
    BY <1>10
  <2>2. h[k + 1] = F[k + 1][h[k]] /\ h[k] \in X
    BY <1>8, <2>1
  <2>3. Counted(h[k + 1]) = Counted(h[k]) + 1
    BY <1>1, <2>1, <2>2
  <2> QED
    BY <2>1, <2>3
<1>11. T = 0..n
  <2> HIDE DEF T
  <2>1. T \in SUBSET (0..n)
    BY DEF T
  <2> QED
    BY <1>9, <1>10, <2>1, NumbersTo
<1>12. n \in 0..n
  OBVIOUS
<1>13. Counted(h[n]) = n
  BY <1>11, <1>12
<1> QED
  BY <1>3, <1>8, <1>12, <1>13 DEF X

\* A call is found by its id where it was made, in the message before.
CallsAt(blocks, id) == {k \in DOMAIN blocks : blocks[k].type = "tool_use" /\ blocks[k].id = id}

LEMMA CallIs ==
  ASSUME NEW s \in Seq(Talk), Paired(s), Len(s) # 0, NEW id, id \in ResultsOf(s[Len(s)])
  PROVE  /\ Len(s) - 1 \in 1..Len(s)
         /\ \E b \in Blocks(s[Len(s) - 1], "tool_use") : b.name = About!CallOf(s, id).name
<1> DEFINE n == Len(s)
           j == n - 1
           f == [i \in DOMAIN s |-> IF s[i].role = "assistant" THEN s[i].blocks ELSE <<>>]
           y == s[j].blocks
<1>1. n \in Nat /\ n \in 1..n /\ DOMAIN s = 1..n /\ \A i \in 1..n : s[i] \in Talk
  OBVIOUS
<1>2. n # 1 /\ id \in UsesOf(s[j]) /\ s[n].role = "user"
  BY <1>1 DEF Paired, PairedAt
<1>3. j \in 1..n /\ j \in Nat /\ j # 0 /\ j - 1 \in Nat /\ n = j + 1 /\ (j - 1) + 1 = j
  BY <1>1, <1>2
<1>4. /\ IsSeq(y) /\ s[j].role = "assistant"
      /\ \E b \in ToSet(y) : b.type = "tool_use" /\ b.id = id
  <2>1. PICK b \in ToSet(y) : b.type = "tool_use" /\ b.id = id
    BY <1>2 DEF UsesOf, Ids, Blocks
  <2>2. PICK w \in Writes : s[j] = w.message
    BY <1>1, <1>3 DEF Talk
  <2>3. w.message.blocks \in Seq(ToSet(w.message.blocks))
        /\ \A c \in ToSet(w.message.blocks) : c.type = "tool_use" => w.message.role = "assistant"
    BY RequestsAssumption
  <2> QED
    BY <2>1, <2>2, <2>3 DEF IsSeq
<1> DEFINE S == UNION {ToSet(s[i].blocks) : i \in 1..n}
           g == [i \in 1..j - 1 |-> f[i]]
           A == FlattenSeq(g)
           all == FlattenSeq(f)
<1>5. \A i \in 1..n : f[i] \in Seq(S)
  <2> TAKE i \in 1..n
  <2>1. IsSeq(s[i].blocks)
    <3>1. PICK w \in Writes : s[i] = w.message
      BY <1>1 DEF Talk
    <3>2. w.message.blocks \in Seq(ToSet(w.message.blocks))
      BY RequestsAssumption
    <3> QED
      BY <3>1, <3>2 DEF IsSeq
  <2> DEFINE u == s[i].blocks
  <2>2. ToSet(u) \subseteq S /\ f[i] \in {u, <<>>}
    BY <1>1
  <2> HIDE DEF S, u, f
  <2>3. u \in Seq(S)
    BY <2>1, <2>2, SeqIn DEF u
  <2>4. <<>> \in Seq(S)
    OBVIOUS
  <2> DEFINE W == Seq(S)
             x == f[i]
  <2>5. u \in W /\ <<>> \in W /\ x \in {u, <<>>}
    BY <2>2, <2>3, <2>4
  <2> HIDE DEF W, x
  <2>6. x \in W
    BY ONLY <2>5
  <2> QED
    BY <2>6 DEF W, x
<1>6. /\ f \in Seq(Seq(S)) /\ g \in Seq(Seq(S)) /\ y \in Seq(S)
      /\ f = Append(Append(g, y), <<>>) /\ Append(g, y) \in Seq(Seq(S))
  <2>1. f = [i \in 1..n |-> f[i]] /\ f[j] = y /\ f[n] = <<>>
    BY <1>1, <1>2, <1>3, <1>4
  <2> DEFINE W == Seq(S)
  <2>2. \A i \in 1..n : f[i] \in W
    BY <1>5
  <2>0. <<>> \in W
    OBVIOUS
  <2> HIDE DEF f, W, y, S, n, j
  <2>3. y \in W /\ <<>> \in W
    BY <1>3, <2>0, <2>1, <2>2
  <2>4. f \in Seq(W) /\ Len(f) = n
    BY <1>1, <2>1, <2>2
  <2>5. g \in Seq(W) /\ Len(g) = j - 1 /\ \A i \in 1..j - 1 : g[i] = f[i]
    BY <1>3, <2>2
  <2> HIDE DEF g
  <2> DEFINE h == Append(g, y)
             k == Append(h, <<>>)
  <2>6. h \in Seq(W) /\ Len(h) = j /\ h[j] = y /\ \A i \in 1..j - 1 : h[i] = f[i]
    BY <1>3, <2>3, <2>5
  <2> HIDE DEF h
  <2>7. k \in Seq(W) /\ Len(k) = n /\ k[n] = <<>> /\ \A i \in 1..j : k[i] = h[i]
    BY <1>3, <2>3, <2>6
  <2> HIDE DEF k
  <2>8. \A i \in 1..n : k[i] = f[i]
    <3> TAKE i \in 1..n
    <3>1. i = n \/ i = j \/ i \in 1..j - 1
      BY <1>3
    <3>2. \A l \in 1..j - 1 : l \in 1..j
      BY <1>3
    <3>3. j \in 1..j
      BY <1>3
    <3> QED
      BY <2>1, <2>6, <2>7, <3>1, <3>2, <3>3
  <2>9. f = k
    BY <2>4, <2>7, <2>8
  <2> QED
    BY <2>3, <2>4, <2>5, <2>6, <2>9 DEF W, h, k
<1> HIDE DEF f, g, S
<1>7. A \in Seq(S) /\ all = A \o y
  <2>1. FlattenSeq(Append(g, y)) = A \o y
    BY <1>6, FlattenLast
  <2>2. A \in Seq(S) /\ <<>> \in Seq(S)
    BY <1>6, FlattenCorrect
  <2> DEFINE e == <<>>
             h == Append(g, y)
  <2>3. e \in Seq(S) /\ h \in Seq(Seq(S))
    BY <1>6
  <2> HIDE DEF e, h
  <2>4. FlattenSeq(Append(h, e)) = FlattenSeq(h) \o e
    BY <2>3, FlattenLast
  <2> HIDE DEF A, y
  <2>5. (A \o y) \o <<>> = A \o y
    BY <1>6, <2>2
  <2> QED
    BY <1>6, <2>1, <2>2, <2>4, <2>5 DEF e, h
<1> DEFINE P == CallsAt(y, id)
           Q == CallsAt(all, id)
           a == Len(A)
           l == Len(y)
<1> HIDE DEF A, all, y, n
<1>8. l \in Nat /\ a \in Nat /\ P \in SUBSET (1..l) /\ P # {} /\ DOMAIN y = 1..l
  <2>1. DOMAIN y = 1..l /\ l \in Nat /\ a \in Nat
    BY <1>6, <1>7
  <2>2. PICK k \in 1..l : y[k].type = "tool_use" /\ y[k].id = id
    BY <1>4, <2>1 DEF ToSet
  <2> QED
    BY <2>1, <2>2 DEF CallsAt
<1>9. PICK p \in P : \A q \in P : q <= p
  BY <1>8, GreatestNumber
<1>10. /\ DOMAIN all = 1..a + l /\ \A k \in 1..l : all[a + k] = y[k]
  BY <1>6, <1>7, <1>8
<1>11. /\ a + p \in Q /\ Q \in SUBSET Nat /\ \A q \in Q : q <= a + p /\ all[a + p] = y[p]
  <2>1. p \in 1..l /\ y[p].type = "tool_use" /\ y[p].id = id
    BY <1>8, <1>9 DEF CallsAt
  <2>2. a + p \in 1..a + l /\ all[a + p] = y[p]
    BY <1>8, <1>10, <2>1
  <2>3. ASSUME NEW q \in Q PROVE q \in Nat /\ q <= a + p
    <3>1. q \in 1..a + l /\ all[q].type = "tool_use" /\ all[q].id = id
      BY <1>10 DEF CallsAt
    <3>2. CASE q <= a
      BY <1>8, <2>1, <3>1, <3>2
    <3>3. CASE ~(q <= a)
      <4> DEFINE k == q - a
      <4>1. k \in 1..l /\ a + k = q
        BY <1>8, <3>1, <3>3
      <4> HIDE DEF k
      <4>2. y[k].type = "tool_use" /\ y[k].id = id
        BY <1>10, <3>1, <4>1
      <4>3. k <= p
        BY <1>8, <1>9, <4>1, <4>2 DEF CallsAt
      <4> QED
        BY <1>8, <2>1, <3>1, <4>1, <4>3
    <3> QED
      BY <3>2, <3>3
  <2> QED
    BY <1>10, <2>1, <2>2, <2>3 DEF CallsAt
<1>12. p \in 1..l /\ a + p \in Nat /\ a + p # 0 /\ y[p].type = "tool_use"
  BY <1>8, <1>9 DEF CallsAt
<1>13. About!Newest(Q) = a + p
  BY <1>11, <1>12, NewestIs
<1>14. About!CallOf(s, id).name = y[p].name
  <2>1. About!Written(s) = all
    <3>1. About!FlattenSeq(f) = FlattenSeq(f)
      BY SameFlatten
    <3> QED
      BY <3>1 DEF About!Written, f, all
  <2>2. About!Calls(all, id) = Q
    BY DEF About!Calls, CallsAt
  <2>3. About!CallOf(s, id) = About!CallAt(all, a + p)
    BY <1>13, <2>1, <2>2 DEF About!CallOf
  <2> QED
    BY <1>11, <1>12, <2>3 DEF About!CallAt
<1>15. y[p] \in ToSet(y)
  BY <1>8, <1>12 DEF ToSet
<1> QED
  BY <1>3, <1>12, <1>14, <1>15 DEF Blocks, y, n

-----------------------------------------------------------------------------
\* The turn the user is in is the one read of the conversation, and the record of a request
\* in hand is the summary of it.
InItsTurn == TurnAt(messages, turn)
Recounted == phase = "handled" => messages # <<>> /\ record.summary = About!Summary(messages)

LEMMA InItsTurnFirst == Init => InItsTurn
<1> SUFFICES ASSUME Init PROVE InItsTurn
  OBVIOUS
<1>1. messages = <<>> /\ turn = <<>>
  BY DEF Init
<1>2. TurnAt(<<>>, <<>>)
  <2>1. 0 \in Nat /\ \A i \in 1..Len(<<>>) : FALSE
    OBVIOUS
  <2> QED
    BY <2>1 DEF TurnAt
<1> QED
  BY <1>1, <1>2 DEF InItsTurn

LEMMA InItsTurnNext ==
  ASSUME ReadAsMeant
  PROVE  Answered /\ InItsTurn /\ [Next]_vars => InItsTurn'
<1> SUFFICES ASSUME Answered, InItsTurn, [Next]_vars PROVE InItsTurn'
  OBVIOUS
<1>1. CASE Write
  <2>1. PICK w \in Writes : /\ messages' = Append(messages, w.message)
                            /\ turn' = IF w.turn.sort = "goes on" THEN turn ELSE w.turn.typed
    BY <1>1 DEF Write
  <2>2. PICK m : m = w.message
    OBVIOUS
  <2>3. PICK s : s = messages
    OBVIOUS
  <2>4. PICK t : t = turn
    OBVIOUS
  <2>5. PICK u : u = turn'
    OBVIOUS
  <2>6. s \in Seq(Talk) /\ m \in Talk /\ TurnAt(s, t)
    BY <2>2, <2>3, <2>4 DEF Answered, Paired, Talk, InItsTurn
  <2>7. u = IF Opens(m) THEN About!Read(m).prompt ELSE t
    BY <2>1, <2>2, <2>4, <2>5 DEF ReadAsMeant
  <2>8. TurnAt(Append(s, m), u)
    BY <2>6, <2>7, TurnGrows
  <2> QED
    BY <2>1, <2>2, <2>3, <2>5, <2>8 DEF InItsTurn
<1>2. CASE messages' = messages /\ turn' = turn
  BY <1>2 DEF InItsTurn
<1> QED
  BY <1>1, <1>2 DEF Next, Refuse, Show, Handle, Send, Resend, Attempt, Fail, Respond, asked, vars

LEMMA RecountedNext == Recounted /\ [Next]_vars => Recounted'
<1> SUFFICES ASSUME Recounted, [Next]_vars PROVE Recounted'
  OBVIOUS
<1>1. CASE Handle
  <2>1. messages' = messages /\ messages # <<>> /\ record'.summary = About!Summary(messages)
    BY <1>1 DEF Handle, Asks
  <2> QED
    BY <2>1 DEF Recounted
<1>2. CASE Write \/ Refuse \/ Show \/ Send \/ Resend \/ Fail \/ Respond
  <2>1. phase' # "handled"
    BY <1>2 DEF Write, Refuse, Show, Send, Resend, Attempt, Fail, Respond
  <2> QED
    BY <2>1 DEF Recounted
<1>3. CASE UNCHANGED vars
  BY <1>3 DEF Recounted, vars, asked
<1> QED
  BY <1>1, <1>2, <1>3 DEF Next

\* The step of a user's message that returns something is what its results come to.
LEMMA StepIs ==
  ASSUME NEW s \in Seq(Talk), Len(s) # 0, s[Len(s)].role = "user", About!Step(s) # None
  PROVE  About!Step(s).returns = About!ToolNames(s, IdsOf(s[Len(s)].blocks))
<1>1. About!LastSpoken(s) = Len(s)
  BY LastSpokenIs
<1> DEFINE n == Len(s)
           m == s[n]
<1>2. About!Read(m).results = IdsOf(m.blocks)
  BY ReadResults
<1> DEFINE ids == About!Read(m).results
           tools == About!ToolNames(s, ids)
<1>3. \E sends : About!Step(s) = [sends |-> sends, returns |-> tools]
  BY <1>1 DEF About!Step
<1> QED
  BY <1>2, <1>3

LEMMA StepCounts ==
  ASSUME NEW s, Paired(s), Len(s) # 0, s[Len(s)].role = "user", About!Step(s) # None
  PROVE  /\ Counted(About!Step(s).returns) = Cardinality(ResultsAt(s[Len(s)].blocks))
         /\ \A called \in ToSet(About!Step(s).returns) :
              \E b \in Blocks(s[Len(s) - 1], "tool_use") : b.name = called.name
<1> DEFINE n == Len(s)
           m == s[n]
           ids == IdsOf(m.blocks)
           N == {b.name : b \in Blocks(s[n - 1], "tool_use")}
           H == {About!CallOf(s, ids[k]).hint : k \in 1..Len(ids)}
           tools == About!ToolNames(s, ids)
<1>1. s \in Seq(Talk) /\ n \in Nat /\ n \in 1..n /\ m \in Talk
  BY DEF Paired
<1>2. IsSeq(m.blocks)
  <2>1. PICK w \in Writes : m = w.message
    BY <1>1 DEF Talk
  <2>2. w.message.blocks \in Seq(ToSet(w.message.blocks))
    BY RequestsAssumption
  <2> QED
    BY <2>1, <2>2 DEF IsSeq
<1>3. About!Step(s).returns = tools
  BY <1>1, StepIs
<1> DEFINE blocks == m.blocks
<1>4. /\ ids \in Seq({b.id : b \in {c \in ToSet(blocks) : c.type = "tool_result"}})
      /\ Len(ids) = Cardinality(ResultsAt(blocks))
  <2> HIDE DEF blocks
  <2>1. IsSeq(blocks)
    BY <1>2 DEF blocks
  <2> QED
    BY <2>1, IdsCounted DEF blocks
<1>5. \A k \in 1..Len(ids) : ids[k] \in ResultsOf(m)
  BY <1>4 DEF ResultsOf, Ids, Blocks
<1>6. Len(ids) \in Nat
  BY <1>4
<1> HIDE DEF ids
<1>7. ASSUME NEW k \in 1..Len(ids) PROVE NamedIn(About!CallOf(s, ids[k]), N, H)
  <2> DEFINE id == ids[k]
  <2>1. id \in ResultsOf(s[Len(s)])
    BY <1>5
  <2> HIDE DEF id
  <2>2. \E b \in Blocks(s[Len(s) - 1], "tool_use") : b.name = About!CallOf(s, id).name
    BY <1>1, <2>1, CallIs
  <2>3. About!CallOf(s, id).name \in N
    BY <2>2
  <2>4. About!CallOf(s, id).hint \in H
    BY DEF id
  <2> QED
    BY <2>3, <2>4 DEF NamedIn, id
<1>8. tools \in Seq(CalledAs(N, H)) /\ Counted(tools) = Len(ids)
  <2> HIDE DEF N, H, n
  <2> DEFINE l == Len(ids)
  <2>1. l \in Nat /\ l = Len(ids) /\ \A k \in 1..l : NamedIn(About!CallOf(s, ids[k]), N, H)
    BY <1>6, <1>7
  <2> HIDE DEF l
  <2>2. tools \in Seq(CalledAs(N, H)) /\ Counted(tools) = l
    BY <2>1, ToolNamesCorrect
  <2> QED
    BY <2>1, <2>2
<1> HIDE DEF tools, H
<1>9. \A called \in ToSet(tools) : called \in CalledAs(N, H)
  <2> DEFINE E == CalledAs(N, H)
  <2>1. tools \in Seq(E)
    BY <1>8
  <2> HIDE DEF E
  <2>2. \A called \in ToSet(tools) : called \in E
    BY <2>1, SeqIs
  <2> QED
    BY <2>2 DEF E
<1>10. \A called \in ToSet(tools) : called.name \in N
  <2> HIDE DEF N
  <2> QED
    BY <1>9 DEF CalledAs
<1> QED
  BY <1>3, <1>4, <1>8, <1>10

LEMMA SummaryIs ==
  ASSUME NEW s
  PROVE  /\ About!Summary(s).prompt = About!TurnPrompt(s)
         /\ About!Summary(s).answers <=> About!Answers(s)
         /\ About!Summary(s).step = About!Step(s)
BY DEF About!Summary

LEMMA NamesAlways == Answered /\ InItsTurn /\ Recounted => NamesItsTurn
<1> SUFFICES ASSUME Answered, InItsTurn, Recounted, phase = "handled" PROVE NamesItsTurn
  BY DEF NamesItsTurn
<1>1. PICK s : s = messages
  OBVIOUS
<1>2. PICK t : t = turn
  OBVIOUS
<1>3. s \in Seq(Talk) /\ TurnAt(s, t)
  BY <1>1, <1>2 DEF Answered, InItsTurn, Paired
<1>4. record.summary.prompt = About!TurnPrompt(s)
  BY <1>1, SummaryIs DEF Recounted
<1>5. About!TurnPrompt(s) = t
  BY <1>3, TurnPromptIs
<1> QED
  BY <1>2, <1>4, <1>5 DEF NamesItsTurn

LEMMA ResultsAlways == Answered /\ Recounted => TellsItsResults
<1> SUFFICES ASSUME Answered, Recounted, phase = "handled" PROVE TellsItsResults
  BY DEF TellsItsResults
<1>1. PICK s : s = messages
  OBVIOUS
<1>2. PICK told : told = record.summary
  OBVIOUS
<1>3. Paired(s) /\ s \in Seq(Talk) /\ s # <<>> /\ told = About!Summary(s)
  BY <1>1, <1>2 DEF Answered, Recounted, Paired
<1>4. Len(s) \in Nat /\ Len(s) # 0
  BY <1>3
<1> DEFINE n == Len(s)
           blocks == s[n].blocks
<1>5. ASSUME s[n].role = "user" PROVE told.answers <=> ResultsAt(blocks) # {}
  <2>1. told.answers <=> About!Answers(s)
    BY <1>3, SummaryIs, Zenon
  <2>2. About!Answers(s) <=> \E b \in ToSet(blocks) : b.type = "tool_result"
    BY <1>3, <1>4, <1>5, AnswersIs
  <2>3. (\E b \in ToSet(blocks) : b.type = "tool_result") <=> ResultsAt(blocks) # {}
    BY DEF ResultsAt, ToSet
  <2> QED
    BY <2>1, <2>2, <2>3, Zenon
<1>6. ASSUME s[n].role = "user", told.step # None
      PROVE  /\ Counted(told.step.returns) = Cardinality(ResultsAt(blocks))
             /\ \A called \in ToSet(told.step.returns) :
                  \E b \in Blocks(s[n - 1], "tool_use") : b.name = called.name
  <2>1. told.step = About!Step(s)
    BY <1>3, SummaryIs
  <2> QED
    BY <1>3, <1>4, <1>6, <2>1, StepCounts
<1> QED
  BY <1>1, <1>2, <1>5, <1>6, Zenon DEF TellsItsResults, ResultsAt

LEMMA AnsweredAlways == Spec => []Answered
<1>1. Init => Answered
  BY PairedFirst DEF Answered
<1>2. Answered /\ [Next]_vars => Answered'
  BY PairedNext DEF Answered
<1> QED
  BY <1>1, <1>2, PTL DEF Spec

\* What the lists say a request sends accounts for every result it returns: as many as its
\* message holds, each named as a call of the message before, also when the conversation
\* used its id earlier, and it is grouped with the turn it carries on just then;
\* src/anthropic/summary.rs, answers, step and tool_names.
THEOREM ResultsCorrect == Spec => []TellsItsResults
<1>1. Init => Recounted
  BY DEF Init, Recounted
<1>2. Answered /\ Recounted => TellsItsResults
  BY ResultsAlways
<1> QED
  BY <1>1, <1>2, RecountedNext, AnsweredAlways, PTL DEF Spec

\* The lists name a request by what the user typed for its turn, however many results,
\* notices and answers have come since, once each message alone is read as it was meant;
\* src/anthropic/summary.rs, turn_prompt and summarize.
THEOREM SummaryCorrect == ASSUME ReadAsMeant PROVE Spec => []SummaryTellsTheTurn
<1>1. Init => Recounted
  BY DEF Init, Recounted
<1>2. Answered /\ InItsTurn /\ [Next]_vars => InItsTurn'
  BY InItsTurnNext
<1>3. Answered /\ InItsTurn /\ Recounted => SummaryTellsTheTurn
  BY NamesAlways, ResultsAlways DEF SummaryTellsTheTurn
<1> QED
  BY <1>1, <1>2, <1>3, InItsTurnFirst, RecountedNext, AnsweredAlways, PTL DEF Spec
=============================================================================
