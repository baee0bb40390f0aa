-------------------------- MODULE UpstreamSendProofs --------------------------
(***************************************************************************)
(* Proofs about the credential cache, for any callers, values, intervals   *)
(* and clock, and about requests over it, for any retries and rotations:   *)
(* their composition keeps the cache's specification, attempts and runs    *)
(* of the helper are bounded, and a rejection has a reason.                *)
(***************************************************************************)
EXTENDS UpstreamSend, TLAPS

\* Every action of Next as one disjunction, so a step proof has one case each.
LEMMA StepCases ==
  ASSUME [Next]_vars
  PROVE  \/ \E c \in Clients :
              \/ Arrive(c) \/ Enqueue(c) \/ ServeCached(c) \/ ServeFallback(c)
              \/ ShareFailure(c) \/ StartRun(c) \/ RunFails(c)
              \/ \E v \in Secrets, life \in Lifetimes : RunSucceeds(c, v, life)
              \/ Reject(c) \/ Invalidate(c) \/ Cancel(c)
         \/ Tick
         \/ UNCHANGED vars
  BY DEF Next

-----------------------------------------------------------------------------
(* Type correctness.                                                       *)

LEMMA FetchedType ==
  ASSUME now \in Nat, NEW v \in Secrets, NEW life \in Lifetimes
  PROVE  /\ Fetched(v, life) \in CachedRec
         /\ Fetched(v, life).value = v
         /\ Fetched(v, life).validUntil \in Nat
<1> USE CredentialAssumption
<1>1. CASE life = None
  BY <1>1 DEF Fetched, CachedRec
<1>2. CASE life # None
  <2>1. life \in Nat
    BY <1>2
  <2>2. Rest(life) \in Nat /\ Min2(Refresh, Rest(life)) \in Nat
    BY <2>1 DEF Rest, Max2, Min2
  <2> QED BY <1>2, <2>2 DEF Fetched, CachedRec
<1> QED BY <1>1, <1>2

\* The mutex queue stays a sequence of callers, whichever way it changes.
LEMMA QueueType ==
  ASSUME queue \in Seq(Clients), NEW c \in Clients
  PROVE  /\ Lock(c) => queue' \in Seq(Clients)
         /\ queue # <<>> /\ Unlock => queue' \in Seq(Clients)
         /\ Leave(c) => queue' \in Seq(Clients)
<1>1. Lock(c) => queue' \in Seq(Clients)
  BY DEF Lock
<1>2. queue # <<>> /\ Unlock => queue' \in Seq(Clients)
  BY DEF Unlock
<1>3. ASSUME Leave(c) PROVE queue' \in Seq(Clients)
  <2>1. PICK i \in 1..Len(queue) :
          queue' = [j \in 1..(Len(queue) - 1) |->
                      IF j < i THEN queue[j] ELSE queue[j + 1]]
    BY <1>3 DEF Leave
  <2>2. Len(queue) \in Nat /\ Len(queue) >= 1
    BY <2>1
  <2>3. \A j \in 1..(Len(queue) - 1) :
          (IF j < i THEN queue[j] ELSE queue[j + 1]) \in Clients
    BY <2>2
  <2> QED BY <2>1, <2>2, <2>3
<1> QED BY <1>1, <1>2, <1>3

THEOREM TypeCorrect == Spec => []TypeOK
<1> USE CredentialAssumption
<1>1. Init => TypeOK
  BY DEF Init, TypeOK
<1>2. TypeOK /\ [Next]_vars => TypeOK'
  <2> SUFFICES ASSUME TypeOK, [Next]_vars PROVE TypeOK'
    OBVIOUS
  <2> USE DEF TypeOK, slot, history
  <2>1. ASSUME NEW c \in Clients, Arrive(c) PROVE TypeOK'
    BY <2>1 DEF Arrive
  <2>2. ASSUME NEW c \in Clients, Enqueue(c) PROVE TypeOK'
    BY <2>2, QueueType DEF Enqueue
  <2>3. ASSUME NEW c \in Clients, NEW o \in Secrets \cup {None}, queue # <<>>, Answer(c, o)
        PROVE  /\ now' \in Nat /\ queue' \in Seq(Clients)
               /\ pc' \in [Clients -> {"idle", "stamped", "waiting", "running", "rejecting"}]
               /\ arrived' \in [Clients -> Nat]
               /\ got' \in [Clients -> Secrets \cup {None}]
    BY <2>3, QueueType DEF Answer
  <2>4. cached # None => cached.value \in Secrets
    BY DEF CachedRec
  <2>5. ASSUME NEW c \in Clients, ServeCached(c) PROVE TypeOK'
    BY <2>5, <2>3, <2>4 DEF ServeCached, Holds, Valid
  <2>6. ASSUME NEW c \in Clients, ServeFallback(c) PROVE TypeOK'
    BY <2>6, <2>3, <2>4 DEF ServeFallback, Holds, Fallback
  <2>7. ASSUME NEW c \in Clients, ShareFailure(c) PROVE TypeOK'
    BY <2>7, <2>3 DEF ShareFailure, Holds
  <2>8. ASSUME NEW c \in Clients, StartRun(c) PROVE TypeOK'
    BY <2>8 DEF StartRun
  <2>9. ASSUME NEW c \in Clients, RunFails(c) PROVE TypeOK'
    <3>1. queue # <<>>
      BY <2>9 DEF RunFails, Holds
    <3>2. (IF Fallback THEN cached.value ELSE None) \in Secrets \cup {None}
      BY <2>4 DEF Fallback
    <3>3. ShownAfterFailure \in CurrentRec \cup {None}
      BY DEF ShownAfterFailure, CurrentRec
    <3> QED BY <2>9, <2>3, <3>1, <3>2, <3>3 DEF RunFails, RunRec
  <2>10. ASSUME NEW c \in Clients, NEW v \in Secrets, NEW life \in Lifetimes,
                RunSucceeds(c, v, life)
         PROVE  TypeOK'
    <3>1. queue # <<>>
      BY <2>10 DEF RunSucceeds, Holds
    <3>2. current' \in CurrentRec /\ cached' \in CachedRec
      BY <2>10, FetchedType DEF RunSucceeds, CurrentRec
    <3>3. minted' \in MintedRec /\ lastRun' \in RunRec
      BY <2>10 DEF RunSucceeds, MintedRec, RunRec
    <3>4. reproduced' \in StampedRec \cup {None}
      BY <2>10 DEF RunSucceeds, StampedRec
    <3>5. cleared' \in ClearedRec \cup {None}
      BY <2>10 DEF RunSucceeds, ClearedRec
    <3> QED BY <2>10, <2>3, <3>1, <3>2, <3>3, <3>4, <3>5 DEF RunSucceeds
  <2>11. ASSUME NEW c \in Clients, Reject(c) PROVE TypeOK'
    BY <2>11, QueueType DEF Reject
  <2>12. ASSUME NEW c \in Clients, Invalidate(c) PROVE TypeOK'
    <3>1. queue # <<>>
      BY <2>12 DEF Invalidate, Holds
    <3>2. Clears(got[c]) => got[c] \in Secrets
      BY <2>4 DEF Clears
    <3>3. cleared' \in ClearedRec \cup {None}
      BY <2>12, <3>2 DEF Invalidate, ClearedRec
    <3> QED BY <2>12, <2>3, <3>1, <3>2, <3>3 DEF Invalidate
  <2>13. ASSUME NEW c \in Clients, Cancel(c) PROVE TypeOK'
    BY <2>13, QueueType DEF Cancel
  <2>14. CASE Tick
    BY <2>14 DEF Tick
  <2>15. CASE UNCHANGED vars
    BY <2>15 DEF vars
  <2> QED BY StepCases, <2>1, <2>2, <2>5, <2>6, <2>7, <2>8, <2>9, <2>10, <2>11,
             <2>12, <2>13, <2>14, <2>15
<1> QED BY <1>1, <1>2, PTL DEF Spec
-----------------------------------------------------------------------------
(* The mutex.                                                              *)

\* The queue loses the caller at place k and keeps the order of the others.
Loses(k) ==
  /\ k \in 1..Len(queue)
  /\ Len(queue') = Len(queue) - 1
  /\ \A i \in 1..Len(queue') : queue'[i] = IF i < k THEN queue[i] ELSE queue[i + 1]

LEMMA UnlockLoses ==
  ASSUME queue \in Seq(Clients), queue # <<>>, Unlock
  PROVE  Loses(1)
  BY DEF Unlock, Loses

LEMMA LeaveLoses ==
  ASSUME queue \in Seq(Clients), NEW c \in Clients, Leave(c)
  PROVE  \E k \in 1..Len(queue) : queue[k] = c /\ Loses(k)
<1>1. PICK k \in 1..Len(queue) :
        /\ queue[k] = c
        /\ queue' = [j \in 1..(Len(queue) - 1) |->
                       IF j < k THEN queue[j] ELSE queue[j + 1]]
  BY DEF Leave
<1>2. Len(queue) - 1 \in Nat
  BY <1>1
<1>3. Len(queue') = Len(queue) - 1
  BY <1>1, <1>2
<1> QED BY <1>1, <1>3 DEF Loses

\* What losing the caller c at place k does to the membership of the queue.
LEMMA LosesMembers ==
  ASSUME queue \in Seq(Clients), NEW c \in Clients, NEW k \in 1..Len(queue),
         queue[k] = c, Loses(k),
         \A i, j \in 1..Len(queue) : queue[i] = queue[j] => i = j
  PROVE  /\ \A i, j \in 1..Len(queue') : queue'[i] = queue'[j] => i = j
         /\ ~Queued(c)'
         /\ \A d \in Clients : d # c => (Queued(d)' <=> Queued(d))
<1>1. Len(queue) \in Nat /\ Len(queue') = Len(queue) - 1
  BY DEF Loses
<1>2. \A i \in 1..Len(queue') : queue'[i] = queue[IF i < k THEN i ELSE i + 1]
  BY <1>1 DEF Loses
<1>3. \A i \in 1..Len(queue') :
        /\ (IF i < k THEN i ELSE i + 1) \in 1..Len(queue)
        /\ (IF i < k THEN i ELSE i + 1) # k
  BY <1>1
<1>4. \A i, j \in 1..Len(queue') : queue'[i] = queue'[j] => i = j
  <2> SUFFICES ASSUME NEW i \in 1..Len(queue'), NEW j \in 1..Len(queue'),
                      queue'[i] = queue'[j]
               PROVE  i = j
    OBVIOUS
  <2>1. (IF i < k THEN i ELSE i + 1) = (IF j < k THEN j ELSE j + 1)
    BY <1>2, <1>3
  <2> QED BY <2>1, <1>1
<1>5. ~Queued(c)'
  BY <1>2, <1>3 DEF Queued
<1>6. ASSUME NEW d \in Clients, d # c PROVE Queued(d)' <=> Queued(d)
  <2>1. Queued(d)' => Queued(d)
    BY <1>2, <1>3 DEF Queued
  <2>2. ASSUME Queued(d) PROVE Queued(d)'
    <3>1. PICK i \in 1..Len(queue) : queue[i] = d
      BY <2>2 DEF Queued
    <3>2. CASE i < k
      <4>1. i \in 1..Len(queue') /\ queue'[i] = d
        BY <3>1, <3>2, <1>1 DEF Loses
      <4> QED BY <4>1 DEF Queued
    <3>3. CASE i > k
      <4>1. i - 1 \in 1..Len(queue') /\ ~(i - 1 < k) /\ i - 1 + 1 = i
        BY <3>3, <1>1
      <4>2. queue'[i - 1] = d
        BY <4>1, <3>1 DEF Loses
      <4> QED BY <4>1, <4>2 DEF Queued
    <3> QED BY <3>1, <3>2, <3>3, <1>6
  <2> QED BY <2>1, <2>2
<1> QED BY <1>4, <1>5, <1>6

LEMMA LockMembers ==
  ASSUME queue \in Seq(Clients), NEW c \in Clients, Lock(c), ~Queued(c),
         \A i, j \in 1..Len(queue) : queue[i] = queue[j] => i = j
  PROVE  /\ Len(queue') = Len(queue) + 1
         /\ \A i \in 1..Len(queue) : queue'[i] = queue[i]
         /\ queue'[Len(queue) + 1] = c
         /\ \A i, j \in 1..Len(queue') : queue'[i] = queue'[j] => i = j
         /\ Queued(c)'
         /\ \A d \in Clients : d # c => (Queued(d)' <=> Queued(d))
<1>1. /\ Len(queue) \in Nat /\ Len(queue') = Len(queue) + 1
      /\ \A i \in 1..Len(queue) : queue'[i] = queue[i]
      /\ queue'[Len(queue) + 1] = c
  BY DEF Lock
<1>2. \A i \in 1..Len(queue') : i \in 1..Len(queue) \/ i = Len(queue) + 1
  BY <1>1
<1>3. \A i \in 1..Len(queue) : i \in 1..Len(queue')
  BY <1>1
<1>4. Len(queue) + 1 \in 1..Len(queue')
  BY <1>1
<1>5. \A i, j \in 1..Len(queue') : queue'[i] = queue'[j] => i = j
  BY <1>1, <1>2 DEF Queued
<1>6. Queued(c)'
  BY <1>1, <1>4 DEF Queued
<1>7. \A d \in Clients : d # c => (Queued(d)' <=> Queued(d))
  BY <1>1, <1>2, <1>3 DEF Queued
<1> QED BY <1>1, <1>5, <1>6, <1>7

-----------------------------------------------------------------------------
(* QueueInv: the mutex excludes, and a run is made by its holder.          *)

\* The holder's call ends and the mutex passes on.
LEMMA AnswerQueue ==
  ASSUME TypeOK, QueueInv, NEW c \in Clients, NEW o, Holds(c), Answer(c, o)
  PROVE  QueueInv'
<1>1. Loses(1) /\ 1 \in 1..Len(queue) /\ queue[1] = c
  BY UnlockLoses DEF Answer, Holds, TypeOK, Loses
<1>2. /\ \A i, j \in 1..Len(queue') : queue'[i] = queue'[j] => i = j
      /\ ~Queued(c)'
      /\ \A d \in Clients : d # c => (Queued(d)' <=> Queued(d))
  BY <1>1, LosesMembers DEF TypeOK, QueueInv
<1>3. pc'[c] = "idle" /\ \A d \in Clients : d # c => pc'[d] = pc[d] /\ got'[d] = got[d]
  BY DEF Answer, TypeOK
<1>4. \A d \in Clients : pc'[d] # "running"
  BY <1>3 DEF QueueInv, Holds
<1> QED BY <1>2, <1>3, <1>4 DEF QueueInv

\* Any caller inside a call drops out; a run in progress is its holder's.
LEMMA LeaveQueue ==
  ASSUME TypeOK, QueueInv, NEW c \in Clients, Cancel(c)
  PROVE  QueueInv'
<1>1. PICK k \in 1..Len(queue) : queue[k] = c /\ Loses(k)
  BY LeaveLoses DEF Cancel, TypeOK
<1>2. /\ \A i, j \in 1..Len(queue') : queue'[i] = queue'[j] => i = j
      /\ ~Queued(c)'
      /\ \A d \in Clients : d # c => (Queued(d)' <=> Queued(d))
  BY <1>1, LosesMembers DEF TypeOK, QueueInv
<1>3. pc'[c] = "idle" /\ \A d \in Clients : d # c => pc'[d] = pc[d] /\ got'[d] = got[d]
  BY DEF Cancel, TypeOK
<1>4. Valid' <=> Valid
  BY DEF Cancel, Valid, slot
<1>5. ASSUME NEW d \in Clients, pc'[d] = "running" PROVE Holds(d)' /\ ~Valid'
  <2>1. d # c /\ Holds(d) /\ ~Valid
    BY <1>3, <1>5 DEF QueueInv
  <2>2. 1 < k /\ Len(queue') >= 1
    BY <1>1, <2>1 DEF Holds, Loses, TypeOK
  <2>3. queue'[1] = d /\ queue' # <<>>
    BY <1>1, <2>1, <2>2 DEF Holds, Loses, TypeOK
  <2> QED BY <2>1, <2>3, <1>4 DEF Holds
<1> QED BY <1>2, <1>3, <1>5 DEF QueueInv

\* A caller joins the end of the queue.
LEMMA LockQueue ==
  ASSUME TypeOK, QueueInv, NEW c \in Clients, Enqueue(c) \/ Reject(c)
  PROVE  QueueInv'
<1>1. Lock(c) /\ ~Queued(c)
  BY DEF Enqueue, Reject, QueueInv
<1>2. /\ Len(queue') = Len(queue) + 1
      /\ \A i \in 1..Len(queue) : queue'[i] = queue[i]
      /\ \A i, j \in 1..Len(queue') : queue'[i] = queue'[j] => i = j
      /\ Queued(c)'
      /\ \A d \in Clients : d # c => (Queued(d)' <=> Queued(d))
  BY <1>1, LockMembers DEF TypeOK, QueueInv
<1>3. /\ pc'[c] \in {"waiting", "rejecting"}
      /\ pc'[c] = "rejecting" => got[c] # None
      /\ got' = got
      /\ \A d \in Clients : d # c => pc'[d] = pc[d]
  BY DEF Enqueue, Reject, TypeOK
<1>4. Valid' <=> Valid
  BY DEF Enqueue, Reject, Valid, slot
<1>5. \A d \in Clients : Holds(d) => Holds(d)'
  BY <1>1, <1>2 DEF Holds, TypeOK
<1> QED BY <1>2, <1>3, <1>4, <1>5 DEF QueueInv

LEMMA QueueStep ==
  ASSUME TypeOK, QueueInv, [Next]_vars
  PROVE  QueueInv'
<1> USE DEF slot, history
<1>1. ASSUME NEW c \in Clients, Arrive(c) PROVE QueueInv'
  BY <1>1 DEF Arrive, TypeOK, QueueInv, Queued, Holds, Valid
<1>2. ASSUME NEW c \in Clients, Enqueue(c) PROVE QueueInv'
  BY <1>2, LockQueue
<1>3. ASSUME NEW c \in Clients, ServeCached(c) PROVE QueueInv'
  BY <1>3, AnswerQueue DEF ServeCached
<1>4. ASSUME NEW c \in Clients, ServeFallback(c) PROVE QueueInv'
  BY <1>4, AnswerQueue DEF ServeFallback
<1>5. ASSUME NEW c \in Clients, ShareFailure(c) PROVE QueueInv'
  BY <1>5, AnswerQueue DEF ShareFailure
<1>6. ASSUME NEW c \in Clients, StartRun(c) PROVE QueueInv'
  BY <1>6 DEF StartRun, TypeOK, QueueInv, Queued, Holds, Valid
<1>7. ASSUME NEW c \in Clients, RunFails(c) PROVE QueueInv'
  BY <1>7, AnswerQueue DEF RunFails
<1>8. ASSUME NEW c \in Clients, NEW v \in Secrets, NEW life \in Lifetimes,
             RunSucceeds(c, v, life)
      PROVE  QueueInv'
  BY <1>8, AnswerQueue DEF RunSucceeds
<1>9. ASSUME NEW c \in Clients, Reject(c) PROVE QueueInv'
  BY <1>9, LockQueue
<1>10. ASSUME NEW c \in Clients, Invalidate(c) PROVE QueueInv'
  BY <1>10, AnswerQueue DEF Invalidate
<1>11. ASSUME NEW c \in Clients, Cancel(c) PROVE QueueInv'
  BY <1>11, LeaveQueue
<1>12. CASE Tick
  BY <1>12 DEF Tick, TypeOK, QueueInv, Queued, Holds, Valid, CachedRec
<1>13. CASE UNCHANGED vars
  BY <1>13 DEF vars, QueueInv, Queued, Holds, Valid
<1> QED BY StepCases, <1>1, <1>2, <1>3, <1>4, <1>5, <1>6, <1>7, <1>8, <1>9, <1>10,
           <1>11, <1>12, <1>13

\* At most one caller is in a run of the helper, the mutex's holder.
THEOREM QueueCorrect == Spec => []QueueInv
<1>1. Init => QueueInv
  BY DEF Init, QueueInv, Queued
<1> QED BY <1>1, QueueStep, TypeCorrect, PTL DEF Spec

-----------------------------------------------------------------------------
(* The slot: what is cached, how it failed, and what was rejected.         *)

SlotInv == CacheInv /\ FailedInv /\ RejectedInv /\ ClearedInv /\ ShownInv

\* Steps that leave the slot, the status and their history alone, and time too.
LEMMA SlotUntouched ==
  ASSUME SlotInv,
         UNCHANGED <<now, cached, failed, invalidated, reproduced, current,
                     minted, lastRun, rejects, handedBack, cleared>>
  PROVE  SlotInv'
  BY DEF SlotInv, CacheInv, FailedInv, RejectedInv, ClearedInv, ShownInv, Valid, Fallback

LEMMA SlotTick ==
  ASSUME TypeOK, SlotInv, Tick
  PROVE  SlotInv'
<1> USE DEF Tick, slot, history, TypeOK, SlotInv
<1>1. CacheInv'
  BY DEF CacheInv, MintedRec
<1>2. FailedInv'
  BY DEF FailedInv
<1>3. RejectedInv'
  BY CredentialAssumption DEF RejectedInv
<1>4. ClearedInv'
  BY DEF ClearedInv
<1>5. (Valid' => Valid) /\ (Fallback' => Fallback)
  BY CredentialAssumption DEF Valid, Fallback, CachedRec
<1>6. ShownInv'
  BY <1>5 DEF ShownInv
<1> QED BY <1>1, <1>2, <1>3, <1>4, <1>6

LEMMA SlotRunFails ==
  ASSUME TypeOK, QueueInv, SlotInv, NEW c \in Clients, RunFails(c)
  PROVE  SlotInv'
<1>2. FailedInv'
  <2>1. failed' = now /\ lastRun' = [end |-> "failed", at |-> now]
    BY DEF RunFails
  <2>2. lastRun'.end = "failed" /\ lastRun'.at = failed'
    BY <2>1
  <2>3. failed' # None /\ lastRun' # None
    BY <2>1, CredentialAssumption DEF RunRec, TypeOK
  <2> QED BY <2>2, <2>3 DEF FailedInv
<1> USE DEF RunFails, Answer, TypeOK, SlotInv
<1>1. CacheInv'
  BY DEF CacheInv
<1>3. RejectedInv' /\ ClearedInv'
  BY DEF RejectedInv, ClearedInv
<1>4. ~Valid /\ (Valid' <=> Valid) /\ (Fallback' <=> Fallback)
  BY DEF QueueInv, Valid, Fallback
<1>5. CASE Fallback
  <2>1. current # None /\ cached # None /\ current.value = cached.value
    BY <1>5 DEF ShownInv
  <2>2. current' = [value |-> current.value, refreshAt |-> now + RetryAfter]
    BY <1>5, <2>1 DEF ShownAfterFailure
  <2>3. current' # None
    BY <2>1, <2>2, CredentialAssumption DEF CurrentRec
  <2> QED BY <1>1, <1>2, <1>3, <2>1, <2>2, <2>3 DEF ShownInv
<1>6. CASE ~Fallback
  <2>1. current' = None
    BY <1>6 DEF ShownAfterFailure
  <2> QED BY <1>1, <1>2, <1>3, <1>4, <1>6, <2>1 DEF ShownInv
<1> QED BY <1>5, <1>6

LEMMA SlotRunSucceeds ==
  ASSUME TypeOK, SlotInv, NEW c \in Clients, NEW v \in Secrets, NEW life \in Lifetimes,
         RunSucceeds(c, v, life)
  PROVE  SlotInv'
<1> USE CredentialAssumption DEF RunSucceeds, Answer, TypeOK, SlotInv
<1>1. cached' = Fetched(v, life) /\ cached' # None /\ cached'.value = v
  BY FetchedType
<1>2. minted' = [value |-> v, at |-> now,
                 expires |-> IF life = None THEN None ELSE now + life]
      /\ minted' # None
  BY DEF MintedRec
<1>3. CacheInv'
  <2>1. CASE life = None
    BY <1>1, <1>2, <2>1 DEF CacheInv, Fetched
  <2>2. CASE life # None
    <3>1. life \in Nat /\ minted'.expires = now + life /\ minted'.expires # None
      BY <1>2, <2>2
    <3>2. minted'.expires - minted'.at = life /\ minted'.expires >= minted'.at
      BY <1>2, <3>1
    <3> QED BY <1>1, <1>2, <2>2, <3>1, <3>2 DEF CacheInv, Fetched
  <2> QED BY <2>1, <2>2
<1>4. FailedInv'
  <2>1. lastRun' = [end |-> "ok", at |-> now]
    OBVIOUS
  <2>2. lastRun'.end = "ok" /\ lastRun' # None
    BY <2>1 DEF RunRec
  <2> QED BY <2>2 DEF FailedInv
<1>5. RejectedInv'
  <2>1. \A w \in Secrets : handedBack'[w] # None => handedBack'[w] <= now
    BY DEF RejectedInv
  <2>2. CASE invalidated = v
    <3>1. handedBack'[v] = now /\ reproduced' = [value |-> v, at |-> now]
      BY <2>2 DEF RejectedInv
    <3> QED BY <1>1, <2>1, <3>1 DEF RejectedInv
  <2>3. CASE invalidated # v
    <3>1. reproduced' = reproduced
      BY <2>3
    <3>2. ASSUME reproduced # None
          PROVE  /\ handedBack'[reproduced.value] # None
                 /\ handedBack'[reproduced.value] >= reproduced.at
      <4>1. reproduced.value \in Secrets /\ reproduced.at \in Nat
        BY <3>2 DEF StampedRec
      <4>2. reproduced.at <= now
        BY <3>2, <4>1 DEF RejectedInv
      <4> QED BY <3>2, <4>1, <4>2 DEF RejectedInv
    <3> QED BY <1>1, <2>1, <3>1, <3>2 DEF RejectedInv
  <2> QED BY <2>2, <2>3
<1>6. ClearedInv'
  <2>1. CASE cleared = None \/ cleared.value # v
    BY <1>1, <2>1 DEF ClearedInv
  <2>2. CASE cleared # None /\ cleared.value = v /\ cleared.first = None
    <3>1. cleared' = [value |-> v, first |-> now]
      BY <2>2
    <3>2. invalidated = v
      BY <2>2 DEF ClearedInv
    <3>3. reproduced' = [value |-> v, at |-> now]
      BY <3>2
    <3> QED BY <1>1, <3>1, <3>3 DEF ClearedInv
  <2>3. CASE cleared # None /\ cleared.value = v /\ cleared.first # None
    <3>1. cleared' = [value |-> v, first |-> cleared.first]
      BY <2>3
    <3>2. invalidated = None
      BY <2>3 DEF ClearedInv
    <3>3. reproduced' = reproduced
      BY <3>2
    <3> QED BY <1>1, <2>3, <3>1, <3>3 DEF ClearedInv
  <2> QED BY <2>1, <2>2, <2>3
<1>7. ShownInv'
  <2>1. current' = [value |-> v, refreshAt |-> Fetched(v, life).validUntil]
    OBVIOUS
  <2>2. current' # None
    BY <2>1, FetchedType DEF CurrentRec
  <2> QED BY <1>1, <2>1, <2>2 DEF ShownInv
<1> QED BY <1>3, <1>4, <1>5, <1>6, <1>7

LEMMA SlotInvalidate ==
  ASSUME TypeOK, QueueInv, SlotInv, NEW c \in Clients, Invalidate(c)
  PROVE  SlotInv'
<1> USE CredentialAssumption DEF Invalidate, Answer, TypeOK, SlotInv
<1>1. got[c] \in Secrets /\ rejects' = [rejects EXCEPT ![got[c]] = now]
  BY DEF QueueInv
<1>2. FailedInv'
  BY DEF FailedInv
<1>3. CASE Clears(got[c])
  <2>1. cleared' = [value |-> got[c], first |-> None] /\ cleared' # None
    BY <1>1, <1>3 DEF ClearedRec
  <2>2. CacheInv' /\ ShownInv'
    BY <1>3 DEF CacheInv, ShownInv, Valid, Fallback
  <2>3. RejectedInv'
    BY <1>1, <1>3 DEF RejectedInv
  <2>4. ClearedInv'
    BY <1>1, <1>3, <2>1 DEF ClearedInv
  <2> QED BY <1>2, <2>2, <2>3, <2>4
<1>4. CASE ~Clears(got[c])
  <2>1. UNCHANGED <<cached, invalidated, current, cleared>>
    BY <1>4
  <2>2. CacheInv' /\ ShownInv' /\ ClearedInv'
    BY <2>1 DEF CacheInv, ShownInv, ClearedInv, Valid, Fallback
  <2>3. RejectedInv'
    <3>1. ASSUME cached # None, cached.value = got[c]
          PROVE  /\ handedBack[got[c]] # None
                 /\ now < handedBack[got[c]] + RetryAfter
      <4>1. Reproduced(got[c])
        BY <1>4, <3>1 DEF Clears
      <4>2. /\ reproduced.value = got[c] /\ reproduced.at \in Nat
            /\ reproduced # None /\ now < reproduced.at + RetryAfter
        BY <4>1 DEF Reproduced, StampedRec
      <4>3. handedBack[got[c]] \in Nat /\ handedBack[got[c]] >= reproduced.at
        BY <1>1, <4>2 DEF RejectedInv
      <4> QED BY <4>2, <4>3
    <3>2. cached # None => cached.value \in Secrets
      BY DEF CachedRec
    <3> QED BY <1>1, <2>1, <3>1, <3>2 DEF RejectedInv
  <2> QED BY <1>2, <2>2, <2>3
<1> QED BY <1>3, <1>4

LEMMA SlotStep ==
  ASSUME TypeOK, QueueInv, SlotInv, [Next]_vars
  PROVE  SlotInv'
<1> USE DEF slot, history, Answer
<1>1. ASSUME NEW c \in Clients, Arrive(c) \/ Enqueue(c) \/ Reject(c) \/ StartRun(c)
      PROVE  SlotInv'
  BY <1>1, SlotUntouched DEF Arrive, Enqueue, Reject, StartRun
<1>2. ASSUME NEW c \in Clients, ServeCached(c) \/ ServeFallback(c) \/ ShareFailure(c)
      PROVE  SlotInv'
  BY <1>2, SlotUntouched DEF ServeCached, ServeFallback, ShareFailure
<1>3. ASSUME NEW c \in Clients, Cancel(c) PROVE SlotInv'
  BY <1>3, SlotUntouched DEF Cancel
<1>4. ASSUME UNCHANGED vars PROVE SlotInv'
  BY <1>4, SlotUntouched DEF vars
<1> QED BY StepCases, <1>1, <1>2, <1>3, <1>4, SlotTick, SlotRunFails, SlotRunSucceeds,
           SlotInvalidate

-----------------------------------------------------------------------------
(* SharingInv: who was queued behind a failed run stays ahead.             *)

\* Clearing a caller off the queue keeps the order SharingInv speaks of.
LEMMA LosesSharing ==
  ASSUME TypeOK, QueueInv, SharingInv, NEW c \in Clients,
         NEW k \in 1..Len(queue), queue[k] = c, Loses(k),
         sharing' = sharing \ {c}, pc' = [pc EXCEPT ![c] = "idle"],
         arrived' = [arrived EXCEPT ![c] = 0], UNCHANGED <<now, failed>>
  PROVE  SharingInv'
<1>1. Len(queue) \in Nat /\ Len(queue') = Len(queue) - 1
  BY DEF Loses, TypeOK
<1>2. \A i \in 1..Len(queue') :
        /\ queue'[i] = queue[IF i < k THEN i ELSE i + 1]
        /\ (IF i < k THEN i ELSE i + 1) \in 1..Len(queue)
        /\ (IF i < k THEN i ELSE i + 1) # k
  BY <1>1 DEF Loses
<1>3. \A i \in 1..Len(queue') : queue'[i] # c /\ queue'[i] \in Clients
  <2>1. \A s \in 1..Len(queue) : queue[s] \in Clients
    BY DEF TypeOK
  <2>2. \A s \in 1..Len(queue) : s # k => queue[s] # c
    BY DEF QueueInv
  <2> QED BY <1>2, <2>1, <2>2
<1>4. \A d \in Clients : d # c => pc'[d] = pc[d] /\ arrived'[d] = arrived[d]
  BY DEF TypeOK
<1>5. ASSUME NEW i \in 1..Len(queue'), NEW j \in 1..Len(queue'),
             i < j, queue'[j] \in sharing'
      PROVE  queue'[i] \in sharing' \/ pc'[queue'[i]] = "rejecting"
  <2> DEFINE s == IF i < k THEN i ELSE i + 1
             t == IF j < k THEN j ELSE j + 1
  <2>1. s < t /\ s \in 1..Len(queue) /\ t \in 1..Len(queue)
    BY <1>1, <1>2, <1>5
  <2>2. queue'[i] = queue[s] /\ queue'[j] = queue[t] /\ queue[t] \in sharing
    BY <1>2, <1>5
  <2>3. queue[s] \in sharing \/ pc[queue[s]] = "rejecting"
    BY <2>1, <2>2 DEF SharingInv
  <2> QED BY <1>3, <1>4, <2>2, <2>3
<1>6. \A d \in sharing' : pc'[d] = "waiting" /\ Waited(d)'
  BY <1>4 DEF SharingInv, Waited, TypeOK
<1>7. \A d \in Clients : arrived'[d] <= now'
  BY <1>4 DEF SharingInv, TypeOK
<1> QED BY <1>5, <1>6, <1>7 DEF SharingInv

LEMMA LockSharing ==
  ASSUME TypeOK, QueueInv, SharingInv, NEW c \in Clients, Enqueue(c) \/ Reject(c)
  PROVE  SharingInv'
<1> USE DEF slot, history
<1>1. Lock(c) /\ ~Queued(c) /\ UNCHANGED <<sharing, failed, arrived, now>>
  BY DEF Enqueue, Reject, QueueInv
<1>2. /\ Len(queue) \in Nat /\ Len(queue') = Len(queue) + 1
      /\ \A i \in 1..Len(queue) : queue'[i] = queue[i]
      /\ queue'[Len(queue) + 1] = c
  <2>1. queue \in Seq(Clients)
    BY DEF TypeOK
  <2> QED BY <1>1, <2>1 DEF Lock
<1>3. pc[c] \in {"idle", "stamped"} /\ \A d \in Clients : d # c => pc'[d] = pc[d]
  BY DEF Enqueue, Reject, TypeOK
<1>4. c \notin sharing
  BY <1>3 DEF SharingInv
<1>5. \A i \in 1..Len(queue) : queue[i] # c /\ queue[i] \in Clients
  BY <1>1 DEF Queued, TypeOK
<1>6. ASSUME NEW i \in 1..Len(queue'), NEW j \in 1..Len(queue'),
             i < j, queue'[j] \in sharing'
      PROVE  queue'[i] \in sharing' \/ pc'[queue'[i]] = "rejecting"
  <2>1. j # Len(queue) + 1
    BY <1>1, <1>2, <1>4, <1>6
  <2>2. i \in 1..Len(queue) /\ j \in 1..Len(queue)
    BY <1>2, <1>6, <2>1
  <2>3. queue[i] \in sharing \/ pc[queue[i]] = "rejecting"
    BY <1>1, <1>2, <1>6, <2>2 DEF SharingInv
  <2> QED BY <1>1, <1>2, <1>3, <1>5, <2>2, <2>3
<1>7. \A d \in sharing' : pc'[d] = "waiting" /\ Waited(d)'
  BY <1>1, <1>3, <1>4 DEF SharingInv, Waited, TypeOK
<1> QED BY <1>1, <1>6, <1>7 DEF SharingInv

\* Whoever runs the command has nobody behind it that a failed run left there.
LEMMA RunnerSharesNothing ==
  ASSUME TypeOK, QueueInv, SharingInv, NEW c \in Clients, Holds(c),
         c \notin sharing, pc[c] # "rejecting"
  PROVE  sharing = {}
<1> SUFFICES ASSUME NEW d \in sharing PROVE FALSE
  OBVIOUS
<1>1. pc[d] = "waiting" /\ d \in Clients /\ d # c
  BY DEF SharingInv, TypeOK
<1>2. PICK j \in 1..Len(queue) : queue[j] = d
  BY <1>1 DEF QueueInv, Queued
<1>3. Len(queue) \in Nat /\ 1 \in 1..Len(queue) /\ 1 < j
  BY <1>1, <1>2 DEF Holds, TypeOK
<1> QED BY <1>2, <1>3 DEF SharingInv, Holds

\* The holder's call ends without a run.
LEMMA AnswerSharing ==
  ASSUME TypeOK, QueueInv, SharingInv, NEW c \in Clients, NEW o, Holds(c), Answer(c, o),
         sharing' = sharing \ {c}, UNCHANGED failed
  PROVE  SharingInv'
<1>1. Loses(1) /\ 1 \in 1..Len(queue) /\ queue[1] = c
  BY UnlockLoses DEF Answer, Holds, TypeOK, Loses
<1> QED BY <1>1, LosesSharing DEF Answer

LEMMA SharingStep ==
  ASSUME TypeOK, QueueInv, SharingInv, [Next]_vars
  PROVE  SharingInv'
<1> USE DEF slot, history
<1>1. ASSUME NEW c \in Clients, Arrive(c) PROVE SharingInv'
  <2>1. c \notin sharing /\ ~Queued(c)
    BY <1>1 DEF Arrive, SharingInv, QueueInv
  <2>2. \A i \in 1..Len(queue) : queue[i] # c /\ queue[i] \in Clients
    BY <2>1 DEF Queued, TypeOK
  <2>3. \A d \in Clients : d # c => pc'[d] = pc[d] /\ arrived'[d] = arrived[d]
    BY <1>1 DEF Arrive, TypeOK
  <2>4. UNCHANGED <<queue, sharing, failed, now>> /\ arrived'[c] = now
    BY <1>1 DEF Arrive, TypeOK
  <2>5. \A d \in sharing' : pc'[d] = "waiting" /\ Waited(d)'
    BY <2>1, <2>3, <2>4 DEF SharingInv, Waited, TypeOK
  <2>6. \A d \in Clients : arrived'[d] <= now'
    BY <2>3, <2>4 DEF SharingInv, TypeOK
  <2> QED BY <2>2, <2>3, <2>4, <2>5, <2>6 DEF SharingInv
<1>2. ASSUME NEW c \in Clients, Enqueue(c) \/ Reject(c) PROVE SharingInv'
  BY <1>2, LockSharing
<1>3. ASSUME NEW c \in Clients, ServeCached(c) PROVE SharingInv'
  BY <1>3, AnswerSharing DEF ServeCached
<1>4. ASSUME NEW c \in Clients, ServeFallback(c) PROVE SharingInv'
  BY <1>4, AnswerSharing DEF ServeFallback
<1>5. ASSUME NEW c \in Clients, ShareFailure(c) PROVE SharingInv'
  BY <1>5, AnswerSharing DEF ShareFailure
<1>6. ASSUME NEW c \in Clients, StartRun(c) PROVE SharingInv'
  <2>1. c \notin sharing /\ sharing = {}
    BY <1>6, RunnerSharesNothing DEF StartRun, SharingInv
  <2> QED BY <1>6, <2>1 DEF StartRun, SharingInv
<1>7. ASSUME NEW c \in Clients, RunFails(c) PROVE SharingInv'
  <2>1. Loses(1) /\ 1 \in 1..Len(queue) /\ queue[1] = c
    BY <1>7, UnlockLoses DEF RunFails, Answer, Holds, TypeOK, Loses
  <2>2. /\ Len(queue) \in Nat /\ Len(queue') = Len(queue) - 1
        /\ \A i \in 1..Len(queue') : queue'[i] = queue[i + 1] /\ i + 1 \in 1..Len(queue)
    <3>1. Len(queue) \in Nat /\ Len(queue') = Len(queue) - 1
      BY <2>1 DEF Loses, TypeOK
    <3> QED BY <2>1, <3>1 DEF Loses
  <2>3. \A d \in Clients : d # c => pc'[d] = pc[d] /\ arrived'[d] = arrived[d]
    BY <1>7 DEF RunFails, Answer, TypeOK
  <2>4. \A s \in 1..Len(queue) : s # 1 => queue[s] # c /\ queue[s] \in Clients
    BY <2>1 DEF QueueInv, TypeOK
  <2>5. \A s \in 1..Len(queue) :
          s # 1 => pc[queue[s]] \in {"waiting", "rejecting"} /\ Queued(queue[s])
    BY <1>7, <2>1, <2>4 DEF QueueInv, Queued, Holds
  <2>6. sharing' = {d \in Clients : d # c /\ Queued(d) /\ pc[d] = "waiting"}
    BY <1>7 DEF RunFails
  <2>7. \A i \in 1..Len(queue') : queue'[i] \in sharing' \/ pc'[queue'[i]] = "rejecting"
    BY <2>2, <2>3, <2>4, <2>5, <2>6
  <2>8. now' = now /\ failed' = now /\ failed' # None /\ arrived'[c] = 0
    BY <1>7, CredentialAssumption DEF RunFails, Answer, TypeOK
  <2>9. \A d \in Clients : arrived'[d] <= now'
    BY <2>3, <2>8 DEF SharingInv, TypeOK
  <2>10. \A d \in sharing' : pc'[d] = "waiting" /\ Waited(d)'
    BY <2>3, <2>6, <2>8, <2>9 DEF Waited
  <2> QED BY <2>7, <2>9, <2>10 DEF SharingInv
<1>8. ASSUME NEW c \in Clients, NEW v \in Secrets, NEW life \in Lifetimes,
             RunSucceeds(c, v, life)
      PROVE  SharingInv'
  <2>1. c \notin sharing /\ sharing = {}
    BY <1>8, RunnerSharesNothing DEF RunSucceeds, SharingInv
  <2>2. sharing' = {} /\ now' = now
    BY <1>8, <2>1 DEF RunSucceeds, Answer
  <2>3. \A d \in Clients : arrived'[d] <= now'
    BY <1>8, <2>2 DEF RunSucceeds, Answer, SharingInv, TypeOK
  <2> QED BY <2>2, <2>3 DEF SharingInv
<1>9. ASSUME NEW c \in Clients, Invalidate(c) PROVE SharingInv'
  <2>1. c \notin sharing
    BY <1>9 DEF Invalidate, SharingInv
  <2> QED BY <1>9, <2>1, AnswerSharing DEF Invalidate
<1>10. ASSUME NEW c \in Clients, Cancel(c) PROVE SharingInv'
  <2>1. PICK k \in 1..Len(queue) : queue[k] = c /\ Loses(k)
    BY <1>10, LeaveLoses DEF Cancel, TypeOK
  <2> QED BY <1>10, <2>1, LosesSharing DEF Cancel
<1>11. CASE Tick
  BY <1>11 DEF Tick, SharingInv, Waited, TypeOK
<1>12. CASE UNCHANGED vars
  BY <1>12 DEF vars, SharingInv, Waited
<1> QED BY StepCases, <1>1, <1>2, <1>3, <1>4, <1>5, <1>6, <1>7, <1>8, <1>9, <1>10,
           <1>11, <1>12

-----------------------------------------------------------------------------
(* The invariant, and what it gives.                                       *)

\* The inductive invariant Inv of Credential holds in every reachable state.
THEOREM InvCorrect == Spec => []Inv
<1>1. Init => TypeOK /\ QueueInv /\ SlotInv /\ SharingInv
  <2>1. Init => TypeOK /\ QueueInv
    BY CredentialAssumption DEF Init, TypeOK, QueueInv, Queued
  <2>2. Init => SlotInv
    BY DEF Init, SlotInv, CacheInv, FailedInv, RejectedInv, ClearedInv, ShownInv, Valid,
           Fallback
  <2>3. Init => SharingInv
    BY DEF Init, SharingInv
  <2> QED BY <2>1, <2>2, <2>3
<1>2. TypeOK /\ QueueInv /\ SlotInv /\ SharingInv /\ [Next]_vars
        => QueueInv' /\ SlotInv' /\ SharingInv'
  BY QueueStep, SlotStep, SharingStep
<1>3. QueueInv /\ SlotInv /\ SharingInv <=> Inv
  BY DEF Inv, SlotInv
<1> QED BY <1>1, <1>2, <1>3, TypeCorrect, PTL DEF Spec

\* Status output shows the value requests are being given, and no other than
\* the cached one.
THEOREM StatusCorrect == Spec => []StatusShowsServed
<1>1. Inv => StatusShowsServed
  BY DEF Inv, ShownInv, StatusShowsServed, Servable
<1> QED BY <1>1, InvCorrect, PTL


-----------------------------------------------------------------------------
(* Action properties.                                                      *)

\* Which steps start a run, hand out a value, or empty the cache.
LEMMA RunStarts ==
  ASSUME TypeOK, [Next]_vars, NEW c \in Clients, pc[c] # "running", pc'[c] = "running"
  PROVE  StartRun(c)
<1>1. ASSUME NEW d \in Clients,
             Arrive(d) \/ Enqueue(d) \/ Reject(d) \/ Cancel(d) \/ RunFails(d)
               \/ ServeCached(d) \/ ServeFallback(d) \/ ShareFailure(d) \/ Invalidate(d)
      PROVE  FALSE
  BY <1>1 DEF Arrive, Enqueue, Reject, Cancel, RunFails, ServeCached, ServeFallback,
              ShareFailure, Invalidate, Answer, TypeOK
<1>2. ASSUME NEW d \in Clients, NEW v \in Secrets, NEW life \in Lifetimes,
             RunSucceeds(d, v, life)
      PROVE  FALSE
  BY <1>2 DEF RunSucceeds, Answer, TypeOK
<1>3. ASSUME NEW d \in Clients, StartRun(d) PROVE d = c
  BY <1>3 DEF StartRun, TypeOK
<1>4. ~Tick /\ ~UNCHANGED vars
  BY DEF Tick, vars
<1> QED BY StepCases, <1>1, <1>2, <1>3, <1>4

LEMMA HandsOut ==
  ASSUME TypeOK, [Next]_vars, NEW c \in Clients, Handed(c)
  PROVE  \/ ServeCached(c) \/ ServeFallback(c) \/ RunFails(c)
         \/ \E v \in Secrets, life \in Lifetimes : RunSucceeds(c, v, life)
<1>1. pc[c] \in {"waiting", "running"} /\ pc'[c] = "idle" /\ got'[c] # None
  BY DEF Handed
<1>2. ASSUME NEW d \in Clients,
             Arrive(d) \/ Enqueue(d) \/ Reject(d) \/ Cancel(d) \/ StartRun(d)
               \/ ShareFailure(d) \/ Invalidate(d)
      PROVE  FALSE
  BY <1>1, <1>2 DEF Arrive, Enqueue, Reject, Cancel, StartRun, ShareFailure, Invalidate,
                    Answer, TypeOK
<1>3. ASSUME NEW d \in Clients, ServeCached(d) \/ ServeFallback(d) \/ RunFails(d)
      PROVE  d = c
  BY <1>1, <1>3 DEF ServeCached, ServeFallback, RunFails, Answer, TypeOK
<1>4. ASSUME NEW d \in Clients, NEW v \in Secrets, NEW life \in Lifetimes,
             RunSucceeds(d, v, life)
      PROVE  d = c
  BY <1>1, <1>4 DEF RunSucceeds, Answer, TypeOK
<1>5. ~Tick /\ ~UNCHANGED vars
  BY <1>1 DEF Tick, vars
<1> QED BY StepCases, <1>2, <1>3, <1>4, <1>5

LEMMA Emptied ==
  ASSUME TypeOK, [Next]_vars, cached # None, cached' = None
  PROVE  \E c \in Clients : Invalidate(c) /\ Clears(got[c])
<1> USE DEF slot, history
<1>1. ASSUME NEW d \in Clients,
             Arrive(d) \/ Enqueue(d) \/ Reject(d) \/ Cancel(d) \/ RunFails(d) \/ StartRun(d)
               \/ ServeCached(d) \/ ServeFallback(d) \/ ShareFailure(d)
      PROVE  FALSE
  BY <1>1 DEF Arrive, Enqueue, Reject, Cancel, RunFails, ServeCached, ServeFallback,
              ShareFailure, StartRun
<1>2. ASSUME NEW d \in Clients, NEW v \in Secrets, NEW life \in Lifetimes,
             RunSucceeds(d, v, life)
      PROVE  FALSE
  BY <1>2, FetchedType, CredentialAssumption DEF RunSucceeds, TypeOK
<1>3. ASSUME NEW d \in Clients, Invalidate(d) PROVE Clears(got[d])
  BY <1>3 DEF Invalidate
<1>4. ~Tick /\ ~UNCHANGED vars
  BY DEF Tick, vars
<1> QED BY StepCases, <1>1, <1>2, <1>3, <1>4

\* No caller queued behind a failed run ever runs the command itself.
THEOREM WaitersCorrect == Spec => WaitersShareFailure
<1>1. TypeOK /\ Inv /\ [Next]_vars => [\A c \in sharing : pc'[c] # "running"]_vars
  <2> SUFFICES ASSUME TypeOK, Inv, [Next]_vars, NEW c \in sharing, pc'[c] = "running"
               PROVE  FALSE
    OBVIOUS
  <2>1. c \in Clients /\ pc[c] = "waiting" /\ Waited(c)
    BY DEF Inv, SharingInv, TypeOK
  <2>2. StartRun(c)
    BY <2>1, RunStarts
  <2> QED BY <2>1, <2>2 DEF StartRun
<1> QED BY <1>1, TypeCorrect, InvCorrect, PTL DEF Spec, WaitersShareFailure

\* A rejection clears a value a run has just handed back only once RetryAfter
\* has passed, so requests rejected together refresh it once.
THEOREM TogetherCorrect == Spec => RejectedTogetherRefreshOnce
<1> DEFINE A == cached # None /\ cached' = None /\ cleared # None
                /\ cleared.value = cached.value /\ cleared.first # None
                => now >= cleared.first + RetryAfter
<1>1. TypeOK /\ Inv /\ [Next]_vars => [A]_vars
  <2> SUFFICES ASSUME TypeOK, Inv, [Next]_vars, cached # None, cached' = None,
                      cleared # None, cleared.value = cached.value, cleared.first # None
               PROVE  now >= cleared.first + RetryAfter
    OBVIOUS
  <2>1. PICK c \in Clients : Clears(got[c])
    BY Emptied
  <2>2. reproduced = [value |-> cleared.value, at |-> cleared.first]
    BY DEF Inv, ClearedInv
  <2>3. reproduced # None
    BY <2>2, CredentialAssumption DEF StampedRec, ClearedRec, TypeOK
  <2>4. ~(now < cleared.first + RetryAfter)
    BY <2>1, <2>2, <2>3 DEF Clears, Reproduced
  <2> QED BY <2>4, CredentialAssumption DEF ClearedRec, TypeOK
<1> QED BY <1>1, TypeCorrect, InvCorrect, PTL DEF Spec, RejectedTogetherRefreshOnce

\* A value that stands rejected is handed out only when a run had handed it
\* back less than RetryAfter before the latest rejection.
THEOREM RejectedCorrect == Spec => RejectedNotServed
<1> DEFINE A == \A c \in Clients : Handed(c) =>
                  LET v == got'[c]
                  IN  \/ rejects'[v] = None
                      \/ /\ handedBack'[v] # None
                         /\ rejects'[v] < handedBack'[v] + RetryAfter
<1>1. TypeOK /\ Inv /\ [Next]_vars => [A]_vars
  <2> SUFFICES ASSUME TypeOK, Inv, [Next]_vars, NEW c \in Clients, Handed(c)
               PROVE  LET v == got'[c]
                      IN  \/ rejects'[v] = None
                          \/ /\ handedBack'[v] # None
                             /\ rejects'[v] < handedBack'[v] + RetryAfter
    OBVIOUS
  <2>1. CASE ServeCached(c) \/ ServeFallback(c) \/ RunFails(c)
    <3>1. cached # None /\ got'[c] = cached.value /\ UNCHANGED <<rejects, handedBack>>
      BY <2>1 DEF ServeCached, ServeFallback, RunFails, Answer, Handed, Valid, Fallback,
                  TypeOK
    <3> QED BY <3>1 DEF Inv, RejectedInv
  <2>2. CASE \E v \in Secrets, life \in Lifetimes : RunSucceeds(c, v, life)
    BY <2>2 DEF RunSucceeds, Answer, TypeOK
  <2> QED BY <2>1, <2>2, HandsOut
<1> QED BY <1>1, TypeCorrect, InvCorrect, PTL DEF Spec, RejectedNotServed

\* The cached value's deadlines, in terms of what its run reported.
LEMMA Deadlines ==
  ASSUME TypeOK, CacheInv, cached # None
  PROVE  /\ minted # None /\ minted.value = cached.value
         /\ Valid => /\ minted.expires = None \/ FarFromExpiry
                     /\ now < minted.at + Refresh
         /\ ~Valid => \/ now >= minted.at + Refresh
                      \/ minted.expires # None /\ ~FarFromExpiry
         /\ Fallback <=> FarFromExpiry
<1> USE CredentialAssumption DEF CacheInv, TypeOK
<1>1. /\ minted.at \in Nat /\ minted.expires \in Nat \cup {None} /\ minted # None
      /\ minted.value = cached.value /\ minted.at <= now
  BY DEF MintedRec
<1>2. CASE minted.expires = None
  BY <1>1, <1>2 DEF Valid, Fallback, FarFromExpiry
<1>3. CASE minted.expires # None
  <2> DEFINE rest == Rest(minted.expires - minted.at)
  <2>1. minted.expires \in Nat /\ minted.expires - minted.at \in Nat
    BY <1>1, <1>3
  <2>2. /\ cached.usableUntil = minted.at + rest
        /\ cached.validUntil = minted.at + Min2(Refresh, rest)
    BY <1>3
  <2>3. rest \in Nat /\ (now < minted.at + rest <=> now + Margin < minted.expires)
    BY <1>1, <2>1 DEF Rest, Max2
  <2>4. now < minted.at + Min2(Refresh, rest)
          <=> now < minted.at + Refresh /\ now < minted.at + rest
    BY <1>1, <2>3 DEF Min2
  <2>5. cached.usableUntil # None
    BY <1>1, <2>2, <2>3
  <2> HIDE DEF rest
  <2> QED BY <1>1, <1>3, <2>2, <2>3, <2>4, <2>5 DEF Valid, Fallback, FarFromExpiry
<1> QED BY <1>1, <1>2, <1>3

\* A value is handed out in time: within its refresh interval, or while runs
\* fail and its reported expiry is further off than the margin.
THEOREM ServedCorrect == Spec => ServedInTime
<1> DEFINE A(c) ==
      /\ minted' # None /\ got'[c] = minted'.value
      /\ \/ pc[c] = "running" /\ lastRun'.end = "ok"
         \/ /\ minted.expires = None \/ FarFromExpiry
            /\ now < minted.at + Refresh
         \/ /\ FarFromExpiry
            /\ lastRun' # None /\ lastRun'.end = "failed"
            /\ lastRun'.at >= arrived[c] \/ now < lastRun'.at + RetryAfter
<1>1. TypeOK /\ Inv /\ [Next]_vars => [\A c \in Clients : Handed(c) => A(c)]_vars
  <2> SUFFICES ASSUME TypeOK, Inv, [Next]_vars, NEW c \in Clients, Handed(c)
               PROVE  A(c)
    OBVIOUS
  <2> USE DEF Inv
  <2>1. CASE ServeCached(c)
    <3>1. Valid /\ cached # None /\ got'[c] = cached.value /\ UNCHANGED minted
      BY <2>1 DEF ServeCached, Answer, Valid, TypeOK
    <3> QED BY <3>1, Deadlines
  <2>2. CASE ServeFallback(c)
    <3>1. /\ Fallback /\ cached # None /\ got'[c] = cached.value
          /\ UNCHANGED <<minted, lastRun>>
          /\ Waited(c) \/ FailedLately
      BY <2>2 DEF ServeFallback, Answer, Fallback, TypeOK
    <3>2. /\ lastRun # None /\ lastRun.end = "failed"
          /\ lastRun.at >= arrived[c] \/ now < lastRun.at + RetryAfter
      BY <3>1 DEF FailedInv, Waited, FailedLately
    <3> QED BY <3>1, <3>2, Deadlines
  <2>3. CASE RunFails(c)
    <3>1. Fallback /\ cached # None /\ got'[c] = cached.value /\ UNCHANGED minted
      BY <2>3 DEF RunFails, Answer, Fallback, TypeOK, Handed
    <3>2. lastRun' = [end |-> "failed", at |-> now]
      BY <2>3 DEF RunFails
    <3>3. lastRun' # None /\ lastRun'.end = "failed" /\ now < lastRun'.at + RetryAfter
      BY <3>2, CredentialAssumption DEF RunRec, TypeOK
    <3> QED BY <3>1, <3>3, Deadlines
  <2>4. CASE \E v \in Secrets, life \in Lifetimes : RunSucceeds(c, v, life)
    <3>1. PICK v \in Secrets, life \in Lifetimes : RunSucceeds(c, v, life)
      BY <2>4
    <3>2. /\ minted' = [value |-> v, at |-> now,
                        expires |-> IF life = None THEN None ELSE now + life]
          /\ lastRun' = [end |-> "ok", at |-> now] /\ got'[c] = v /\ pc[c] = "running"
      BY <3>1 DEF RunSucceeds, Answer, TypeOK
    <3>3. minted' # None
      BY <3>2, CredentialAssumption DEF MintedRec, TypeOK
    <3> QED BY <3>2, <3>3
  <2> QED BY <2>1, <2>2, <2>3, <2>4, HandsOut
<1> QED BY <1>1, TypeCorrect, InvCorrect, PTL DEF Spec, ServedInTime

\* The command runs only once the latest value is no longer fresh, and no
\* sooner than RetryAfter after a failure while that value still serves.
THEOREM SpacingCorrect == Spec => RunsAreSpaced
<1> DEFINE A(c) ==
      pc[c] = "waiting" /\ pc'[c] = "running" /\ minted # None /\ Standing =>
        /\ now >= minted.at + Refresh \/ (minted.expires # None /\ ~FarFromExpiry)
        /\ lastRun.end = "failed" /\ FarFromExpiry => now >= lastRun.at + RetryAfter
<1>1. TypeOK /\ Inv /\ [Next]_vars => [\A c \in Clients : A(c)]_vars
  <2> SUFFICES ASSUME TypeOK, Inv, [Next]_vars, NEW c \in Clients,
                      pc[c] = "waiting", pc'[c] = "running", minted # None, Standing
               PROVE  /\ now >= minted.at + Refresh
                         \/ (minted.expires # None /\ ~FarFromExpiry)
                      /\ lastRun.end = "failed" /\ FarFromExpiry
                           => now >= lastRun.at + RetryAfter
    OBVIOUS
  <2>1. ~Valid /\ ~(FailedLately /\ Fallback)
    BY RunStarts DEF StartRun
  <2>2. cached # None
    BY DEF Inv, ClearedInv, Standing
  <2>3. now >= minted.at + Refresh \/ (minted.expires # None /\ ~FarFromExpiry)
    BY <2>1, <2>2, Deadlines DEF Inv
  <2>4. ASSUME lastRun.end = "failed", FarFromExpiry
        PROVE  now >= lastRun.at + RetryAfter
    <3>1. failed # None /\ lastRun.at = failed
      BY <2>4 DEF Inv, FailedInv
    <3>2. ~FailedLately
      BY <2>1, <2>2, <2>4, Deadlines DEF Inv
    <3> QED BY <3>1, <3>2, CredentialAssumption DEF FailedLately, TypeOK
  <2> QED BY <2>3, <2>4
<1> QED BY <1>1, TypeCorrect, InvCorrect, PTL DEF Spec, RunsAreSpaced

-----------------------------------------------------------------------------
(* Requests over the cache.                                                *)

LoopTypeOK ==
  /\ stage \in [Clients -> Stages]
  /\ failures \in [Clients -> 0..MaxRetries]
  /\ refreshed \in [Clients -> BOOLEAN]
  /\ good \in Secrets /\ printed \in 0..good
  /\ attempts \in [Clients -> Nat]
  /\ goodAtStart \in [Clients -> Secrets]
  /\ okRuns \in Nat
  /\ lagged \in {"no", "yes"}

\* Every request acts on the cache through the cache's own actions.
LEMMA SendStepOnCache ==
  ASSUME LoopTypeOK, [SendNext]_sendVars
  PROVE  [Next]_vars
<1> USE DEF Next
<1>1. ASSUME NEW c \in Clients, HelperPrints(c) PROVE Next
  <2>1. printed \in Secrets
    BY SendAssumption DEF LoopTypeOK
  <2> QED BY <1>1, <2>1 DEF HelperPrints
<1>2. ASSUME NEW c \in Clients, CredentialStep(c) PROVE Next
  BY <1>2 DEF CredentialStep
<1>3. ASSUME NEW c \in Clients, ClientGone(c) PROVE Next \/ UNCHANGED vars
  BY <1>3 DEF ClientGone, DropCall
<1>4. ASSUME NEW c \in Clients, Acquire(c) PROVE Next
  BY <1>4 DEF Acquire
<1>5. ASSUME NEW c \in Clients, Unauthorized(c) PROVE Next \/ UNCHANGED vars
  BY <1>5 DEF Unauthorized
<1>6. ASSUME NEW c \in Clients,
             Begin(c) \/ SendAttempt(c) \/ CredentialError(c) \/ Invalidated(c)
               \/ Responds(c) \/ Unavailable(c) \/ ConnectionFails(c)
               \/ ConnectionBreaks(c) \/ TimesOut(c) \/ BackoffEnds(c)
      PROVE  UNCHANGED vars
  BY <1>6 DEF Begin, SendAttempt, CredentialError, Invalidated, Responds, Unavailable,
              ConnectionFails, ConnectionBreaks, TimesOut, BackoffEnds
<1>7. Rotate \/ HelperCatchesUp => UNCHANGED vars
  BY DEF Rotate, HelperCatchesUp
<1>8. Passes => Next
  BY DEF Passes
<1>9. UNCHANGED sendVars => UNCHANGED vars
  BY DEF sendVars
<1> QED BY <1>1, <1>2, <1>3, <1>4, <1>5, <1>6, <1>7, <1>8, <1>9 DEF SendNext

-----------------------------------------------------------------------------
(* Types of the send loop.                                                 *)

LEMMA RetryOrType ==
  ASSUME LoopTypeOK, NEW c \in Clients, NEW b \in BOOLEAN, NEW s \in Stages,
         RetryOr(c, b, s)
  PROVE  stage' \in [Clients -> Stages] /\ failures' \in [Clients -> 0..MaxRetries]
<1>1. failures[c] \in 0..MaxRetries /\ "backoff" \in Stages
  BY DEF LoopTypeOK, Stages
<1>2. failures[c] + 1 <= MaxRetries => failures[c] + 1 \in 0..MaxRetries
  BY <1>1, SendAssumption
<1> QED BY <1>1, <1>2 DEF RetryOr, Goto, LoopTypeOK

LEMMA LoopStep ==
  ASSUME LoopTypeOK, [SendNext]_sendVars
  PROVE  LoopTypeOK'
<1> USE SendAssumption DEF LoopTypeOK, loop, world, Goto, Stages
<1>1. ASSUME NEW c \in Clients,
             Begin(c) \/ SendAttempt(c) \/ CredentialError(c) \/ Invalidated(c)
               \/ Responds(c) \/ TimesOut(c) \/ BackoffEnds(c) \/ Acquire(c)
               \/ ClientGone(c)
      PROVE  LoopTypeOK'
  <2>1. CASE Begin(c)
    BY <2>1 DEF Begin
  <2>2. CASE SendAttempt(c)
    BY <2>2 DEF SendAttempt
  <2>3. CASE CredentialError(c)
    BY <2>3 DEF CredentialError
  <2>4. CASE Invalidated(c)
    BY <2>4 DEF Invalidated
  <2>5. CASE Responds(c)
    BY <2>5 DEF Responds
  <2>6. CASE TimesOut(c)
    BY <2>6 DEF TimesOut
  <2>7. CASE BackoffEnds(c)
    BY <2>7 DEF BackoffEnds
  <2>8. CASE Acquire(c)
    BY <2>8 DEF Acquire
  <2>9. CASE ClientGone(c)
    BY <2>9 DEF ClientGone
  <2> QED BY <1>1, <2>1, <2>2, <2>3, <2>4, <2>5, <2>6, <2>7, <2>8, <2>9
<1>2. ASSUME NEW c \in Clients,
             Unavailable(c) \/ ConnectionFails(c) \/ ConnectionBreaks(c)
      PROVE  LoopTypeOK'
  BY <1>2, RetryOrType DEF Unavailable, ConnectionFails, ConnectionBreaks
<1>3. ASSUME NEW c \in Clients, Unauthorized(c) PROVE LoopTypeOK'
  BY <1>3, RetryOrType DEF Unauthorized
<1>4. ASSUME NEW c \in Clients, CredentialStep(c) \/ HelperPrints(c) PROVE LoopTypeOK'
  BY <1>4 DEF CredentialStep, HelperPrints
<1>5. Rotate \/ HelperCatchesUp \/ Passes => LoopTypeOK'
  BY DEF Rotate, HelperCatchesUp, Passes
<1>6. UNCHANGED sendVars => LoopTypeOK'
  BY DEF sendVars
<1> QED BY <1>1, <1>2, <1>3, <1>4, <1>5, <1>6 DEF SendNext

\* Requests over the cache implement the cache's specification: the initial
\* states are its initial states and every step is one of its steps or leaves
\* it alone.  With it every theorem about Spec above holds of SendSpec.
THEOREM SendKeepsCredential == SendSpec => CredentialKept
<1>1. SendInit => Init /\ LoopTypeOK
  BY SendAssumption DEF SendInit, LoopTypeOK, Stages
<1>2. LoopTypeOK /\ [SendNext]_sendVars => LoopTypeOK'
  BY LoopStep
<1>3. LoopTypeOK /\ [SendNext]_sendVars => [Next]_vars
  BY SendStepOnCache
<1> QED BY <1>1, <1>2, <1>3, PTL DEF SendSpec, CredentialKept, Spec

\* The requests, the cache and the helper keep their types.
THEOREM SendTypeCorrect == SendSpec => []SendTypeOK
<1>1. SendInit => LoopTypeOK
  BY SendAssumption DEF SendInit, LoopTypeOK, Stages
<1>2. LoopTypeOK /\ [SendNext]_sendVars => LoopTypeOK'
  BY LoopStep
<1>3. SendSpec => []TypeOK
  BY SendKeepsCredential, TypeCorrect DEF CredentialKept
<1>4. TypeOK /\ LoopTypeOK => SendTypeOK
  BY DEF LoopTypeOK, SendTypeOK
<1> QED BY <1>1, <1>2, <1>3, <1>4, PTL DEF SendSpec

-----------------------------------------------------------------------------
(* The bound on attempts.  A request that has not sent since its last      *)
(* budgeted step has one attempt in hand; the credential re-send is granted *)
(* once, and only while refreshed is still unset.                          *)

Resends(c) == IF refreshed[c] THEN 1 ELSE 0
Spent(c) == failures[c] + Resends(c)

AttemptInv ==
  \A c \in Clients :
    /\ stage[c] = "invalidating" => ~refreshed[c]
    /\ attempts[c] <= Spent(c)
         + (IF stage[c] \in {"new", "start", "acquiring", "backoff"} THEN 0 ELSE 1)

\* A failure counted, or given up on, keeps the bound.
LEMMA RetryOrAttempts ==
  ASSUME LoopTypeOK, AttemptInv, NEW c \in Clients, stage[c] = "sent",
         NEW b \in BOOLEAN, NEW s \in Ended, RetryOr(c, b, s),
         UNCHANGED <<refreshed, attempts>>
  PROVE  AttemptInv'
<1> SUFFICES ASSUME NEW q \in Clients
             PROVE  /\ stage'[q] = "invalidating" => ~refreshed[q]
                    /\ attempts[q] <= failures'[q] + Resends(q)
                         + (IF stage'[q] \in {"new", "start", "acquiring", "backoff"}
                            THEN 0 ELSE 1)
  BY DEF AttemptInv, Spent, Resends
<1>1. Resends(q) \in Nat
  BY DEF Resends
<1>2. /\ failures[q] \in Nat /\ attempts[q] \in Nat
      /\ stage[q] = "invalidating" => ~refreshed[q]
      /\ attempts[q] <= failures[q] + Resends(q)
           + (IF stage[q] \in {"new", "start", "acquiring", "backoff"} THEN 0 ELSE 1)
  BY SendAssumption DEF LoopTypeOK, AttemptInv, Spent
<1>3. CASE q # c
  <2>1. stage'[q] = stage[q] /\ failures'[q] = failures[q]
    BY <1>3 DEF RetryOr, Goto, LoopTypeOK
  <2> QED BY <1>2, <2>1
<1>4. CASE q = c
  <2>1. attempts[q] <= failures[q] + Resends(q) + 1
    BY <1>2, <1>4
  <2>2. \/ stage'[q] = "backoff" /\ failures'[q] = failures[q] + 1
        \/ stage'[q] = s /\ failures'[q] = failures[q]
    BY <1>4 DEF RetryOr, Goto, LoopTypeOK
  <2>3. s \notin {"invalidating", "new", "start", "acquiring", "backoff"}
    BY DEF Ended
  <2> QED BY <1>1, <1>2, <2>1, <2>2, <2>3
<1> QED BY <1>3, <1>4

LEMMA AttemptStep ==
  ASSUME LoopTypeOK, AttemptInv, [SendNext]_sendVars
  PROVE  AttemptInv'
<1> USE SendAssumption DEF LoopTypeOK, AttemptInv, Spent, Resends, loop, world, Goto
<1>1. ASSUME NEW c \in Clients, Begin(c) PROVE AttemptInv'
  BY <1>1 DEF Begin
<1>2. ASSUME NEW c \in Clients, SendAttempt(c) PROVE AttemptInv'
  BY <1>2 DEF SendAttempt
<1>3. ASSUME NEW c \in Clients, CredentialError(c) PROVE AttemptInv'
  BY <1>3 DEF CredentialError
<1>4. ASSUME NEW c \in Clients, Invalidated(c) PROVE AttemptInv'
  BY <1>4 DEF Invalidated
<1>5. ASSUME NEW c \in Clients, Responds(c) PROVE AttemptInv'
  BY <1>5 DEF Responds
<1>6. ASSUME NEW c \in Clients, TimesOut(c) PROVE AttemptInv'
  BY <1>6 DEF TimesOut
<1>7. ASSUME NEW c \in Clients, BackoffEnds(c) PROVE AttemptInv'
  BY <1>7 DEF BackoffEnds
<1>8. ASSUME NEW c \in Clients, Acquire(c) PROVE AttemptInv'
  BY <1>8 DEF Acquire
<1>9. ASSUME NEW c \in Clients, ClientGone(c) PROVE AttemptInv'
  BY <1>9 DEF ClientGone, Ended
<1>10. ASSUME NEW c \in Clients,
              Unavailable(c) \/ ConnectionFails(c) \/ ConnectionBreaks(c)
       PROVE  AttemptInv'
  <2>1. "answered" \in Ended /\ "transport" \in Ended
    BY DEF Ended
  <2> QED BY <1>10, <2>1, RetryOrAttempts DEF Unavailable, ConnectionFails, ConnectionBreaks
<1>13. ASSUME NEW c \in Clients, Unauthorized(c) PROVE AttemptInv'
  <2>1. CASE MayRefresh(c)
    BY <1>13, <2>1 DEF Unauthorized, MayRefresh
  <2>2. CASE ~MayRefresh(c)
    <3>1. "rejected" \in Ended
      BY DEF Ended
    <3> QED BY <1>13, <2>2, <3>1, RetryOrAttempts DEF Unauthorized
  <2> QED BY <2>1, <2>2
<1>14. ASSUME NEW c \in Clients, CredentialStep(c) \/ HelperPrints(c) PROVE AttemptInv'
  BY <1>14 DEF CredentialStep, HelperPrints
<1>15. Rotate \/ HelperCatchesUp \/ Passes => AttemptInv'
  BY DEF Rotate, HelperCatchesUp, Passes
<1>16. UNCHANGED sendVars => AttemptInv'
  BY DEF sendVars
<1> QED
  BY <1>1, <1>2, <1>3, <1>4, <1>5, <1>6, <1>7, <1>8, <1>9, <1>10,
     <1>13, <1>14, <1>15, <1>16 DEF SendNext

\* No request is sent more often than its retries and the one credential
\* re-send allow, whatever the backend answers and whoever else is rejected.
THEOREM AttemptsCorrect == SendSpec => []AttemptsBounded
<1>1. SendInit => LoopTypeOK /\ AttemptInv
  BY SendAssumption DEF SendInit, LoopTypeOK, Stages, AttemptInv, Spent, Resends
<1>2. LoopTypeOK /\ AttemptInv /\ [SendNext]_sendVars => LoopTypeOK' /\ AttemptInv'
  BY LoopStep, AttemptStep
<1>3. LoopTypeOK /\ AttemptInv => AttemptsBounded
  <2> SUFFICES ASSUME LoopTypeOK, AttemptInv, NEW c \in Clients
               PROVE  attempts[c] <= 1 + failures[c] + (IF refreshed[c] THEN 1 ELSE 0)
    BY DEF AttemptsBounded
  <2>1. Resends(c) \in Nat /\ failures[c] \in Nat /\ attempts[c] \in Nat
    BY SendAssumption DEF Resends, LoopTypeOK
  <2>2. attempts[c] <= failures[c] + Resends(c) + 1
    BY <2>1 DEF AttemptInv, Spent
  <2> QED BY <2>1, <2>2 DEF Resends
<1> QED BY <1>1, <1>2, <1>3, PTL DEF SendSpec

-----------------------------------------------------------------------------
(* What the cache holds towards what the backend accepts.  Secrets are     *)
(* numbered by rotation, so the helper's prints only grow, and a value     *)
(* some request saw rejected is older than the accepted one.               *)

WorldInv ==
  /\ lagged = "no" => printed = good
  /\ minted # None => minted.value <= printed
  /\ minted = None => invalidated = None
  /\ cached = None /\ minted # None => invalidated = minted.value
  /\ \A c \in Clients :
       /\ got[c] # None => minted # None /\ got[c] <= good
       /\ pc[c] = "rejecting" => got[c] < good
  /\ lagged = "no" =>
       /\ reproduced = None
       /\ invalidated # None => invalidated < good

\* What the cache's own invariant and the types give of one state.
LEMMA Known ==
  ASSUME TypeOK, LoopTypeOK, Inv
  PROVE  /\ good \in Nat /\ printed \in Nat /\ printed <= good
         /\ \A c \in Clients : got[c] # None => got[c] \in Nat
         /\ cached # None => /\ minted # None /\ cached.value = minted.value
                             /\ cached.value \in Nat
         /\ minted # None => minted.value \in Nat
         /\ invalidated # None => invalidated \in Nat
         /\ \A c \in Clients : pc[c] = "rejecting" => got[c] # None
         /\ \A c \in Clients : pc[c] = "running" => ~Valid
         /\ None \notin Nat
BY SendAssumption, CredentialAssumption
   DEF TypeOK, LoopTypeOK, Inv, CacheInv, QueueInv, CachedRec, MintedRec

\* An answered call leaves the caller idle, with the cached value or with none.
Answered(c) ==
  /\ pc' = [pc EXCEPT ![c] = "idle"]
  /\ \/ got' = [got EXCEPT ![c] = None]
     \/ cached # None /\ got' = [got EXCEPT ![c] = cached.value]

\* A caller queues for the mutex, or runs the command.
Moved(c) ==
  /\ UNCHANGED got
  /\ \/ pc[c] = "stamped" /\ pc' = [pc EXCEPT ![c] = "waiting"]
     \/ pc[c] = "waiting" /\ pc' = [pc EXCEPT ![c] = "running"]

Untold == <<now, cached, invalidated, reproduced, minted>>

\* How a request steps the cache, but for a rejection and a successful run.
LEMMA CacheMoves ==
  ASSUME NEW c \in Clients,
         Enqueue(c) \/ ServeCached(c) \/ ServeFallback(c) \/ ShareFailure(c) \/ StartRun(c)
           \/ RunFails(c)
  PROVE  /\ UNCHANGED Untold
         /\ (Answered(c) /\ pc[c] \in {"waiting", "running"}) \/ Moved(c)
<1> USE DEF Answered, Moved, Untold, slot, history
<1>1. CASE Enqueue(c)
  BY <1>1 DEF Enqueue
<1>2. CASE ServeCached(c)
  BY <1>2 DEF ServeCached, Answer, Valid
<1>3. CASE ServeFallback(c)
  BY <1>3 DEF ServeFallback, Answer, Fallback
<1>4. CASE ShareFailure(c)
  BY <1>4 DEF ShareFailure, Answer
<1>5. CASE StartRun(c)
  BY <1>5 DEF StartRun
<1>6. CASE RunFails(c)
  BY <1>6 DEF RunFails, Answer, Fallback
<1> QED
  BY <1>1, <1>2, <1>3, <1>4, <1>5, <1>6

\* A rejection clears what is cached or finds it changed or shielded.
LEMMA CacheCleared ==
  ASSUME NEW c \in Clients, Invalidate(c)
  PROVE  /\ pc[c] = "rejecting" /\ pc' = [pc EXCEPT ![c] = "idle"]
         /\ got' = [got EXCEPT ![c] = None]
         /\ UNCHANGED <<now, reproduced, minted>>
         /\ \/ /\ cached # None /\ cached.value = got[c] /\ ~Reproduced(got[c])
               /\ cached' = None /\ invalidated' = got[c]
            \/ /\ cached = None \/ cached.value # got[c] \/ Reproduced(got[c])
               /\ UNCHANGED <<cached, invalidated>>
BY DEF Invalidate, Answer, Clears

\* A successful run prints what the helper prints now.
LEMMA CachePrinted ==
  ASSUME NEW c \in Clients, HelperPrints(c)
  PROVE  /\ pc[c] = "running" /\ pc' = [pc EXCEPT ![c] = "idle"]
         /\ got' = [got EXCEPT ![c] = printed]
         /\ \E life \in Lifetimes :
              /\ cached' = Fetched(printed, life)
              /\ minted' = [value |-> printed, at |-> now,
                            expires |-> IF life = None THEN None ELSE now + life]
         /\ invalidated' = None
         /\ reproduced' = IF invalidated = printed THEN [value |-> printed, at |-> now]
                                                   ELSE reproduced
         /\ now' = now /\ okRuns' = okRuns + 1 /\ UNCHANGED <<loop, world>>
BY DEF HelperPrints, RunSucceeds, Answer

\* A request's step of the cache, by what it does to the values.
LEMMA SendCases ==
  ASSUME LoopTypeOK, [SendNext]_sendVars
  PROVE  \/ \E c \in Clients :
              \/ /\ Enqueue(c) \/ ServeCached(c) \/ ServeFallback(c) \/ ShareFailure(c)
                      \/ StartRun(c) \/ RunFails(c)
                 /\ UNCHANGED <<loop, world, okRuns>>
              \/ Invalidate(c) /\ UNCHANGED <<loop, world, okRuns>>
              \/ HelperPrints(c) \/ Acquire(c) \/ ClientGone(c)
              \/ Unauthorized(c) /\ MayRefresh(c)
              \/ Begin(c) \/ Invalidated(c)
         \/ /\ UNCHANGED <<vars, refreshed, goodAtStart, world, okRuns>>
            /\ \A c \in Clients :
                 /\ stage'[c] = "new" => stage[c] = "new"
                 /\ stage'[c] = "invalidating" => stage[c] = "invalidating"
                 /\ stage'[c] = "sent" => stage[c] = "sent" \/ (pc[c] = "idle" /\ got[c] # None)
                 /\ stage'[c] = "rejected" /\ stage[c] # "rejected" =>
                      refreshed[c] /\ got[c] # good /\ stage[c] = "sent"
         \/ Rotate \/ HelperCatchesUp \/ Passes \/ UNCHANGED sendVars
<1>1. ASSUME NEW c \in Clients, CredentialStep(c)
      PROVE  \/ /\ Enqueue(c) \/ ServeCached(c) \/ ServeFallback(c) \/ ShareFailure(c)
                     \/ StartRun(c) \/ RunFails(c)
                /\ UNCHANGED <<loop, world, okRuns>>
             \/ Invalidate(c) /\ UNCHANGED <<loop, world, okRuns>>
  BY <1>1 DEF CredentialStep
<1>2. ASSUME NEW c \in Clients,
             SendAttempt(c) \/ CredentialError(c) \/ Responds(c) \/ TimesOut(c) \/ BackoffEnds(c)
               \/ Unavailable(c) \/ ConnectionFails(c) \/ ConnectionBreaks(c)
               \/ (Unauthorized(c) /\ ~MayRefresh(c))
      PROVE  /\ UNCHANGED <<vars, refreshed, goodAtStart, world, okRuns>>
             /\ \A d \in Clients :
                  /\ stage'[d] = "new" => stage[d] = "new"
                  /\ stage'[d] = "invalidating" => stage[d] = "invalidating"
                  /\ stage'[d] = "sent" => stage[d] = "sent" \/ (pc[d] = "idle" /\ got[d] # None)
                  /\ stage'[d] = "rejected" /\ stage[d] # "rejected" =>
                       refreshed[d] /\ got[d] # good /\ stage[d] = "sent"
  <2> USE DEF Goto, RetryOr, LoopTypeOK
  <2>1. CASE SendAttempt(c) \/ CredentialError(c)
    BY <2>1 DEF SendAttempt, CredentialError
  <2>2. CASE Responds(c) \/ TimesOut(c) \/ BackoffEnds(c)
    BY <2>2 DEF Responds, TimesOut, BackoffEnds
  <2>3. CASE Unavailable(c)
    BY <2>3 DEF Unavailable
  <2>4. CASE ConnectionFails(c)
    BY <2>4 DEF ConnectionFails
  <2>5. CASE ConnectionBreaks(c)
    BY <2>5 DEF ConnectionBreaks
  <2>6. CASE Unauthorized(c) /\ ~MayRefresh(c)
    BY <2>6 DEF Unauthorized, MayRefresh
  <2> QED
    BY <1>2, <2>1, <2>2, <2>3, <2>4, <2>5, <2>6
<1> QED
  BY <1>1, <1>2 DEF SendNext

LEMMA WorldStep ==
  ASSUME TypeOK, LoopTypeOK, Inv, WorldInv, [SendNext]_sendVars
  PROVE  WorldInv'
<1>0. /\ good \in Nat /\ printed \in Nat /\ printed <= good
      /\ cached # None => /\ minted # None /\ cached.value = minted.value
                          /\ cached.value \in Nat
      /\ minted # None => minted.value \in Nat
      /\ \A c \in Clients : pc[c] = "rejecting" => got[c] # None
      /\ None \notin Nat
      /\ pc \in [Clients -> {"idle", "stamped", "waiting", "running", "rejecting"}]
      /\ got \in [Clients -> Secrets \cup {None}] /\ lagged \in {"no", "yes"}
      /\ \A c \in Clients : got[c] # None => got[c] \in Nat
  BY Known DEF TypeOK, LoopTypeOK
<1>1. ASSUME NEW c \in Clients,
             Enqueue(c) \/ ServeCached(c) \/ ServeFallback(c) \/ ShareFailure(c)
               \/ StartRun(c) \/ RunFails(c),
             UNCHANGED <<loop, world, okRuns>>
      PROVE  WorldInv'
  <2>1. UNCHANGED Untold /\ (Answered(c) \/ Moved(c))
    BY <1>1, CacheMoves
  <2>2. cached # None => cached.value <= good
    BY <1>0 DEF WorldInv
  <2> QED
    BY <1>0, <1>1, <2>1, <2>2 DEF WorldInv, Answered, Moved, Untold, world
<1>2. ASSUME NEW c \in Clients, Invalidate(c), UNCHANGED <<loop, world, okRuns>>
      PROVE  WorldInv'
  <2>1. /\ UNCHANGED <<world, minted, reproduced>>
        /\ pc[c] = "rejecting" /\ pc' = [pc EXCEPT ![c] = "idle"]
        /\ got' = [got EXCEPT ![c] = None]
    BY <1>2, CacheCleared
  <2>2. \/ cached # None /\ cached.value = got[c] /\ cached' = None /\ invalidated' = got[c]
        \/ UNCHANGED <<cached, invalidated>>
    BY <1>2, CacheCleared
  <2> QED
    BY <1>0, <2>1, <2>2 DEF WorldInv, world
<1>3. ASSUME NEW c \in Clients, HelperPrints(c) PROVE WorldInv'
  <2>1. /\ pc' = [pc EXCEPT ![c] = "idle"] /\ got' = [got EXCEPT ![c] = printed]
        /\ invalidated' = None
        /\ reproduced' = IF invalidated = printed THEN [value |-> printed, at |-> now]
                                                  ELSE reproduced
        /\ UNCHANGED world
    BY <1>3, CachePrinted
  <2>2. cached' # None /\ minted' # None /\ minted'.value = printed
    <3>1. PICK life \in Lifetimes :
            /\ cached' = Fetched(printed, life)
            /\ minted' = [value |-> printed, at |-> now,
                          expires |-> IF life = None THEN None ELSE now + life]
      BY <1>3, CachePrinted
    <3>2. printed \in Secrets
      BY SendAssumption DEF LoopTypeOK
    <3>3. cached' \in CachedRec /\ None \notin CachedRec
      BY <3>1, <3>2, FetchedType, CredentialAssumption DEF TypeOK
    <3>4. minted' \in MintedRec /\ None \notin MintedRec
      BY <3>1, <3>2, CredentialAssumption DEF TypeOK, MintedRec
    <3> QED
      BY <3>1, <3>3, <3>4
  <2>3. lagged = "no" => invalidated # printed
    BY <1>0 DEF WorldInv
  <2> QED
    BY <1>0, <2>1, <2>2, <2>3 DEF WorldInv, world
<1>4. ASSUME NEW c \in Clients, Acquire(c) PROVE WorldInv'
  BY <1>0, <1>4 DEF Acquire, Arrive, WorldInv, world, slot, history
<1>5. ASSUME NEW c \in Clients, Unauthorized(c), MayRefresh(c) PROVE WorldInv'
  <2>1. /\ got[c] # good /\ got[c] # None /\ pc' = [pc EXCEPT ![c] = "rejecting"]
        /\ UNCHANGED <<world, got, slot, history>>
    BY <1>5 DEF Unauthorized, Reject
  <2>2. got[c] < good
    BY <1>0, <2>1 DEF WorldInv
  <2> QED
    BY <1>0, <2>1, <2>2 DEF WorldInv, world, slot, history
<1>6. ASSUME NEW c \in Clients, ClientGone(c) PROVE WorldInv'
  <2>1. CASE UNCHANGED vars
    BY <1>6, <2>1 DEF ClientGone, WorldInv, world, vars, slot, history
  <2>2. CASE Cancel(c)
    BY <1>0, <1>6, <2>2 DEF ClientGone, Cancel, WorldInv, world, slot
  <2> QED
    BY <1>6, <2>1, <2>2 DEF ClientGone, DropCall
<1>7. ASSUME UNCHANGED <<got, pc, cached, invalidated, reproduced, minted, world>> PROVE WorldInv'
  BY <1>7 DEF WorldInv, world
<1>8. ASSUME NEW c \in Clients, Begin(c) \/ Invalidated(c) PROVE WorldInv'
  BY <1>7, <1>8 DEF Begin, Invalidated, vars, slot, history
<1>9. CASE Rotate
  <2>1. /\ UNCHANGED <<got, pc, cached, invalidated, reproduced, minted>> /\ good' = good + 1
        /\ (printed' = good + 1 /\ lagged' = lagged) \/ (printed' = printed /\ lagged' = "yes")
    BY <1>9 DEF Rotate, vars, slot, history
  <2>2. /\ lagged' = "no" => printed' = good' /\ lagged = "no"
        /\ printed <= printed'
    BY <1>0, <2>1
  <2>3. \A n \in Nat : (n <= good => n <= good') /\ (n < good => n < good')
    BY <1>0, <2>1
  <2>4. minted # None => minted.value <= printed'
    BY <1>0, <2>1, <2>2 DEF WorldInv
  <2>5. invalidated # None /\ lagged' = "no" => invalidated < good'
    <3>1. invalidated # None => invalidated \in Nat
      BY Known
    <3> QED
      BY <2>2, <2>3, <3>1 DEF WorldInv
  <2>6. \A c \in Clients : /\ got[c] # None => minted # None /\ got[c] <= good'
                           /\ pc[c] = "rejecting" => got[c] < good'
    BY <1>0, <2>3 DEF WorldInv
  <2> QED
    BY <2>1, <2>2, <2>4, <2>5, <2>6 DEF WorldInv
<1>10. CASE HelperCatchesUp
  BY <1>0, <1>10 DEF HelperCatchesUp, WorldInv, vars, slot, history
<1>11. CASE Passes \/ UNCHANGED <<vars, world>> \/ UNCHANGED sendVars
  BY <1>7, <1>11 DEF Passes, Tick, vars, sendVars, slot, history
<1> QED
  BY <1>1, <1>2, <1>3, <1>4, <1>5, <1>6, <1>8, <1>9, <1>10, <1>11, SendCases

-----------------------------------------------------------------------------
(* The re-send.  While the helper never trailed the backend, what was      *)
(* printed after a request came is at least what was accepted when it      *)
(* came; and once a request's rejection went through, so is what is cached. *)

\* The request's rejection went through invalidate().
HandedBackBy(c) == refreshed[c] \/ (stage[c] = "invalidating" /\ pc[c] = "idle")

FreshFor(c) ==
  /\ got[c] # None => minted.value = got[c] \/ minted.value >= goodAtStart[c]
  /\ HandedBackBy(c) =>
       /\ cached # None => cached.value >= goodAtStart[c]
       /\ got[c] # None => got[c] >= goodAtStart[c]

FreshInv ==
  \A c \in Clients :
    /\ stage[c] = "new" => got[c] = None /\ ~refreshed[c] /\ pc[c] = "idle"
    /\ stage[c] = "invalidating" => pc[c] \in {"rejecting", "idle"}
    /\ goodAtStart[c] <= good
    /\ lagged = "no" => FreshFor(c)

LEMMA FreshStep ==
  ASSUME TypeOK, LoopTypeOK, Inv, WorldInv, FreshInv, [SendNext]_sendVars
  PROVE  FreshInv'
<1>0. /\ good \in Nat /\ printed \in Nat /\ printed <= good
      /\ cached # None => /\ minted # None /\ cached.value = minted.value
                          /\ cached.value \in Nat
      /\ minted # None => minted.value \in Nat
      /\ \A c \in Clients : pc[c] = "rejecting" => got[c] # None
      /\ \A c \in Clients : goodAtStart[c] \in Nat
      /\ None \notin Nat
      /\ pc \in [Clients -> {"idle", "stamped", "waiting", "running", "rejecting"}]
      /\ got \in [Clients -> Secrets \cup {None}] /\ lagged \in {"no", "yes"}
      /\ \A c \in Clients : got[c] # None => got[c] \in Nat /\ minted # None
      /\ lagged = "no" => printed = good
  BY Known, SendAssumption DEF TypeOK, LoopTypeOK, WorldInv
<1>1. ASSUME NEW c \in Clients,
             Enqueue(c) \/ ServeCached(c) \/ ServeFallback(c) \/ ShareFailure(c)
               \/ StartRun(c) \/ RunFails(c),
             UNCHANGED <<loop, world, okRuns>>
      PROVE  FreshInv'
  <2>1. /\ UNCHANGED Untold
        /\ (Answered(c) /\ pc[c] \in {"waiting", "running"}) \/ Moved(c)
    BY <1>1, CacheMoves
  <2>2. stage[c] # "invalidating" /\ stage[c] # "new"
    BY <2>1 DEF FreshInv, Moved
  <2> QED
    BY <1>0, <1>1, <2>1, <2>2
       DEF FreshInv, FreshFor, HandedBackBy, Answered, Moved, Untold, world, loop
<1>2. ASSUME NEW c \in Clients, Invalidate(c), UNCHANGED <<loop, world, okRuns>>
      PROVE  FreshInv'
  <2>1. /\ UNCHANGED <<world, loop, minted, reproduced>>
        /\ pc[c] = "rejecting" /\ pc' = [pc EXCEPT ![c] = "idle"]
        /\ got' = [got EXCEPT ![c] = None]
    BY <1>2, CacheCleared
  <2>2. \/ cached' = None
        \/ /\ UNCHANGED cached
           /\ cached = None \/ cached.value # got[c] \/ Reproduced(got[c])
    BY <1>2, CacheCleared
  <2>3. lagged = "no" => ~Reproduced(got[c])
    BY DEF WorldInv, Reproduced
  <2>4. lagged = "no" /\ cached' # None => cached' = cached /\ cached.value >= goodAtStart[c]
    BY <1>0, <2>1, <2>2, <2>3 DEF FreshInv, FreshFor
  <2> QED
    BY <1>0, <2>1, <2>2, <2>4 DEF FreshInv, FreshFor, HandedBackBy, world, loop
<1>3. ASSUME NEW c \in Clients, HelperPrints(c) PROVE FreshInv'
  <2>1. /\ pc[c] = "running" /\ pc' = [pc EXCEPT ![c] = "idle"] /\ got' = [got EXCEPT ![c] = printed]
        /\ UNCHANGED <<loop, world>>
    BY <1>3, CachePrinted
  <2>2. /\ minted'.value = printed /\ cached'.value = printed
    <3>1. PICK life \in Lifetimes :
            /\ cached' = Fetched(printed, life)
            /\ minted' = [value |-> printed, at |-> now,
                          expires |-> IF life = None THEN None ELSE now + life]
      BY <1>3, CachePrinted
    <3> QED
      BY <3>1 DEF Fetched
  <2>3. stage[c] # "invalidating" /\ stage[c] # "new"
    BY <2>1 DEF FreshInv
  <2>4. lagged = "no" => \A d \in Clients : printed >= goodAtStart[d]
    BY <1>0 DEF FreshInv
  <2> QED
    BY <1>0, <2>1, <2>2, <2>3, <2>4 DEF FreshInv, FreshFor, HandedBackBy, world, loop
<1>4. ASSUME NEW c \in Clients, Acquire(c) PROVE FreshInv'
  <2>1. /\ stage[c] = "start" /\ stage' = [stage EXCEPT ![c] = "acquiring"]
        /\ pc' = [pc EXCEPT ![c] = "stamped"] /\ got' = [got EXCEPT ![c] = None]
        /\ UNCHANGED <<refreshed, goodAtStart, world, cached, minted>>
    BY <1>4 DEF Acquire, Arrive, Goto, slot, history
  <2> QED
    BY <1>0, <2>1 DEF FreshInv, FreshFor, HandedBackBy, world, LoopTypeOK
<1>5. ASSUME NEW c \in Clients, Unauthorized(c), MayRefresh(c) PROVE FreshInv'
  <2>1. /\ stage[c] = "sent" /\ stage' = [stage EXCEPT ![c] = "invalidating"]
        /\ pc' = [pc EXCEPT ![c] = "rejecting"] /\ ~refreshed[c]
        /\ UNCHANGED <<refreshed, goodAtStart, world, cached, minted, got>>
    BY <1>5 DEF Unauthorized, MayRefresh, Reject, Goto, slot, history
  <2> QED
    BY <1>0, <2>1 DEF FreshInv, FreshFor, HandedBackBy, world, LoopTypeOK
<1>6. ASSUME NEW c \in Clients, ClientGone(c) PROVE FreshInv'
  <2>1. /\ stage' = [stage EXCEPT ![c] = "gone"] /\ stage[c] # "new"
        /\ UNCHANGED <<refreshed, goodAtStart, world>>
    BY <1>6 DEF ClientGone, Goto
  <2>2. CASE UNCHANGED vars
    BY <1>0, <2>1, <2>2
       DEF FreshInv, FreshFor, HandedBackBy, world, LoopTypeOK, vars, slot, history
  <2>3. CASE Cancel(c)
    <3>1. /\ pc' = [pc EXCEPT ![c] = "idle"] /\ got' = [got EXCEPT ![c] = None]
          /\ UNCHANGED <<cached, minted>>
      BY <2>3 DEF Cancel, slot
    <3> QED
      BY <1>0, <2>1, <3>1 DEF FreshInv, FreshFor, HandedBackBy, world, LoopTypeOK
  <2> QED
    BY <1>6, <2>2, <2>3 DEF ClientGone, DropCall
<1>7. ASSUME NEW c \in Clients, Begin(c) PROVE FreshInv'
  <2>1. /\ stage[c] = "new" /\ stage' = [stage EXCEPT ![c] = "start"]
        /\ goodAtStart' = [goodAtStart EXCEPT ![c] = good]
        /\ UNCHANGED <<refreshed, world, cached, minted, got, pc>>
    BY <1>7 DEF Begin, Goto, vars, slot, history
  <2> QED
    BY <1>0, <2>1 DEF FreshInv, FreshFor, HandedBackBy, world, LoopTypeOK
<1>8. ASSUME NEW c \in Clients, Invalidated(c) PROVE FreshInv'
  <2>1. /\ stage[c] = "invalidating" /\ pc[c] = "idle" /\ stage' = [stage EXCEPT ![c] = "start"]
        /\ refreshed' = [refreshed EXCEPT ![c] = TRUE]
        /\ UNCHANGED <<goodAtStart, world, cached, minted, got, pc>>
    BY <1>8 DEF Invalidated, Goto, vars, slot, history
  <2>2. HandedBackBy(c)
    BY <2>1 DEF HandedBackBy
  <2>3. \A d \in Clients \ {c} : /\ stage'[d] = stage[d] /\ (refreshed'[d] <=> refreshed[d])
                                /\ HandedBackBy(d)' <=> HandedBackBy(d)
    BY <2>1 DEF LoopTypeOK, HandedBackBy
  <2>4. stage'[c] = "start"
    BY <2>1 DEF LoopTypeOK
  <2>5. ASSUME NEW d \in Clients
        PROVE  /\ stage'[d] = "new" => got'[d] = None /\ ~refreshed'[d] /\ pc'[d] = "idle"
               /\ stage'[d] = "invalidating" => pc'[d] \in {"rejecting", "idle"}
               /\ goodAtStart'[d] <= good'
               /\ lagged' = "no" => FreshFor(d)'
    <3>1. CASE d = c
      BY <2>1, <2>2, <2>4, <3>1 DEF FreshInv, FreshFor, world
    <3>2. CASE d # c
      BY <2>1, <2>3, <3>2 DEF FreshInv, FreshFor, world
    <3> QED
      BY <3>1, <3>2
  <2> QED
    BY <2>5 DEF FreshInv
<1>9. ASSUME UNCHANGED <<vars, refreshed, goodAtStart>>,
             good' >= good, lagged' = "no" => lagged = "no",
             \A c \in Clients : /\ stage'[c] = "new" => stage[c] = "new"
                                /\ stage'[c] = "invalidating" => stage[c] = "invalidating"
      PROVE  FreshInv'
  <2>1. good' \in Nat
    BY LoopStep, SendAssumption DEF LoopTypeOK
  <2>2. \A c \in Clients : goodAtStart[c] <= good'
    BY <1>0, <1>9, <2>1 DEF FreshInv
  <2> QED
    BY <1>9, <2>2 DEF FreshInv, FreshFor, HandedBackBy, vars, slot, history
<1>10. CASE Rotate \/ HelperCatchesUp
  <2>1. UNCHANGED <<vars, loop>> /\ good' >= good /\ (lagged' = "no" => lagged = "no")
    BY <1>0, <1>10 DEF Rotate, HelperCatchesUp
  <2> QED
    BY <1>9, <2>1 DEF loop
<1>11. CASE Passes
  <2>1. UNCHANGED <<loop, world, pc, got, cached, minted>>
    BY <1>11 DEF Passes, Tick, slot, history
  <2> QED
    BY <2>1 DEF FreshInv, FreshFor, HandedBackBy, loop, world
<1>12. UNCHANGED sendVars => UNCHANGED <<vars, loop, world>>
  BY DEF sendVars
<1>13. UNCHANGED world => good' >= good /\ (lagged' = "no" => lagged = "no")
  BY <1>0 DEF world
<1> QED
  BY <1>1, <1>2, <1>3, <1>4, <1>5, <1>6, <1>7, <1>8, <1>9, <1>10, <1>11, <1>12, <1>13, SendCases
     DEF loop

\* What is on the wire carries a credential.
SentInv == \A c \in Clients : stage[c] = "sent" => pc[c] = "idle" /\ got[c] # None

LEMMA SentStep ==
  ASSUME TypeOK, LoopTypeOK, SentInv, [SendNext]_sendVars
  PROVE  SentInv'
<1>0. /\ pc \in [Clients -> {"idle", "stamped", "waiting", "running", "rejecting"}]
      /\ got \in [Clients -> Secrets \cup {None}] /\ stage \in [Clients -> Stages]
  BY DEF TypeOK, LoopTypeOK
<1>1. ASSUME NEW c \in Clients,
             Enqueue(c) \/ ServeCached(c) \/ ServeFallback(c) \/ ShareFailure(c)
               \/ StartRun(c) \/ RunFails(c),
             UNCHANGED <<loop, world, okRuns>>
      PROVE  SentInv'
  <2>1. (Answered(c) /\ pc[c] \in {"waiting", "running"}) \/ Moved(c)
    BY <1>1, CacheMoves
  <2>2. stage[c] # "sent"
    BY <2>1 DEF SentInv, Moved
  <2> QED
    BY <1>0, <1>1, <2>1, <2>2 DEF SentInv, Answered, Moved, loop
<1>2. ASSUME NEW c \in Clients, Invalidate(c), UNCHANGED <<loop, world, okRuns>>
      PROVE  SentInv'
  <2>1. /\ pc[c] = "rejecting" /\ pc' = [pc EXCEPT ![c] = "idle"]
        /\ got' = [got EXCEPT ![c] = None]
    BY <1>2, CacheCleared
  <2> QED
    BY <1>0, <1>2, <2>1 DEF SentInv, loop
<1>3. ASSUME NEW c \in Clients, HelperPrints(c) PROVE SentInv'
  <2>1. /\ pc[c] = "running" /\ pc' = [pc EXCEPT ![c] = "idle"]
        /\ got' = [got EXCEPT ![c] = printed] /\ UNCHANGED loop
    BY <1>3, CachePrinted
  <2> QED
    BY <1>0, <2>1 DEF SentInv, loop
<1>4. ASSUME NEW c \in Clients, Acquire(c) PROVE SentInv'
  BY <1>0, <1>4 DEF Acquire, Arrive, Goto, SentInv
<1>5. ASSUME NEW c \in Clients, Unauthorized(c), MayRefresh(c) PROVE SentInv'
  BY <1>0, <1>5 DEF Unauthorized, MayRefresh, Reject, Goto, SentInv
<1>6. ASSUME NEW c \in Clients, ClientGone(c) PROVE SentInv'
  <2>1. stage' = [stage EXCEPT ![c] = "gone"]
    BY <1>6 DEF ClientGone, Goto
  <2>2. CASE UNCHANGED vars
    BY <1>0, <2>1, <2>2 DEF SentInv, vars
  <2>3. CASE Cancel(c)
    BY <1>0, <2>1, <2>3 DEF Cancel, SentInv
  <2> QED
    BY <1>6, <2>2, <2>3 DEF ClientGone, DropCall
<1>7. ASSUME NEW c \in Clients, Begin(c) \/ Invalidated(c) PROVE SentInv'
  BY <1>0, <1>7 DEF Begin, Invalidated, Goto, SentInv, vars
<1>8. ASSUME UNCHANGED <<vars, refreshed, goodAtStart, world, okRuns>>,
             \A c \in Clients :
               stage'[c] = "sent" => stage[c] = "sent" \/ (pc[c] = "idle" /\ got[c] # None)
      PROVE  SentInv'
  BY <1>8 DEF SentInv, vars
<1>9. Rotate \/ HelperCatchesUp \/ Passes \/ UNCHANGED sendVars => SentInv'
  BY DEF Rotate, HelperCatchesUp, Passes, Tick, SentInv, vars, loop, sendVars
<1> QED
  BY <1>1, <1>2, <1>3, <1>4, <1>5, <1>6, <1>7, <1>8, <1>9, SendCases

\* Everything above, in every reachable state.
SendInv == TypeOK /\ LoopTypeOK /\ Inv /\ WorldInv /\ FreshInv /\ SentInv

LEMMA SendInvariant == SendSpec => []SendInv
<1>1. SendInit => LoopTypeOK /\ WorldInv /\ FreshInv /\ SentInv
  <2> SUFFICES ASSUME SendInit PROVE LoopTypeOK /\ WorldInv /\ FreshInv /\ SentInv
    OBVIOUS
  <2>1. LoopTypeOK
    BY SendAssumption DEF SendInit, LoopTypeOK, Stages
  <2>2. WorldInv
    BY DEF SendInit, Init, WorldInv
  <2>3. FreshInv
    <3> SUFFICES ASSUME NEW c \in Clients
                 PROVE  /\ stage[c] = "new" /\ got[c] = None /\ pc[c] = "idle"
                        /\ goodAtStart[c] <= good /\ ~refreshed[c]
      BY DEF FreshInv, FreshFor, HandedBackBy
    <3>1. stage[c] = "new" /\ got[c] = None /\ pc[c] = "idle" /\ goodAtStart[c] <= good
      BY DEF SendInit, Init
    <3>2. ~refreshed[c]
      BY Zenon DEF SendInit
    <3> QED
      BY <3>1, <3>2
  <2>4. SentInv
    BY DEF SendInit, SentInv
  <2> QED
    BY <2>1, <2>2, <2>3, <2>4
<1>2. SendSpec => []TypeOK
  BY SendKeepsCredential, TypeCorrect DEF CredentialKept
<1>5. SendSpec => []Inv
  BY SendKeepsCredential, InvCorrect DEF CredentialKept
<1>3. TypeOK /\ Inv /\ LoopTypeOK /\ WorldInv /\ FreshInv /\ SentInv /\ [SendNext]_sendVars
        => LoopTypeOK' /\ WorldInv' /\ FreshInv' /\ SentInv'
  BY LoopStep, WorldStep, FreshStep, SentStep
<1>4. TypeOK /\ Inv /\ LoopTypeOK /\ WorldInv /\ FreshInv /\ SentInv <=> SendInv
  BY DEF SendInv
<1> QED
  BY <1>1, <1>2, <1>3, <1>4, <1>5, PTL DEF SendSpec

\* With a helper that never trailed the backend, a request ends rejected only
\* when the accepted secret was rotated after it came.
THEOREM RejectionCorrect == SendSpec => NoSpuriousRejection
<1> DEFINE Sound == \A c \in Clients :
                      lagged = "no" /\ stage[c] # "rejected" /\ stage'[c] = "rejected"
                        => good > goodAtStart[c]
<1>1. ASSUME SendInv, [SendNext]_sendVars PROVE Sound
  <2> SUFFICES ASSUME NEW c \in Clients,
                      lagged = "no", stage[c] # "rejected", stage'[c] = "rejected"
               PROVE  good > goodAtStart[c]
    OBVIOUS
  <2>0. stage \in [Clients -> Stages]
    BY <1>1 DEF SendInv, LoopTypeOK
  <2>1. ASSUME NEW d \in Clients,
               \/ UNCHANGED <<loop, world, okRuns>>
               \/ HelperPrints(d) \/ Acquire(d) \/ ClientGone(d)
               \/ (Unauthorized(d) /\ MayRefresh(d))
               \/ Begin(d) \/ Invalidated(d)
        PROVE  FALSE
    BY <2>0, <2>1 DEF loop, HelperPrints, Acquire, ClientGone, Unauthorized, MayRefresh,
                      Begin, Invalidated, Goto
  <2>2. ~(Rotate \/ HelperCatchesUp \/ Passes \/ UNCHANGED sendVars)
    BY DEF Rotate, HelperCatchesUp, Passes, loop, sendVars
  <2>3. refreshed[c] /\ got[c] # good /\ stage[c] = "sent"
    BY <1>1, <2>1, <2>2, SendCases DEF SendInv
  <2>4. /\ got[c] # None /\ got[c] <= good
        /\ got[c] >= goodAtStart[c]
    BY <1>1, <2>3 DEF SendInv, SentInv, WorldInv, FreshInv, FreshFor, HandedBackBy
  <2>5. got[c] \in Nat /\ good \in Nat /\ goodAtStart[c] \in Nat
    BY <1>1, <2>4, Known, SendAssumption DEF SendInv, LoopTypeOK
  <2> QED
    BY <2>3, <2>4, <2>5
<1>2. SendInv /\ [SendNext]_sendVars => [Sound]_sendVars
  BY <1>1
<1> QED
  BY <1>2, SendInvariant, PTL DEF SendSpec, NoSpuriousRejection

-----------------------------------------------------------------------------
(* The number of runs.  At the first instant a run starts only with an     *)
(* empty cache, so after a rejection; what it prints is a newer value, or, *)
(* once, the rejected value again, which RetryAfter then shields.          *)

\* Every lifetime a run reports outlives the margin: a value that does not is
\* never valid, and each request then runs the helper anew, by design.
Lasting == \A life \in Lifetimes : life = None \/ life > Margin

RunsInv ==
  now = 0 =>
    /\ cached # None => cached.validUntil > 0
    /\ minted = None => okRuns = 0
    /\ minted # None /\ reproduced = None => okRuns <= minted.value + 1
    /\ reproduced # None =>
         /\ lagged = "yes" /\ minted # None /\ okRuns <= minted.value + 2
         /\ cached # None /\ reproduced.value = cached.value /\ reproduced.at = 0

LEMMA RunsStep ==
  ASSUME Lasting, SendInv, RunsInv, [SendNext]_sendVars
  PROVE  RunsInv'
<1>0. /\ now \in Nat /\ okRuns \in Nat /\ RetryAfter \in Nat \ {0} /\ None \notin Nat
      /\ TypeOK /\ LoopTypeOK /\ Inv /\ WorldInv
      /\ printed \in Nat /\ printed \in Secrets
  BY SendAssumption, CredentialAssumption DEF SendInv, TypeOK, LoopTypeOK
<1>1. ASSUME UNCHANGED <<now, cached, reproduced, minted, okRuns>>,
             lagged = "yes" => lagged' = "yes"
      PROVE  RunsInv'
  BY <1>1 DEF RunsInv
<1>2. ASSUME NEW c \in Clients,
             Enqueue(c) \/ ServeCached(c) \/ ServeFallback(c) \/ ShareFailure(c)
               \/ StartRun(c) \/ RunFails(c),
             UNCHANGED <<loop, world, okRuns>>
      PROVE  RunsInv'
  BY <1>1, <1>2, CacheMoves DEF Untold, world
<1>3. ASSUME NEW c \in Clients, Invalidate(c), UNCHANGED <<loop, world, okRuns>>
      PROVE  RunsInv'
  <2>1. UNCHANGED <<now, reproduced, minted, okRuns, lagged>>
    BY <1>3, CacheCleared DEF world
  <2>2. CASE UNCHANGED cached
    BY <1>1, <2>1, <2>2
  <2>3. CASE cached # None /\ cached.value = got[c] /\ ~Reproduced(got[c]) /\ cached' = None
    <3>1. now = 0 => reproduced = None
      BY <1>0, <2>3 DEF RunsInv, Reproduced
    <3> QED
      BY <2>1, <2>3, <3>1 DEF RunsInv
  <2> QED
    BY <1>3, <2>2, <2>3, CacheCleared
<1>4. ASSUME NEW c \in Clients, HelperPrints(c) PROVE RunsInv'
  <2> SUFFICES ASSUME now = 0 PROVE RunsInv'
    BY <1>4, CachePrinted DEF RunsInv
  <2>1. /\ pc[c] = "running" /\ now' = 0 /\ okRuns' = okRuns + 1 /\ lagged' = lagged
        /\ reproduced' = IF invalidated = printed THEN [value |-> printed, at |-> now]
                                                  ELSE reproduced
    BY <1>4, CachePrinted DEF world
  <2>2. PICK life \in Lifetimes :
          /\ cached' = Fetched(printed, life)
          /\ minted' = [value |-> printed, at |-> now,
                        expires |-> IF life = None THEN None ELSE now + life]
    BY <1>4, CachePrinted
  <2>3. /\ cached' # None /\ minted' # None
        /\ minted'.value = printed /\ cached'.value = printed
    <3>1. Fetched(printed, life) \in CachedRec /\ Fetched(printed, life).value = printed
      BY <1>0, FetchedType
    <3>2. minted' \in MintedRec
      BY <1>0, <2>2, CredentialAssumption DEF MintedRec
    <3> QED
      BY <2>2, <3>1, <3>2, CredentialAssumption
  <2>4. cached'.validUntil > 0
    <3>1. Refresh \in Nat /\ Refresh > 0 /\ Margin \in Nat
      BY CredentialAssumption
    <3>2. CASE life = None
      BY <2>2, <3>1, <3>2 DEF Fetched
    <3>3. CASE life # None
      <4>1. life \in Nat /\ life > Margin
        BY <3>3, CredentialAssumption DEF Lasting
      <4>2. Rest(life) \in Nat /\ Rest(life) > 0
        BY <3>1, <4>1 DEF Rest, Max2
      <4>3. Min2(Refresh, Rest(life)) > 0 /\ Min2(Refresh, Rest(life)) \in Nat
        BY <3>1, <4>2 DEF Min2
      <4>4. cached'.validUntil = now + Min2(Refresh, Rest(life))
        BY <2>2, <3>3 DEF Fetched
      <4> QED
        BY <4>3, <4>4
    <3> QED
      BY <3>2, <3>3
  <2>5. cached = None
    BY <1>0, <2>1, Known DEF RunsInv, Valid
  <2>6. reproduced = None
    BY <2>5 DEF RunsInv
  <2>7. CASE minted = None
    <3>1. okRuns' = 1 /\ invalidated = None
      BY <1>0, <2>1, <2>7 DEF RunsInv, WorldInv
    <3>2. reproduced' = None
      BY <1>0, <2>1, <2>6, <3>1
    <3> QED
      BY <1>0, <2>3, <2>4, <3>1, <3>2 DEF RunsInv
  <2>8. CASE minted # None
    <3>1. /\ invalidated = minted.value /\ minted.value <= printed /\ minted.value \in Nat
          /\ okRuns <= minted.value + 1
      BY <1>0, <2>5, <2>6, <2>8, Known DEF RunsInv, WorldInv
    <3>2. CASE printed = minted.value
      <4>1. lagged = "yes"
        BY <1>0, <3>1, <3>2 DEF WorldInv, LoopTypeOK
      <4>2. reproduced' = [value |-> printed, at |-> 0]
        BY <2>1, <3>1, <3>2
      <4>3. okRuns' <= printed + 2
        BY <1>0, <2>1, <3>1, <3>2
      <4>4. reproduced' # None
        BY <1>0, <4>2, CredentialAssumption DEF StampedRec
      <4> QED
        BY <2>1, <2>3, <2>4, <4>1, <4>2, <4>3, <4>4 DEF RunsInv
    <3>3. CASE printed # minted.value
      <4>1. reproduced' = None
        BY <2>1, <2>6, <3>1, <3>3
      <4>2. okRuns' <= printed + 1
        BY <1>0, <2>1, <3>1, <3>3
      <4> QED
        BY <2>3, <2>4, <4>1, <4>2 DEF RunsInv
    <3> QED
      BY <3>2, <3>3
  <2> QED
    BY <2>7, <2>8
<1>5. ASSUME NEW c \in Clients,
             Acquire(c) \/ (Unauthorized(c) /\ MayRefresh(c)) \/ Begin(c) \/ Invalidated(c)
      PROVE  RunsInv'
  BY <1>1, <1>5 DEF Acquire, Arrive, Unauthorized, MayRefresh, Reject, Begin, Invalidated,
                    world, vars, slot, history
<1>6. ASSUME NEW c \in Clients, ClientGone(c) PROVE RunsInv'
  BY <1>1, <1>6 DEF ClientGone, DropCall, Cancel, world, vars, slot, history
<1>7. UNCHANGED <<vars, world, okRuns>> => RunsInv'
  BY <1>1 DEF world, vars, slot, history
<1>8. Rotate \/ HelperCatchesUp => RunsInv'
  BY <1>1 DEF Rotate, HelperCatchesUp, vars, slot, history
<1>9. CASE Passes
  BY <1>0, <1>9 DEF Passes, Tick, RunsInv
<1>10. UNCHANGED sendVars => UNCHANGED <<vars, world, okRuns>>
  BY DEF sendVars
<1> QED
  BY <1>0, <1>2, <1>3, <1>4, <1>5, <1>6, <1>7, <1>8, <1>9, <1>10, SendCases

\* One rotation costs one run of the helper however many requests it rejects,
\* and a helper that trails the backend costs one more.
THEOREM RunsCorrect == Lasting => (SendSpec => []RunsBoundedByRotations)
<1> SUFFICES ASSUME Lasting PROVE SendSpec => []RunsBoundedByRotations
  OBVIOUS
<1>1. SendInit => RunsInv
  BY DEF SendInit, Init, RunsInv
<1>2. SendInv /\ RunsInv /\ [SendNext]_sendVars => RunsInv'
  BY RunsStep
<1>3. ASSUME SendInv, RunsInv PROVE RunsBoundedByRotations
  <2>1. /\ good \in Nat /\ printed \in Nat /\ printed <= good /\ okRuns \in Nat
        /\ minted # None => minted.value \in Nat /\ minted.value <= printed
    BY <1>3, Known DEF SendInv, LoopTypeOK, WorldInv
  <2> QED
    BY <1>3, <2>1 DEF RunsInv, RunsBoundedByRotations
<1> QED
  BY <1>1, <1>2, <1>3, SendInvariant, PTL DEF SendSpec
=============================================================================
