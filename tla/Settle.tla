------------------------------- MODULE Settle -------------------------------
(***************************************************************************)
(* The count of queued writes and the wait for all of them to end          *)
(* (PendingWrite and settled() of src/private_fs.rs).  The count and the   *)
(* notification are two steps, on any thread; so are the waiter's          *)
(* registration and its look at the count.                                 *)
(***************************************************************************)
EXTENDS Integers, FiniteSets

CONSTANTS Writes    \* writes, each queued at most once

ASSUME WritesAssumption == IsFiniteSet(Writes)

VARIABLES
  write,      \* what became of each write
  count,      \* PENDING
  waiter,     \* where settled() is
  woken       \* whether its registration was notified

settleVars == <<write, count, waiter, woken>>

Queued == {w \in Writes : write[w] = "queued"}

SettleTypeOK ==
  /\ write \in [Writes -> {"none", "queued", "ending", "ended"}]
  /\ count = Cardinality(Queued)
  /\ waiter \in {"idle", "register", "check", "nonzero", "waiting", "returned"}
  /\ woken \in {"no", "yes"}

SettleInit ==
  /\ write = [w \in Writes |-> "none"]
  /\ count = 0
  /\ waiter = "idle" /\ woken = "no"

\* PendingWrite::begin, on the thread that queues the write.
BeginWrite(w) ==
  /\ write[w] = "none"
  /\ write' = [write EXCEPT ![w] = "queued"]
  /\ count' = count + 1

\* Drop for PendingWrite: the one that took the count to zero then notifies.
EndWrite(w) ==
  /\ write[w] = "queued"
  /\ write' = [write EXCEPT ![w] = IF count = 1 THEN "ending" ELSE "ended"]
  /\ count' = count - 1
  /\ UNCHANGED <<waiter, woken>>

\* notify_waiters() reaches whoever is registered by now, and nobody else.
Notify(w) ==
  /\ write[w] = "ending"
  /\ write' = [write EXCEPT ![w] = "ended"]
  /\ woken' = IF waiter \in {"check", "nonzero", "waiting"} THEN "yes" ELSE woken
  /\ UNCHANGED <<count, waiter>>

\* The turns of settled()'s loop.
CallSettled == waiter = "idle" /\ waiter' = "register" /\ UNCHANGED <<write, count, woken>>

Register ==
  /\ waiter = "register"
  /\ waiter' = "check" /\ woken' = "no"
  /\ UNCHANGED <<write, count>>

CheckCount ==
  /\ waiter = "check"
  /\ waiter' = IF count = 0 THEN "returned" ELSE "nonzero"
  /\ UNCHANGED <<write, count, woken>>

Await ==
  /\ waiter = "nonzero"
  /\ waiter' = "waiting"
  /\ UNCHANGED <<write, count, woken>>

Wake ==
  /\ waiter = "waiting" /\ woken = "yes"
  /\ waiter' = "register"
  /\ UNCHANGED <<write, count, woken>>

SettledTurn == Register \/ CheckCount \/ Await \/ Wake

-----------------------------------------------------------------------------
\* A stop that waits while nothing is queued any more has been notified, or is
\* about to be: the wake-up cannot fall between the look at the count and the wait.
\* private_fs.rs:36-41.
NoLostWakeup ==
  waiter \in {"nonzero", "waiting"} /\ count = 0 =>
    woken = "yes" \/ \E w \in Writes : write[w] = "ending"
=============================================================================
