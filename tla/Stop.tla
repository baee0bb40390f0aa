-------------------------------- MODULE Stop --------------------------------
(***************************************************************************)
(* How the router stops: the accept loop and its connections               *)
(* (src/server/accept.rs), the grace period, the cut and the wait for      *)
(* records (Server::serve, src/server/mod.rs), and what the process does   *)
(* next (src/cli/serve.rs).  Each connection carries one request; the      *)
(* write of its record is queued when the request ends, however it ends.   *)
(***************************************************************************)
EXTENDS Settle

CONSTANTS
  Conns,           \* connections clients open
  MaxConnections   \* MAX_CONNECTIONS

ASSUME StopAssumption ==
  /\ Writes = Conns
  /\ MaxConnections \in Nat \ {0}

VARIABLES
  conn,      \* each connection
  loop,      \* the accept loop
  free,      \* permits left in slots
  stopping,  \* the watch channel that has connections close
  main,      \* where serve() and run() are
  cut,       \* AppState.cut
  restart,   \* AppState.restart
  signal,    \* SIGINT or SIGTERM: as delivered, and as the signal task passed it on
  \* History.
  late       \* whether a wait of AFTER_CUT ran out

stopVars == <<conn, loop, free, stopping, main, cut, restart, signal, late,
              settleVars>>
server == <<loop, free, stopping, main, cut, restart, signal, late>>
process == <<main, cut, restart, signal, late>>

Open == {c \in Conns : conn[c] \in {"idle", "busy", "done"}}
HoldsSlot == loop \in {"accept", "pause"}
Gone == main \in {"exited", "restarted"}
Requested(c) == conn[c] \in {"done", "closedAfter"}

StopTypeOK ==
  /\ SettleTypeOK
  /\ conn \in [Conns -> {"outside", "backlog", "refused", "idle", "busy", "done",
                         "closed", "closedAfter"}]
  /\ loop \in {"slot", "accept", "pause", "drain", "drained"}
  /\ free \in 0..MaxConnections
  /\ stopping \in {"no", "yes"}
  /\ main \in {"serving", "cutting", "settling", "returned", "exited", "restarted"}
  /\ cut \in {"no", "yes"} /\ restart \in {"no", "asked"}
  /\ signal \in {"none", "delivered", "seen"}
  /\ late \in {"no", "yes"}

StopInit ==
  /\ SettleInit
  /\ conn = [c \in Conns |-> "outside"]
  /\ loop = "slot" /\ free = MaxConnections
  /\ stopping = "no" /\ main = "serving" /\ cut = "no"
  /\ restart = "no" /\ signal = "none" /\ late = "no"

Become(c, s) == conn' = [conn EXCEPT ![c] = s]

-----------------------------------------------------------------------------
\* The accept loop: a slot first, then a connection, each wait beside the shutdown.

Connect(c) ==
  /\ conn[c] = "outside" /\ ~Gone
  /\ Become(c, IF loop \in {"drain", "drained"} THEN "refused" ELSE "backlog")
  /\ UNCHANGED <<server, settleVars>>

TakeSlot ==
  /\ loop = "slot" /\ free > 0 /\ ~Gone
  /\ loop' = "accept" /\ free' = free - 1
  /\ UNCHANGED <<conn, stopping, process, settleVars>>

Accept(c) ==
  /\ loop = "accept" /\ conn[c] = "backlog" /\ ~Gone
  /\ Become(c, "idle")
  /\ loop' = "slot"
  /\ UNCHANGED <<free, stopping, process, settleVars>>

\* A peer that gave up costs nothing; another error, out of descriptors say, a pause
\* during which the slot is kept and the shutdown not looked at.
AcceptFails ==
  /\ loop = "accept" /\ ~Gone
  /\ \/ loop' = "slot" /\ free' = free + 1
     \/ loop' = "pause" /\ UNCHANGED free
  /\ UNCHANGED <<conn, stopping, process, settleVars>>

PauseEnds ==
  /\ loop = "pause" /\ ~Gone
  /\ loop' = "slot" /\ free' = free + 1
  /\ UNCHANGED <<conn, stopping, process, settleVars>>

\* Either way a stop begins: a signal passed on, or a restart past its gate.
Shutdown == signal = "seen" \/ restart = "asked"

BreakOnAccept ==        \* a mutant: the wait for a slot ignores the shutdown
  /\ loop = "accept" /\ Shutdown /\ ~Gone
  /\ loop' = "drain"
  /\ free' = free + 1
  /\ stopping' = "yes"
  /\ conn' = [c \in Conns |-> IF conn[c] = "backlog" THEN "refused" ELSE conn[c]]
  /\ UNCHANGED <<process, settleVars>>

\* The loop breaks, the listener closes with what it had not accepted, and every
\* connection is told: no await in between.
Break ==
  /\ loop \in {"slot", "accept"} /\ Shutdown /\ ~Gone
  /\ loop' = "drain"
  /\ free' = IF HoldsSlot THEN free + 1 ELSE free
  /\ stopping' = "yes"
  /\ conn' = [c \in Conns |-> IF conn[c] = "backlog" THEN "refused" ELSE conn[c]]
  /\ UNCHANGED <<process, settleVars>>

\* open.closed(): every connection's marker is gone.
Drained ==
  /\ loop = "drain" /\ Open = {} /\ ~Gone
  /\ loop' = "drained"
  /\ UNCHANGED <<conn, free, stopping, process, settleVars>>

-----------------------------------------------------------------------------
\* A connection's task.

Request(c) ==
  /\ conn[c] = "idle" /\ ~Gone
  /\ Become(c, "busy")
  /\ UNCHANGED <<server, settleVars>>

\* The request ends: its response is whole, its client left, or the cut ended it.
\* Dropping the connection drops it too, before the slot and the marker.
RequestEnds(c) ==
  /\ conn[c] = "busy" /\ ~Gone
  /\ BeginWrite(c)
  /\ \/ Become(c, "done") /\ UNCHANGED free
     \/ Become(c, "closedAfter") /\ free' = free + 1
  /\ UNCHANGED <<loop, stopping, process, waiter, woken>>

\* The client closes it, its head deadline runs out, or the stop closes it.
Close(c) ==
  /\ conn[c] \in {"idle", "done"} /\ ~Gone
  /\ Become(c, IF conn[c] = "done" THEN "closedAfter" ELSE "closed")
  /\ free' = free + 1
  /\ UNCHANGED <<loop, stopping, process, settleVars>>

-----------------------------------------------------------------------------
\* Server::serve and run().

Deliver ==
  /\ signal = "none" /\ ~Gone
  /\ signal' = "delivered"
  /\ UNCHANGED <<conn, loop, free, stopping, main, cut, restart, late, settleVars>>

\* The task that awaits shutdown_signal passes it on.
PassOn ==
  /\ signal = "delivered" /\ ~Gone
  /\ signal' = "seen"
  /\ UNCHANGED <<conn, loop, free, stopping, main, cut, restart, late, settleVars>>

\* AppState::restart opened its gate (module Reload).
AskRestart ==
  /\ restart = "no" /\ ~Gone
  /\ restart' = "asked"
  /\ UNCHANGED <<conn, loop, free, stopping, main, cut, signal, late, settleVars>>

\* Past the grace period what is in flight is cut.
Deadline ==
  /\ main = "serving" /\ stopping = "yes"
  /\ main' = "cutting" /\ cut' = "yes"
  /\ UNCHANGED <<conn, loop, free, stopping, restart, signal, late, settleVars>>

SettleAtOnce ==         \* a mutant: the records are not waited for
  /\ main \in {"serving", "cutting"} /\ loop = "drained"
  /\ main' = "returned"
  /\ UNCHANGED <<conn, loop, free, stopping, cut, restart, signal, late, settleVars>>

DrainEnds ==
  /\ main \in {"serving", "cutting"} /\ loop = "drained"
  /\ main' = "settling"
  /\ CallSettled
  /\ UNCHANGED <<conn, loop, free, stopping, cut, restart, signal, late>>

DrainGivesUp ==
  /\ main = "cutting"
  /\ main' = "settling" /\ late' = "yes"
  /\ CallSettled
  /\ UNCHANGED <<conn, loop, free, stopping, cut, restart, signal>>

SettleEnds ==
  /\ main = "settling" /\ waiter = "returned"
  /\ main' = "returned"
  /\ UNCHANGED <<conn, loop, free, stopping, cut, restart, signal, late, settleVars>>

SettleGivesUp ==
  /\ main = "settling"
  /\ main' = "returned" /\ late' = "yes"
  /\ UNCHANGED <<conn, loop, free, stopping, cut, restart, signal, settleVars>>

\* start_again() replaces the process at once; otherwise run() returns.
Leave ==
  /\ main = "returned"
  /\ main' = IF restart = "asked" /\ signal # "seen" THEN "restarted" ELSE "exited"
  /\ UNCHANGED <<conn, loop, free, stopping, cut, restart, signal, late, settleVars>>

Write(c) ==
  /\ ~Gone /\ (EndWrite(c) \/ Notify(c))
  /\ UNCHANGED <<conn, server>>

SettledPolled ==
  /\ main = "settling" /\ SettledTurn
  /\ UNCHANGED <<conn, server>>

-----------------------------------------------------------------------------
LoopStep == TakeSlot \/ (\E c \in Conns : Accept(c)) \/ PauseEnds \/ Break \/ Drained
Timers == Deadline \/ DrainGivesUp \/ SettleGivesUp
MainStep == DrainEnds \/ SettleEnds \/ Leave \/ SettledPolled

StopNext ==
  \/ LoopStep \/ AcceptFails
  \/ \E c \in Conns : Connect(c) \/ Request(c) \/ RequestEnds(c) \/ Close(c) \/ Write(c)
  \/ Deliver \/ PassOn \/ AskRestart
  \/ Timers \/ MainStep

StopSpec == StopInit /\ [][StopNext]_stopVars

\* Timers run out, the signal's task is polled, and run() returns.  Accepts may keep
\* failing, but the loop's select! polls its branches in random order, so a shutdown that
\* stays ready while it is polled again and again is taken: strong fairness of Break.
\* Nothing makes a client read or close, a request end or a write finish: hyper polls no
\* body the client does not read, and the cut is seen only there.
FairStopSpec ==
  /\ StopSpec
  /\ WF_stopVars(PauseEnds) /\ SF_stopVars(Break) /\ WF_stopVars(PassOn)
  /\ WF_stopVars(Deadline) /\ WF_stopVars(DrainGivesUp) /\ WF_stopVars(SettleGivesUp)
  /\ WF_stopVars(Leave)

-----------------------------------------------------------------------------
\* A stop that ran out of no wait leaves nothing behind: every connection is closed
\* and the record of every request written.  mod.rs:131-137.
StoppedMeansRecorded ==
  main \in {"returned", "exited", "restarted"} /\ late = "no" =>
    /\ Open = {}
    /\ \A c \in Conns : Requested(c) => write[c] \in {"ending", "ended"}

\* No slot is lost to a failed accept, and none is lent twice: what is free, what the
\* loop holds and what connections hold are MAX_CONNECTIONS.  accept.rs:33-50.
SlotsConserved ==
  free + Cardinality(Open) + (IF HoldsSlot THEN 1 ELSE 0) = MaxConnections

\* A stop asked for ends the process, with every slot taken and accepts failing, though
\* requests, connections and writes may never end: each wait on them has a timer of its
\* own, the grace period and AFTER_CUT twice; mod.rs:32-34, 134-137.
StopEnds == (signal # "none" \/ restart = "asked") ~> Gone
=============================================================================
