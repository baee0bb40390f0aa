------------------------------- MODULE Reload -------------------------------
(***************************************************************************)
(* The configuration in force (AppState of src/server/state.rs): reloads   *)
(* by SIGHUP (src/cli/serve.rs) and by the console, the history they keep, *)
(* and the gate of a restart the console asked for.  A file is its version *)
(* number: every save makes a newer one.                                   *)
(***************************************************************************)
EXTENDS Integers, Sequences

CONSTANTS
  Calls,        \* console calls: /api/reload or /api/restart, one each
  Hangup,       \* the task that reloads on SIGHUP
  Nobody,
  Addrs,        \* listen addresses
  Listen,       \* the address this process listens on
  ListenIn,     \* server.listen of every version of the file
  Loadable,     \* the versions that load and validate
  MaxVersion,   \* bound on saves of the file
  HISTORY       \* RELOAD_HISTORY

Versions == 0..MaxVersion
Callers == Calls \cup {Hangup}

ASSUME ReloadAssumption ==
  /\ Nobody \notin Callers /\ Hangup \notin Calls
  /\ Listen \in Addrs /\ ListenIn \in [Versions -> Addrs] /\ ListenIn[0] = Listen
  /\ MaxVersion \in Nat /\ HISTORY \in Nat \ {0}
  /\ Loadable \subseteq Versions /\ 0 \in Loadable

VARIABLES
  file,       \* the file as saved last
  current,    \* AppState.current: the version the snapshot was built from
  reloads,    \* AppState.reloads, oldest first
  reloading,  \* who holds AppState.reloading
  hup,        \* a SIGHUP not yet received: further ones add nothing
  restart,    \* AppState.restart
  pc,         \* where each caller is
  trigger,    \* what each caller's reload was started by
  loaded,     \* the version each caller's reload read
  outcome,    \* ... and what became of it
  listen,     \* the address a restart's gate checks
  \* History.
  wanted,     \* the version saved when the last SIGHUP was sent
  read,       \* the newest version a SIGHUP's reload read
  tested,     \* addresses a gate could bind
  gate        \* the version and the address the last open gate let through

reloadVars ==
  <<file, current, reloads, reloading, hup, restart, pc, trigger, loaded, outcome, listen,
    wanted, read, tested, gate>>

Triggers == {"startup", "signal", "console", "restart"}
Outcomes == {"applied", "rejected"}
Events == [trigger : Triggers, result : Outcomes, version : Versions]
Stages == {"idle", "lock", "load", "apply", "record", "gate", "bind", "done", "refused"}

TypeOK ==
  /\ file \in Versions /\ current \in Versions
  /\ reloads \in Seq(Events) /\ Len(reloads) \in 1..HISTORY
  /\ reloading \in Callers \cup {Nobody}
  /\ hup \in {"none", "sent"} /\ restart \in {"no", "asked"}
  /\ pc \in [Callers -> Stages]
  /\ trigger \in [Callers -> Triggers]
  /\ loaded \in [Callers -> Versions] /\ outcome \in [Callers -> Outcomes]
  /\ listen \in [Callers -> Addrs]
  /\ wanted \in Versions /\ read \in Versions
  /\ tested \in SUBSET Addrs
  /\ gate \in [version : Versions, listen : Addrs]

ReloadInit ==
  /\ file = 0 /\ current = 0
  /\ reloads = <<[trigger |-> "startup", result |-> "applied", version |-> 0]>>
  /\ reloading = Nobody
  /\ hup = "none" /\ restart = "no"
  /\ pc = [c \in Callers |-> "idle"]
  /\ trigger = [c \in Callers |-> IF c = Hangup THEN "signal" ELSE "console"]
  /\ loaded = [c \in Callers |-> 0] /\ outcome = [c \in Callers |-> "applied"]
  /\ listen = [c \in Callers |-> Listen]
  /\ wanted = 0 /\ read = 0
  /\ tested = {} /\ gate = [version |-> 0, listen |-> Listen]

history == <<wanted, read, tested, gate>>
Goto(c, s) == pc' = [pc EXCEPT ![c] = s]

-----------------------------------------------------------------------------
\* The operator's side: saving the file, and sending SIGHUP.

Save ==
  /\ file < MaxVersion
  /\ file' = file + 1
  /\ UNCHANGED <<current, reloads, reloading, hup, restart, pc, trigger, loaded,
                 outcome, listen, history>>

SignalUnheard ==        \* a mutant: nothing listens while a reload runs
  /\ hup' = (IF pc[Hangup] = "idle" THEN "sent" ELSE hup) /\ wanted' = file
  /\ UNCHANGED <<file, current, reloads, reloading, restart, pc, trigger, loaded,
                 outcome, listen, read, tested, gate>>

Signal ==
  /\ hup' = "sent" /\ wanted' = file
  /\ UNCHANGED <<file, current, reloads, reloading, restart, pc, trigger, loaded,
                 outcome, listen, read, tested, gate>>

-----------------------------------------------------------------------------
\* What starts a reload.

\* reload_on_hangup: the signal is taken before the reload runs.
Receive ==
  /\ pc[Hangup] = "idle" /\ hup = "sent"
  /\ hup' = "none"
  /\ Goto(Hangup, "lock")
  /\ UNCHANGED <<file, current, reloads, reloading, restart, trigger, loaded,
                 outcome, listen, history>>

\* POST /api/reload and POST /api/restart.
Ask(c) ==
  /\ c # Hangup /\ pc[c] = "idle"
  /\ \E t \in {"console", "restart"} : trigger' = [trigger EXCEPT ![c] = t]
  /\ Goto(c, "lock")
  /\ UNCHANGED <<file, current, reloads, reloading, hup, restart, loaded, outcome,
                 listen, wanted, read, tested, gate>>

-----------------------------------------------------------------------------
\* AppState::reload, under the reloading lock from its first line to its last.

Lock(c) ==
  /\ pc[c] = "lock" /\ reloading = Nobody
  /\ reloading' = c
  /\ Goto(c, "load")
  /\ UNCHANGED <<file, current, reloads, hup, restart, trigger, loaded, outcome,
                 listen, history>>

\* load(): the file as it is now.
Load(c) ==
  /\ pc[c] = "load"
  /\ loaded' = [loaded EXCEPT ![c] = file]
  /\ outcome' = [outcome EXCEPT ![c] = IF file \in Loadable THEN "applied" ELSE "rejected"]
  /\ Goto(c, IF file \in Loadable THEN "apply" ELSE "record")
  /\ read' = IF c = Hangup THEN file ELSE read
  /\ UNCHANGED <<file, current, reloads, reloading, hup, restart, trigger, listen,
                 wanted, tested, gate>>

\* Snapshot::from_config failed: a credential, a proxy or a directory.
NotBuilt(c) == outcome' = [outcome EXCEPT ![c] = "rejected"] /\ UNCHANGED current

\* apply(): the snapshot is built whole before it takes the old one's place; one
\* that cannot be built changes nothing.
Apply(c) ==
  /\ pc[c] = "apply"
  /\ \/ current' = loaded[c] /\ UNCHANGED outcome
     \/ NotBuilt(c)
  /\ Goto(c, "record")
  /\ UNCHANGED <<file, reloads, reloading, hup, restart, trigger, loaded, listen, history>>

Push(h, e) == IF Len(h) = HISTORY THEN Append(Tail(h), e) ELSE Append(h, e)

EventOf(c) == [trigger |-> trigger[c], result |-> outcome[c], version |-> loaded[c]]

AfterReload(c) ==
  CASE c = Hangup -> "idle"
    [] c # Hangup /\ trigger[c] # "restart" -> "done"
    [] c # Hangup /\ trigger[c] = "restart" ->
         IF outcome[c] = "applied" THEN "gate" ELSE "refused"

RecordApplied(c) ==     \* a mutant: a rejected reload is recorded as applied
  /\ pc[c] = "record"
  /\ reloads' = Push(reloads, [EventOf(c) EXCEPT !.result = "applied"])
  /\ reloading' = Nobody
  /\ Goto(c, AfterReload(c))
  /\ UNCHANGED <<file, current, hup, restart, trigger, loaded, outcome, listen, history>>

Record(c) ==
  /\ pc[c] = "record"
  /\ reloads' = Push(reloads, EventOf(c))
  /\ reloading' = Nobody
  /\ Goto(c, AfterReload(c))
  /\ UNCHANGED <<file, current, hup, restart, trigger, loaded, outcome, listen, history>>

-----------------------------------------------------------------------------
\* AppState::restart, past its reload: the lock is no longer held.

Open(c, address) ==
  /\ restart' = "asked"
  /\ gate' = [version |-> loaded[c], listen |-> address]
  /\ Goto(c, "done")

\* The address is read once, from whatever snapshot is current by now.
GateUntested(c) ==      \* a mutant: a new address is not tried
  /\ pc[c] = "gate"
  /\ Open(c, ListenIn[current])
  /\ UNCHANGED <<file, current, reloads, reloading, hup, trigger, loaded, outcome,
                 listen, wanted, read, tested>>

Gate(c) ==
  /\ pc[c] = "gate"
  /\ listen' = [listen EXCEPT ![c] = ListenIn[current]]
  /\ IF ListenIn[current] = Listen
     THEN Open(c, ListenIn[current])
     ELSE Goto(c, "bind") /\ UNCHANGED <<restart, gate>>
  /\ UNCHANGED <<file, current, reloads, reloading, hup, trigger, loaded, outcome,
                 wanted, read, tested>>

\* The test socket is bound and closed again, or the address is taken.
Bind(c) ==
  /\ pc[c] = "bind"
  /\ \/ Open(c, listen[c]) /\ tested' = tested \cup {listen[c]}
     \/ Goto(c, "refused") /\ UNCHANGED <<restart, gate, tested>>
  /\ UNCHANGED <<file, current, reloads, reloading, hup, trigger, loaded, outcome,
                 listen, wanted, read>>

-----------------------------------------------------------------------------
Step(c) ==
  \/ Lock(c) \/ Load(c) \/ Apply(c) \/ Record(c) \/ Gate(c) \/ Bind(c)

ReloadNext ==
  \/ Save \/ Signal \/ Receive
  \/ \E c \in Callers : Ask(c) \/ Step(c)

ReloadSpec == ReloadInit /\ [][ReloadNext]_reloadVars

\* The signal task and every blocking call keep running; the mutex is granted in
\* the end, for only finitely many calls compete for it.
Fair ==
  /\ WF_reloadVars(Receive)
  /\ \A c \in Callers : WF_reloadVars(Step(c))

FairReloadSpec == ReloadSpec /\ Fair

-----------------------------------------------------------------------------
\* Two reloads (a SIGHUP and the console) cannot interleave and leave the older
\* file in force: state.rs:152.
NeverOlder == [][current' >= current]_reloadVars

InOrder(h) ==
  \A i, j \in 1..Len(h) :
    i < j /\ h[i].result = "applied" /\ h[j].result = "applied"
      => h[i].version <= h[j].version

LastAppliedIs(h, v) ==
  \A i \in 1..Len(h) :
    /\ h[i].result = "applied"
    /\ \A j \in 1..Len(h) : j > i => h[j].result = "rejected"
    => h[i].version = v

\* The console's history lists reloads in the order their files took effect, and
\* the newest applied one tells the configuration in force: state.rs:143-145, 285-292.
HistoryTellsCurrent ==
  /\ InOrder(reloads)
  /\ reloading = Nobody => LastAppliedIs(reloads, current)

\* A restart goes ahead only with a file that passed its gate: unless the file was
\* saved again since, it loads, and its address is this process's own or could be
\* bound: state.rs:208-228.
RestartGated ==
  restart = "asked" /\ file = gate.version =>
    /\ file \in Loadable
    /\ gate.listen = ListenIn[file]
    /\ gate.listen = Listen \/ gate.listen \in tested

\* A save followed by a SIGHUP is read, however many signals and reloads are under
\* way: serve.rs:122-134.
SignalTakesEffect == \A v \in Versions : wanted = v ~> read >= v
=============================================================================
