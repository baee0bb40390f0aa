------------------------------ MODULE Credential ------------------------------
(***************************************************************************)
(* The cache of a `command` credential (src/credential/command.rs): one    *)
(* value, acquired by running a helper command, shared by every request    *)
(* of a backend.  The cache sits behind an asynchronous mutex that a       *)
(* caller holds across a whole run, so callers queue while a run lasts;    *)
(* the mutex hands itself over in arrival order.  A caller may be dropped  *)
(* at any await, and time may pass at any moment.                          *)
(***************************************************************************)
EXTENDS Integers, Sequences

CONSTANTS
  Clients,      \* callers: request handlers, the console's live catalog
  Secrets,      \* values the helper may print
  Lifetimes,    \* remaining lifetimes a run may report; None: no expiry
  Refresh,      \* the configured refresh interval
  Margin,       \* EXPIRY_MARGIN
  RetryAfter,   \* RETRY_AFTER_FAILURE
  MaxNow,       \* bound on the clock
  None

Min2(a, b) == IF a < b THEN a ELSE b
Max2(a, b) == IF a < b THEN b ELSE a

CachedRec  == [value: Secrets, validUntil: Nat, usableUntil: Nat \cup {None}]
CurrentRec == [value: Secrets, refreshAt: Nat]
StampedRec == [value: Secrets, at: Nat]
MintedRec  == [value: Secrets, at: Nat, expires: Nat \cup {None}]
RunRec     == [end: {"ok", "failed"}, at: Nat]
ClearedRec == [value: Secrets, first: Nat \cup {None}]

ASSUME CredentialAssumption ==
  /\ Refresh \in Nat \ {0} /\ Margin \in Nat /\ RetryAfter \in Nat \ {0}
  /\ Lifetimes \subseteq Nat \cup {None}
  /\ MaxNow \in Nat
  /\ None \notin Clients /\ None \notin Secrets /\ None \notin Nat
  /\ None \notin CachedRec /\ None \notin CurrentRec /\ None \notin StampedRec
  /\ None \notin MintedRec /\ None \notin RunRec /\ None \notin ClearedRec

VARIABLES
  now,          \* the monotonic clock
  queue,        \* the mutex: its head holds it, the others wait in order
  pc,           \* where each caller is
  arrived,      \* the stamp credential() takes before it asks for the mutex
  got,          \* the value the caller's last call returned, None: an error
  cached, failed, invalidated, reproduced,   \* Slot
  current       \* Observed.current, what status() shows

slot == <<cached, failed, invalidated, reproduced>>

\* History, read by the properties only.
VARIABLES
  minted,       \* the latest run that succeeded: its value, end and expiry
  lastRun,      \* the latest run that ended
  rejects,      \* time of a value's latest rejection no run has answered since
  handedBack,   \* last time a run printed a value while it stood rejected
  sharing,      \* callers that were queued when the latest failed run ended
  cleared       \* the latest value a rejection cleared and when a run first
                \* printed it again; None once a run printed another

history == <<minted, lastRun, rejects, handedBack, sharing, cleared>>
vars == <<now, queue, pc, arrived, got, slot, current, history>>

TypeOK ==
  /\ now \in Nat
  /\ queue \in Seq(Clients)
  /\ pc \in [Clients -> {"idle", "stamped", "waiting", "running", "rejecting"}]
  /\ arrived \in [Clients -> Nat]
  /\ got \in [Clients -> Secrets \cup {None}]
  /\ cached \in CachedRec \cup {None}
  /\ failed \in Nat \cup {None}
  /\ invalidated \in Secrets \cup {None}
  /\ reproduced \in StampedRec \cup {None}
  /\ current \in CurrentRec \cup {None}
  /\ minted \in MintedRec \cup {None}
  /\ lastRun \in RunRec \cup {None}
  /\ rejects \in [Secrets -> Nat \cup {None}]
  /\ handedBack \in [Secrets -> Nat \cup {None}]
  /\ sharing \in SUBSET Clients
  /\ cleared \in ClearedRec \cup {None}

Init ==
  /\ now = 0
  /\ queue = <<>>
  /\ pc = [c \in Clients |-> "idle"]
  /\ arrived = [c \in Clients |-> 0]
  /\ got = [c \in Clients |-> None]
  /\ cached = None /\ failed = None /\ invalidated = None /\ reproduced = None
  /\ current = None
  /\ minted = None /\ lastRun = None /\ cleared = None
  /\ rejects = [v \in Secrets |-> None]
  /\ handedBack = [v \in Secrets |-> None]
  /\ sharing = {}

-----------------------------------------------------------------------------
(* The mutex.                                                              *)

Holds(c) == queue # <<>> /\ queue[1] = c
Queued(c) == \E i \in 1..Len(queue) : queue[i] = c
Lock(c) == queue' = Append(queue, c)
Unlock == queue' = Tail(queue)

\* Faulty: a dropped caller keeps its place, and the mutex with it.
StayQueued(c) == Queued(c) /\ UNCHANGED queue

\* A waiter whose future is dropped leaves the queue; the others keep order.
Leave(c) ==
  \E i \in 1..Len(queue) :
    /\ queue[i] = c
    /\ queue' = [j \in 1..(Len(queue) - 1) |->
                   IF j < i THEN queue[j] ELSE queue[j + 1]]

-----------------------------------------------------------------------------
(* Slot.                                                                   *)

Valid == cached # None /\ now < cached.validUntil

\* Faulty: the expiry of a value kept through a failed run is forgotten.
FallbackForever == cached # None /\ cached.usableUntil # None

\* Slot::fallback at the present moment.
Fallback == cached # None /\ cached.usableUntil # None /\ now < cached.usableUntil

\* Faulty: a run that ended the instant the caller came is not waited for.
WaitedStrictly(c) == failed # None /\ failed > arrived[c]
Waited(c) == failed # None /\ failed >= arrived[c]
FailedLately == failed # None /\ now < failed + RetryAfter

\* A reported lifetime less the margin.
Rest(life) == Max2(life - Margin, 0)

\* exec::valid_for and the fields fetch() derives from one run.
Fetched(v, life) ==
  IF life = None
  THEN [value |-> v, validUntil |-> now + Refresh, usableUntil |-> None]
  ELSE [value |-> v, validUntil |-> now + Min2(Refresh, Rest(life)),
        usableUntil |-> now + Rest(life)]

Answer(c, outcome) ==
  /\ Unlock
  /\ pc' = [pc EXCEPT ![c] = "idle"]
  /\ got' = [got EXCEPT ![c] = outcome]
  /\ arrived' = [arrived EXCEPT ![c] = 0]
  /\ UNCHANGED now

-----------------------------------------------------------------------------
(* credential()                                                            *)

Arrive(c) ==
  /\ pc[c] = "idle"
  /\ pc' = [pc EXCEPT ![c] = "stamped"]
  /\ arrived' = [arrived EXCEPT ![c] = now]
  /\ got' = [got EXCEPT ![c] = None]
  /\ UNCHANGED <<now, queue, slot, current, history>>

Enqueue(c) ==
  /\ pc[c] = "stamped"
  /\ Lock(c)
  /\ pc' = [pc EXCEPT ![c] = "waiting"]
  /\ UNCHANGED <<now, arrived, got, slot, current, history>>

ServeCached(c) ==
  /\ pc[c] = "waiting" /\ Holds(c)
  /\ Valid
  /\ Answer(c, cached.value)
  /\ sharing' = sharing \ {c}
  /\ UNCHANGED <<slot, current, minted, lastRun, rejects, handedBack, cleared>>

ServeFallback(c) ==
  /\ pc[c] = "waiting" /\ Holds(c)
  /\ ~Valid
  /\ Waited(c) \/ FailedLately
  /\ Fallback
  /\ Answer(c, cached.value)
  /\ sharing' = sharing \ {c}
  /\ UNCHANGED <<slot, current, minted, lastRun, rejects, handedBack, cleared>>

ShareFailure(c) ==
  /\ pc[c] = "waiting" /\ Holds(c)
  /\ ~Valid
  /\ Waited(c)
  /\ ~Fallback
  /\ Answer(c, None)
  /\ sharing' = sharing \ {c}
  /\ UNCHANGED <<slot, current, minted, lastRun, rejects, handedBack, cleared>>

StartRun(c) ==
  /\ pc[c] = "waiting" /\ Holds(c)
  /\ ~Valid
  /\ ~(FailedLately /\ Fallback)
  /\ ~Waited(c)
  /\ pc' = [pc EXCEPT ![c] = "running"]
  /\ UNCHANGED <<now, queue, arrived, got, slot, current, history>>

RunSucceeds(c, v, life) ==
  /\ pc[c] = "running" /\ Holds(c)
  /\ cached' = Fetched(v, life)
  /\ failed' = None
  /\ invalidated' = None
  /\ reproduced' = IF invalidated = v THEN [value |-> v, at |-> now]
                                      ELSE reproduced
  /\ current' = [value |-> v, refreshAt |-> Fetched(v, life).validUntil]
  /\ Answer(c, v)
  /\ minted' = [value |-> v, at |-> now,
                expires |-> IF life = None THEN None ELSE now + life]
  /\ lastRun' = [end |-> "ok", at |-> now]
  /\ rejects' = [rejects EXCEPT ![v] = None]
  /\ handedBack' = [handedBack EXCEPT ![v] = IF rejects[v] # None THEN now ELSE @]
  /\ cleared' = IF cleared = None \/ cleared.value # v THEN None
                ELSE [value |-> v,
                      first |-> IF cleared.first = None THEN now ELSE cleared.first]
  /\ UNCHANGED sharing

\* Faulty: a failed run hides the value still being served.
HiddenAfterFailure == None

\* Observed.current once a run has failed.
ShownAfterFailure ==
  IF Fallback /\ current # None
  THEN [value |-> current.value, refreshAt |-> now + RetryAfter]
  ELSE None

\* Every error of fetch(): the command cannot start, times out, fails, prints
\* nothing usable, or reports an expiry already past.
RunFails(c) ==
  /\ pc[c] = "running" /\ Holds(c)
  /\ failed' = now
  /\ Answer(c, IF Fallback THEN cached.value ELSE None)
  /\ current' = ShownAfterFailure
  /\ lastRun' = [end |-> "failed", at |-> now]
  /\ sharing' = {d \in Clients : d # c /\ Queued(d) /\ pc[d] = "waiting"}
  /\ UNCHANGED <<cached, invalidated, reproduced, minted, rejects, handedBack, cleared>>

-----------------------------------------------------------------------------
(* invalidate(), called with the value the caller's request carried.       *)

Reject(c) ==
  /\ pc[c] = "idle" /\ got[c] # None
  /\ Lock(c)
  /\ pc' = [pc EXCEPT ![c] = "rejecting"]
  /\ UNCHANGED <<now, arrived, got, slot, current, history>>

\* Faulty: a value the helper reproduced is shielded for good.
ReproducedForever(v) == reproduced # None /\ reproduced.value = v

Reproduced(v) ==
  reproduced # None /\ reproduced.value = v /\ now < reproduced.at + RetryAfter

\* Faulty: a late rejection clears the value that replaced the rejected one,
\* or a rejection clears nothing.
ClearsAny(v) == ~Reproduced(v) /\ cached # None
ClearsNone(v) == FALSE

Clears(v) == ~Reproduced(v) /\ cached # None /\ cached.value = v

Invalidate(c) ==
  /\ pc[c] = "rejecting" /\ Holds(c)
  /\ IF Clears(got[c])
     THEN /\ cached' = None
          /\ invalidated' = got[c]
          /\ current' = None
          /\ cleared' = [value |-> got[c], first |-> None]
     ELSE UNCHANGED <<cached, invalidated, current, cleared>>
  /\ rejects' = [rejects EXCEPT ![got[c]] = now]
  /\ Answer(c, None)
  /\ UNCHANGED <<failed, reproduced, minted, lastRun, handedBack, sharing>>

-----------------------------------------------------------------------------

\* The caller's future is dropped at an await: while it queues, or while its
\* run lasts, which kills the command and frees the mutex.
Cancel(c) ==
  /\ pc[c] \in {"waiting", "running", "rejecting"}
  /\ Leave(c)
  /\ pc' = [pc EXCEPT ![c] = "idle"]
  /\ got' = [got EXCEPT ![c] = None]
  /\ arrived' = [arrived EXCEPT ![c] = 0]
  /\ sharing' = sharing \ {c}
  /\ UNCHANGED <<now, slot, current, minted, lastRun, rejects,
                 handedBack, cleared>>

Tick ==
  /\ now < MaxNow
  /\ now' = now + 1
  /\ UNCHANGED <<queue, pc, arrived, got, slot, current, history>>

Serve(c) == ServeCached(c) \/ ServeFallback(c) \/ ShareFailure(c) \/ StartRun(c)
EndRun(c) == RunFails(c) \/ \E v \in Secrets, life \in Lifetimes : RunSucceeds(c, v, life)

Next ==
  \/ \E c \in Clients :
       \/ Arrive(c) \/ Enqueue(c) \/ ServeCached(c) \/ ServeFallback(c)
       \/ ShareFailure(c) \/ StartRun(c) \/ RunFails(c)
       \/ \E v \in Secrets, life \in Lifetimes : RunSucceeds(c, v, life)
       \/ Reject(c) \/ Invalidate(c) \/ Cancel(c)
  \/ Tick

Spec == Init /\ [][Next]_vars

-----------------------------------------------------------------------------
(* Properties.                                                             *)

\* credential() gives caller c a value in this step.
Handed(c) == pc[c] \in {"waiting", "running"} /\ pc'[c] = "idle" /\ got'[c] # None

\* The latest value's reported expiry is further away than the margin.
FarFromExpiry == minted.expires # None /\ now + Margin < minted.expires

\* Nothing has been rejected out of the cache since the latest value came in.
Standing == cleared = None \/ cleared.first # None

\* Only the value of the latest successful run is ever handed out: by the run
\* itself; within the refresh interval and outside the expiry margin; or, past
\* the interval, while runs fail and the reported expiry is still far, to a
\* caller that waited for the failure or came within RetryAfter of it
\* (credential(), Slot::fallback, exec::valid_for; ADR-0015).
ServedInTime ==
  [][\A c \in Clients : Handed(c) =>
       /\ minted' # None /\ got'[c] = minted'.value
       /\ \/ pc[c] = "running" /\ lastRun'.end = "ok"
          \/ /\ minted.expires = None \/ FarFromExpiry
             /\ now < minted.at + Refresh
          \/ /\ FarFromExpiry
             /\ lastRun' # None /\ lastRun'.end = "failed"
             /\ lastRun'.at >= arrived[c] \/ now < lastRun'.at + RetryAfter]_vars

\* A value some request saw rejected is handed out again only after a run
\* printed it once more; it may outlive a further rejection only when a run
\* had already handed it back less than RetryAfter before (invalidate() and
\* Slot.reproduced).
RejectedNotServed ==
  [][\A c \in Clients : Handed(c) =>
       LET v == got'[c]
       IN  \/ rejects'[v] = None
           \/ /\ handedBack'[v] # None
              /\ rejects'[v] < handedBack'[v] + RetryAfter]_vars

\* Requests rejected with one value refresh it once: when every run since the
\* rejection printed that value again, further rejections leave it cached for
\* RetryAfter (Slot.reproduced).
RejectedTogetherRefreshOnce ==
  [][cached # None /\ cached' = None /\ cleared # None
       /\ cleared.value = cached.value /\ cleared.first # None
     => now >= cleared.first + RetryAfter]_vars

\* A caller that was queued when a run failed gets that run's outcome and
\* never runs the command itself, however many waited (the comment on
\* credential()).  It needs the mutex's order: nobody behind can succeed first.
WaitersShareFailure ==
  [][\A c \in sharing : pc'[c] # "running"]_vars

\* While a value outlives a failed run, the command runs at most once every
\* RetryAfter, and never while a value is fresh (ADR-0015).
RunsAreSpaced ==
  [][\A c \in Clients :
       pc[c] = "waiting" /\ pc'[c] = "running" /\ minted # None /\ Standing =>
         /\ now >= minted.at + Refresh \/ (minted.expires # None /\ ~FarFromExpiry)
         /\ lastRun.end = "failed" /\ FarFromExpiry => now >= lastRun.at + RetryAfter]_vars

\* Servable: a caller that comes now and finds the mutex free gets the cached
\* value without a run.
Servable == Valid \/ (FailedLately /\ Fallback)

\* Status output never hides a value that requests are being given, and never
\* shows another one than is cached (Observed is kept apart from Slot and must
\* follow it through refreshes, failures and rejections).
StatusShowsServed ==
  /\ Servable => current # None
  /\ current # None => cached # None /\ current.value = cached.value

-----------------------------------------------------------------------------
(* The inductive invariant behind the properties above.                    *)

\* The mutex: a caller is in the queue once, exactly while it is inside a call
\* that has asked for it, and only its holder runs the command.
QueueInv ==
  /\ \A i, j \in 1..Len(queue) : queue[i] = queue[j] => i = j
  /\ \A c \in Clients : Queued(c) <=> pc[c] \in {"waiting", "running", "rejecting"}
  /\ \A c \in Clients : pc[c] = "running" => Holds(c) /\ ~Valid
  /\ \A c \in Clients : pc[c] = "rejecting" => got[c] # None

\* The cached value is the latest run's, under the deadlines its report gave.
CacheInv ==
  cached # None =>
    /\ minted # None /\ minted.value = cached.value /\ minted.at <= now
    /\ minted.expires = None =>
         cached.validUntil = minted.at + Refresh /\ cached.usableUntil = None
    /\ minted.expires # None =>
         /\ minted.expires >= minted.at
         /\ cached.usableUntil = minted.at + Rest(minted.expires - minted.at)
         /\ cached.validUntil = minted.at + Min2(Refresh, Rest(minted.expires - minted.at))

\* Slot.failed is set exactly while the latest run is a failed one.
FailedInv ==
  /\ failed # None => lastRun # None /\ lastRun.end = "failed" /\ lastRun.at = failed
  /\ failed = None => lastRun = None \/ lastRun.end = "ok"
  /\ minted # None => lastRun # None

\* Where a cached value stands towards the rejections of it.
RejectedInv ==
  /\ cached # None /\ rejects[cached.value] # None =>
       /\ handedBack[cached.value] # None
       /\ rejects[cached.value] < handedBack[cached.value] + RetryAfter
  /\ reproduced # None =>
       /\ handedBack[reproduced.value] # None
       /\ handedBack[reproduced.value] >= reproduced.at
  /\ invalidated # None => rejects[invalidated] # None
  /\ \A v \in Secrets : handedBack[v] # None => handedBack[v] <= now

\* The value last cleared, and what shields it once a run printed it again.
ClearedInv ==
  /\ minted # None /\ cached = None => cleared # None /\ cleared.first = None
  /\ invalidated # None => cleared # None /\ cleared.first = None
  /\ cleared # None /\ cleared.first = None =>
       cached = None /\ invalidated = cleared.value
  /\ cleared # None /\ cleared.first # None =>
       reproduced = [value |-> cleared.value, at |-> cleared.first]

\* Status output follows the slot.
ShownInv ==
  /\ Valid \/ Fallback => current # None
  /\ current # None => cached # None /\ current.value = cached.value

\* Callers queued behind a failed run stay ahead of everyone who came later.
SharingInv ==
  /\ \A c \in sharing : pc[c] = "waiting" /\ Waited(c)
  /\ \A i, j \in 1..Len(queue) :
       i < j /\ queue[j] \in sharing => queue[i] \in sharing \/ pc[queue[i]] = "rejecting"
  /\ \A c \in Clients : arrived[c] <= now

Inv == QueueInv /\ CacheInv /\ FailedInv /\ RejectedInv /\ ClearedInv /\ ShownInv /\ SharingInv
=============================================================================
