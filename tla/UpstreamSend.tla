----------------------------- MODULE UpstreamSend -----------------------------
(***************************************************************************)
(* UpstreamClient::send (src/upstream/client.rs) of several requests to    *)
(* one backend, over the credential cache they share.  Each request loops: *)
(* acquire the credential, send one attempt, then return, retry after a    *)
(* backoff, or, once, hand a rejected credential back and send again.      *)
(*                                                                         *)
(* The backend accepts one secret at a time; a rotation replaces it by a   *)
(* new one.  Secrets are numbered by the rotation that made them good.     *)
(* The helper prints the accepted secret, or trails the backend and still  *)
(* prints an older one.                                                    *)
(***************************************************************************)
EXTENDS Credential

CONSTANTS
  MaxRetries,      \* upstream.retries
  MaxRotations     \* bound on rotations of the accepted secret

ASSUME SendAssumption ==
  /\ MaxRetries \in Nat /\ MaxRotations \in Nat
  /\ Secrets = 0..MaxRotations

VARIABLES
  stage,        \* where each request's loop is
  failures,     \* of the retry budget
  refreshed,    \* credential_refreshed
  good,         \* the secret the backend accepts
  printed,      \* the secret the helper prints
  \* History.
  attempts,     \* requests put on the wire
  goodAtStart,  \* the accepted secret when the request came
  okRuns,       \* helper runs that ended well
  lagged        \* whether the helper ever trailed the backend

loop == <<stage, failures, refreshed, attempts, goodAtStart>>
world == <<good, printed, lagged>>
sendVars == <<vars, loop, world, okRuns>>

Stages == {"new", "start", "acquiring", "sent", "invalidating", "backoff",
           "answered", "rejected", "timedout", "transport", "nocredential", "gone"}
Ended == {"answered", "rejected", "timedout", "transport", "nocredential", "gone"}

SendTypeOK ==
  /\ TypeOK
  /\ stage \in [Clients -> Stages]
  /\ failures \in [Clients -> 0..MaxRetries]
  /\ refreshed \in [Clients -> BOOLEAN]
  /\ good \in Secrets /\ printed \in 0..good
  /\ attempts \in [Clients -> Nat]
  /\ goodAtStart \in [Clients -> Secrets]
  /\ okRuns \in Nat
  /\ lagged \in {"no", "yes"}

SendInit ==
  /\ Init
  /\ stage = [c \in Clients |-> "new"]
  /\ failures = [c \in Clients |-> 0]
  /\ refreshed = [c \in Clients |-> FALSE]
  /\ good = 0 /\ printed = 0
  /\ attempts = [c \in Clients |-> 0]
  /\ goodAtStart = [c \in Clients |-> 0]
  /\ okRuns = 0
  /\ lagged = "no"

Goto(c, s) == stage' = [stage EXCEPT ![c] = s]

Begin(c) ==
  /\ stage[c] = "new"
  /\ Goto(c, "start")
  /\ goodAtStart' = [goodAtStart EXCEPT ![c] = good]
  /\ UNCHANGED <<vars, failures, refreshed, attempts, world, okRuns>>

Acquire(c) ==
  /\ stage[c] = "start"
  /\ Arrive(c)
  /\ Goto(c, "acquiring")
  /\ UNCHANGED <<failures, refreshed, attempts, goodAtStart, world, okRuns>>

SendAttempt(c) ==
  /\ stage[c] = "acquiring" /\ pc[c] = "idle" /\ got[c] # None
  /\ Goto(c, "sent")
  /\ attempts' = [attempts EXCEPT ![c] = @ + 1]
  /\ UNCHANGED <<vars, failures, refreshed, goodAtStart, world, okRuns>>

CredentialError(c) ==
  /\ stage[c] = "acquiring" /\ pc[c] = "idle" /\ got[c] = None
  /\ Goto(c, "nocredential")
  /\ UNCHANGED <<vars, failures, refreshed, attempts, goodAtStart, world, okRuns>>

\* RetryPolicy::next for the failure that just happened.
RetryOr(c, retryable, giveUp) ==
  IF retryable /\ failures[c] + 1 <= MaxRetries
  THEN Goto(c, "backoff") /\ failures' = [failures EXCEPT ![c] = @ + 1]
  ELSE Goto(c, giveUp) /\ UNCHANGED failures

MayRefresh(c) == ~refreshed[c]

\* 401 or 403: the backend does not accept the secret the attempt carried.
\* upstream.retry_on_status may list either, both or none.
Unauthorized(c) ==
  /\ stage[c] = "sent" /\ got[c] # good
  /\ IF MayRefresh(c)
     THEN /\ Reject(c)
          /\ Goto(c, "invalidating")
          /\ UNCHANGED failures
     ELSE /\ \E listed \in BOOLEAN : RetryOr(c, listed, "rejected")
          /\ UNCHANGED vars
  /\ UNCHANGED <<refreshed, attempts, goodAtStart, world, okRuns>>

Invalidated(c) ==
  /\ stage[c] = "invalidating" /\ pc[c] = "idle"
  /\ Goto(c, "start")
  /\ refreshed' = [refreshed EXCEPT ![c] = TRUE]
  /\ UNCHANGED <<vars, failures, attempts, goodAtStart, world, okRuns>>

Responds(c) ==
  /\ stage[c] = "sent" /\ got[c] = good
  /\ Goto(c, "answered")
  /\ UNCHANGED <<vars, failures, refreshed, attempts, goodAtStart, world, okRuns>>

\* A status upstream.retry_on_status lists, returned as is at the last retry.
Unavailable(c) ==
  /\ stage[c] = "sent"
  /\ RetryOr(c, TRUE, "answered")
  /\ UNCHANGED <<vars, refreshed, attempts, goodAtStart, world, okRuns>>

\* is_connection_failure: the backend cannot have begun to answer.
ConnectionFails(c) ==
  /\ stage[c] = "sent"
  /\ RetryOr(c, TRUE, "transport")
  /\ UNCHANGED <<vars, refreshed, attempts, goodAtStart, world, okRuns>>

\* Any other transport error: the backend may have acted on the request.
ConnectionBreaks(c) ==
  /\ stage[c] = "sent"
  /\ RetryOr(c, FALSE, "transport")
  /\ UNCHANGED <<vars, refreshed, attempts, goodAtStart, world, okRuns>>

TimesOut(c) ==
  /\ stage[c] = "sent"
  /\ Goto(c, "timedout")
  /\ UNCHANGED <<vars, failures, refreshed, attempts, goodAtStart, world, okRuns>>

BackoffEnds(c) ==
  /\ stage[c] = "backoff"
  /\ Goto(c, "start")
  /\ UNCHANGED <<vars, failures, refreshed, attempts, goodAtStart, world, okRuns>>

-----------------------------------------------------------------------------
(* The credential call a request waits for, and the world around.          *)

CredentialStep(c) ==
  /\ Enqueue(c) \/ ServeCached(c) \/ ServeFallback(c) \/ ShareFailure(c)
       \/ StartRun(c) \/ RunFails(c) \/ Invalidate(c)
  /\ UNCHANGED <<loop, world, okRuns>>

HelperPrints(c) ==
  /\ \E life \in Lifetimes : RunSucceeds(c, printed, life)
  /\ okRuns' = okRuns + 1
  /\ UNCHANGED <<loop, world>>

Rotate ==
  /\ good < MaxRotations
  /\ good' = good + 1
  /\ \/ printed' = good + 1 /\ UNCHANGED lagged
     \/ printed' = printed /\ lagged' = "yes"
  /\ UNCHANGED <<vars, loop, okRuns>>

HelperCatchesUp ==
  /\ printed < good
  /\ printed' = good
  /\ UNCHANGED <<vars, loop, good, lagged, okRuns>>

Passes == Tick /\ UNCHANGED <<loop, world, okRuns>>

DropCall(c) ==
  \/ Cancel(c)
  \/ pc[c] = "idle" /\ UNCHANGED vars

\* The client goes away: the handler's future is dropped wherever it waits,
\* and the credential call it was in with it.
ClientGone(c) ==
  /\ stage[c] \notin {"new"} \cup Ended
  /\ Goto(c, "gone")
  /\ DropCall(c)
  /\ UNCHANGED <<failures, refreshed, attempts, goodAtStart, world, okRuns>>

SendNext ==
  \/ \E c \in Clients :
       \/ Begin(c) \/ Acquire(c) \/ SendAttempt(c) \/ CredentialError(c)
       \/ Unauthorized(c) \/ Invalidated(c) \/ Responds(c) \/ Unavailable(c)
       \/ ConnectionFails(c) \/ ConnectionBreaks(c) \/ TimesOut(c)
       \/ BackoffEnds(c) \/ CredentialStep(c) \/ HelperPrints(c) \/ ClientGone(c)
  \/ Rotate \/ HelperCatchesUp \/ Passes

SendSpec == SendInit /\ [][SendNext]_sendVars

\* Headers come or the header deadline passes, a sleep ends, a spawned task is
\* polled until it waits, the mutex is handed to its next waiter, and a run of the
\* helper ends by itself or at its timeout.  Nothing makes a request come or go away.
SendFairness ==
  \A c \in Clients :
    /\ WF_sendVars(Acquire(c)) /\ WF_sendVars(SendAttempt(c))
    /\ WF_sendVars(CredentialError(c)) /\ WF_sendVars(TimesOut(c))
    /\ WF_sendVars(Invalidated(c)) /\ WF_sendVars(BackoffEnds(c))
    /\ WF_sendVars(CredentialStep(c))

FairSendSpec == SendSpec /\ SendFairness

-----------------------------------------------------------------------------
(* Properties.                                                             *)

\* However rejections, retryable statuses and connection failures alternate,
\* a request goes out at most once, once per retry, and once more for the
\* credential re-send, which is not counted as a retry (doc of send()).
AttemptsBounded ==
  \A c \in Clients :
    attempts[c] <= 1 + failures[c] + (IF refreshed[c] THEN 1 ELSE 0)

\* With a helper that prints the accepted secret, a request ends on a 401 only
\* when the secret was rotated while it was under way: neither a stale cache
\* nor another request's rejection may cost it the answer (the re-send of
\* send() over invalidate() and the shared run).
NoSpuriousRejection ==
  [][\A c \in Clients :
       lagged = "no" /\ stage[c] # "rejected" /\ stage'[c] = "rejected"
         => good > goodAtStart[c]]_sendVars

\* Before time passes and anything can expire, one rotation costs one run
\* of the helper however many requests it rejects; a helper that trails the
\* backend costs one run more (Slot.reproduced).
RunsBoundedByRotations == now = 0 => okRuns <= good + (IF lagged = "yes" THEN 2 ELSE 1)

\* Whatever the requests do, the cache they share behaves as Credential says.
CredentialKept == Spec

\* Every request ends: retries, the re-send and the queue for the credential
\* are bounded together.
RequestsEnd == \A c \in Clients : (stage[c] = "start") ~> (stage[c] \in Ended)
=============================================================================
