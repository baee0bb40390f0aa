------------------------------- MODULE Exchange -------------------------------
(***************************************************************************)
(* One proxied request from arrival to the end of its response body, as    *)
(* the router keeps track of it: the exchange the console shows            *)
(* (src/activity/exchange.rs, src/activity/mod.rs), the recording of its   *)
(* body, and its line in the statistics.  The handler (proxy.rs) owns all  *)
(* three; it ends by itself, or its future or its body is dropped because  *)
(* the client left or a stop cut what was in flight (shutdown.rs).         *)
(*                                                                         *)
(* Threads run at once: finishing an exchange takes several locks one      *)
(* after the other, and the console may look between any two of them.      *)
(***************************************************************************)
EXTENDS Integers, Sequences

CONSTANTS
  Requests,
  Counted,     \* requests the statistics take: those to /v1/messages
  Readers,     \* requests whose clients go on reading their answers
  Recent,      \* RECENT
  None

VARIABLES
  pc,          \* where the request's handler, or its body, is
  inFlight,    \* Activity.in_flight
  recent,      \* Activity.recent
  status,      \* ExchangeView.status: "ok" and "refused" are the backend's
  outcome,     \* ExchangeView.outcome
  recorded,    \* the body log's outcome; "open" while its recorder lives
  cut,         \* AppState.cut
  look,        \* the console's lookup under way, or the last one's result
  \* History.
  answered,    \* the status the client was sent
  cause,       \* why the request was dropped unfinished
  counted,     \* lines written to the statistics
  evicted      \* exchanges pushed out of the recent list

vars == <<pc, inFlight, recent, status, outcome, recorded, cut, look,
          answered, cause, counted, evicted>>
view == <<status, outcome>>
told == <<answered, cause>>
books == <<inFlight, recent, counted, evicted>>

Handling == {"reading", "routing", "sending", "buffering"}
Streaming == {"relaying", "translating"}
Dropping == {"dropping", "dropped"}
Finishing == {"ending", "moving", "listed"}
Places == {"absent", "relayleft", "done"} \cup Handling \cup Streaming \cup Dropping \cup Finishing

Statuses == {"ok", "refused", "router", "stopping"}
Outcomes == {"complete", "error", "client_disconnected"}
Records == {"open", "complete", "upstream_error", "client_disconnected", "stopped"}

ASSUME ExchangeAssumption ==
  /\ Counted \subseteq Requests /\ Readers \subseteq Requests
  /\ Recent \in Nat \ {0}
  /\ None \notin Statuses \cup Outcomes \cup Records \cup {"client", "cut"}

LookRec == [id: Requests, known: {"begun", "absent"}, at: {"second", "found", "missed"}]

TypeOK ==
  /\ pc \in [Requests -> Places]
  /\ inFlight \in Seq(Requests)
  /\ recent \in Seq(Requests) /\ Len(recent) <= Recent
  /\ status \in [Requests -> Statuses \cup {None}]
  /\ outcome \in [Requests -> Outcomes \cup {None}]
  /\ recorded \in [Requests -> Records \cup {None}]
  /\ cut \in BOOLEAN
  /\ look \in LookRec \cup {None}
  /\ answered \in [Requests -> Statuses \cup {None}]
  /\ cause \in [Requests -> {"client", "cut", None}]
  /\ counted \in [Requests -> Nat]
  /\ evicted \in SUBSET Requests

Init ==
  /\ pc = [r \in Requests |-> "absent"]
  /\ inFlight = <<>> /\ recent = <<>>
  /\ status = [r \in Requests |-> None]
  /\ outcome = [r \in Requests |-> None]
  /\ recorded = [r \in Requests |-> None]
  /\ cut = FALSE
  /\ look = None
  /\ answered = [r \in Requests |-> None]
  /\ cause = [r \in Requests |-> None]
  /\ counted = [r \in Requests |-> 0]
  /\ evicted = {}

Goto(r, p) == pc' = [pc EXCEPT ![r] = p]
Listed(s, r) == \E i \in 1..Len(s) : s[i] = r

-----------------------------------------------------------------------------
(* Ends of an exchange: the view is written, then Exchange::finish runs.   *)

\* Sets what finish() and the update before it write.
End(r, o, s) ==
  /\ Goto(r, "ending")
  /\ outcome' = [outcome EXCEPT ![r] = o]
  /\ status' = [status EXCEPT ![r] = s]

\* Exchange::fail with the status the error answers.
Fail(r) ==
  /\ End(r, "error", "router")
  /\ answered' = [answered EXCEPT ![r] = "router"]

\* Faulty: a body cut by a stop counts as a client that left.
OutcomeUncut == "client_disconnected"

\* What a drop finds in the stop's cut signal: Drop for Exchange, and
\* RelayOutcome::dropped for the recording.
OutcomeIfDropped == IF cut THEN "error" ELSE "client_disconnected"
RecordIfDropped == IF cut THEN "stopped" ELSE "client_disconnected"

\* Drop for Exchange: a cut answers 503 unless the view holds a status.
Drop(r) ==
  End(r, OutcomeIfDropped,
      IF cut /\ status[r] = None THEN "stopping" ELSE status[r])

-----------------------------------------------------------------------------
(* The handler.                                                            *)

Arrive(r) ==
  /\ pc[r] = "absent"
  /\ Goto(r, "reading")
  /\ inFlight' = Append(inFlight, r)
  /\ UNCHANGED <<view, recorded, cut, look, told, recent, counted, evicted>>

\* The body came whole; or the route was found and the request recorded.
Read(r) ==
  /\ pc[r] = "reading"
  /\ Goto(r, "routing")
  /\ UNCHANGED <<view, recorded, cut, look, told, books>>

Forward(r) ==
  /\ pc[r] = "routing"
  /\ Goto(r, "sending")
  /\ recorded' = [recorded EXCEPT ![r] = "open"]
  /\ UNCHANGED <<view, cut, look, told, books>>

\* The body is late, too large or malformed; no route; nothing to translate.
Refuse(r) ==
  /\ pc[r] \in {"reading", "routing"}
  /\ Fail(r)
  /\ UNCHANGED <<recorded, cut, look, cause, books>>

\* The backend did not answer, redirected, or its body broke off or outgrew
\* the buffer: the recording ends with the failure, then the exchange does.
UpstreamFails(r) ==
  /\ pc[r] \in {"sending", "buffering"}
  /\ recorded' = [recorded EXCEPT ![r] = "upstream_error"]
  /\ Fail(r)
  /\ UNCHANGED <<cut, look, cause, books>>

\* Response headers: an error, and a body to be answered whole, is read whole;
\* any other body is relayed, or translated, as it arrives.
Responded(r, s, next) ==
  /\ pc[r] = "sending"
  /\ s = "refused" => next = "buffering"
  /\ Goto(r, next)
  /\ status' = [status EXCEPT ![r] = s]
  /\ answered' = [answered EXCEPT ![r] = IF next = "buffering" THEN None ELSE s]
  /\ UNCHANGED <<outcome, recorded, cut, look, cause, books>>

\* read_all() then finish_body(); the answer may itself carry an error.
Buffered(r, o) ==
  /\ pc[r] = "buffering"
  /\ status[r] = "refused" => o = "error"
  /\ recorded' = [recorded EXCEPT ![r] = "complete"]
  /\ End(r, o, status[r])
  /\ answered' = [answered EXCEPT ![r] = status[r]]
  /\ UNCHANGED <<cut, look, cause, books>>

\* The whole answer of an `openai` backend does not translate.
Untranslatable(r) ==
  /\ pc[r] = "buffering" /\ status[r] = "ok"
  /\ recorded' = [recorded EXCEPT ![r] = "complete"]
  /\ Fail(r)
  /\ UNCHANGED <<cut, look, cause, books>>

-----------------------------------------------------------------------------
(* The body: Tracked over Relay, or over Translator over Relay.            *)

\* A relayed body ends: recording and exchange end in one poll.
RelayedEnds(r, rec, o) ==
  /\ pc[r] = "relaying"
  /\ rec = "upstream_error" => o = "error"
  /\ recorded' = [recorded EXCEPT ![r] = rec]
  /\ End(r, o, status[r])
  /\ UNCHANGED <<cut, look, told, books>>

\* A translated body's input ends first; its last events are still to go out.
InputEnds(r, rec) ==
  /\ pc[r] = "translating" /\ recorded[r] = "open"
  /\ recorded' = [recorded EXCEPT ![r] = rec]
  /\ UNCHANGED <<pc, view, cut, look, told, books>>

\* Faulty: the translation ends at the backend's last event, not at its end.
EndsAtDone(r, o) ==
  /\ pc[r] = "translating"
  /\ End(r, o, status[r])
  /\ UNCHANGED <<recorded, cut, look, told, books>>

TranslatedEnds(r, o) ==
  /\ pc[r] = "translating" /\ recorded[r] # "open"
  /\ End(r, o, status[r])
  /\ UNCHANGED <<recorded, cut, look, told, books>>

-----------------------------------------------------------------------------
(* Dropped unfinished: the client went away, or a stop cut what is left.   *)

Cut ==
  /\ ~cut
  /\ cut' = TRUE
  /\ UNCHANGED <<pc, view, recorded, look, told, books>>

\* Faulty: nobody watches the cut.
CutUnwatched(why) == why = "client"

MayDrop(why) == why = "client" \/ cut

\* The handler's future goes: cut_on_stop answers 503 in its place.
HandlerDropped(r, why) ==
  /\ pc[r] \in Handling
  /\ MayDrop(why)
  /\ Goto(r, "dropping")
  /\ cause' = [cause EXCEPT ![r] = why]
  /\ UNCHANGED <<view, recorded, cut, look, answered, books>>

\* The recorder lives in the inner future and is dropped before the exchange.
RecorderDropped(r) ==
  /\ pc[r] = "dropping"
  /\ Goto(r, "dropped")
  /\ recorded' = [recorded EXCEPT ![r] = IF @ = "open" THEN RecordIfDropped ELSE @]
  /\ UNCHANGED <<view, cut, look, told, books>>

ExchangeDropped(r) ==
  /\ pc[r] = "dropped"
  /\ Drop(r)
  /\ answered' = [answered EXCEPT ![r] = IF cause[r] = "cut" THEN "stopping" ELSE None]
  /\ UNCHANGED <<recorded, cut, look, cause, books>>

\* The body goes: Tracked ends the exchange before the relay inside is dropped.
BodyDropped(r, why) ==
  /\ pc[r] \in Streaming
  /\ MayDrop(why)
  /\ Drop(r)
  /\ cause' = [cause EXCEPT ![r] = why]
  /\ UNCHANGED <<recorded, cut, look, answered, books>>

RelayDropped(r) ==
  /\ pc[r] = "relayleft"
  /\ Goto(r, "done")
  /\ recorded' = [recorded EXCEPT ![r] = RecordIfDropped]
  /\ UNCHANGED <<view, cut, look, told, books>>

-----------------------------------------------------------------------------
(* Exchange::finish: Activity::complete, then the statistics' hook.        *)

\* Faulty: the list of requests in flight is left to the next one.
KeepListed(r) == UNCHANGED inFlight

Without(r) ==
  \E i \in 1..Len(inFlight) :
    /\ inFlight[i] = r
    /\ inFlight' = [j \in 1..(Len(inFlight) - 1) |->
                      IF j < i THEN inFlight[j] ELSE inFlight[j + 1]]

Remove(r) ==
  /\ pc[r] = "ending"
  /\ Goto(r, "moving")
  /\ Without(r)
  /\ UNCHANGED <<view, recorded, cut, look, told, recent, counted, evicted>>

Push(r) ==
  /\ recent' = Append(IF Len(recent) = Recent THEN Tail(recent) ELSE recent, r)
  /\ evicted' = IF Len(recent) = Recent THEN evicted \cup {recent[1]} ELSE evicted

List(r) ==
  /\ pc[r] = "moving"
  /\ Goto(r, "listed")
  /\ Push(r)
  /\ UNCHANGED <<view, recorded, cut, look, told, inFlight, counted>>

Count(r) ==
  counted' = [counted EXCEPT ![r] = IF r \in Counted THEN @ + 1 ELSE @]

Report(r) ==
  /\ pc[r] = "listed"
  /\ Goto(r, IF recorded[r] = "open" THEN "relayleft" ELSE "done")
  /\ Count(r)
  /\ UNCHANGED <<view, recorded, cut, look, told, inFlight, recent, evicted>>

-----------------------------------------------------------------------------
(* Activity::find, for the console's detail of one request.                *)

Looking == look # None /\ look.at = "second"

\* Faulty: the recent list is looked at first.
LookRecentFirst(r) ==
  /\ ~Looking
  /\ look' = [id |-> r,
              known |-> IF pc[r] = "absent" THEN "absent" ELSE "begun",
              at |-> IF Listed(recent, r) THEN "found" ELSE "second"]
  /\ UNCHANGED <<pc, view, recorded, cut, told, books>>

LookInFlight(r) ==
  /\ ~Looking
  /\ look' = [id |-> r,
              known |-> IF pc[r] = "absent" THEN "absent" ELSE "begun",
              at |-> IF Listed(inFlight, r) THEN "found" ELSE "second"]
  /\ UNCHANGED <<pc, view, recorded, cut, told, books>>

LookRecent ==
  /\ Looking
  /\ look' = [id |-> look.id, known |-> look.known,
              at |-> IF Listed(recent, look.id) THEN "found" ELSE "missed"]
  /\ UNCHANGED <<pc, view, recorded, cut, told, books>>

-----------------------------------------------------------------------------

Drops(r) == \E why \in {"client", "cut"} : HandlerDropped(r, why) \/ BodyDropped(r, why)
Unwinds(r) ==
  RecorderDropped(r) \/ ExchangeDropped(r) \/ RelayDropped(r)
    \/ Remove(r) \/ List(r) \/ Report(r)

Next ==
  \/ \E r \in Requests :
       \/ Arrive(r) \/ Read(r) \/ Forward(r) \/ Refuse(r) \/ UpstreamFails(r)
       \/ \E s \in {"ok", "refused"}, next \in {"buffering"} \cup Streaming :
            Responded(r, s, next)
       \/ \E o \in {"complete", "error"} : Buffered(r, o) \/ TranslatedEnds(r, o)
       \/ Untranslatable(r)
       \/ \E rec \in {"complete", "upstream_error"} :
            \/ InputEnds(r, rec)
            \/ \E o \in {"complete", "error"} : RelayedEnds(r, rec, o)
       \/ \E why \in {"client", "cut"} : HandlerDropped(r, why) \/ BodyDropped(r, why)
       \/ RecorderDropped(r) \/ ExchangeDropped(r) \/ RelayDropped(r)
       \/ Remove(r) \/ List(r) \/ Report(r)
       \/ LookInFlight(r)
  \/ Cut \/ LookRecent

Spec == Init /\ [][Next]_vars

\* Once the cut came, the select in cut_on_stop drops a handler at its next poll.  A body
\* sees it at its own, and hyper polls a body only as its client reads: a client that
\* stopped reading may keep it until the process goes (StopEnds of module Stop).
\* A drop and a finish run through on their thread.  Nothing makes a stop come.
FairSpec ==
  /\ Spec
  /\ \A r \in Requests : WF_vars(HandlerDropped(r, "cut")) /\ WF_vars(Unwinds(r))
  /\ \A r \in Readers : WF_vars(BodyDropped(r, "cut"))

-----------------------------------------------------------------------------
(* Properties.                                                             *)

\* The console's two lists hold every request that came exactly once: in
\* flight until its finish has begun, recent after it until Recent later ones
\* pushed it out; the only gap is the finishing thread's own step from one
\* list to the other (Activity::complete).
ListedOnce ==
  /\ \A i, j \in 1..Len(inFlight) : inFlight[i] = inFlight[j] => i = j
  /\ \A i, j \in 1..Len(recent) : recent[i] = recent[j] => i = j
  /\ \A r \in Requests :
       /\ Listed(inFlight, r) <=>
            pc[r] \in Handling \cup Streaming \cup Dropping \cup {"ending"}
       /\ Listed(recent, r) \/ r \in evicted <=> pc[r] \in {"listed", "relayleft", "done"}
       /\ ~(Listed(recent, r) /\ r \in evicted)
  /\ evicted # {} => Len(recent) = Recent

\* A request a stop cut is never put down to its client, neither in the
\* console nor in its recording, whichever of the two is dropped first
\* (docs of Exchange, Recorder and RelayOutcome).
CutIsNotTheClient ==
  \A r \in Requests :
    cause[r] = "cut" =>
      outcome[r] \in {"error", None} /\ recorded[r] # "client_disconnected"

\* Recording and exchange are told of a request's end separately, by objects
\* dropped in either order, and still agree: both end; an exchange that
\* completed has a recording of the backend's whole answer or of its failure
\* after the last event, never of a client that left; and a recording names a
\* stop only for a request dropped unfinished with the cut under way (Relay,
\* Recorder, Tracked, Translator).
RecordingFollowsExchange ==
  \A r \in Requests :
    /\ pc[r] = "done" => recorded[r] # "open" /\ outcome[r] # None
    /\ outcome[r] = "complete" => recorded[r] \in {"complete", "upstream_error"}
    /\ recorded[r] = "stopped" => cause[r] # None /\ cut

\* Every finished request of /v1/messages is counted once, however it ended,
\* and no other is; never before the recent list shows it (on_finish).
CountedOnce ==
  \A r \in Requests :
    counted[r] = IF r \in Counted /\ pc[r] \in {"relayleft", "done"} THEN 1 ELSE 0

\* Unless a stop cut it, a request's status in the console and the statistics
\* is the one its client was answered with.
StatusIsAnswered ==
  \A r \in Requests :
    pc[r] = "done" /\ answered[r] \notin {None, "stopping"} => status[r] = answered[r]

\* Once a stop cut what is in flight, every request under way ends through its own
\* bookkeeping, but for a body its client does not read, which nothing tells of the cut:
\* no handler goes on, and no end or drop that has begun stays half done (shutdown.rs).
CutEndsAll ==
  \A r \in Requests :
    (cut /\ pc[r] # "absent") ~>
      (pc[r] = "done" \/ (r \notin Readers /\ pc[r] \in Streaming))

\* "An exchange in flight or recent" is found (doc of Activity::find): a lookup of a
\* request that had begun misses it only when it was pushed out of the recent list,
\* or in the finishing thread's own step from one list to the other.
FindMissesOnlyInTheGap ==
  [][look # None /\ look.at = "second" /\ look.known = "begun" /\ look'.at = "missed"
       => look.id \in evicted \/ pc[look.id] = "moving"]_vars
=============================================================================
