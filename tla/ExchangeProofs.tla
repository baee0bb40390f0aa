---------------------------- MODULE ExchangeProofs ----------------------------
(***************************************************************************)
(* Proofs about the lifecycle of a request and about its entry in the body *)
(* log.  The console's lists, the statistics and the recording agree for   *)
(* any number of requests and any length of the recent list.  For any      *)
(* response, cap, chunks and flushes and any number of deletions, a        *)
(* deleted entry stays gone, since only its first write makes its          *)
(* directory and no deletion finds it before that, and one nobody deletes  *)
(* ends whole, since the queued writes continue the response file without  *)
(* a gap or an overlap.                                                    *)
(***************************************************************************)
EXTENDS Exchange, BodyLog, TLAPS

\* One step of one request's handler, body or finish.
HandlerStep(r) ==
  \/ Read(r) \/ Forward(r) \/ Refuse(r) \/ UpstreamFails(r)
  \/ \E s \in {"ok", "refused"}, next \in {"buffering"} \cup Streaming : Responded(r, s, next)
  \/ \E o \in {"complete", "error"} : Buffered(r, o)
  \/ Untranslatable(r)

BodyStep(r) ==
  \/ \E o \in {"complete", "error"} : TranslatedEnds(r, o)
  \/ \E recording \in {"complete", "upstream_error"} :
       \/ InputEnds(r, recording)
       \/ \E o \in {"complete", "error"} : RelayedEnds(r, recording, o)

DropStep(r) ==
  \/ \E why \in {"client", "cut"} : HandlerDropped(r, why) \/ BodyDropped(r, why)
  \/ RecorderDropped(r) \/ ExchangeDropped(r) \/ RelayDropped(r)

LEMMA Steps ==
  ASSUME Next
  PROVE  \/ \E r \in Requests : \/ Arrive(r) \/ HandlerStep(r) \/ BodyStep(r) \/ DropStep(r)
                                \/ Remove(r) \/ List(r) \/ Report(r)
                                \/ LookInFlight(r)
         \/ Cut \/ LookRecent
  BY DEF Next, HandlerStep, BodyStep, DropStep

-----------------------------------------------------------------------------
(* Types.                                                                  *)

LEMMA EndType ==
  ASSUME TypeOK, NEW r \in Requests, NEW o \in Outcomes, NEW s \in Statuses \cup {None},
         End(r, o, s)
  PROVE  /\ pc' \in [Requests -> Places]
         /\ outcome' \in [Requests -> Outcomes \cup {None}]
         /\ status' \in [Requests -> Statuses \cup {None}]
  BY DEF TypeOK, End, Goto, Places, Finishing

LEMMA WithoutType ==
  ASSUME inFlight \in Seq(Requests), NEW r \in Requests, Without(r)
  PROVE  inFlight' \in Seq(Requests)
<1>1. PICK i \in 1..Len(inFlight) :
        inFlight' = [j \in 1..(Len(inFlight) - 1) |->
                       IF j < i THEN inFlight[j] ELSE inFlight[j + 1]]
  BY DEF Without
<1>2. \A j \in 1..(Len(inFlight) - 1) :
        (IF j < i THEN inFlight[j] ELSE inFlight[j + 1]) \in Requests
  OBVIOUS
<1>3. Len(inFlight) - 1 \in Nat
  OBVIOUS
<1> QED BY <1>1, <1>2, <1>3

LEMMA PushType ==
  ASSUME TypeOK, NEW r \in Requests, Push(r)
  PROVE  recent' \in Seq(Requests) /\ Len(recent') <= Recent /\ evicted' \in SUBSET Requests
<1>1. CASE Len(recent) = Recent
  <2>1. recent # <<>> /\ recent[1] \in Requests /\ Tail(recent) \in Seq(Requests)
        /\ Len(Tail(recent)) = Recent - 1
    BY <1>1, ExchangeAssumption DEF TypeOK
  <2> QED BY <1>1, <2>1, ExchangeAssumption DEF Push, TypeOK
<1>2. CASE Len(recent) # Recent
  BY <1>2, ExchangeAssumption DEF Push, TypeOK
<1> QED BY <1>1, <1>2

LEMMA TypeStep ==
  ASSUME TypeOK, [Next]_vars
  PROVE  TypeOK'
<1> USE DEF view, told, books
<1>1. ASSUME NEW r \in Requests, Arrive(r) PROVE TypeOK'
  BY <1>1 DEF TypeOK, Arrive, Goto, Places, Handling
<1>2. ASSUME NEW r \in Requests, HandlerStep(r) PROVE TypeOK'
  <2>1. CASE Read(r)
    BY <2>1 DEF TypeOK, Read, Goto, Places, Handling
  <2>2. CASE Forward(r)
    BY <2>2 DEF TypeOK, Forward, Goto, Places, Handling, Records
  <2>3. CASE Refuse(r)
    BY <2>3, EndType DEF TypeOK, Refuse, Fail, Outcomes, Statuses
  <2>4. CASE UpstreamFails(r)
    BY <2>4, EndType DEF TypeOK, UpstreamFails, Fail, Outcomes, Statuses, Records
  <2>5. ASSUME NEW s \in {"ok", "refused"}, NEW next \in {"buffering"} \cup Streaming,
               Responded(r, s, next)
        PROVE  TypeOK'
    BY <2>5 DEF TypeOK, Responded, Goto, Places, Handling, Statuses
  <2>6. ASSUME NEW o \in {"complete", "error"}, Buffered(r, o) PROVE TypeOK'
    <3>1. status[r] \in Statuses \cup {None} /\ o \in Outcomes
      BY DEF TypeOK, Outcomes
    <3> QED BY <2>6, <3>1, EndType DEF TypeOK, Buffered, Records
  <2>7. CASE Untranslatable(r)
    BY <2>7, EndType DEF TypeOK, Untranslatable, Fail, Outcomes, Statuses, Records
  <2> QED BY <1>2, <2>1, <2>2, <2>3, <2>4, <2>5, <2>6, <2>7 DEF HandlerStep
<1>3. ASSUME NEW r \in Requests, BodyStep(r) PROVE TypeOK'
  <2>0. status[r] \in Statuses \cup {None} /\ "complete" \in Outcomes /\ "error" \in Outcomes
    BY DEF TypeOK, Outcomes
  <2>1. ASSUME NEW o \in {"complete", "error"}, TranslatedEnds(r, o) PROVE TypeOK'
    BY <2>0, <2>1, EndType DEF TypeOK, TranslatedEnds
  <2>2. ASSUME NEW recording \in {"complete", "upstream_error"}, InputEnds(r, recording)
        PROVE  TypeOK'
    BY <2>2 DEF TypeOK, InputEnds, Records
  <2>3. ASSUME NEW recording \in {"complete", "upstream_error"}, NEW o \in {"complete", "error"},
               RelayedEnds(r, recording, o)
        PROVE  TypeOK'
    BY <2>0, <2>3, EndType DEF TypeOK, RelayedEnds, Records
  <2> QED BY <1>3, <2>1, <2>2, <2>3 DEF BodyStep
<1>4. ASSUME NEW r \in Requests, DropStep(r) PROVE TypeOK'
  <2>0. /\ OutcomeIfDropped \in Outcomes /\ RecordIfDropped \in Records
        /\ (IF cut /\ status[r] = None THEN "stopping" ELSE status[r]) \in Statuses \cup {None}
    BY DEF TypeOK, OutcomeIfDropped, RecordIfDropped, Outcomes, Records, Statuses
  <2>1. ASSUME NEW why \in {"client", "cut"}, HandlerDropped(r, why) PROVE TypeOK'
    BY <2>1 DEF TypeOK, HandlerDropped, Goto, Places, Dropping
  <2>2. ASSUME NEW why \in {"client", "cut"}, BodyDropped(r, why) PROVE TypeOK'
    BY <2>0, <2>2, EndType DEF TypeOK, BodyDropped, Drop
  <2>3. CASE RecorderDropped(r)
    BY <2>0, <2>3 DEF TypeOK, RecorderDropped, Goto, Places, Dropping
  <2>4. CASE ExchangeDropped(r)
    BY <2>0, <2>4, EndType DEF TypeOK, ExchangeDropped, Drop, Statuses
  <2>5. CASE RelayDropped(r)
    BY <2>0, <2>5 DEF TypeOK, RelayDropped, Goto, Places
  <2> QED BY <1>4, <2>1, <2>2, <2>3, <2>4, <2>5 DEF DropStep
<1>5. ASSUME NEW r \in Requests, Remove(r) PROVE TypeOK'
  BY <1>5, WithoutType DEF TypeOK, Remove, Goto, Places, Finishing
<1>6. ASSUME NEW r \in Requests, List(r) PROVE TypeOK'
  BY <1>6, PushType DEF TypeOK, List, Goto, Places, Finishing
<1>7. ASSUME NEW r \in Requests, Report(r) PROVE TypeOK'
  BY <1>7 DEF TypeOK, Report, Count, Goto, Places
<1>8. ASSUME NEW r \in Requests, LookInFlight(r) PROVE TypeOK'
  <2>1. look' \in LookRec
    BY <1>8 DEF LookInFlight, LookRec
  <2> QED BY <1>8, <2>1 DEF TypeOK, LookInFlight
<1>9. CASE LookRecent
  <2>1. look \in LookRec
    BY <1>9 DEF LookRecent, Looking, TypeOK
  <2>2. look' \in LookRec
    BY <1>9, <2>1 DEF LookRecent, LookRec
  <2> QED BY <1>9, <2>2 DEF TypeOK, LookRecent
<1>10. CASE Cut
  BY <1>10 DEF TypeOK, Cut
<1>11. CASE UNCHANGED vars
  BY <1>11 DEF TypeOK, vars
<1> QED
  BY <1>1, <1>2, <1>3, <1>4, <1>5, <1>6, <1>7, <1>8, <1>9, <1>10, <1>11, Steps

LEMMA InitType ==
  ASSUME Init
  PROVE  TypeOK
<1>1. Recent \in Nat
  BY ExchangeAssumption
<1>2. inFlight \in Seq(Requests) /\ recent \in Seq(Requests) /\ Len(recent) <= Recent
  BY <1>1 DEF Init
<1> QED BY <1>2 DEF Init, TypeOK, Places

\* The state keeps its types, the recent list its bound.
THEOREM ExchangeTypeCorrect == Spec => []TypeOK
<1>1. Init => TypeOK
  BY InitType
<1>2. TypeOK /\ [Next]_vars => TypeOK'
  BY TypeStep
<1> QED BY <1>1, <1>2, PTL DEF Spec

-----------------------------------------------------------------------------
(* Where a request is tells what its exchange and its recording hold.      *)

\* The exchange's part: an outcome once it ended, a cause once it was dropped.
ExchangeAt(r) ==
  /\ pc[r] \in {"absent"} \cup Handling \cup Streaming => cause[r] = None
  /\ pc[r] \in Dropping => cause[r] # None
  /\ (pc[r] \in {"absent"} \cup Handling \cup Streaming \cup Dropping) <=> outcome[r] = None
  /\ cause[r] = "cut" => cut
  /\ outcome[r] = "client_disconnected" => cause[r] = "client"
  /\ outcome[r] = "complete" => cause[r] = None

\* The recording's part: open while its recorder lives, and who ended it.
RecordingAt(r) ==
  /\ pc[r] \in {"absent", "reading", "routing"} => recorded[r] = None
  /\ pc[r] \in {"sending", "buffering", "relaying"} => recorded[r] = "open"
  /\ pc[r] = "translating" => recorded[r] \in {"open", "complete", "upstream_error"}
  /\ pc[r] = "dropping" => recorded[r] \in {"open", None}
  /\ pc[r] \in {"dropped", "done"} => recorded[r] # "open"
  /\ pc[r] = "relayleft" => recorded[r] = "open"
  /\ outcome[r] # None /\ recorded[r] = "open" => cause[r] # None
  /\ outcome[r] = "complete" => recorded[r] \in {"complete", "upstream_error"}
  /\ recorded[r] = "stopped" => cause[r] # None /\ cut
  /\ recorded[r] = "client_disconnected" => cause[r] = "client"

\* The client's part: what it was answered is what the view says.
AnsweredAt(r) ==
  /\ pc[r] \in {"absent"} \cup Handling \cup Dropping => answered[r] = None
  /\ pc[r] \in Streaming => answered[r] = status[r] /\ status[r] # None
  /\ outcome[r] # None /\ answered[r] \notin {None, "stopping"} => status[r] = answered[r]

PlaceInv == \A r \in Requests : ExchangeAt(r) /\ RecordingAt(r) /\ AnsweredAt(r)

\* What a step of one request leaves of the others, with the cut as it was.
Apart(r) ==
  /\ cut' = cut
  /\ \A q \in Requests \ {r} :
       /\ pc'[q] = pc[q] /\ status'[q] = status[q] /\ outcome'[q] = outcome[q]
       /\ recorded'[q] = recorded[q] /\ answered'[q] = answered[q] /\ cause'[q] = cause[q]

LEMMA ApartKeeps ==
  ASSUME PlaceInv, NEW r \in Requests, Apart(r),
         ExchangeAt(r)' /\ RecordingAt(r)' /\ AnsweredAt(r)'
  PROVE  PlaceInv'
<1> SUFFICES ASSUME NEW q \in Requests
             PROVE  ExchangeAt(q)' /\ RecordingAt(q)' /\ AnsweredAt(q)'
  BY DEF PlaceInv
<1>1. CASE q = r
  BY <1>1
<1>2. CASE q # r
  <2>1. ExchangeAt(q) /\ RecordingAt(q) /\ AnsweredAt(q)
    BY DEF PlaceInv
  <2>2. /\ cut' = cut
        /\ pc'[q] = pc[q] /\ status'[q] = status[q] /\ outcome'[q] = outcome[q]
        /\ recorded'[q] = recorded[q] /\ answered'[q] = answered[q] /\ cause'[q] = cause[q]
    BY <1>2 DEF Apart
  <2> QED BY <2>1, <2>2 DEF ExchangeAt, RecordingAt, AnsweredAt
<1> QED BY <1>1, <1>2

LEMMA PlaceStep ==
  ASSUME TypeOK, PlaceInv, [Next]_vars
  PROVE  PlaceInv'
<1> USE ExchangeAssumption DEF Statuses, Outcomes, Records, view, told, books, Apart, Goto, Handling, Streaming, Dropping
<1>1. ASSUME NEW r \in Requests, Arrive(r) PROVE PlaceInv'
  <2>1. ExchangeAt(r) /\ RecordingAt(r) /\ AnsweredAt(r)
    BY DEF PlaceInv
  <2>2. Apart(r) /\ ExchangeAt(r)' /\ RecordingAt(r)' /\ AnsweredAt(r)'
    BY <1>1, <2>1 DEF TypeOK, Arrive, ExchangeAt, RecordingAt, AnsweredAt
  <2> QED BY <2>2, ApartKeeps
<1>2. ASSUME NEW r \in Requests, HandlerStep(r) PROVE PlaceInv'
  <2>0. ExchangeAt(r) /\ RecordingAt(r) /\ AnsweredAt(r)
    BY DEF PlaceInv
  <2> USE DEF ExchangeAt, RecordingAt, AnsweredAt
  <2>1. Apart(r)
    <3>1. CASE Read(r) \/ Forward(r) \/ Refuse(r) \/ UpstreamFails(r) \/ Untranslatable(r)
      BY <3>1 DEF TypeOK, Read, Forward, Refuse, UpstreamFails, Untranslatable, Fail, End
    <3>2. ASSUME NEW s \in {"ok", "refused"}, NEW next \in {"buffering"} \cup Streaming,
                 Responded(r, s, next)
          PROVE  Apart(r)
      BY <3>2 DEF TypeOK, Responded
    <3>3. ASSUME NEW o \in {"complete", "error"}, Buffered(r, o) PROVE Apart(r)
      BY <3>3 DEF TypeOK, Buffered, End
    <3> QED BY <1>2, <3>1, <3>2, <3>3 DEF HandlerStep
  <2>2. ExchangeAt(r)' /\ RecordingAt(r)' /\ AnsweredAt(r)'
    <3>1. CASE Read(r) \/ Forward(r)
      BY <2>0, <3>1 DEF TypeOK, Read, Forward
    <3>2. CASE Refuse(r) \/ UpstreamFails(r) \/ Untranslatable(r)
      BY <2>0, <3>2 DEF TypeOK, Refuse, UpstreamFails, Untranslatable, Fail, End
    <3>3. ASSUME NEW s \in {"ok", "refused"}, NEW next \in {"buffering"} \cup Streaming,
                 Responded(r, s, next)
          PROVE  ExchangeAt(r)' /\ RecordingAt(r)' /\ AnsweredAt(r)'
      BY <2>0, <3>3 DEF TypeOK, Responded
    <3>4. ASSUME NEW o \in {"complete", "error"}, Buffered(r, o)
          PROVE  ExchangeAt(r)' /\ RecordingAt(r)' /\ AnsweredAt(r)'
      BY <2>0, <3>4 DEF TypeOK, Buffered, End
    <3> QED BY <1>2, <3>1, <3>2, <3>3, <3>4 DEF HandlerStep
  <2> QED BY <2>1, <2>2, ApartKeeps
<1>3. ASSUME NEW r \in Requests, BodyStep(r) PROVE PlaceInv'
  <2>0. ExchangeAt(r) /\ RecordingAt(r) /\ AnsweredAt(r)
    BY DEF PlaceInv
  <2>1. ASSUME NEW o \in {"complete", "error"}, TranslatedEnds(r, o)
        PROVE  Apart(r) /\ ExchangeAt(r)' /\ RecordingAt(r)' /\ AnsweredAt(r)'
    BY <2>0, <2>1 DEF TypeOK, TranslatedEnds, End, ExchangeAt, RecordingAt, AnsweredAt
  <2>2. ASSUME NEW recording \in {"complete", "upstream_error"}, InputEnds(r, recording)
        PROVE  Apart(r) /\ ExchangeAt(r)' /\ RecordingAt(r)' /\ AnsweredAt(r)'
    BY <2>0, <2>2 DEF TypeOK, InputEnds, ExchangeAt, RecordingAt, AnsweredAt
  <2>3. ASSUME NEW recording \in {"complete", "upstream_error"}, NEW o \in {"complete", "error"},
               RelayedEnds(r, recording, o)
        PROVE  Apart(r) /\ ExchangeAt(r)' /\ RecordingAt(r)' /\ AnsweredAt(r)'
    BY <2>0, <2>3 DEF TypeOK, RelayedEnds, End, ExchangeAt, RecordingAt, AnsweredAt
  <2> QED BY <1>3, <2>1, <2>2, <2>3, ApartKeeps DEF BodyStep
<1>4. ASSUME NEW r \in Requests, DropStep(r) PROVE PlaceInv'
  <2>0. ExchangeAt(r) /\ RecordingAt(r) /\ AnsweredAt(r)
    BY DEF PlaceInv
  <2> USE DEF ExchangeAt, RecordingAt, AnsweredAt
  <2>1. ASSUME NEW why \in {"client", "cut"}, HandlerDropped(r, why)
        PROVE  Apart(r) /\ ExchangeAt(r)' /\ RecordingAt(r)' /\ AnsweredAt(r)'
    BY <2>0, <2>1 DEF TypeOK, HandlerDropped, MayDrop
  <2>2. ASSUME NEW why \in {"client", "cut"}, BodyDropped(r, why)
        PROVE  Apart(r) /\ ExchangeAt(r)' /\ RecordingAt(r)' /\ AnsweredAt(r)'
    BY <2>0, <2>2 DEF TypeOK, BodyDropped, MayDrop, Drop, End, OutcomeIfDropped
  <2>3. CASE RecorderDropped(r)
    <3>1. Apart(r) /\ ExchangeAt(r)' /\ RecordingAt(r)' /\ AnsweredAt(r)'
      BY <2>0, <2>3 DEF TypeOK, RecorderDropped, RecordIfDropped
    <3> QED BY <3>1, ApartKeeps
  <2>4. CASE ExchangeDropped(r)
    <3>1. Apart(r) /\ ExchangeAt(r)' /\ RecordingAt(r)' /\ AnsweredAt(r)'
      BY <2>0, <2>4 DEF TypeOK, ExchangeDropped, Drop, End, OutcomeIfDropped
    <3> QED BY <3>1, ApartKeeps
  <2>5. CASE RelayDropped(r)
    <3>1. Apart(r) /\ ExchangeAt(r)' /\ RecordingAt(r)' /\ AnsweredAt(r)'
      BY <2>0, <2>5 DEF TypeOK, RelayDropped, RecordIfDropped
    <3> QED BY <3>1, ApartKeeps
  <2> QED BY <1>4, <2>1, <2>2, <2>3, <2>4, <2>5, ApartKeeps DEF DropStep
<1>5. ASSUME NEW r \in Requests, Remove(r) \/ List(r) \/ Report(r) PROVE PlaceInv'
  <2>1. ExchangeAt(r) /\ RecordingAt(r) /\ AnsweredAt(r)
    BY DEF PlaceInv
  <2>2. Apart(r) /\ ExchangeAt(r)' /\ RecordingAt(r)' /\ AnsweredAt(r)'
    BY <1>5, <2>1 DEF TypeOK, Remove, List, Report, ExchangeAt, RecordingAt, AnsweredAt
  <2> QED BY <2>2, ApartKeeps
<1>6. CASE Cut
  BY <1>6 DEF PlaceInv, Cut, ExchangeAt, RecordingAt, AnsweredAt
<1>7. CASE LookRecent \/ (\E r \in Requests : LookInFlight(r)) \/ UNCHANGED vars
  BY <1>7 DEF PlaceInv, LookRecent, LookInFlight, vars, ExchangeAt, RecordingAt, AnsweredAt
<1> QED BY <1>1, <1>2, <1>3, <1>4, <1>5, <1>6, <1>7, Steps

LEMMA PlaceCorrect == Spec => [](TypeOK /\ PlaceInv)
<1>1. ASSUME Init PROVE TypeOK /\ PlaceInv
  <2>1. TypeOK
    BY <1>1, InitType
  <2>2. ASSUME NEW r \in Requests PROVE ExchangeAt(r) /\ RecordingAt(r) /\ AnsweredAt(r)
    <3>1. /\ pc[r] = "absent" /\ cause[r] = None /\ outcome[r] = None
          /\ recorded[r] = None /\ answered[r] = None /\ status[r] = None
      BY <1>1 DEF Init
    <3> QED BY <3>1, ExchangeAssumption
            DEF ExchangeAt, RecordingAt, AnsweredAt, Statuses, Outcomes, Records,
                Handling, Streaming, Dropping
  <2> QED BY <2>1, <2>2 DEF PlaceInv
<1>2. TypeOK /\ PlaceInv /\ [Next]_vars => TypeOK' /\ PlaceInv'
  BY TypeStep, PlaceStep
<1> QED BY <1>1, <1>2, PTL DEF Spec

\* A request a stop cut is never put down to its client.
THEOREM CutCorrect == Spec => []CutIsNotTheClient
<1>1. TypeOK /\ PlaceInv => CutIsNotTheClient
  BY ExchangeAssumption
     DEF TypeOK, Outcomes, Records, PlaceInv, ExchangeAt, RecordingAt, CutIsNotTheClient
<1> QED BY <1>1, PlaceCorrect, PTL

\* Recording and exchange agree on how every request ended.
THEOREM RecordingCorrect == Spec => []RecordingFollowsExchange
<1>1. PlaceInv => RecordingFollowsExchange
  BY ExchangeAssumption
     DEF Handling, Streaming, Dropping, PlaceInv, ExchangeAt, RecordingAt, RecordingFollowsExchange
<1> QED BY <1>1, PlaceCorrect, PTL

\* The status in the console and the statistics is the one the client got.
THEOREM StatusAnsweredCorrect == Spec => []StatusIsAnswered
<1>1. PlaceInv => StatusIsAnswered
  BY ExchangeAssumption
     DEF Handling, Streaming, Dropping, PlaceInv, ExchangeAt, AnsweredAt, StatusIsAnswered
<1> QED BY <1>1, PlaceCorrect, PTL

-----------------------------------------------------------------------------
(* The statistics and the console's lists.                                 *)

Counting == {"relayleft", "done"}

LEMMA CountStep ==
  ASSUME TypeOK, CountedOnce, [Next]_vars
  PROVE  CountedOnce'
<1> USE DEF TypeOK, CountedOnce, Goto, End, Fail, Drop, view, told, books,
            Handling, Streaming, Dropping
<1>1. ASSUME NEW r \in Requests, Arrive(r) PROVE CountedOnce'
  BY <1>1 DEF Arrive
<1>2. ASSUME NEW r \in Requests, HandlerStep(r) PROVE CountedOnce'
  <2>1. CASE Read(r) \/ Forward(r)
    BY <2>1 DEF Read, Forward
  <2>2. CASE Refuse(r) \/ UpstreamFails(r) \/ Untranslatable(r)
    BY <2>2 DEF Refuse, UpstreamFails, Untranslatable
  <2>3. ASSUME NEW s \in {"ok", "refused"}, NEW next \in {"buffering"} \cup Streaming,
               Responded(r, s, next)
        PROVE  CountedOnce'
    BY <2>3 DEF Responded
  <2>4. ASSUME NEW o \in {"complete", "error"}, Buffered(r, o) PROVE CountedOnce'
    BY <2>4 DEF Buffered
  <2> QED BY <1>2, <2>1, <2>2, <2>3, <2>4 DEF HandlerStep
<1>3. ASSUME NEW r \in Requests, BodyStep(r) PROVE CountedOnce'
  BY <1>3 DEF BodyStep, TranslatedEnds, InputEnds, RelayedEnds
<1>4. ASSUME NEW r \in Requests, DropStep(r) PROVE CountedOnce'
  <2>1. ASSUME NEW why \in {"client", "cut"}, HandlerDropped(r, why) PROVE CountedOnce'
    BY <2>1, ExchangeAssumption DEF HandlerDropped
  <2>2. ASSUME NEW why \in {"client", "cut"}, BodyDropped(r, why) PROVE CountedOnce'
    BY <2>2, ExchangeAssumption DEF BodyDropped
  <2>3. CASE RecorderDropped(r)
    BY <2>3, ExchangeAssumption DEF RecorderDropped
  <2>4. CASE ExchangeDropped(r)
    BY <2>4, ExchangeAssumption DEF ExchangeDropped
  <2>5. CASE RelayDropped(r)
    BY <2>5, ExchangeAssumption DEF RelayDropped
  <2> QED
    BY <1>4, <2>1, <2>2, <2>3, <2>4, <2>5 DEF DropStep
<1>5. ASSUME NEW r \in Requests, Remove(r) \/ List(r) PROVE CountedOnce'
  BY <1>5 DEF Remove, List
<1>6. ASSUME NEW r \in Requests, Report(r) PROVE CountedOnce'
  BY <1>6 DEF Report, Count
<1>7. CASE Cut \/ LookRecent \/ (\E r \in Requests : LookInFlight(r)) \/ UNCHANGED vars
  BY <1>7 DEF Cut, LookRecent, LookInFlight, vars
<1> QED BY <1>1, <1>2, <1>3, <1>4, <1>5, <1>6, <1>7, Steps

\* Every finished request of /v1/messages is in the statistics exactly once.
THEOREM CountedCorrect == Spec => []CountedOnce
<1>1. Init => CountedOnce
  BY DEF Init, CountedOnce
<1>2. TypeOK /\ CountedOnce /\ [Next]_vars => CountedOnce'
  BY CountStep
<1> QED BY <1>1, <1>2, ExchangeTypeCorrect, PTL DEF Spec

Once(s) == \A i, j \in 1..Len(s) : s[i] = s[j] => i = j

LEMMA AppendOnce ==
  ASSUME NEW S, NEW s \in Seq(S), NEW r \in S
  PROVE  /\ \A q : Listed(Append(s, r), q) <=> Listed(s, q) \/ q = r
         /\ Once(s) /\ ~Listed(s, r) => Once(Append(s, r))
<1> DEFINE t == Append(s, r)
<1>1. /\ Len(t) = Len(s) + 1 /\ Len(s) \in Nat
      /\ t[Len(t)] = r /\ \A i \in 1..Len(s) : t[i] = s[i]
  OBVIOUS
<1> HIDE DEF t
<1>2. \A i \in 1..Len(t) : i \in 1..Len(s) \/ i = Len(t)
  BY <1>1
<1>3. 1..Len(s) \subseteq 1..Len(t) /\ Len(t) \in 1..Len(t) /\ Len(t) \notin 1..Len(s)
  BY <1>1
<1>4. \A q : Listed(t, q) <=> Listed(s, q) \/ q = r
  BY <1>1, <1>2, <1>3 DEF Listed
<1>5. Once(s) /\ ~Listed(s, r) => Once(t)
  BY <1>1, <1>2, <1>3 DEF Once, Listed
<1> QED BY <1>4, <1>5 DEF t

LEMMA TailOnce ==
  ASSUME NEW S, NEW s \in Seq(S), s # <<>>, Once(s)
  PROVE  /\ Once(Tail(s)) /\ ~Listed(Tail(s), s[1])
         /\ \A q : Listed(s, q) <=> Listed(Tail(s), q) \/ q = s[1]
<1> DEFINE t == Tail(s)
<1>1. /\ Len(t) = Len(s) - 1 /\ Len(s) \in Nat \ {0}
      /\ \A i \in 1..Len(t) : t[i] = s[i + 1]
  OBVIOUS
<1> HIDE DEF t
<1>2. \A i \in 1..Len(t) : i + 1 \in 1..Len(s) /\ i + 1 # 1
  BY <1>1
<1>3. \A i \in 1..Len(s) : i = 1 \/ (i - 1 \in 1..Len(t) /\ t[i - 1] = s[i])
  BY <1>1
<1>4. 1 \in 1..Len(s)
  BY <1>1
<1>5. Once(t) /\ ~Listed(t, s[1])
  BY <1>1, <1>2, <1>4 DEF Once, Listed
<1>6. \A q : Listed(s, q) <=> Listed(t, q) \/ q = s[1]
  BY <1>1, <1>2, <1>3, <1>4 DEF Listed
<1> QED BY <1>5, <1>6 DEF t

LEMMA WithoutOnce ==
  ASSUME inFlight \in Seq(Requests), Once(inFlight), NEW r \in Requests, Without(r)
  PROVE  /\ Once(inFlight')
         /\ \A q : Listed(inFlight', q) <=> Listed(inFlight, q) /\ q # r
<1>1. PICK i \in 1..Len(inFlight) :
        /\ inFlight[i] = r
        /\ inFlight' = [j \in 1..(Len(inFlight) - 1) |->
                          IF j < i THEN inFlight[j] ELSE inFlight[j + 1]]
  BY DEF Without
<1>2. Len(inFlight) \in Nat /\ Len(inFlight) - 1 \in Nat
  BY <1>1
<1>3. inFlight' \in Seq(Requests) /\ Len(inFlight') = Len(inFlight) - 1
  <2>1. DOMAIN inFlight' = 1..(Len(inFlight) - 1)
    BY <1>1
  <2> QED BY <2>1, <1>2, WithoutType
<1>4. \A j \in 1..Len(inFlight') :
        IF j < i THEN j \in 1..Len(inFlight) /\ j # i /\ inFlight'[j] = inFlight[j]
        ELSE j + 1 \in 1..Len(inFlight) /\ j + 1 # i /\ inFlight'[j] = inFlight[j + 1]
  BY <1>1, <1>2, <1>3
<1>5. Once(inFlight')
  <2> SUFFICES ASSUME NEW j \in 1..Len(inFlight'), NEW k \in 1..Len(inFlight'),
                      inFlight'[j] = inFlight'[k]
               PROVE  j = k
    BY DEF Once
  <2> QED BY <1>2, <1>4 DEF Once
<1>6. ASSUME NEW q, Listed(inFlight', q) PROVE Listed(inFlight, q) /\ q # r
  <2>1. PICK j \in 1..Len(inFlight') : inFlight'[j] = q
    BY <1>6 DEF Listed
  <2> QED BY <1>1, <1>4, <2>1 DEF Once, Listed
<1>7. ASSUME NEW q, Listed(inFlight, q), q # r PROVE Listed(inFlight', q)
  <2>1. PICK j \in 1..Len(inFlight) : inFlight[j] = q
    BY <1>7 DEF Listed
  <2>2. CASE j < i
    <3>1. j \in 1..Len(inFlight')
      BY <1>2, <1>3, <2>1, <2>2
    <3> QED BY <3>1, <2>1, <2>2, <1>4 DEF Listed
  <2>3. CASE j > i
    <3>1. j - 1 \in 1..Len(inFlight') /\ ~(j - 1 < i) /\ (j - 1) + 1 = j
      BY <1>2, <1>3, <2>1, <2>3
    <3> QED BY <3>1, <2>1, <1>4 DEF Listed
  <2> QED BY <1>1, <1>7, <2>1, <2>2, <2>3
<1> QED BY <1>5, <1>6, <1>7

InFlightAt == Handling \cup Streaming \cup Dropping \cup {"ending"}
RecentAt == {"listed", "relayleft", "done"}

LEMMA ListedOnceAlt ==
  ListedOnce <=>
    /\ Once(inFlight) /\ Once(recent)
    /\ \A r \in Requests :
         /\ Listed(inFlight, r) <=> pc[r] \in InFlightAt
         /\ (Listed(recent, r) \/ r \in evicted) <=> pc[r] \in RecentAt
         /\ ~(Listed(recent, r) /\ r \in evicted)
    /\ evicted # {} => Len(recent) = Recent
  BY DEF ListedOnce, Once, InFlightAt, RecentAt

\* Steps that move a request about within its list.
Within(r) ==
  /\ UNCHANGED books
  /\ \A q \in Requests \ {r} : pc'[q] = pc[q]
  /\ pc'[r] \in InFlightAt <=> pc[r] \in InFlightAt
  /\ pc'[r] \in RecentAt <=> pc[r] \in RecentAt

LEMMA WithinKeeps ==
  ASSUME ListedOnce, NEW r \in Requests, Within(r)
  PROVE  ListedOnce'
<1>1. /\ inFlight' = inFlight /\ recent' = recent /\ evicted' = evicted
      /\ \A q \in Requests : /\ pc'[q] \in InFlightAt <=> pc[q] \in InFlightAt
                             /\ pc'[q] \in RecentAt <=> pc[q] \in RecentAt
  BY DEF Within, books
<1> QED BY <1>1 DEF ListedOnce, InFlightAt, RecentAt, Listed

LEMMA PushOnce ==
  ASSUME TypeOK, Once(recent), NEW r \in Requests, ~Listed(recent, r), r \notin evicted,
         evicted # {} => Len(recent) = Recent,
         \A q \in Requests : ~(Listed(recent, q) /\ q \in evicted),
         Push(r)
  PROVE  /\ Once(recent')
         /\ \A q \in Requests :
              /\ Listed(recent', q) \/ q \in evicted'
                   <=> Listed(recent, q) \/ q \in evicted \/ q = r
              /\ ~(Listed(recent', q) /\ q \in evicted')
         /\ evicted' # {} => Len(recent') = Recent
<1>0. recent \in Seq(Requests) /\ Recent \in Nat \ {0}
  BY ExchangeAssumption DEF TypeOK
<1>1. CASE Len(recent) = Recent
  <2> DEFINE t == Tail(recent)
  <2>1. recent # <<>> /\ t \in Seq(Requests) /\ Len(t) = Recent - 1 /\ recent[1] \in Requests
    BY <1>0, <1>1
  <2>2. recent' = Append(t, r) /\ evicted' = evicted \cup {recent[1]}
    BY <1>1 DEF Push
  <2>3. /\ Once(t) /\ ~Listed(t, recent[1])
        /\ \A q : Listed(recent, q) <=> Listed(t, q) \/ q = recent[1]
    BY <1>0, <2>1, TailOnce
  <2> HIDE DEF t
  <2>4. /\ \A q : Listed(recent', q) <=> Listed(t, q) \/ q = r
        /\ Once(recent')
    <3>1. ~Listed(t, r)
      BY <2>3
    <3> QED BY <2>1, <2>2, <2>3, <3>1, AppendOnce
  <2>5. Len(recent') = Recent
    BY <1>0, <2>1, <2>2
  <2>6. r # recent[1]
    BY <2>3
  <2> QED BY <2>2, <2>3, <2>4, <2>5, <2>6
<1>2. CASE Len(recent) # Recent
  <2>1. recent' = Append(recent, r) /\ evicted' = evicted /\ evicted = {}
    BY <1>2 DEF Push
  <2>2. (\A q : Listed(recent', q) <=> Listed(recent, q) \/ q = r) /\ Once(recent')
    BY <1>0, <2>1, AppendOnce
  <2> QED BY <2>1, <2>2
<1> QED BY <1>1, <1>2

LEMMA ListStep ==
  ASSUME TypeOK, ListedOnce, [Next]_vars
  PROVE  ListedOnce'
<1> USE DEF Handling, Streaming, Dropping, Goto
<1>0. /\ Once(inFlight) /\ Once(recent)
      /\ \A r \in Requests :
           /\ Listed(inFlight, r) <=> pc[r] \in InFlightAt
           /\ (Listed(recent, r) \/ r \in evicted) <=> pc[r] \in RecentAt
           /\ ~(Listed(recent, r) /\ r \in evicted)
      /\ evicted # {} => Len(recent) = Recent
  BY ListedOnceAlt
<1>1. ASSUME NEW r \in Requests, Arrive(r) PROVE ListedOnce'
  <2>1. /\ inFlight' = Append(inFlight, r) /\ recent' = recent /\ evicted' = evicted
        /\ pc[r] = "absent" /\ pc' = [pc EXCEPT ![r] = "reading"]
    BY <1>1 DEF Arrive
  <2>2. /\ \A q : Listed(inFlight', q) <=> Listed(inFlight, q) \/ q = r
        /\ Once(inFlight')
    <3>1. ~Listed(inFlight, r)
      BY <1>0, <2>1 DEF InFlightAt
    <3> QED BY <1>0, <2>1, <3>1, AppendOnce DEF TypeOK
  <2>3. \A q \in Requests : /\ pc'[q] \in InFlightAt <=> pc[q] \in InFlightAt \/ q = r
                            /\ pc'[q] \in RecentAt <=> pc[q] \in RecentAt
    BY <2>1 DEF TypeOK, InFlightAt, RecentAt
  <2>4. /\ Once(recent')
        /\ \A q \in Requests : Listed(recent', q) <=> Listed(recent, q)
    BY <1>0, <2>1 DEF Once, Listed
  <2> QED BY <1>0, <2>1, <2>2, <2>3, <2>4 DEF ListedOnce, Once, InFlightAt, RecentAt
<1>2. ASSUME NEW r \in Requests, HandlerStep(r) PROVE ListedOnce'
  <2> USE DEF Within, InFlightAt, RecentAt, TypeOK, books
  <2>1. CASE Read(r) \/ Forward(r)
    BY <2>1, WithinKeeps DEF Read, Forward
  <2>2. CASE Refuse(r) \/ UpstreamFails(r) \/ Untranslatable(r)
    BY <2>2, WithinKeeps DEF Refuse, UpstreamFails, Untranslatable, Fail, End
  <2>3. ASSUME NEW s \in {"ok", "refused"}, NEW next \in {"buffering"} \cup Streaming,
               Responded(r, s, next)
        PROVE  ListedOnce'
    <3>1. Within(r)
      BY <2>3 DEF Responded
    <3> QED BY <3>1, WithinKeeps
  <2>4. ASSUME NEW o \in {"complete", "error"}, Buffered(r, o) PROVE ListedOnce'
    <3>1. Within(r)
      BY <2>4 DEF Buffered, End
    <3> QED BY <3>1, WithinKeeps
  <2> QED BY <1>2, <2>1, <2>2, <2>3, <2>4 DEF HandlerStep
<1>3. ASSUME NEW r \in Requests, BodyStep(r) PROVE ListedOnce'
  <2>1. Within(r)
    BY <1>3 DEF BodyStep, TranslatedEnds, InputEnds, RelayedEnds, End,
                Within, InFlightAt, RecentAt, TypeOK, books
  <2> QED BY <2>1, WithinKeeps
<1>4. ASSUME NEW r \in Requests, DropStep(r) PROVE ListedOnce'
  <2>1. Within(r)
    BY <1>4 DEF DropStep, HandlerDropped, BodyDropped, RecorderDropped, ExchangeDropped,
                RelayDropped, Drop, End, Within, InFlightAt, RecentAt, TypeOK, books
  <2> QED BY <2>1, WithinKeeps
<1>5. ASSUME NEW r \in Requests, Remove(r) PROVE ListedOnce'
  <2>1. /\ recent' = recent /\ evicted' = evicted
        /\ pc[r] = "ending" /\ pc' = [pc EXCEPT ![r] = "moving"]
    BY <1>5 DEF Remove
  <2>2. /\ Once(inFlight')
        /\ \A q : Listed(inFlight', q) <=> Listed(inFlight, q) /\ q # r
    BY <1>0, <1>5, WithoutOnce DEF TypeOK, Remove
  <2>3. \A q \in Requests : /\ pc'[q] \in InFlightAt <=> pc[q] \in InFlightAt /\ q # r
                            /\ pc'[q] \in RecentAt <=> pc[q] \in RecentAt
    BY <2>1 DEF TypeOK, InFlightAt, RecentAt
  <2>4. /\ Once(recent')
        /\ \A q \in Requests : Listed(recent', q) <=> Listed(recent, q)
    BY <1>0, <2>1 DEF Once, Listed
  <2> QED BY <1>0, <2>1, <2>2, <2>3, <2>4 DEF ListedOnce, Once, InFlightAt, RecentAt
<1>6. ASSUME NEW r \in Requests, List(r) PROVE ListedOnce'
  <2>1. /\ inFlight' = inFlight
        /\ pc[r] = "moving" /\ pc' = [pc EXCEPT ![r] = "listed"]
        /\ Push(r)
    BY <1>6 DEF List
  <2>2. ~Listed(recent, r) /\ r \notin evicted
    BY <1>0, <2>1 DEF RecentAt
  <2>3. /\ Once(recent')
        /\ \A q \in Requests :
             /\ Listed(recent', q) \/ q \in evicted'
                  <=> Listed(recent, q) \/ q \in evicted \/ q = r
             /\ ~(Listed(recent', q) /\ q \in evicted')
        /\ evicted' # {} => Len(recent') = Recent
    BY <1>0, <2>1, <2>2, PushOnce
  <2>4. \A q \in Requests : /\ pc'[q] \in InFlightAt <=> pc[q] \in InFlightAt
                            /\ pc'[q] \in RecentAt <=> pc[q] \in RecentAt \/ q = r
    BY <2>1 DEF TypeOK, InFlightAt, RecentAt
  <2>5. /\ Once(inFlight')
        /\ \A q \in Requests : Listed(inFlight', q) <=> Listed(inFlight, q)
    BY <1>0, <2>1 DEF Once, Listed
  <2> QED BY <1>0, <2>1, <2>3, <2>4, <2>5 DEF ListedOnce, Once, InFlightAt, RecentAt
<1>7. ASSUME NEW r \in Requests, Report(r) PROVE ListedOnce'
  <2>1. /\ inFlight' = inFlight /\ recent' = recent /\ evicted' = evicted
        /\ \A q \in Requests : /\ pc'[q] \in InFlightAt <=> pc[q] \in InFlightAt
                               /\ pc'[q] \in RecentAt <=> pc[q] \in RecentAt
    BY <1>7 DEF Report, TypeOK, InFlightAt, RecentAt
  <2> QED BY <2>1 DEF ListedOnce, InFlightAt, RecentAt, Listed
<1>8. CASE Cut \/ LookRecent \/ (\E r \in Requests : LookInFlight(r)) \/ UNCHANGED vars
  <2>1. UNCHANGED <<inFlight, recent, evicted, pc>>
    BY <1>8 DEF Cut, LookRecent, LookInFlight, vars, books
  <2> QED BY <2>1 DEF ListedOnce, Listed
<1> QED BY <1>1, <1>2, <1>3, <1>4, <1>5, <1>6, <1>7, <1>8, Steps

\* The console's two lists hold every request exactly once.
THEOREM ListedCorrect == Spec => []ListedOnce
<1>1. Init => ListedOnce
  <2> SUFFICES ASSUME Init PROVE ListedOnce
    OBVIOUS
  <2>1. evicted = {} /\ 1..Len(inFlight) = {} /\ 1..Len(recent) = {}
    BY DEF Init
  <2>2. \A r \in Requests : pc[r] = "absent" /\ ~Listed(inFlight, r) /\ ~Listed(recent, r)
    BY <2>1 DEF Init, Listed
  <2> QED BY <2>1, <2>2 DEF ListedOnce, Handling, Streaming, Dropping
<1>2. TypeOK /\ ListedOnce /\ [Next]_vars => ListedOnce'
  BY ListStep
<1> QED BY <1>1, <1>2, ExchangeTypeCorrect, PTL DEF Spec

-----------------------------------------------------------------------------
(* The console's lookup.                                                   *)

\* Out of the list in flight, for good.
GoneAt == {"moving"} \cup RecentAt

LEMMA GoneForGood ==
  ASSUME TypeOK, [Next]_vars, NEW r \in Requests, pc[r] \in GoneAt
  PROVE  pc'[r] \in GoneAt
<1> USE DEF GoneAt, RecentAt, Handling, Streaming, Goto, End, Fail, Drop, TypeOK
<1>1. ASSUME NEW q \in Requests,
             Arrive(q) \/ HandlerStep(q) \/ BodyStep(q) \/ DropStep(q) \/ Remove(q)
               \/ List(q) \/ Report(q)
      PROVE  pc'[r] \in GoneAt
  <2>1. CASE Arrive(q) \/ HandlerStep(q)
    BY <2>1 DEF Arrive, HandlerStep, Read, Forward, Refuse, UpstreamFails, Responded, Buffered,
                Untranslatable
  <2>2. CASE BodyStep(q)
    BY <2>2 DEF BodyStep, TranslatedEnds, InputEnds, RelayedEnds
  <2>3. CASE DropStep(q)
    BY <2>3 DEF DropStep, HandlerDropped, BodyDropped, RecorderDropped, ExchangeDropped, RelayDropped
  <2>4. CASE Remove(q) \/ List(q) \/ Report(q)
    BY <2>4 DEF Remove, List, Report
  <2> QED BY <1>1, <2>1, <2>2, <2>3, <2>4
<1>2. CASE Cut \/ LookRecent \/ (\E q \in Requests : LookInFlight(q)) \/ UNCHANGED vars
  BY <1>2 DEF Cut, LookRecent, LookInFlight, vars
<1> QED BY <1>1, <1>2, Steps

\* A request that had begun and was not found in flight has left that list.
LookInv == Looking /\ look.known = "begun" => pc[look.id] \in GoneAt

LEMMA LookStep ==
  ASSUME TypeOK, ListedOnce, LookInv, [Next]_vars
  PROVE  LookInv'
<1>1. ASSUME NEW r \in Requests, LookInFlight(r) PROVE LookInv'
  <2>1. /\ look' = [id |-> r,
                    known |-> IF pc[r] = "absent" THEN "absent" ELSE "begun",
                    at |-> IF Listed(inFlight, r) THEN "found" ELSE "second"]
        /\ pc' = pc
    BY <1>1 DEF LookInFlight
  <2>2. Looking' /\ look'.known = "begun" => pc[r] # "absent" /\ ~Listed(inFlight, r)
    BY <2>1 DEF Looking
  <2>3. pc[r] \in Places /\ (Listed(inFlight, r) <=> pc[r] \in InFlightAt)
    BY ListedOnceAlt DEF TypeOK
  <2>4. pc[r] # "absent" /\ ~Listed(inFlight, r) => pc[r] \in GoneAt
    BY <2>3 DEF Places, InFlightAt, GoneAt, RecentAt, Finishing
  <2> QED BY <2>1, <2>2, <2>4 DEF LookInv
<1>2. CASE LookRecent
  <2>1. look' # None => look'.at # "second"
    BY <1>2 DEF LookRecent
  <2> QED BY <2>1 DEF LookInv, Looking
<1>3. ASSUME UNCHANGED look PROVE LookInv'
  <2>1. CASE Looking /\ look.known = "begun"
    <3>1. look.id \in Requests
      BY <2>1 DEF TypeOK, Looking, LookRec
    <3> QED BY <1>3, <2>1, <3>1, GoneForGood DEF LookInv
  <2> QED BY <1>3, <2>1 DEF LookInv, Looking
<1>4. ASSUME NEW r \in Requests,
             Arrive(r) \/ HandlerStep(r) \/ BodyStep(r) \/ DropStep(r) \/ Remove(r)
               \/ List(r) \/ Report(r)
      PROVE  UNCHANGED look
  <2>1. CASE Arrive(r) \/ HandlerStep(r)
    BY <2>1 DEF Arrive, HandlerStep, Read, Forward, Refuse, UpstreamFails, Responded, Buffered,
                Untranslatable
  <2>2. CASE BodyStep(r)
    BY <2>2 DEF BodyStep, TranslatedEnds, InputEnds, RelayedEnds
  <2>3. CASE DropStep(r)
    BY <2>3 DEF DropStep, HandlerDropped, BodyDropped, RecorderDropped, ExchangeDropped, RelayDropped
  <2>4. CASE Remove(r) \/ List(r) \/ Report(r)
    BY <2>4 DEF Remove, List, Report
  <2> QED BY <1>4, <2>1, <2>2, <2>3, <2>4
<1>5. Cut \/ UNCHANGED vars => UNCHANGED look
  BY DEF Cut, vars
<1> QED BY <1>1, <1>2, <1>3, <1>4, <1>5, Steps

LEMMA LookMisses ==
  ASSUME TypeOK, ListedOnce, LookInv, [Next]_vars,
         look # None, look.at = "second", look.known = "begun", look'.at = "missed"
  PROVE  look.id \in evicted \/ pc[look.id] = "moving"
<1>1. Looking /\ look.id \in Requests /\ pc[look.id] \in GoneAt
  BY DEF TypeOK, LookRec, LookInv, Looking
<1>2. CASE LookRecent
  <2>1. ~Listed(recent, look.id)
    BY <1>2 DEF LookRecent
  <2>2. (Listed(recent, look.id) \/ look.id \in evicted) <=> pc[look.id] \in RecentAt
    BY <1>1, ListedOnceAlt
  <2> QED BY <1>1, <2>1, <2>2 DEF GoneAt
<1>3. look' # look
  OBVIOUS
<1>4. LookRecent \/ look' = look
  <2>1. ASSUME NEW r \in Requests, LookInFlight(r) PROVE FALSE
    BY <1>1, <2>1 DEF LookInFlight
  <2>2. ASSUME NEW r \in Requests, Arrive(r) \/ HandlerStep(r) PROVE look' = look
    BY <2>2 DEF Arrive, HandlerStep, Read, Forward, Refuse, UpstreamFails, Responded, Buffered,
                Untranslatable
  <2>3. ASSUME NEW r \in Requests, BodyStep(r) PROVE look' = look
    BY <2>3 DEF BodyStep, TranslatedEnds, InputEnds, RelayedEnds
  <2>4. ASSUME NEW r \in Requests, DropStep(r) PROVE look' = look
    BY <2>4 DEF DropStep, HandlerDropped, BodyDropped, RecorderDropped, ExchangeDropped, RelayDropped
  <2>5. ASSUME NEW r \in Requests, Remove(r) \/ List(r) \/ Report(r) PROVE look' = look
    BY <2>5 DEF Remove, List, Report
  <2>6. Cut \/ UNCHANGED vars => look' = look
    BY DEF Cut, vars
  <2> QED BY <2>1, <2>2, <2>3, <2>4, <2>5, <2>6, Steps
<1> QED BY <1>2, <1>3, <1>4

\* The console's lookup misses a request that had begun only when it was pushed
\* out of the recent list or is being moved there by the thread finishing it.
THEOREM FindCorrect == Spec => FindMissesOnlyInTheGap
<1>1. Init => LookInv
  BY DEF Init, LookInv, Looking
<1>2. TypeOK /\ ListedOnce /\ LookInv /\ [Next]_vars => LookInv'
  BY LookStep
<1>3. TypeOK /\ ListedOnce /\ LookInv /\ [Next]_vars
        => [look # None /\ look.at = "second" /\ look.known = "begun" /\ look'.at = "missed"
              => look.id \in evicted \/ pc[look.id] = "moving"]_vars
  BY LookMisses
<1> QED
  BY <1>1, <1>2, <1>3, ExchangeTypeCorrect, ListedCorrect, PTL DEF Spec, FindMissesOnlyInTheGap

-----------------------------------------------------------------------------
\* The body log: the entries on disk are whole, and gone once deleted.

Write == [kind : Kinds, bytes : Seq(Bytes)]

QueueOK ==
  /\ queue \in Seq(Write)
  /\ at \in {"ready", "first", "second"} /\ (at # "ready" => queue # <<>>)
  /\ dir \in {"absent", "present"}
  /\ removing \in [Removers -> {"idle", "unlink", "removed", "missing", "failed"}]
  /\ response \in Seq(Bytes)
  /\ arrived \in 0..MaxBytes

\* The first write is the only one that may make the directory, and until it has
\* nobody can have found one to delete.
MadeOnce ==
  /\ rec = "new" => queue = <<>> /\ dir = "absent"
  /\ \A i \in 2..Len(queue) : queue[i].kind # "begin"
  /\ queue # <<>> /\ queue[1].kind = "begin" /\ at = "ready" => dir = "absent"
  /\ rec = "new" \/ (queue # <<>> /\ queue[1].kind = "begin" /\ at = "ready") =>
       \A r \in Removers : removing[r] \in {"idle", "missing"}

IInv == QueueOK /\ MadeOnce /\ DeletedStaysGone

-----------------------------------------------------------------------------
LEMMA Concat ==
  ASSUME NEW S, NEW a \in Seq(S), NEW b \in Seq(S)
  PROVE  /\ a \o b \in Seq(S) /\ Len(a \o b) = Len(a) + Len(b)
         /\ \A i \in 1..Len(a) + Len(b) :
              (a \o b)[i] = IF i <= Len(a) THEN a[i] ELSE b[i - Len(a)]
OBVIOUS

LEMMA Single ==
  ASSUME NEW S, NEW x \in S
  PROVE  <<x>> \in Seq(S) /\ Len(<<x>>) = 1 /\ <<x>>[1] = x /\ <<x>> # <<>>
OBVIOUS

LEMMA EmptySeq ==
  ASSUME NEW S
  PROVE  <<>> \in Seq(S) /\ Len(<<>>) = 0
OBVIOUS

LEMMA NumberedType ==
  ASSUME NEW k \in 0..MaxBytes, NEW n \in Nat, k + n <= MaxBytes
  PROVE  Numbered(k, n) \in Seq(Bytes)
<1>1. \A i \in 1..n : k + i \in Bytes
  BY BodyLogAssumption DEF Bytes
<1> QED
  BY <1>1 DEF Numbered

LEMMA KeptType ==
  ASSUME arrived \in 0..MaxBytes, NEW n \in 1..MaxBytes, arrived + n <= MaxBytes
  PROVE  Kept(n) \in Seq(Bytes)
<1>1. PICK m \in Nat : m <= n /\ Kept(n) = Numbered(arrived, m)
  BY BodyLogAssumption DEF Kept, Room
<1> QED
  BY <1>1, NumberedType, BodyLogAssumption

LEMMA WritesType ==
  ASSUME NEW b \in Seq(Bytes)
  PROVE  /\ NewWrite("begin", b) \in Write /\ NewWrite("append", b) \in Write
         /\ NewWrite("body", b) \in Write /\ NewWrite("meta", b) \in Write
         /\ NewWrite("append", b).kind # "begin" /\ NewWrite("body", b).kind # "begin"
         /\ NewWrite("meta", b).kind # "begin"
BY DEF NewWrite, Write, Kinds

\* Writes queued behind the others leave the oldest one alone and are no first ones.
LEMMA QueueLater ==
  ASSUME QueueOK, MadeOnce, rec = "live", NEW q \in Seq(Write), q # <<>>,
         \A i \in 1..Len(q) : q[i].kind # "begin",
         queue' = queue \o q, UNCHANGED <<at, dir, removing>>,
         rec' # "new"
  PROVE  MadeOnce'
<1>1. queue' \in Seq(Write) /\ Len(queue') = Len(queue) + Len(q)
  BY DEF QueueOK
<1>2. \A i \in 1..Len(queue') :
        queue'[i] = IF i <= Len(queue) THEN queue[i] ELSE q[i - Len(queue)]
  BY DEF QueueOK
<1>3. Len(queue) \in Nat /\ Len(q) \in Nat
  BY DEF QueueOK
<1>4. \A i \in 2..Len(queue') : queue'[i].kind # "begin"
  <2> SUFFICES ASSUME NEW i \in 2..Len(queue') PROVE queue'[i].kind # "begin"
    OBVIOUS
  <2>1. CASE i <= Len(queue)
    BY <1>1, <1>2, <1>3, <2>1 DEF MadeOnce
  <2>2. CASE ~(i <= Len(queue))
    <3>1. i - Len(queue) \in 1..Len(q) /\ queue'[i] = q[i - Len(queue)]
      BY <1>1, <1>2, <1>3, <2>2
    <3> QED
      BY <3>1
  <2> QED
    BY <2>1, <2>2
<1>5. ASSUME queue' # <<>>, queue'[1].kind = "begin"
      PROVE  queue # <<>> /\ queue[1].kind = "begin"
  <2>1. queue # <<>>
    <3> SUFFICES ASSUME queue = <<>> PROVE FALSE
      OBVIOUS
    <3>1. queue' = q /\ 1 \in 1..Len(q)
      OBVIOUS
    <3> QED
      BY <1>5, <3>1
  <2>2. 1 \in 1..Len(queue') /\ 1 <= Len(queue)
    BY <1>1, <1>3, <2>1 DEF QueueOK
  <2> QED
    BY <1>2, <1>5, <2>1, <2>2
<1> QED
  BY <1>4, <1>5 DEF MadeOnce

\* The oldest write done, the next is no first one.
LEMMA QueueAdvances ==
  ASSUME QueueOK, MadeOnce, queue # <<>>, Finished, UNCHANGED <<rec, removing>>
  PROVE  queue' \in Seq(Write) /\ MadeOnce'
<1>1. queue' \in Seq(Write) /\ Len(queue') = Len(queue) - 1
      /\ \A i \in 1..Len(queue') : queue'[i] = queue[i + 1]
  BY DEF QueueOK, Finished
<1>2. \A i \in 1..Len(queue') : queue'[i].kind # "begin"
  <2> SUFFICES ASSUME NEW i \in 1..Len(queue') PROVE queue'[i].kind # "begin"
    OBVIOUS
  <2>1. i + 1 \in 2..Len(queue)
    BY <1>1 DEF QueueOK
  <2> QED
    BY <1>1, <2>1 DEF MadeOnce
<1>3. rec # "new"
  BY DEF MadeOnce
<1>4. queue' # <<>> => queue'[1].kind # "begin"
  <2>1. queue' # <<>> => 1 \in 1..Len(queue')
    BY <1>1
  <2> QED
    BY <1>2, <2>1
<1>5. \A i \in 2..Len(queue') : queue'[i].kind # "begin"
  BY <1>1, <1>2
<1> QED
  BY <1>1, <1>3, <1>4, <1>5 DEF MadeOnce

-----------------------------------------------------------------------------
\* What ends a recorder queues behind what is queued.
LEMMA RecordQueues ==
  ASSUME QueueOK, NEW b \in Seq(Bytes), Record(b)
  PROVE  \E q \in Seq(Write) :
           /\ q # <<>> /\ queue' = queue \o q
           /\ \A i \in 1..Len(q) : q[i].kind # "begin"
<1> DEFINE body == BodyWrites(b)
<1> DEFINE last == <<NewWrite("meta", <<>>)>>
<1>1. <<>> \in Seq(Bytes)
  OBVIOUS
<1>2. /\ body \in Seq(Write)
      /\ \A i \in 1..Len(body) : body[i].kind # "begin"
  <2>1. /\ NewWrite("append", b) \in Write /\ NewWrite("append", b).kind # "begin"
        /\ NewWrite("body", b) \in Write /\ NewWrite("body", b).kind # "begin"
    BY WritesType
  <2>2. body \in {<<>>, <<NewWrite("append", b)>>, <<NewWrite("body", b)>>}
    BY DEF BodyWrites
  <2>3. CASE body = <<>>
    BY <2>3, EmptySeq
  <2>4. CASE body = <<NewWrite("append", b)>>
    BY <2>1, <2>4, Single
  <2>5. CASE body = <<NewWrite("body", b)>>
    BY <2>1, <2>5, Single
  <2> QED
    BY <2>2, <2>3, <2>4, <2>5
<1>3. /\ last \in Seq(Write) /\ Len(last) = 1 /\ last[1].kind # "begin"
  BY <1>1, WritesType, Single
<1>4. queue' = queue \o body \o last
  BY DEF Record
<1> HIDE DEF body, last
<1>5. queue' = queue \o (body \o last)
  BY <1>2, <1>3, <1>4 DEF QueueOK
<1>6. /\ body \o last \in Seq(Write) /\ Len(body \o last) = Len(body) + 1
      /\ \A i \in 1..Len(body) + 1 :
           (body \o last)[i] = IF i <= Len(body) THEN body[i] ELSE last[i - Len(body)]
  BY <1>2, <1>3, Concat
<1>7. \A i \in 1..Len(body \o last) : (body \o last)[i].kind # "begin"
  <2> SUFFICES ASSUME NEW i \in 1..Len(body) + 1 PROVE (body \o last)[i].kind # "begin"
    BY <1>6
  <2>1. CASE i <= Len(body)
    BY <1>2, <1>6, <2>1
  <2>2. CASE ~(i <= Len(body))
    <3>1. i - Len(body) = 1
      BY <1>2, <2>2
    <3> QED
      BY <1>3, <1>6, <2>2, <3>1
  <2> QED
    BY <2>1, <2>2
<1>8. body \o last # <<>>
  BY <1>2, <1>6
<1> QED
  BY <1>5, <1>6, <1>7, <1>8

LEMMA StepIInv ==
  ASSUME IInv, [LogNext]_logVars
  PROVE  IInv'
<1> USE BodyLogAssumption
<1>0. QueueOK /\ MadeOnce /\ DeletedStaysGone
  BY DEF IInv
<1>1. ASSUME rec = "live", rec' # "new", UNCHANGED <<at, dir, removing>>,
             NEW q \in Seq(Write), q # <<>>, queue' = queue \o q,
             \A i \in 1..Len(q) : q[i].kind # "begin",
             response' \in Seq(Bytes), arrived' \in 0..MaxBytes
      PROVE  IInv'
  <2>1. MadeOnce'
    BY <1>0, <1>1, QueueLater
  <2>2. queue' \in Seq(Write) /\ queue' # <<>>
    <3>1. Len(queue') = Len(queue) + Len(q) /\ queue' \in Seq(Write) /\ Len(q) # 0
      BY <1>0, <1>1, Concat DEF QueueOK
    <3> QED
      BY <1>0, <3>1 DEF QueueOK
  <2> QED
    BY <1>0, <1>1, <2>1, <2>2 DEF IInv, QueueOK, DeletedStaysGone
<1>2. CASE Begin
  <2>1. /\ queue' = <<NewWrite("begin", <<>>)>> /\ queue' \in Seq(Write) /\ Len(queue') = 1
        /\ dir = "absent" /\ \A r \in Removers : removing[r] \in {"idle", "missing"}
    BY <1>0, <1>2, WritesType, EmptySeq, Single DEF Begin, MadeOnce
  <2>2. MadeOnce'
    BY <1>2, <2>1 DEF Begin, MadeOnce, disk, removal
  <2> QED
    BY <1>0, <1>2, <2>1, <2>2 DEF Begin, IInv, QueueOK, DeletedStaysGone, disk, removal
<1>3. ASSUME NEW n \in 1..MaxBytes, Chunk(n) PROVE IInv'
  <2> DEFINE held == response \o Kept(n)
  <2>1. held \in Seq(Bytes)
    BY <1>0, <1>3, KeptType DEF Chunk, QueueOK
  <2>2. /\ rec = "live" /\ rec' = "live" /\ arrived' \in 0..MaxBytes
        /\ UNCHANGED <<at, dir, removing>>
    BY <1>0, <1>3 DEF Chunk, disk, removal, QueueOK
  <2>3. /\ response' \in {<<>>, held}
        /\ queue' = queue \/ queue' = Append(queue, NewWrite("append", held))
    BY <1>3 DEF Chunk, FlushOf
  <2> HIDE DEF held
  <2>4. response' \in Seq(Bytes)
    BY <2>1, <2>3, EmptySeq
  <2>5. CASE queue' = queue
    BY <1>0, <2>2, <2>4, <2>5 DEF IInv, QueueOK, MadeOnce, DeletedStaysGone
  <2>6. CASE queue' = Append(queue, NewWrite("append", held))
    <3> DEFINE q == <<NewWrite("append", held)>>
    <3>1. /\ q \in Seq(Write) /\ q # <<>> /\ Len(q) = 1
          /\ \A i \in 1..Len(q) : q[i].kind # "begin"
      BY <2>1, WritesType
    <3>2. queue' = queue \o q
      BY <1>0, <2>1, <2>6, WritesType DEF QueueOK
    <3> HIDE DEF q
    <3> QED
      BY <1>1, <2>2, <2>4, <3>1, <3>2
  <2> QED
    BY <2>3, <2>5, <2>6
<1>4. CASE Finish
  <2>1. PICK q \in Seq(Write) : /\ q # <<>> /\ queue' = queue \o q
                                /\ \A i \in 1..Len(q) : q[i].kind # "begin"
    BY <1>0, <1>4, RecordQueues DEF Finish, QueueOK
  <2>2. /\ rec = "live" /\ rec' = "ended" /\ UNCHANGED <<at, dir, removing>>
        /\ response' \in Seq(Bytes) /\ arrived' \in 0..MaxBytes
    BY <1>0, <1>4 DEF Finish, QueueOK, disk, removal
  <2> QED
    BY <1>1, <2>1, <2>2
<1>5. ASSUME NEW n \in 1..MaxBytes, FinishWithBody(n) PROVE IInv'
  <2>1. Numbered(0, n) \in Seq(Bytes)
    BY NumberedType
  <2>2. PICK q \in Seq(Write) : /\ q # <<>> /\ queue' = queue \o q
                                /\ \A i \in 1..Len(q) : q[i].kind # "begin"
    BY <1>0, <1>5, <2>1, RecordQueues DEF FinishWithBody
  <2>3. /\ rec = "live" /\ rec' = "ended" /\ UNCHANGED <<at, dir, removing>>
        /\ response' \in Seq(Bytes) /\ arrived' \in 0..MaxBytes
    BY <1>0, <1>5 DEF FinishWithBody, QueueOK, disk, removal
  <2> QED
    BY <1>1, <2>2, <2>3
<1>6. CASE Ready
  <2>1. UNCHANGED <<rec, arrived, response, removing>> /\ queue # <<>> /\ at = "ready"
    BY <1>6 DEF Ready, recorder, removal
  <2>2. CASE First.kind = "begin" \/ dir = "present"
    <3>1. dir' = "present" /\ at' = "first" /\ queue' = queue
      BY <1>6, <2>2 DEF Ready
    <3>2. First = queue[1]
      BY <2>1, <1>0 DEF First, QueueOK
    <3>3. \A r \in Removers : removing[r] # "removed"
      <4>1. CASE First.kind = "begin"
        BY <1>0, <2>1, <3>2, <4>1 DEF MadeOnce
      <4>2. CASE dir = "present"
        BY <1>0, <4>2 DEF DeletedStaysGone
      <4> QED
        BY <2>2, <4>1, <4>2
    <3>4. MadeOnce'
      BY <1>0, <2>1, <3>1 DEF MadeOnce
    <3> QED
      BY <1>0, <2>1, <3>1, <3>3, <3>4 DEF IInv, QueueOK, DeletedStaysGone
  <2>3. CASE ~(First.kind = "begin" \/ dir = "present")
    <3>1. Finished /\ dir' = dir /\ at' = "ready"
      BY <1>6, <2>3 DEF Ready, Finished
    <3>2. queue' \in Seq(Write) /\ MadeOnce'
      BY <1>0, <2>1, <3>1, QueueAdvances
    <3> QED
      BY <1>0, <2>1, <3>1, <3>2 DEF IInv, QueueOK, DeletedStaysGone
  <2> QED
    BY <2>2, <2>3
<1>7. CASE Perform \/ WriteFails
  <2>1. /\ UNCHANGED <<rec, arrived, response, removing, dir>> /\ at # "ready" /\ NextStep
        /\ queue # <<>>
    BY <1>0, <1>7 DEF Perform, WriteFails, recorder, removal, disk, QueueOK
  <2>2. CASE First.kind = "begin" /\ at = "first"
    <3>1. at' = "second" /\ queue' = queue
      BY <2>1, <2>2 DEF NextStep
    <3> QED
      BY <1>0, <2>1, <3>1 DEF IInv, QueueOK, MadeOnce, DeletedStaysGone
  <2>3. CASE ~(First.kind = "begin" /\ at = "first")
    <3>1. Finished /\ at' = "ready"
      BY <2>1, <2>3 DEF NextStep, Finished
    <3>2. queue' \in Seq(Write) /\ MadeOnce'
      BY <1>0, <2>1, <3>1, QueueAdvances
    <3> QED
      BY <1>0, <2>1, <3>1, <3>2 DEF IInv, QueueOK, DeletedStaysGone
  <2> QED
    BY <2>2, <2>3
<1>8. ASSUME NEW r \in Removers, RemoveFinds(r) \/ RemoveDir(r) \/ \E f \in Names : Unlink(r, f)
      PROVE  IInv'
  <2>1. UNCHANGED <<rec, arrived, response, queue, at>>
    BY <1>8 DEF RemoveFinds, RemoveDir, Unlink, recorder
  <2>2. CASE RemoveFinds(r)
    <3>1. CASE dir = "present"
      BY <1>0, <2>1, <2>2, <3>1
         DEF RemoveFinds, At, disk, IInv, QueueOK, MadeOnce, DeletedStaysGone
    <3>2. CASE dir # "present"
      BY <1>0, <2>1, <2>2, <3>2
         DEF RemoveFinds, At, disk, IInv, QueueOK, MadeOnce, DeletedStaysGone
    <3> QED
      BY <3>1, <3>2
  <2>3. CASE RemoveDir(r)
    BY <1>0, <2>1, <2>3 DEF RemoveDir, At, IInv, QueueOK, MadeOnce, DeletedStaysGone
  <2>4. CASE \E f \in Names : Unlink(r, f)
    BY <1>0, <2>1, <2>4 DEF Unlink, IInv, QueueOK, MadeOnce, DeletedStaysGone
  <2> QED
    BY <1>8, <2>2, <2>3, <2>4
<1>9. CASE UNCHANGED logVars
  BY <1>0, <1>9 DEF logVars, recorder, disk, removal, IInv, QueueOK, MadeOnce, DeletedStaysGone
<1> QED
  BY <1>2, <1>3, <1>4, <1>5, <1>6, <1>7, <1>8, <1>9 DEF LogNext

\* An entry somebody deleted never comes back, whatever its recorder has yet to write.
THEOREM DeletedCorrect == LogSpec => []DeletedStaysGone
<1>1. LogInit => IInv
  BY BodyLogAssumption DEF LogInit, IInv, QueueOK, MadeOnce, DeletedStaysGone, Write
<1>2. IInv /\ [LogNext]_logVars => IInv'
  BY StepIInv
<1>3. IInv => DeletedStaysGone
  BY DEF IInv
<1> QED
  BY <1>1, <1>2, <1>3, PTL DEF LogSpec

-----------------------------------------------------------------------------
\* What the queue's types leave of TypeOK.
DiskOK ==
  /\ rec \in {"new", "live", "ended"} /\ flushed \in {"no", "yes"}
  /\ files \subseteq Names /\ (dir = "absent" => files = {})
  /\ content \in Seq(Bytes) /\ meta \in {"first", "final"}
  /\ unlinking \in [Removers -> SUBSET Names]
  /\ failed \in {"no", "yes"}

\* A file of the entry is put only where its directory is.
LEMMA PutTypes ==
  ASSUME IInv, DiskOK, Perform
  PROVE  DiskOK'
<1>1. First \in Write /\ dir' = "present"
  <2>1. queue \in Seq(Write) /\ queue # <<>>
    BY DEF IInv, QueueOK, Perform
  <2> QED
    BY <2>1 DEF First, Perform
<1>2. at \in {"first", "second"} /\ First.kind \in Kinds /\ First.bytes \in Seq(Bytes)
  BY <1>1 DEF IInv, QueueOK, Perform, Write
<1>3. /\ files' \in {files \cup {n} : n \in Names}
      /\ content' \in {content, First.bytes, content \o First.bytes, <<>> \o First.bytes}
      /\ meta' \in {meta, "first", "final"}
  <2>1. CASE First.kind = "begin" /\ at = "first"
    BY <2>1 DEF Perform, Put, Names
  <2>2. CASE First.kind = "begin" /\ at = "second"
    BY <2>2 DEF Perform, Put, Names
  <2>3. CASE First.kind = "body"
    BY <2>3 DEF Perform, Put, Names
  <2>4. CASE First.kind = "append"
    BY <2>4 DEF Perform, Put, Names
  <2>5. CASE First.kind = "meta"
    BY <2>5 DEF Perform, Put, Names
  <2> QED
    BY <1>2, <2>1, <2>2, <2>3, <2>4, <2>5 DEF Kinds
<1>4. content' \in Seq(Bytes)
  <2>1. content \in Seq(Bytes)
    BY DEF DiskOK
  <2>2. content \o First.bytes \in Seq(Bytes) /\ <<>> \o First.bytes \in Seq(Bytes)
    BY <1>2, <2>1, Concat, EmptySeq
  <2> QED
    BY <1>2, <1>3, <2>1, <2>2
<1>5. files' \subseteq Names /\ meta' \in {"first", "final"}
  BY <1>3 DEF DiskOK
<1> QED
  BY <1>1, <1>4, <1>5 DEF DiskOK, Perform, recorder, removal

LEMMA StepTypes ==
  ASSUME IInv, DiskOK, [LogNext]_logVars
  PROVE  DiskOK'
<1>1. CASE Begin \/ Finish \/ \E n \in 1..MaxBytes : Chunk(n) \/ FinishWithBody(n)
  <2>1. UNCHANGED <<disk, removal, failed>> /\ rec' \in {"live", "ended"}
        /\ flushed' \in {flushed, "yes"}
    BY <1>1 DEF Begin, Finish, Chunk, FinishWithBody, FlushOf
  <2> QED
    BY <2>1 DEF DiskOK, disk, removal
<1>2. CASE Ready
  BY <1>2 DEF Ready, DiskOK, recorder, removal
<1>3. CASE Perform
  BY <1>3, PutTypes
<1>4. CASE WriteFails
  BY <1>4 DEF WriteFails, DiskOK, recorder, removal, disk
<1>5. ASSUME NEW r \in Removers, RemoveFinds(r) \/ RemoveDir(r) \/ \E f \in Names : Unlink(r, f)
      PROVE  DiskOK'
  <2>1. CASE RemoveFinds(r)
    <3>1. unlinking' \in {unlinking, [unlinking EXCEPT ![r] = files]}
      BY <2>1 DEF RemoveFinds
    <3>2. unlinking' \in [Removers -> SUBSET Names]
      BY <3>1 DEF DiskOK
    <3> QED
      BY <2>1, <3>2 DEF RemoveFinds, DiskOK, recorder, disk
  <2>2. CASE RemoveDir(r)
    BY <2>2 DEF RemoveDir, DiskOK, recorder
  <2>3. CASE \E f \in Names : Unlink(r, f)
    BY <2>3 DEF Unlink, DiskOK, recorder
  <2> QED
    BY <1>5, <2>1, <2>2, <2>3
<1>6. CASE UNCHANGED logVars
  BY <1>6 DEF logVars, recorder, disk, removal, DiskOK
<1> QED
  BY <1>1, <1>2, <1>3, <1>4, <1>5, <1>6 DEF LogNext

\* Recorder, writes, disk and deletions keep their types, and files are only in a
\* directory that is there.
THEOREM BodyTypeCorrect == LogSpec => []LogTypeOK
<1>1. LogInit => IInv /\ DiskOK
  BY BodyLogAssumption DEF LogInit, IInv, QueueOK, MadeOnce, DeletedStaysGone, Write, DiskOK
<1>2. IInv /\ DiskOK /\ [LogNext]_logVars => (IInv /\ DiskOK)'
  BY StepIInv, StepTypes
<1>3. IInv /\ DiskOK => LogTypeOK
  BY DEF IInv, QueueOK, DiskOK, LogTypeOK, Write
<1> QED
  BY <1>1, <1>2, <1>3, PTL DEF LogSpec

-----------------------------------------------------------------------------
(* Entries are whole.  Until somebody deletes the entry or a write fails,  *)
(* the queued writes continue the response file without a gap or an        *)
(* overlap: each begins where the one before it ends, the first where the  *)
(* file ends, and what the recorder still holds where the last one ends.   *)

Good == Untouched /\ failed = "no"

\* The bytes of the response that are kept.
Total == IF arrived < CAP THEN arrived ELSE CAP

Holding == {"append", "body"}

\* Done on a file of a bytes, the write leaves c.
Lays(w, a, c) ==
  /\ a <= c
  /\ w.kind \in Holding => w.bytes = Numbered(a, c - a)
  /\ w.kind \notin Holding => c = a
  /\ w.kind = "body" => a = 0

\* Done one after the other on a file of a bytes, the writes of q leave b.
Laid(q, a, b) ==
  \E f \in [1..(Len(q) + 1) -> Nat] :
    /\ f[1] = a /\ f[Len(q) + 1] = b
    /\ \A i \in 1..Len(q) : Lays(q[i], f[i], f[i + 1])

BeginPending == queue # <<>> /\ queue[1].kind = "begin"

\* The recorder holds the last of the kept bytes, and before a flush all of them.
RecorderInv ==
  /\ rec = "new" => arrived = 0 /\ flushed # "yes"
  /\ rec # "live" => response = <<>>
  /\ Len(response) <= Total /\ response = Numbered(Total - Len(response), Len(response))
  /\ rec = "live" /\ flushed # "yes" => Len(response) = Total
  /\ flushed = "yes" => arrived > 0

\* The complete meta.json is the last write of an ended recorder.
MetaLast ==
  /\ \A i \in 1..Len(queue) : queue[i].kind = "meta" => i = Len(queue) /\ rec = "ended"
  /\ rec = "ended" /\ queue # <<>> => queue[Len(queue)].kind = "meta"

DiskInv ==
  /\ Laid(queue, Len(content), Total - Len(response))
  /\ content = Numbered(0, Len(content))
  /\ "response" \notin files => content = <<>>
  /\ meta = "final" <=> rec = "ended" /\ queue = <<>>
  /\ rec = "ended" \/ flushed = "yes" =>
       "response" \in files \/ \E i \in 1..Len(queue) : queue[i].kind \in Holding
  /\ (BeginPending /\ at # "second") \/ rec = "new" => "meta" \notin files
  /\ BeginPending /\ at = "second" => "request" \in files
  /\ ~BeginPending /\ rec # "new" => {"request", "meta"} \subseteq files
  /\ rec # "new" /\ ~(BeginPending /\ at = "ready") => dir = "present"

WholeInv == RecorderInv /\ MetaLast /\ (Good => DiskInv)

-----------------------------------------------------------------------------
\* Numbered bytes.

LEMMA SameSeq ==
  ASSUME NEW S, NEW a \in Seq(S), NEW b \in Seq(S), Len(a) = Len(b),
         \A i \in 1..Len(a) : a[i] = b[i]
  PROVE  a = b
OBVIOUS

LEMMA NumberedIs ==
  ASSUME NEW k \in Nat, NEW n \in Nat
  PROVE  /\ Numbered(k, n) \in Seq(Nat) /\ Len(Numbered(k, n)) = n
         /\ \A i \in 1..n : Numbered(k, n)[i] = k + i
<1>1. \A i \in 1..n : k + i \in Nat
  OBVIOUS
<1> QED
  BY <1>1 DEF Numbered

LEMMA NumberedNone ==
  ASSUME NEW k \in Nat
  PROVE  Numbered(k, 0) = <<>>
<1>1. Numbered(k, 0) \in Seq(Nat) /\ Len(Numbered(k, 0)) = 0
  BY NumberedIs
<1> QED
  BY <1>1

LEMMA NumberedJoin ==
  ASSUME NEW k \in Nat, NEW n \in Nat, NEW m \in Nat
  PROVE  Numbered(k, n) \o Numbered(k + n, m) = Numbered(k, n + m)
<1> DEFINE a == Numbered(k, n)
<1> DEFINE b == Numbered(k + n, m)
<1> DEFINE c == Numbered(k, n + m)
<1>1. /\ a \in Seq(Nat) /\ Len(a) = n /\ \A i \in 1..n : a[i] = k + i
      /\ b \in Seq(Nat) /\ Len(b) = m /\ \A i \in 1..m : b[i] = k + n + i
      /\ c \in Seq(Nat) /\ Len(c) = n + m /\ \A i \in 1..n + m : c[i] = k + i
  <2>1. k + n \in Nat /\ n + m \in Nat
    OBVIOUS
  <2> QED
    BY <2>1, NumberedIs
<1> HIDE DEF a, b, c
<1>2. /\ a \o b \in Seq(Nat) /\ Len(a \o b) = n + m
      /\ \A i \in 1..n + m : (a \o b)[i] = IF i <= n THEN a[i] ELSE b[i - n]
  BY <1>1, Concat
<1>3. ASSUME NEW i \in 1..n + m PROVE (a \o b)[i] = c[i]
  <2>1. CASE i <= n
    BY <1>1, <1>2, <2>1
  <2>2. CASE ~(i <= n)
    <3>1. i - n \in 1..m
      BY <2>2
    <3> QED
      BY <1>1, <1>2, <2>2, <3>1
  <2> QED
    BY <2>1, <2>2
<1>4. a \o b = c
  BY <1>1, <1>2, <1>3, SameSeq
<1> QED
  BY <1>4 DEF a, b, c

-----------------------------------------------------------------------------
\* Writes laid one after the other.

LEMMA LaidNone ==
  ASSUME NEW a, NEW b, Laid(<<>>, a, b)
  PROVE  a = b
BY DEF Laid

LEMMA LaidStart ==
  ASSUME NEW a \in Nat
  PROVE  Laid(<<>>, a, a)
<1> DEFINE f == [i \in 1..1 |-> a]
<1>1. f \in [1..(Len(<<>>) + 1) -> Nat] /\ f[1] = a /\ f[Len(<<>>) + 1] = a
  OBVIOUS
<1>2. 1..Len(<<>>) = {}
  OBVIOUS
<1> QED
  BY <1>1, <1>2 DEF Laid

LEMMA LaidBehind ==
  ASSUME NEW q \in Seq(Write), NEW w \in Write, NEW a, NEW b \in Nat, NEW c \in Nat,
         Laid(q, a, b), Lays(w, b, c)
  PROVE  Laid(Append(q, w), a, c)
<1> DEFINE t == Append(q, w)
<1>1. /\ Len(t) = Len(q) + 1 /\ Len(q) \in Nat /\ t[Len(q) + 1] = w
      /\ \A i \in 1..Len(q) : t[i] = q[i]
  OBVIOUS
<1> HIDE DEF t
<1>2. PICK f \in [1..(Len(q) + 1) -> Nat] :
        /\ f[1] = a /\ f[Len(q) + 1] = b
        /\ \A i \in 1..Len(q) : Lays(q[i], f[i], f[i + 1])
  BY DEF Laid
<1> DEFINE g == [i \in 1..(Len(t) + 1) |-> IF i <= Len(q) + 1 THEN f[i] ELSE c]
<1>3. /\ g \in [1..(Len(t) + 1) -> Nat] /\ g[Len(t) + 1] = c
      /\ \A i \in 1..(Len(q) + 1) : g[i] = f[i]
  BY <1>1
<1> HIDE DEF g
<1>4. g[1] = a
  BY <1>1, <1>2, <1>3
<1>5. ASSUME NEW i \in 1..Len(t) PROVE Lays(t[i], g[i], g[i + 1])
  <2>1. CASE i = Len(q) + 1
    BY <1>1, <1>2, <1>3, <2>1
  <2>2. CASE i # Len(q) + 1
    <3>1. i \in 1..Len(q) /\ i + 1 \in 1..(Len(q) + 1) /\ i \in 1..(Len(q) + 1)
      BY <1>1, <2>2
    <3> QED
      BY <1>1, <1>2, <1>3, <3>1
  <2> QED
    BY <2>1, <2>2
<1>6. Laid(t, a, c)
  BY <1>3, <1>4, <1>5 DEF Laid
<1> QED
  BY <1>6 DEF t

LEMMA LaidHead ==
  ASSUME NEW q \in Seq(Write), q # <<>>, NEW a, NEW b, Laid(q, a, b)
  PROVE  \E m \in Nat : Lays(q[1], a, m) /\ Laid(Tail(q), m, b)
<1> DEFINE t == Tail(q)
<1>1. /\ Len(t) = Len(q) - 1 /\ Len(q) \in Nat \ {0}
      /\ \A i \in 1..Len(t) : t[i] = q[i + 1]
  OBVIOUS
<1> HIDE DEF t
<1>2. PICK f \in [1..(Len(q) + 1) -> Nat] :
        /\ f[1] = a /\ f[Len(q) + 1] = b
        /\ \A i \in 1..Len(q) : Lays(q[i], f[i], f[i + 1])
  BY DEF Laid
<1> DEFINE g == [i \in 1..(Len(t) + 1) |-> f[i + 1]]
<1>3. /\ g \in [1..(Len(t) + 1) -> Nat]
      /\ \A i \in 1..(Len(t) + 1) : g[i] = f[i + 1]
  BY <1>1
<1> HIDE DEF g
<1>4. 1 \in 1..(Len(t) + 1) /\ Len(t) + 1 \in 1..(Len(t) + 1) /\ 1 \in 1..Len(q)
  BY <1>1
<1>5. g[1] = f[2] /\ g[Len(t) + 1] = b /\ f[2] \in Nat
  BY <1>1, <1>2, <1>3, <1>4
<1>6. Lays(q[1], a, f[2])
  BY <1>2, <1>4
<1>7. ASSUME NEW i \in 1..Len(t) PROVE Lays(t[i], g[i], g[i + 1])
  <2>1. /\ i + 1 \in 1..Len(q) /\ i \in 1..(Len(t) + 1) /\ i + 1 \in 1..(Len(t) + 1)
    BY <1>1
  <2> QED
    BY <1>1, <1>2, <1>3, <2>1
<1>8. Laid(t, f[2], b)
  BY <1>3, <1>5, <1>7 DEF Laid
<1> QED
  BY <1>5, <1>6, <1>8 DEF t

-----------------------------------------------------------------------------
\* What a chunk of n bytes adds: the kept bytes that follow those held.
LEMMA ChunkHeld ==
  ASSUME QueueOK, RecorderInv, NEW n \in 1..MaxBytes, Chunk(n)
  PROVE  \E m \in Nat :
           /\ Total' = Total + m
           /\ response \o Kept(n) \in Seq(Bytes)
           /\ Len(response \o Kept(n)) = Len(response) + m
           /\ response \o Kept(n) = Numbered(Total - Len(response), Len(response) + m)
<1> USE BodyLogAssumption
<1>1. /\ arrived \in Nat /\ arrived' = arrived + n /\ arrived + n <= MaxBytes
      /\ Total \in Nat /\ Total <= arrived /\ Len(response) \in Nat
      /\ response \in Seq(Bytes) /\ Len(response) <= Total
  BY DEF Chunk, QueueOK, RecorderInv, Total
<1> DEFINE m == IF n < Room THEN n ELSE Room
<1>2. m \in Nat /\ Total' = Total + m /\ (m = 0 \/ arrived = Total) /\ m <= n
  BY <1>1 DEF Room, Total
<1>3. Kept(n) = Numbered(arrived, m)
  BY DEF Kept
<1> HIDE DEF m
<1>4. Kept(n) = Numbered(Total, m)
  BY <1>1, <1>2, <1>3, NumberedNone
<1>5. Kept(n) \in Seq(Bytes) /\ Len(Kept(n)) = m
  <2>1. Kept(n) \in Seq(Bytes)
    BY <1>1, KeptType DEF QueueOK
  <2> QED
    BY <1>1, <1>2, <1>3, <2>1, NumberedIs
<1>6. response \o Kept(n) \in Seq(Bytes) /\ Len(response \o Kept(n)) = Len(response) + m
  BY <1>1, <1>5, Concat
<1>7. response \o Kept(n) = Numbered(Total - Len(response), Len(response) + m)
  <2>1. /\ Total - Len(response) \in Nat
        /\ (Total - Len(response)) + Len(response) = Total
    BY <1>1
  <2>2. response = Numbered(Total - Len(response), Len(response))
    BY DEF RecorderInv
  <2>3. Numbered(Total - Len(response), Len(response)) \o Numbered(Total, m)
          = Numbered(Total - Len(response), Len(response) + m)
    <3> DEFINE k == Total - Len(response)
    <3>1. k \in Nat /\ Len(response) \in Nat /\ m \in Nat /\ k + Len(response) = Total
      BY <1>1, <1>2, <2>1
    <3> HIDE DEF k
    <3>2. Numbered(k, Len(response)) \o Numbered(k + Len(response), m) = Numbered(k, Len(response) + m)
      BY <3>1, NumberedJoin
    <3>3. Numbered(k, Len(response)) \o Numbered(Total, m) = Numbered(k, Len(response) + m)
      BY <3>1, <3>2
    <3> QED
      BY <3>3 DEF k
  <2> QED
    BY <1>4, <2>2, <2>3
<1> QED
  BY <1>2, <1>6, <1>7

LEMMA ChunkRecorder ==
  ASSUME IInv, RecorderInv, NEW n \in 1..MaxBytes, Chunk(n)
  PROVE  RecorderInv'
<1> DEFINE held == response \o Kept(n)
<1>1. PICK m \in Nat :
        /\ Total' = Total + m /\ held \in Seq(Bytes) /\ Len(held) = Len(response) + m
        /\ held = Numbered(Total - Len(response), Len(response) + m)
  BY ChunkHeld DEF IInv
<1>2. /\ rec = "live" /\ rec' = "live" /\ arrived' > 0
      /\ \/ held = <<>> /\ response' = <<>> /\ flushed' = flushed
         \/ response' = <<>> /\ flushed' = "yes"
         \/ response' = held /\ flushed' = flushed
  BY DEF Chunk, FlushOf, IInv, QueueOK
<1> HIDE DEF held
<1>3. /\ Total \in Nat /\ Len(response) \in Nat /\ Len(response) <= Total
      /\ (flushed # "yes" => Len(response) = Total)
  BY <1>2, BodyLogAssumption DEF IInv, QueueOK, RecorderInv, Total
<1>4. CASE response' = held /\ flushed' = flushed
  <2>1. Total - Len(response) = Total' - Len(response') /\ Len(response') = Len(response) + m
    BY <1>1, <1>3, <1>4
  <2> QED
    BY <1>1, <1>2, <1>3, <1>4, <2>1 DEF RecorderInv
<1>5. CASE response' = <<>> /\ flushed' = "yes"
  <2>1. Len(response') = 0 /\ Total' \in Nat
    BY <1>1, <1>3, <1>5
  <2>2. response' = Numbered(Total' - Len(response'), Len(response'))
    BY <1>5, <2>1, NumberedNone
  <2> QED
    BY <1>2, <1>3, <1>5, <2>1, <2>2 DEF RecorderInv
<1>6. CASE held = <<>> /\ response' = <<>> /\ flushed' = flushed
  <2>1. response' = held
    BY <1>6
  <2> QED
    BY <1>4, <1>6, <2>1
<1> QED
  BY <1>2, <1>4, <1>5, <1>6

LEMMA RecorderStep ==
  ASSUME IInv, RecorderInv, [LogNext]_logVars
  PROVE  RecorderInv'
<1>1. ASSUME NEW n \in 1..MaxBytes, Chunk(n) PROVE RecorderInv'
  BY <1>1, ChunkRecorder
<1>2. CASE Begin
  <2>1. Total' = Total /\ Total \in Nat /\ response' = response /\ response = <<>>
        /\ rec' = "live" /\ arrived' = arrived /\ flushed' = flushed
        /\ arrived = 0 /\ flushed # "yes"
    BY <1>2, BodyLogAssumption DEF Begin, Total, IInv, QueueOK, RecorderInv
  <2>2. Total' = 0
    BY <2>1, BodyLogAssumption DEF Total
  <2> QED
    BY <2>1, <2>2 DEF RecorderInv
<1>3. CASE Finish
  <2>1. /\ rec' = "ended" /\ response' = <<>> /\ arrived' = arrived /\ flushed' = flushed
        /\ Total' \in Nat
    BY <1>3, BodyLogAssumption DEF Finish, Total, IInv, QueueOK
  <2>2. response' = Numbered(Total' - Len(response'), Len(response')) /\ Len(response') = 0
    BY <2>1, NumberedNone
  <2> QED
    BY <2>1, <2>2 DEF RecorderInv
<1>4. ASSUME NEW n \in 1..MaxBytes, FinishWithBody(n) PROVE RecorderInv'
  <2>1. /\ rec = "live" /\ rec' = "ended" /\ response' = response /\ arrived' = n
        /\ flushed' = flushed /\ arrived = 0 /\ flushed # "yes"
        /\ Total' \in Nat /\ Total = 0 /\ n > 0
    BY <1>4, BodyLogAssumption DEF FinishWithBody, Total, IInv, QueueOK, RecorderInv
  <2>2. response = <<>>
    BY <2>1 DEF RecorderInv, IInv, QueueOK
  <2>3. response' = Numbered(Total' - Len(response'), Len(response')) /\ Len(response') = 0
    BY <2>1, <2>2, NumberedNone
  <2> QED
    BY <2>1, <2>2, <2>3 DEF RecorderInv
<1>5. CASE UNCHANGED recorder
  BY <1>5 DEF recorder, RecorderInv, Total
<1>6. CASE \/ Ready \/ Perform \/ WriteFails \/ UNCHANGED logVars
           \/ \E r \in Removers : RemoveFinds(r) \/ RemoveDir(r) \/ \E f \in Names : Unlink(r, f)
  <2>1. UNCHANGED recorder
    BY <1>6 DEF Ready, Perform, WriteFails, RemoveFinds, RemoveDir, Unlink, logVars
  <2> QED
    BY <1>5, <2>1
<1> QED
  BY <1>1, <1>2, <1>3, <1>4, <1>6 DEF LogNext

-----------------------------------------------------------------------------
\* What a recorder queues behind the writes waiting.

LEMMA Behind ==
  ASSUME NEW q \in Seq(Write), NEW w \in Write
  PROVE  /\ Append(q, w) \in Seq(Write) /\ Len(Append(q, w)) = Len(q) + 1
         /\ Append(q, w)[Len(q) + 1] = w /\ Append(q, w) # <<>>
         /\ \A i \in 1..Len(q) : Append(q, w)[i] = q[i]
         /\ \A i \in 1..(Len(q) + 1) : i \in 1..Len(q) \/ i = Len(q) + 1
OBVIOUS

\* What Record queues, one write after the other: the rest of the body, unless
\* nothing is left of a body flushed before, and the complete meta.json.
LEMMA RecordIs ==
  ASSUME QueueOK, NEW b \in Seq(Bytes), Record(b)
  PROVE  /\ b = <<>> /\ flushed = "yes" => queue' = Append(queue, NewWrite("meta", <<>>))
         /\ b # <<>> /\ flushed = "yes" =>
              queue' = Append(Append(queue, NewWrite("append", b)), NewWrite("meta", <<>>))
         /\ flushed # "yes" =>
              queue' = Append(Append(queue, NewWrite("body", b)), NewWrite("meta", <<>>))
<1>1. /\ NewWrite("append", b) \in Write /\ NewWrite("body", b) \in Write
      /\ NewWrite("meta", <<>>) \in Write /\ queue \in Seq(Write)
  BY WritesType, EmptySeq DEF QueueOK
<1>2. ASSUME NEW q \in Seq(Write), NEW w \in Write PROVE q \o <<w>> = Append(q, w)
  OBVIOUS
<1>3. ASSUME NEW q \in Seq(Write) PROVE q \o <<>> = q
  OBVIOUS
<1>4. queue' = (queue \o BodyWrites(b)) \o <<NewWrite("meta", <<>>)>>
  BY DEF Record
<1>5. ASSUME NEW w \in Write, BodyWrites(b) = <<w>>
      PROVE  queue' = Append(Append(queue, w), NewWrite("meta", <<>>))
  <2>1. queue \o BodyWrites(b) = Append(queue, w) /\ Append(queue, w) \in Seq(Write)
    BY <1>1, <1>2, <1>5, Behind
  <2> QED
    BY <1>1, <1>2, <1>4, <2>1
<1>6. ASSUME BodyWrites(b) = <<>> PROVE queue' = Append(queue, NewWrite("meta", <<>>))
  BY <1>1, <1>2, <1>3, <1>4, <1>6
<1> QED
  BY <1>1, <1>5, <1>6 DEF BodyWrites

-----------------------------------------------------------------------------
\* The complete meta.json stays the last write.

NoMeta(q) == \A i \in 1..Len(q) : q[i].kind # "meta"

LEMMA NoMetaBehind ==
  ASSUME NEW q \in Seq(Write), NoMeta(q), NEW w \in Write, w.kind # "meta"
  PROVE  NoMeta(Append(q, w))
<1> DEFINE t == Append(q, w)
<1>1. /\ Len(t) = Len(q) + 1 /\ t[Len(q) + 1] = w
      /\ \A i \in 1..Len(q) : t[i] = q[i]
      /\ \A i \in 1..(Len(q) + 1) : i \in 1..Len(q) \/ i = Len(q) + 1
  BY Behind
<1> HIDE DEF t
<1>2. NoMeta(t)
  BY <1>1 DEF NoMeta
<1> QED
  BY <1>2 DEF t

LEMMA MetaAtEnd ==
  ASSUME NEW q \in Seq(Write), NoMeta(q), rec' = "ended",
         queue' = Append(q, NewWrite("meta", <<>>))
  PROVE  MetaLast'
<1>1. NewWrite("meta", <<>>) \in Write /\ NewWrite("meta", <<>>).kind = "meta"
  BY WritesType, EmptySeq DEF NewWrite
<1>2. /\ Len(queue') = Len(q) + 1 /\ queue'[Len(q) + 1] = NewWrite("meta", <<>>)
      /\ \A i \in 1..Len(q) : queue'[i] = q[i]
      /\ \A i \in 1..(Len(q) + 1) : i \in 1..Len(q) \/ i = Len(q) + 1
  BY <1>1, Behind
<1> QED
  BY <1>1, <1>2 DEF MetaLast, NoMeta

LEMMA RecordMeta ==
  ASSUME QueueOK, MetaLast, rec = "live", rec' = "ended", NEW b \in Seq(Bytes), Record(b)
  PROVE  MetaLast'
<1>1. /\ NewWrite("append", b) \in Write /\ NewWrite("body", b) \in Write
      /\ NewWrite("append", b).kind # "meta" /\ NewWrite("body", b).kind # "meta"
      /\ queue \in Seq(Write)
  BY WritesType DEF QueueOK, NewWrite
<1>2. NoMeta(queue)
  BY DEF MetaLast, NoMeta
<1>3. PICK q \in Seq(Write) : NoMeta(q) /\ queue' = Append(q, NewWrite("meta", <<>>))
  <2>1. \/ queue' = Append(queue, NewWrite("meta", <<>>))
        \/ queue' = Append(Append(queue, NewWrite("append", b)), NewWrite("meta", <<>>))
        \/ queue' = Append(Append(queue, NewWrite("body", b)), NewWrite("meta", <<>>))
    BY RecordIs
  <2>2. NoMeta(Append(queue, NewWrite("append", b))) /\ NoMeta(Append(queue, NewWrite("body", b)))
    BY <1>1, <1>2, NoMetaBehind
  <2>3. Append(queue, NewWrite("append", b)) \in Seq(Write)
        /\ Append(queue, NewWrite("body", b)) \in Seq(Write)
    BY <1>1, Behind
  <2> QED
    BY <1>1, <1>2, <2>1, <2>2, <2>3
<1> QED
  BY <1>3, MetaAtEnd

LEMMA MetaAdvances ==
  ASSUME QueueOK, MetaLast, queue # <<>>, Finished, UNCHANGED rec
  PROVE  MetaLast'
<1>1. /\ queue' \in Seq(Write) /\ Len(queue') = Len(queue) - 1 /\ Len(queue) \in Nat \ {0}
      /\ \A i \in 1..Len(queue') : queue'[i] = queue[i + 1]
  BY DEF QueueOK, Finished
<1>2. \A i \in 1..Len(queue') : i + 1 \in 1..Len(queue)
  BY <1>1
<1>3. queue' # <<>> => Len(queue') \in 1..Len(queue')
  BY <1>1
<1>4. \A i \in 1..Len(queue') : queue'[i].kind = "meta" => i = Len(queue') /\ rec' = "ended"
  BY <1>1, <1>2 DEF MetaLast
<1>5. rec' = "ended" /\ queue' # <<>> => queue'[Len(queue')].kind = "meta"
  BY <1>1, <1>3 DEF MetaLast
<1> QED
  BY <1>4, <1>5 DEF MetaLast

LEMMA MetaStep ==
  ASSUME IInv, MetaLast, [LogNext]_logVars
  PROVE  MetaLast'
<1>0. QueueOK /\ queue \in Seq(Write)
  BY DEF IInv, QueueOK
<1>1. CASE Begin
  <2>1. queue' = <<NewWrite("begin", <<>>)>> /\ rec' = "live"
    BY <1>1 DEF Begin
  <2>2. Len(queue') = 1 /\ queue'[1].kind # "meta"
    BY <2>1 DEF NewWrite
  <2> QED
    BY <2>1, <2>2 DEF MetaLast
<1>2. ASSUME NEW n \in 1..MaxBytes, Chunk(n) PROVE MetaLast'
  <2> DEFINE held == response \o Kept(n)
  <2>1. rec = "live" /\ rec' = rec /\ held \in Seq(Bytes)
    BY <1>0, <1>2, KeptType DEF Chunk, QueueOK
  <2>2. queue' = queue \/ queue' = Append(queue, NewWrite("append", held))
    BY <1>2 DEF Chunk, FlushOf
  <2> HIDE DEF held
  <2>3. NoMeta(queue)
    BY <2>1 DEF MetaLast, NoMeta
  <2>4. NoMeta(queue')
    <3>1. NewWrite("append", held) \in Write /\ NewWrite("append", held).kind # "meta"
      BY <2>1, WritesType DEF NewWrite
    <3> QED
      BY <1>0, <2>2, <2>3, <3>1, NoMetaBehind
  <2> QED
    BY <2>1, <2>4 DEF MetaLast, NoMeta
<1>3. CASE Finish
  BY <1>0, <1>3, RecordMeta DEF Finish, QueueOK
<1>4. ASSUME NEW n \in 1..MaxBytes, FinishWithBody(n) PROVE MetaLast'
  <2>1. Numbered(0, n) \in Seq(Bytes)
    BY NumberedType, BodyLogAssumption
  <2> QED
    BY <1>0, <1>4, <2>1, RecordMeta DEF FinishWithBody
<1>5. ASSUME queue # <<>>, Finished \/ UNCHANGED queue, UNCHANGED rec PROVE MetaLast'
  BY <1>0, <1>5, MetaAdvances DEF MetaLast
<1>6. CASE Ready \/ Perform \/ WriteFails
  BY <1>0, <1>5, <1>6 DEF Ready, Perform, WriteFails, NextStep, recorder, QueueOK
<1>7. CASE \/ UNCHANGED logVars
           \/ \E r \in Removers : RemoveFinds(r) \/ RemoveDir(r) \/ \E f \in Names : Unlink(r, f)
  BY <1>7 DEF RemoveFinds, RemoveDir, Unlink, logVars, recorder, MetaLast
<1> QED
  BY <1>1, <1>2, <1>3, <1>4, <1>6, <1>7 DEF LogNext

-----------------------------------------------------------------------------
\* The disk.

\* Nothing takes back a deletion that began or a write that failed.
LEMMA GoodBefore ==
  ASSUME IInv, [LogNext]_logVars, Good'
  PROVE  /\ Good
         /\ ~WriteFails
         /\ \A r \in Removers : RemoveFinds(r) \/ RemoveDir(r) \/ (\E f \in Names : Unlink(r, f)) =>
              UNCHANGED <<recorder, queue, at, disk>>
<1>0. removing \in [Removers -> {"idle", "unlink", "removed", "missing", "failed"}]
  BY DEF IInv, QueueOK
<1>1. ASSUME \/ Begin \/ Finish \/ Ready \/ Perform \/ WriteFails \/ UNCHANGED logVars
             \/ \E n \in 1..MaxBytes : Chunk(n) \/ FinishWithBody(n)
      PROVE  Good
  <2>1. removing' = removing /\ (failed' = failed \/ failed' = "yes")
    BY <1>1 DEF Begin, Finish, Ready, Perform, WriteFails, Chunk, FinishWithBody, removal, logVars
  <2> QED
    BY <2>1 DEF Good, Untouched
<1>2. ASSUME NEW r \in Removers, RemoveFinds(r) \/ RemoveDir(r) \/ \E f \in Names : Unlink(r, f)
      PROVE  Good
  <2>1. CASE RemoveFinds(r)
    BY <1>0, <2>1 DEF RemoveFinds, At, Good, Untouched
  <2>2. CASE RemoveDir(r)
    BY <1>0, <2>2 DEF RemoveDir, At, Good, Untouched
  <2>3. CASE \E f \in Names : Unlink(r, f)
    BY <2>3 DEF Unlink, Good, Untouched
  <2> QED
    BY <1>2, <2>1, <2>2, <2>3
<1>3. Good
  BY <1>1, <1>2 DEF LogNext
<1>4. ~WriteFails
  BY DEF WriteFails, Good
<1>5. ASSUME NEW r \in Removers, RemoveFinds(r) \/ RemoveDir(r) \/ \E f \in Names : Unlink(r, f)
      PROVE  UNCHANGED <<recorder, queue, at, disk>>
  BY <1>3, <1>5 DEF RemoveFinds, RemoveDir, Unlink, Good, Untouched
<1> QED
  BY <1>3, <1>4, <1>5

\* Writes that continue those waiting.
LEMMA DiskLater ==
  ASSUME DiskInv, rec = "live", UNCHANGED <<at, disk>>, BeginPending' <=> BeginPending,
         \A i \in 1..Len(queue) : i \in 1..Len(queue') /\ queue'[i] = queue[i],
         rec' = "live" \/ (rec' = "ended" /\ queue' # <<>>),
         rec' = "ended" \/ flushed' = "yes" =>
           flushed = "yes" \/ \E i \in 1..Len(queue') : queue'[i].kind \in Holding,
         Laid(queue', Len(content), Total' - Len(response'))
  PROVE  DiskInv'
<1>1. /\ files' = files /\ content' = content /\ meta' = meta /\ dir' = dir /\ at' = at
      /\ rec' # "new" /\ rec # "new"
  BY DEF disk
<1>2. meta' = "final" <=> rec' = "ended" /\ queue' = <<>>
  BY <1>1 DEF DiskInv
<1>3. rec' = "ended" \/ flushed' = "yes" =>
        "response" \in files' \/ \E i \in 1..Len(queue') : queue'[i].kind \in Holding
  BY <1>1 DEF DiskInv
<1> QED
  BY <1>1, <1>2, <1>3 DEF DiskInv

\* A write put behind leaves the oldest one alone.
LEMMA BeginBehind ==
  ASSUME NEW q \in Seq(Write), NEW w \in Write, w.kind # "begin"
  PROVE  Append(q, w) # <<>> /\ Append(q, w)[1].kind = "begin" <=> q # <<>> /\ q[1].kind = "begin"
<1>1. /\ Append(q, w) # <<>> /\ Append(q, w)[Len(q) + 1] = w
      /\ \A i \in 1..Len(q) : Append(q, w)[i] = q[i]
  BY Behind
<1>2. CASE q = <<>>
  BY <1>1, <1>2
<1>3. CASE q # <<>>
  <2>1. 1 \in 1..Len(q)
    BY <1>3
  <2> QED
    BY <1>1, <1>3, <2>1
<1> QED
  BY <1>2, <1>3

LEMMA LaysMeta ==
  ASSUME NEW a \in Nat
  PROVE  Lays(NewWrite("meta", <<>>), a, a)
BY DEF Lays, NewWrite, Holding

LEMMA RecordDisk ==
  ASSUME IInv, DiskInv, rec = "live", rec' = "ended", UNCHANGED <<at, disk>>,
         NEW b \in Seq(Bytes), Record(b), NEW from \in Nat, NEW to \in Nat,
         Laid(queue, Len(content), from), from <= to, b = Numbered(from, to - from),
         Len(b) = to - from, to = Total' - Len(response'),
         flushed = "yes" \/ from = 0
  PROVE  DiskInv'
<1> DEFINE m == NewWrite("meta", <<>>)
<1>0. queue \in Seq(Write) /\ m \in Write /\ m.kind # "begin" /\ Lays(m, to, to)
  BY WritesType, EmptySeq, LaysMeta DEF IInv, QueueOK
<1> HIDE DEF m
<1>1. CASE b = <<>> /\ flushed = "yes"
  <2>1. queue' = Append(queue, m) /\ to = from
    BY <1>1, RecordIs DEF m, IInv
  <2>2. BeginPending' <=> BeginPending
    BY <1>0, <2>1, BeginBehind DEF BeginPending
  <2>3. /\ queue' # <<>>
        /\ \A i \in 1..Len(queue) : i \in 1..Len(queue') /\ queue'[i] = queue[i]
    BY <1>0, <2>1, Behind
  <2>4. Laid(queue', Len(content), Total' - Len(response'))
    BY <1>0, <2>1, LaidBehind
  <2> QED
    BY <1>1, <2>2, <2>3, <2>4, DiskLater
<1>2. ASSUME NEW w \in Write, w.kind \in Holding, Lays(w, from, to),
             queue' = Append(Append(queue, w), m)
      PROVE  DiskInv'
  <2> DEFINE q == Append(queue, w)
  <2>1. /\ q \in Seq(Write) /\ Len(q) = Len(queue) + 1 /\ q[Len(queue) + 1] = w
        /\ \A i \in 1..Len(queue) : q[i] = queue[i]
    BY <1>0, Behind
  <2>2. q # <<>> /\ q[1].kind = "begin" <=> BeginPending
    BY <1>0, <1>2, BeginBehind DEF BeginPending, Holding
  <2>3. Laid(q, Len(content), to)
    BY <1>0, <1>2, LaidBehind
  <2>4. queue' = Append(q, m)
    BY <1>2
  <2> HIDE DEF q
  <2>5. BeginPending' <=> BeginPending
    BY <1>0, <2>1, <2>2, <2>4, BeginBehind DEF BeginPending
  <2>6. /\ queue' # <<>> /\ Len(queue') = Len(q) + 1
        /\ \A i \in 1..Len(q) : queue'[i] = q[i]
    BY <1>0, <2>1, <2>4, Behind
  <2>7. Len(queue) \in Nat
    BY <1>0
  <2>8. \A i \in 1..Len(queue) : i \in 1..Len(queue') /\ queue'[i] = queue[i]
    BY <2>1, <2>6, <2>7
  <2>9. Len(queue) + 1 \in 1..Len(queue') /\ queue'[Len(queue) + 1].kind \in Holding
    BY <1>2, <2>1, <2>6, <2>7
  <2>10. Laid(queue', Len(content), Total' - Len(response'))
    BY <1>0, <2>1, <2>3, <2>4, LaidBehind
  <2> QED
    BY <2>5, <2>6, <2>8, <2>9, <2>10, DiskLater
<1>3. CASE b # <<>> /\ flushed = "yes"
  <2>1. queue' = Append(Append(queue, NewWrite("append", b)), m)
    BY <1>3, RecordIs DEF m, IInv
  <2>2. NewWrite("append", b) \in Write /\ NewWrite("append", b).kind \in Holding
    BY WritesType DEF NewWrite, Holding
  <2>3. Lays(NewWrite("append", b), from, to)
    BY DEF Lays, NewWrite, Holding
  <2> QED
    BY <1>2, <2>1, <2>2, <2>3
<1>4. CASE flushed # "yes"
  <2>1. queue' = Append(Append(queue, NewWrite("body", b)), m)
    BY <1>4, RecordIs DEF m, IInv
  <2>2. NewWrite("body", b) \in Write /\ NewWrite("body", b).kind \in Holding
    BY WritesType DEF NewWrite, Holding
  <2>3. Lays(NewWrite("body", b), from, to)
    BY <1>4 DEF Lays, NewWrite, Holding
  <2> QED
    BY <1>2, <2>1, <2>2, <2>3
<1> QED
  BY <1>1, <1>3, <1>4

LEMMA LensAre ==
  ASSUME IInv, RecorderInv
  PROVE  /\ Len(response) \in Nat /\ Total \in Nat /\ Total - Len(response) \in Nat
         /\ arrived \in Nat /\ Total <= arrived
BY BodyLogAssumption DEF IInv, QueueOK, RecorderInv, Total

LEMMA BeginDisk ==
  ASSUME IInv, RecorderInv, DiskInv, Begin
  PROVE  DiskInv'
<1>1. /\ rec = "new" /\ queue = <<>> /\ arrived = 0 /\ Total = 0 /\ response = <<>> /\ flushed # "yes"
      /\ at = "ready"
  BY BodyLogAssumption DEF Begin, IInv, QueueOK, MadeOnce, RecorderInv, Total
<1>2. Len(content) = 0
  <2>1. Laid(<<>>, Len(content), Total - Len(response))
    BY <1>1 DEF DiskInv
  <2>2. Len(content) = Total - Len(response)
    BY <2>1, LaidNone
  <2>3. Len(response) = 0
    BY <1>1, EmptySeq
  <2>4. Total = 0
    BY <1>1
  <2> QED
    BY <2>2, <2>3, <2>4
<1>3. /\ UNCHANGED <<arrived, response, flushed, at, disk>> /\ rec' = "live"
      /\ queue' = <<NewWrite("begin", <<>>)>>
  BY DEF Begin
<1>4. /\ queue' = Append(<<>>, NewWrite("begin", <<>>)) /\ NewWrite("begin", <<>>) \in Write
      /\ queue' # <<>> /\ queue'[1].kind = "begin" /\ Lays(NewWrite("begin", <<>>), 0, 0)
      /\ <<>> \in Seq(Write)
  <2>1. NewWrite("begin", <<>>) \in Write /\ <<>> \in Seq(Write)
    BY WritesType, EmptySeq
  <2>2. NewWrite("begin", <<>>).kind = "begin"
    BY DEF NewWrite
  <2>3. Lays(NewWrite("begin", <<>>), 0, 0)
    BY <2>2 DEF Lays, Holding
  <2>4. queue' = Append(<<>>, NewWrite("begin", <<>>))
    BY <1>3, <2>1
  <2>5. queue' # <<>> /\ queue'[1] = NewWrite("begin", <<>>)
    BY <1>3, <2>1, Single
  <2> QED
    BY <2>1, <2>2, <2>3, <2>4, <2>5
<1>5. Laid(queue', 0, 0)
  BY <1>4, LaidStart, LaidBehind
<1>6. Laid(queue', Len(content), Total - Len(response))
  BY <1>1, <1>2, <1>5
<1> QED
  BY <1>1, <1>3, <1>4, <1>6 DEF DiskInv, BeginPending, disk, Total

LEMMA ChunkDisk ==
  ASSUME IInv, RecorderInv, DiskInv, NEW n \in 1..MaxBytes, Chunk(n)
  PROVE  DiskInv'
<1> DEFINE held == response \o Kept(n)
<1>1. PICK m \in Nat :
        /\ Total' = Total + m /\ held \in Seq(Bytes) /\ Len(held) = Len(response) + m
        /\ held = Numbered(Total - Len(response), Len(response) + m)
  BY ChunkHeld DEF IInv
<1>2. /\ rec = "live" /\ rec' = "live" /\ UNCHANGED <<at, disk>>
      /\ \/ response' \in {<<>>, held} /\ Len(response') = Len(held) /\ UNCHANGED <<queue, flushed>>
         \/ response' = <<>> /\ queue' = Append(queue, NewWrite("append", held)) /\ flushed' = "yes"
  BY DEF Chunk, FlushOf
<1> HIDE DEF held
<1>3. Len(response) \in Nat /\ Total \in Nat /\ Total - Len(response) \in Nat
  BY LensAre
<1>4. queue \in Seq(Write)
  BY DEF IInv, QueueOK
<1>5. CASE Len(response') = Len(held) /\ UNCHANGED <<queue, flushed>>
  <2>1. Total' - Len(response') = Total - Len(response)
    BY <1>1, <1>3, <1>5
  <2>2. Laid(queue', Len(content), Total' - Len(response'))
    BY <1>5, <2>1 DEF DiskInv
  <2> QED
    BY <1>2, <1>5, <2>2, DiskLater DEF BeginPending
<1>6. CASE response' = <<>> /\ queue' = Append(queue, NewWrite("append", held)) /\ flushed' = "yes"
  <2> DEFINE w == NewWrite("append", held)
  <2> DEFINE from == Total - Len(response)
  <2> DEFINE to == Total'
  <2>1. /\ w \in Write /\ w.kind = "append" /\ w.bytes = held
    BY <1>1, WritesType DEF NewWrite
  <2>2. from \in Nat /\ to \in Nat /\ from <= to /\ to - from = Len(response) + m
        /\ Total' - Len(response') = to
    BY <1>1, <1>3, <1>6
  <2>3. Lays(w, from, to)
    <3>1. w.bytes = Numbered(from, to - from)
      BY <1>1, <2>1, <2>2
    <3> QED
      BY <2>1, <2>2, <3>1 DEF Lays, Holding
  <2>4. queue' = Append(queue, w) /\ Laid(queue, Len(content), from)
    BY <1>6 DEF DiskInv
  <2> HIDE DEF w, from, to
  <2>5. Laid(queue', Len(content), Total' - Len(response'))
    BY <1>4, <2>1, <2>2, <2>3, <2>4, LaidBehind
  <2>6. BeginPending' <=> BeginPending
    BY <1>4, <2>1, <2>4, BeginBehind DEF BeginPending
  <2>7. /\ Len(queue') = Len(queue) + 1 /\ queue'[Len(queue) + 1] = w /\ Len(queue) \in Nat
        /\ \A i \in 1..Len(queue) : queue'[i] = queue[i]
    BY <1>4, <2>1, <2>4, Behind
  <2>8. \A i \in 1..Len(queue) : i \in 1..Len(queue') /\ queue'[i] = queue[i]
    BY <2>7
  <2>9. Len(queue) + 1 \in 1..Len(queue') /\ queue'[Len(queue) + 1].kind \in Holding
    BY <2>1, <2>7 DEF Holding
  <2> QED
    BY <1>2, <2>5, <2>6, <2>8, <2>9, DiskLater
<1> QED
  BY <1>2, <1>5, <1>6

LEMMA EndDisk ==
  ASSUME IInv, RecorderInv, DiskInv, Finish \/ \E n \in 1..MaxBytes : FinishWithBody(n)
  PROVE  DiskInv'
<1>0. Len(response) \in Nat /\ Total \in Nat /\ Total - Len(response) \in Nat
  BY LensAre
<1>1. CASE Finish
  <2> DEFINE from == Total - Len(response)
  <2>1. /\ rec = "live" /\ rec' = "ended" /\ UNCHANGED <<at, disk>> /\ Record(response)
        /\ response' = <<>> /\ Total' = Total /\ response \in Seq(Bytes)
    BY <1>1 DEF Finish, Total, IInv, QueueOK
  <2>2. /\ from <= Total /\ Total - from = Len(response) /\ Total = Total' - Len(response')
    BY <1>0, <2>1
  <2>3. response = Numbered(from, Total - from)
    BY <2>2 DEF RecorderInv
  <2>4. Laid(queue, Len(content), from)
    BY DEF DiskInv
  <2>5. from \in Nat
    BY <1>0
  <2>6. flushed = "yes" \/ from = 0
    BY <1>0, <2>1 DEF RecorderInv
  <2> HIDE DEF from
  <2> QED
    BY <1>0, <2>1, <2>2, <2>3, <2>4, <2>5, <2>6, RecordDisk
<1>2. ASSUME NEW n \in 1..MaxBytes, FinishWithBody(n) PROVE DiskInv'
  <2>1. /\ rec = "live" /\ rec' = "ended" /\ UNCHANGED <<at, disk>> /\ Record(Numbered(0, n))
        /\ response' = response /\ Total = 0 /\ Total' = n /\ Numbered(0, n) \in Seq(Bytes)
        /\ n \in Nat
    BY <1>2, NumberedType, BodyLogAssumption DEF FinishWithBody, Total
  <2>2. Len(response) = 0
    BY <1>0, <2>1
  <2>3. Laid(queue, Len(content), 0)
    BY <2>1, <2>2 DEF DiskInv
  <2>4. Len(Numbered(0, n)) = n /\ n - 0 = n
    BY <2>1, NumberedIs
  <2>5. n = Total' - Len(response')
    BY <2>1, <2>2
  <2> QED
    BY <2>1, <2>3, <2>4, <2>5, RecordDisk
<1> QED
  BY <1>1, <1>2

\* What the oldest write leaves of the response file continues it.
LEMMA PutContent ==
  ASSUME IInv, DiskOK, RecorderInv, DiskInv, Perform, NEW c \in Nat, Lays(First, Len(content), c)
  PROVE  /\ content' = Numbered(0, c) /\ Len(content') = c
         /\ First.kind \notin Holding => files \subseteq files'
         /\ First.kind \in Holding => files' = files \cup {"response"}
         /\ "response" \notin files' => content' = <<>>
<1>0. /\ Len(content) \in Nat /\ content = Numbered(0, Len(content))
      /\ "response" \notin files => content = <<>>
      /\ First.kind \in Kinds /\ at \in {"first", "second"} /\ Put
  <2>1. First \in Write
    BY DEF IInv, QueueOK, Perform, First
  <2> QED
    BY <2>1 DEF IInv, QueueOK, DiskOK, DiskInv, Perform, Write
<1>1. CASE First.kind = "begin" \/ First.kind = "meta"
  <2>1. content' = content /\ files \subseteq files' /\ ("response" \in files' <=> "response" \in files)
    <3>1. CASE First.kind = "begin" /\ at = "first"
      BY <1>0, <3>1 DEF Put
    <3>2. CASE First.kind = "begin" /\ at = "second"
      BY <1>0, <3>2 DEF Put
    <3>3. CASE First.kind = "meta"
      BY <1>0, <3>3 DEF Put
    <3> QED
      BY <1>0, <1>1, <3>1, <3>2, <3>3
  <2>2. c = Len(content) /\ First.kind \notin Holding
    BY <1>1 DEF Lays, Holding
  <2> QED
    BY <1>0, <2>1, <2>2
<1>2. CASE First.kind = "body"
  <2>1. content' = First.bytes /\ files' = files \cup {"response"}
    BY <1>0, <1>2 DEF Put
  <2>2. First.bytes = Numbered(0, c) /\ First.kind \in Holding
    <3>1. Len(content) = 0 /\ First.bytes = Numbered(Len(content), c - Len(content))
      BY <1>2 DEF Lays, Holding
    <3>2. c - 0 = c
      OBVIOUS
    <3> QED
      BY <1>2, <3>1, <3>2 DEF Holding
  <2> QED
    BY <2>1, <2>2, NumberedIs
<1>3. CASE First.kind = "append"
  <2>1. /\ content' = content \o First.bytes /\ files' = files \cup {"response"}
    BY <1>0, <1>3 DEF Put
  <2>2. /\ First.bytes = Numbered(Len(content), c - Len(content)) /\ Len(content) <= c
        /\ First.kind \in Holding
    BY <1>3 DEF Lays, Holding
  <2> DEFINE d == Len(content)
  <2>3. d \in Nat /\ c - d \in Nat /\ d + (c - d) = c /\ 0 + d = d
    BY <1>0, <2>2
  <2>4. content = Numbered(0, d) /\ First.bytes = Numbered(d, c - d)
    BY <1>0, <2>2
  <2> HIDE DEF d
  <2>5. Numbered(0, d) \o Numbered(0 + d, c - d) = Numbered(0, d + (c - d))
    BY <2>3, NumberedJoin
  <2>6. content' = Numbered(0, c)
    BY <2>1, <2>3, <2>4, <2>5
  <2> QED
    BY <2>1, <2>2, <2>6, NumberedIs
<1> QED
  BY <1>0, <1>1, <1>2, <1>3 DEF Kinds

\* The oldest write is done and leaves the queue.
LEMMA PerformedDisk ==
  ASSUME IInv, DiskOK, RecorderInv, MetaLast, DiskInv, Perform, Finished,
         ~(First.kind = "begin" /\ at = "first")
  PROVE  DiskInv'
<1>1. /\ queue \in Seq(Write) /\ queue # <<>> /\ Len(queue) \in Nat \ {0} /\ First = queue[1]
      /\ queue' = Tail(queue) /\ at' = "ready" /\ dir' = "present"
      /\ UNCHANGED <<rec, arrived, response, flushed>> /\ rec # "new"
  BY DEF IInv, QueueOK, MadeOnce, Perform, Finished, First, recorder
<1>2. /\ Len(queue') = Len(queue) - 1
      /\ \A i \in 1..Len(queue') : queue'[i] = queue[i + 1]
      /\ queue' = <<>> <=> Len(queue) = 1
  <2>1. /\ queue' \in Seq(Write) /\ Len(queue') = Len(queue) - 1
        /\ \A i \in 1..Len(queue') : queue'[i] = queue[i + 1]
    BY <1>1
  <2>2. queue' = <<>> <=> Len(queue') = 0
    BY <2>1
  <2> QED
    BY <1>1, <2>1, <2>2
<1>3. PICK c \in Nat : Lays(First, Len(content), c) /\ Laid(queue', c, Total - Len(response))
  BY <1>1, LaidHead DEF DiskInv
<1>4. /\ content' = Numbered(0, c) /\ Len(content') = c
      /\ First.kind \notin Holding => files \subseteq files'
      /\ First.kind \in Holding => files' = files \cup {"response"}
      /\ "response" \notin files' => content' = <<>>
  BY <1>3, PutContent
<1>5. Laid(queue', Len(content'), Total' - Len(response'))
  <2>1. Total' = Total /\ response' = response
    BY <1>1 DEF Total
  <2> QED
    BY <1>3, <1>4, <2>1
<1>6. ~BeginPending'
  <2>1. queue' # <<>> => 1 \in 1..Len(queue') /\ 2 \in 2..Len(queue) /\ queue'[1] = queue[2]
    BY <1>1, <1>2
  <2> QED
    BY <2>1 DEF BeginPending, IInv, MadeOnce
<1>7. First.kind \in Kinds /\ at \in {"first", "second"} /\ Put
  <2>1. First \in Write
    BY <1>1
  <2> QED
    BY <2>1 DEF IInv, QueueOK, Perform, Write
<1>8. {"request", "meta"} \subseteq files'
  <2>1. CASE First.kind = "begin"
    <3>1. BeginPending /\ at = "second"
      BY <1>1, <1>7, <2>1 DEF BeginPending
    <3>2. "request" \in files /\ files' = files \cup {"meta"}
      BY <1>7, <2>1, <3>1 DEF DiskInv, Put
    <3> QED
      BY <3>2
  <2>2. CASE First.kind # "begin"
    <3>1. ~BeginPending
      BY <1>1, <2>2 DEF BeginPending
    <3>2. {"request", "meta"} \subseteq files
      BY <1>1, <3>1 DEF DiskInv
    <3> QED
      BY <1>4, <3>2
  <2> QED
    BY <2>1, <2>2
<1>9. meta' = "final" <=> rec' = "ended" /\ queue' = <<>>
  <2>1. CASE First.kind = "meta"
    <3>1. meta' = "final"
      BY <1>7, <2>1 DEF Put
    <3>2. 1 \in 1..Len(queue) /\ queue[1].kind = "meta"
      BY <1>1, <2>1
    <3>3. Len(queue) = 1 /\ rec = "ended"
      BY <3>2 DEF MetaLast
    <3> QED
      BY <1>1, <1>2, <3>1, <3>3
  <2>2. CASE First.kind # "meta"
    <3>1. meta # "final"
      BY <1>1 DEF DiskInv
    <3>2. meta' # "final"
      <4>1. CASE First.kind = "begin"
        BY <1>7, <2>2, <4>1, <3>1 DEF Put
      <4>2. CASE First.kind = "body"
        BY <1>7, <4>2, <3>1 DEF Put
      <4>3. CASE First.kind = "append"
        BY <1>7, <4>3, <3>1 DEF Put
      <4> QED
        BY <1>7, <2>2, <4>1, <4>2, <4>3 DEF Kinds
    <3>3. rec = "ended" => Len(queue) # 1
      BY <1>1, <2>2 DEF MetaLast
    <3> QED
      BY <1>1, <1>2, <3>2, <3>3
  <2> QED
    BY <2>1, <2>2
<1>10. rec' = "ended" \/ flushed' = "yes" =>
         "response" \in files' \/ \E i \in 1..Len(queue') : queue'[i].kind \in Holding
  <2>1. CASE First.kind \in Holding
    BY <1>4, <2>1
  <2>2. ASSUME First.kind \notin Holding, rec' = "ended" \/ flushed' = "yes", "response" \notin files'
        PROVE  \E i \in 1..Len(queue') : queue'[i].kind \in Holding
    <3>1. "response" \notin files
      BY <1>4, <2>2
    <3>2. PICK i \in 1..Len(queue) : queue[i].kind \in Holding
      BY <1>1, <2>2, <3>1 DEF DiskInv
    <3>3. i # 1
      BY <1>1, <2>2, <3>2
    <3>4. i - 1 \in 1..Len(queue') /\ (i - 1) + 1 = i
      BY <1>1, <1>2, <3>3
    <3> QED
      BY <1>2, <3>2, <3>4
  <2> QED
    BY <2>1, <2>2
<1>11. content' = Numbered(0, Len(content'))
  BY <1>4
<1> QED
  BY <1>1, <1>4, <1>5, <1>6, <1>8, <1>9, <1>10, <1>11 DEF DiskInv

LEMMA ChainDisk ==
  ASSUME IInv, DiskOK, RecorderInv, MetaLast, DiskInv, Ready \/ Perform
  PROVE  DiskInv'
<1>1. queue # <<>> /\ First = queue[1] /\ rec # "new" /\ UNCHANGED recorder
  BY DEF IInv, QueueOK, MadeOnce, Ready, Perform, First
<1>2. CASE Ready
  <2>1. /\ dir' = "present" /\ at' = "first" /\ queue' = queue /\ at = "ready"
        /\ UNCHANGED <<files, content, meta>>
    BY <1>1, <1>2 DEF Ready, DiskInv, BeginPending
  <2> QED
    BY <1>1, <2>1 DEF DiskInv, BeginPending, recorder, Total
<1>3. CASE Perform /\ First.kind = "begin" /\ at = "first"
  <2>1. /\ at' = "second" /\ queue' = queue /\ dir' = "present"
        /\ files' = files \cup {"request"} /\ UNCHANGED <<content, meta>>
    BY <1>3 DEF Perform, NextStep, Put
  <2>2. BeginPending' /\ BeginPending
    BY <1>1, <1>3, <2>1 DEF BeginPending
  <2>3. /\ Total' = Total /\ response' = response /\ rec' = rec /\ flushed' = flushed
    BY <1>1 DEF Total, recorder
  <2> QED
    BY <1>1, <2>1, <2>2, <2>3 DEF DiskInv
<1>4. CASE Perform /\ ~(First.kind = "begin" /\ at = "first")
  <2>1. Finished
    BY <1>4 DEF Perform, NextStep
  <2> QED
    BY <1>4, <2>1, PerformedDisk
<1> QED
  BY <1>2, <1>3, <1>4

LEMMA WholeStep ==
  ASSUME IInv, DiskOK, WholeInv, [LogNext]_logVars
  PROVE  WholeInv'
<1>1. RecorderInv' /\ MetaLast'
  BY RecorderStep, MetaStep DEF WholeInv
<1>2. ASSUME Good' PROVE DiskInv'
  <2>1. RecorderInv /\ MetaLast /\ DiskInv /\ ~WriteFails
    BY <1>2, GoodBefore DEF WholeInv
  <2>2. CASE UNCHANGED <<recorder, queue, at, disk>>
    BY <2>1, <2>2 DEF DiskInv, BeginPending, Total, recorder, disk
  <2>3. UNCHANGED logVars => UNCHANGED <<recorder, queue, at, disk>>
    BY DEF logVars
  <2>4. ASSUME NEW r \in Removers, RemoveFinds(r) \/ RemoveDir(r) \/ \E f \in Names : Unlink(r, f)
        PROVE  UNCHANGED <<recorder, queue, at, disk>>
    BY <1>2, <2>4, GoodBefore
  <2> QED
    BY <2>1, <2>2, <2>3, <2>4, BeginDisk, ChunkDisk, EndDisk, ChainDisk DEF LogNext
<1> QED
  BY <1>1, <1>2 DEF WholeInv

\* What is found of an entry that nobody deletes and whose writes succeed is whole,
\* whatever the sizes of its chunks and wherever its flushes fell.
THEOREM WholeCorrect == LogSpec => []EntriesAreWhole
<1>1. LogInit => IInv /\ DiskOK
  BY BodyLogAssumption DEF LogInit, IInv, QueueOK, MadeOnce, DeletedStaysGone, Write, DiskOK
<1>2. LogInit => WholeInv
  <2> SUFFICES ASSUME LogInit PROVE WholeInv
    OBVIOUS
  <2>1. /\ Total = 0 /\ Len(response) = 0 /\ Len(content) = 0 /\ 0 - 0 = 0 /\ Len(queue) = 0
        /\ Numbered(0, 0) = <<>>
    BY NumberedNone, BodyLogAssumption DEF LogInit, Total
  <2>2. Laid(queue, Len(content), Total - Len(response))
    BY <2>1, LaidStart DEF LogInit
  <2>3. RecorderInv /\ MetaLast
    BY <2>1 DEF LogInit, RecorderInv, MetaLast
  <2> QED
    BY <2>1, <2>2, <2>3 DEF LogInit, WholeInv, DiskInv, BeginPending
<1>3. IInv /\ DiskOK /\ WholeInv /\ [LogNext]_logVars => (IInv /\ DiskOK /\ WholeInv)'
  BY StepIInv, StepTypes, WholeStep
<1>4. IInv /\ DiskOK /\ WholeInv => EntriesAreWhole
  <2> SUFFICES ASSUME IInv, DiskOK, WholeInv, Good PROVE EntriesAreWhole
    BY DEF EntriesAreWhole, RecordedWhole, FinalMeansWhole, Good
  <2>1. DiskInv /\ RecorderInv
    BY DEF WholeInv
  <2>2. ASSUME rec = "ended", queue = <<>>
        PROVE  content = Whole /\ {"request", "meta", "response"} \subseteq files /\ meta = "final"
    <3>1. response = <<>> /\ Total \in Nat
      BY <2>1, <2>2, LensAre DEF RecorderInv
    <3>2. Laid(<<>>, Len(content), Total - Len(response))
      BY <2>1, <2>2 DEF DiskInv
    <3>3. Len(content) = Total - Len(response)
      BY <3>2, LaidNone
    <3>4. Len(response) = 0
      BY <3>1
    <3>5. Len(content) = Total
      BY <3>1, <3>3, <3>4
    <3>6. content = Whole
      BY <2>1, <3>5 DEF DiskInv, Whole, Total
    <3>7. 1..Len(queue) = {}
      BY <2>2
    <3> QED
      BY <2>1, <2>2, <3>6, <3>7 DEF DiskInv, BeginPending
  <2>3. RecordedWhole
    BY <2>2 DEF RecordedWhole, DiskOK, Names
  <2>4. FinalMeansWhole
    <3>1. "meta" \in files => "request" \in files
      BY <2>1 DEF DiskInv, IInv, QueueOK, BeginPending
    <3>2. meta = "final" => rec = "ended" /\ queue = <<>>
      BY <2>1 DEF DiskInv
    <3> QED
      BY <2>2, <3>1, <3>2 DEF FinalMeansWhole
  <2> QED
    BY <2>3, <2>4 DEF EntriesAreWhole
<1> QED
  BY <1>1, <1>2, <1>3, <1>4, PTL DEF LogSpec
=============================================================================
