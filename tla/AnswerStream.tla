---------------------------- MODULE AnswerStream ----------------------------
(***************************************************************************)
(* A backend's Messages answer on its way to the client: the clocks on its *)
(* body (src/upstream/timeout.rs), what is read from it as it passes       *)
(* (src/activity/exchange.rs), the pings that keep a quiet stream alive    *)
(* (src/server/ping.rs), and the buffering of an answer no stream was      *)
(* asked for (src/server/buffered.rs).  Timers count down.                 *)
(***************************************************************************)
EXTENDS UsageScan

CONSTANTS
  Chunks,        \* what the backend sends at a time
  MaxChunks,     \* bound on the chunks of an answer; the code has none
  FirstByte,     \* stream_first_byte_timeout and non_stream_timeout
  Idle,          \* stream_idle_timeout
  PING_INTERVAL,
  MAX_BUFFERED_BYTES

\* The bytes there are.
Unit == {"lf", "cr", "data:", "ping", "invalid"} \cup UNION {ToSet(c) : c \in Chunks}

ASSUME AnswerAssumption ==
  /\ MaxChunks \in Nat /\ MAX_BUFFERED_BYTES \in Nat
  /\ FirstByte \in Nat /\ Idle \in Nat /\ PING_INTERVAL \in Nat \ {0}
  /\ Chunks \subseteq Seq(Unit) /\ "invalid" \notin DOMAIN Says
  /\ None \notin Nat

VARIABLES
  asked,       \* "stream" or "document": what the client asked for
  sort,        \* "events" or "document": the answer's content type
  kind,        \* "anthropic" or "passthrough"
  backend,     \* its body: "open", "closed" or "broken"
  sent,        \* chunks sent
  queue,       \* the chunk that has arrived and is not taken, if any
  deadline,    \* BodyClock.deadline
  got_first, sleep,   \* TimedBody
  scan,        \* Tracked.scanner
  whole,       \* read_all's body
  quiet, tail, \* Pings
  ended,       \* how the client's body ended
  \* History.
  relayed,     \* the backend's bytes taken so far
  out,         \* the client's bytes so far
  seen,        \* the frames the scanner has been given
  silent       \* how long nothing has come since the last chunk was taken

chosen == <<asked, sort, kind>>
timed == <<deadline, got_first, sleep>>
vars == <<chosen, backend, sent, queue, timed, scan, whole, quiet, tail, ended,
          relayed, out, seen, silent>>

Ping == <<"data:", "ping", "lf", "lf">>

Pinged == kind = "anthropic" /\ asked = "stream" /\ sort = "events"
Buffered == kind = "anthropic" /\ asked = "document"

Endings == {"complete", "upstream error", "too large", "first byte", "idle", "left"}

Init ==
  /\ asked \in {"stream", "document"} /\ sort \in {"events", "document"}
  /\ kind \in {"anthropic", "passthrough"}
  /\ backend = "open" /\ sent = 0 /\ queue = <<>>
  /\ deadline \in 0..FirstByte     \* the headers have taken the rest
  /\ got_first = "no" /\ sleep = None
  /\ scan = NewScan(sort = "events") /\ whole = <<>>
  /\ quiet = PING_INTERVAL /\ tail = <<>>
  /\ ended = "no" /\ relayed = <<>> /\ out = <<>> /\ seen = <<>>
  /\ silent = 0

-----------------------------------------------------------------------------
\* The backend, and time.

Arrive ==
  /\ backend = "open" /\ queue = <<>> /\ sent < MaxChunks /\ ended = "no"
  /\ \E c \in Chunks : queue' = <<c>>
  /\ sent' = sent + 1
  /\ UNCHANGED <<chosen, backend, timed, scan, whole, quiet, tail, ended, relayed, out,
                 seen, silent>>

Stop ==
  /\ backend = "open" /\ ended = "no"
  /\ \E end \in {"closed", "broken"} : backend' = end
  /\ UNCHANGED <<chosen, sent, queue, timed, scan, whole, quiet, tail, ended, relayed,
                 out, seen, silent>>

Less(n) == IF n = 0 THEN 0 ELSE n - 1

Tick ==
  /\ ended = "no"
  /\ deadline' = Less(deadline)
  /\ sleep' = IF sleep = None THEN None ELSE Less(sleep)
  /\ quiet' = Less(quiet)
  /\ silent' = IF silent < Idle THEN silent + 1 ELSE silent
  /\ <<deadline, sleep, quiet, silent>>' # <<deadline, sleep, quiet, silent>>
  /\ UNCHANGED <<chosen, backend, sent, queue, got_first, scan, whole, tail, ended,
                 relayed, out, seen>>

-----------------------------------------------------------------------------
\* One poll of the client's body: what TimedBody has first, then its clock, then
\* the ping.

LastFour(text) == SubSeq(text, Len(text) - (IF Len(text) > 4 THEN 3 ELSE Len(text) - 1),
                         Len(text))

TakenKeepsClock ==      \* a mutant: the timer set before the chunk goes on
  /\ got_first' = "yes" /\ UNCHANGED <<sleep, deadline>>

Taken == got_first' = "yes" /\ sleep' = None /\ UNCHANGED deadline

\* A chunk passes: it is scanned on its way, and postpones the next ping if it has bytes.
Relay ==
  /\ ended = "no" /\ ~Buffered /\ queue # <<>>
  /\ Taken
  /\ queue' = <<>>
  /\ scan' = Scan(scan, queue[1])
  /\ tail' = IF Pinged THEN LastFour(tail \o queue[1]) ELSE tail
  /\ quiet' = IF Pinged /\ queue[1] # <<>> THEN PING_INTERVAL ELSE quiet
  /\ relayed' = relayed \o queue[1] /\ out' = out \o queue[1] /\ silent' = 0
  /\ seen' = IF scan.body = "events" THEN seen \o Feed(scan.parser, queue[1]).frames
             ELSE seen
  /\ UNCHANGED <<chosen, backend, sent, whole, ended>>

\* read_all keeps it, up to a limit.
Keep ==
  /\ ended = "no" /\ Buffered /\ queue # <<>>
  /\ Taken
  /\ queue' = <<>> /\ silent' = 0
  /\ IF Len(whole) + Len(queue[1]) > MAX_BUFFERED_BYTES
     THEN ended' = "too large" /\ UNCHANGED <<whole, relayed>>
     ELSE whole' = whole \o queue[1] /\ relayed' = relayed \o queue[1] /\ UNCHANGED ended
  /\ UNCHANGED <<chosen, backend, sent, scan, quiet, tail, out, seen>>

\* A relayed body keeps what was read from it, however it ends; one read whole is
\* scanned when it is complete.
Ends(how) ==
  /\ ended' = how
  /\ scan' = IF ~Buffered THEN Scanned(scan)
             ELSE IF how = "complete" THEN Scanned(Scan(scan, whole)) ELSE scan
  /\ out' = IF Buffered /\ how = "complete" THEN whole ELSE out
  /\ UNCHANGED <<chosen, backend, sent, queue, whole, quiet, tail, relayed, seen,
                 silent>>

End ==
  /\ ended = "no" /\ queue = <<>> /\ backend # "open"
  /\ Ends(IF backend = "closed" THEN "complete" ELSE "upstream error")
  /\ UNCHANGED timed

Waiting == IF asked = "stream" /\ got_first = "yes" THEN Idle ELSE deadline

LeftAnew == Waiting     \* a mutant: each poll sets the timer again

Left == IF sleep = None THEN Waiting ELSE sleep

\* Nothing has come: the timer is set when it is not, and looked at.
Timeout ==
  /\ ended = "no" /\ queue = <<>> /\ backend = "open"
  /\ Left = 0
  /\ Ends(IF asked = "stream" /\ got_first = "yes" THEN "idle" ELSE "first byte")
  /\ sleep' = 0 /\ UNCHANGED <<deadline, got_first>>

AtBoundaryLoose ==      \* a mutant: any line's end will do
  tail = <<>> \/ IsSuffix(<<"lf">>, tail)

AtBoundary ==
  tail = <<>> \/ IsSuffix(<<"lf", "lf">>, tail) \/ IsSuffix(<<"cr", "lf", "cr", "lf">>, tail)

\* ... and when it still runs, a quiet stream is pinged between its events.
Pending ==
  /\ ended = "no" /\ queue = <<>> /\ backend = "open"
  /\ Left # 0 /\ sleep' = Left
  /\ LET due == Pinged /\ quiet = 0
     IN /\ quiet' = IF due THEN PING_INTERVAL ELSE quiet
        /\ out' = IF due /\ AtBoundary THEN out \o Ping ELSE out
  /\ <<sleep, quiet, out>>' # <<sleep, quiet, out>>
  /\ UNCHANGED <<chosen, backend, sent, queue, deadline, got_first, scan, whole, tail,
                 ended, relayed, seen, silent>>

Poll == Relay \/ Keep \/ End \/ Timeout \/ Pending

\* The client goes, or a stop cuts the answer.
Leave ==
  /\ ended = "no"
  /\ Ends("left")
  /\ UNCHANGED timed

Next == Arrive \/ Stop \/ Tick \/ Poll \/ Leave

Spec == Init /\ [][Next]_vars

\* Where one of Poll's actions has something to do: ENABLED <<Poll>>_vars.
Pollable ==
  /\ ended = "no"
  /\ queue # <<>> \/ backend # "open" \/ sleep \in {None, 0} \/ (Pinged /\ quiet = 0)

\* A client that reads is polled for (weak fairness of Poll), and time passes.  Nothing
\* makes the backend send or stop.
FairSpec == Spec /\ ([]<>~Pollable \/ []<><<Poll>>_vars) /\ WF_vars(Tick)

-----------------------------------------------------------------------------
\* What a client reads in these bytes: the event-stream format, byte by byte.  widest
\* is the length of the longest frame, the one not ended included.
Byte(st, u) ==
  LET line == Stripped(st.line)
      size == st.size + 1
      widest == IF size > st.widest THEN size ELSE st.widest
  IN IF u # "lf"
     THEN [line |-> Append(st.line, u), data |-> st.data, bad |-> st.bad,
           frames |-> st.frames, size |-> size, widest |-> widest]
     ELSE IF line # <<>>
     THEN [line |-> <<>>,
           data |-> IF line[1] = "data:" THEN st.data \o <<"lf">> \o Tail(line) ELSE st.data,
           bad |-> IF Contains(line, "invalid") THEN "yes" ELSE st.bad,
           frames |-> st.frames, size |-> size, widest |-> widest]
     ELSE [line |-> <<>>, data |-> <<>>, bad |-> "no",
           frames |-> IF st.bad = "yes" THEN Append(st.frames, <<"invalid">>)
                      ELSE IF Len(st.data) > 1 THEN Append(st.frames, Tail(st.data))
                      ELSE st.frames,
           size |-> 0, widest |-> widest]

Reading(text) ==
  LET read[n \in 0..Len(text)] ==
        IF n = 0
        THEN [line |-> <<>>, data |-> <<>>, bad |-> "no", frames |-> <<>>,
              size |-> 0, widest |-> 0]
        ELSE Byte(read[n - 1], text[n])
  IN read[Len(text)]

Frames(text) == Reading(text).frames

\* Wherever the bytes are cut into chunks, the scanner is given the frames a client
\* reads in them, and it gives up only on bytes that are not text or on a frame within
\* a chunk of the limit: parser.rs:38-69.
FramesWhateverTheSplit ==
  sort = "events" /\ ~Buffered =>
    IF scan.body = "events" THEN seen = Frames(relayed)
    ELSE /\ IsPrefix(seen, Frames(relayed))
         /\ \/ Contains(Frames(relayed), <<"invalid">>)
            \/ \E c \in Chunks : Reading(relayed).widest + Len(c) > MAX_FRAME_BYTES

\* The frames but for pings.
Unpinged(frames) ==
  LET kept[n \in 0..Len(frames)] ==
        IF n = 0 THEN <<>>
        ELSE IF frames[n] = <<"ping">> THEN kept[n - 1] ELSE Append(kept[n - 1], frames[n])
  IN kept[Len(frames)]

\* Pings fall between events, though only the last four bytes tell where one ends: what
\* the client reads is what the backend sent, with whole pings among it; ping.rs:45-54.
PingsBetweenEvents ==
  /\ Unpinged(Frames(out)) =
       IF Buffered /\ ended # "complete" THEN <<>> ELSE Unpinged(Frames(relayed))
  /\ ~Buffered => /\ Reading(out).line = Reading(relayed).line
                  /\ Reading(out).data = Reading(relayed).data

\* The last frame of a body need not be ended by a blank line.
ReadToEnd(text) == Frames(text \o <<"lf", "lf">>)

UsageIn(frame) ==
  IF Readable(frame) /\ Says[frame[1]].type \in {"message_start", "message_delta"}
     /\ Says[frame[1]].usage # None
  THEN Says[frame[1]].usage ELSE <<>>

LastSaid(frames, f) ==
  LET saying == {i \in DOMAIN frames : f \in DOMAIN Counts(UsageIn(frames[i]))}
  IN IF saying = {} THEN 0 ELSE Counts(UsageIn(frames[Max(saying)]))[f]

\* The tokens counted for an answer are, field by field, the last its frames said,
\* however it ended and wherever it was cut: usage.rs:168-205.
UsageIsLastSaid ==
  LET frames == ReadToEnd(relayed)
  IN sort = "events" /\ scan.body = "events" /\ ended \in (IF Buffered THEN {"complete"} ELSE Endings) =>
       /\ scan.said.told = "no" => \A i \in DOMAIN frames : UsageIn(frames[i]) = <<>>
       /\ \A f \in Counted : scan.said.usage[f] = LastSaid(frames, f)

\* An answer is given up for the backend's silence only: not for time its client took,
\* and not with something there to pass on; timeout.rs:134-160.
TimedOutForSilence ==
  /\ ended = "idle" => queue = <<>> /\ silent >= Idle
  /\ ended = "first byte" => queue = <<>> /\ deadline = 0
  /\ ended = "first byte" /\ asked = "stream" => relayed = <<>>

\* A client that goes on reading is not kept for ever by a backend that stops sending,
\* however far it got and whether it closes its answer or not.  Each chunk of a stream
\* starts the idle clock again: one that keeps coming is not ended; timeout.rs:134-160.
AnswersEnd == <>(ended # "no") \/ []<><<Arrive>>_vars
=============================================================================
