------------------------------ MODULE UsageScan ------------------------------
(***************************************************************************)
(* What an answer says of its tokens, its end and its failure, read from   *)
(* the bytes the client is given (UsageScanner, src/anthropic/usage.rs).   *)
(* A frame or a document is readable when it is one unit that Says lists:  *)
(* its type, the counts of its usage, its stop reason.                     *)
(***************************************************************************)
EXTENDS SseParser

CONSTANTS
  Says,                \* [unit -> [type, usage, stop]]: usage a function of some fields
  MAX_DOCUMENT_BYTES,
  None

Counted == {"input", "output", "cache_read", "cache_creation"}

Scanner(body, parser, said) == [body |-> body, parser |-> parser, said |-> said]
Said(told, usage, cache_reported, stop, error) ==
  [told |-> told, usage |-> usage, cache_reported |-> cache_reported, stop |-> stop,
   error |-> error]

\* Where no usage is told, its counts are nought.
NewScan(events) ==
  Scanner(IF events THEN "events" ELSE "document", NewParser,
          Said("no", [f \in Counted |-> 0], "no", None, "no"))

\* The counts in the fields of a usage; the breakdown of cache_creation is one only where
\* there is no flat total.
Counts(fields) ==
  [f \in (DOMAIN fields \cap Counted)
           \cup (IF "nested" \in DOMAIN fields THEN {"cache_creation"} ELSE {}) |->
     IF f \in DOMAIN fields THEN fields[f] ELSE fields["nested"]]

\* Counts are cumulative: a later one replaces an earlier, what is left out stays.
OverlayFresh(usage, fields) ==   \* a mutant: a later usage replaces all of the earlier
  [f \in Counted |-> IF f \in DOMAIN fields THEN fields[f] ELSE 0]

Overlay(usage, fields) ==
  [f \in Counted |-> IF f \in DOMAIN Counts(fields) THEN Counts(fields)[f] ELSE usage[f]]

Cached(fields) == DOMAIN fields \ {"input", "output"} # {}

\* What a usage and a stop reason add, where there is one.
WithUsage(s, usage) ==
  IF usage = None THEN s
  ELSE Said("yes", Overlay(s.usage, usage), IF Cached(usage) THEN "yes" ELSE s.cache_reported,
            s.stop, s.error)

Stopped(s, stop) ==
  IF stop = None THEN s ELSE Said(s.told, s.usage, s.cache_reported, stop, s.error)

Erred(s) == Said(s.told, s.usage, s.cache_reported, s.stop, "said")

Readable(data) == Len(data) = 1 /\ data[1] \in DOMAIN Says

\* frames(): what each frame adds.
Event(s, data) ==
  IF ~Readable(data) THEN s
  ELSE LET e == Says[data[1]]
       IN CASE e.type = "message_start" -> WithUsage(s, e.usage)
            [] e.type = "message_delta" -> Stopped(WithUsage(s, e.usage), e.stop)
            [] e.type = "error" -> Erred(s)
            [] OTHER -> s

Events(s, frames) ==
  LET events[n \in 0..Len(frames)] == IF n = 0 THEN s ELSE Event(events[n - 1], frames[n])
  IN events[Len(frames)]

\* feed(): a stream is framed as it comes, a document kept up to its limit.
Scan(s, chunk) ==
  LET fed == Feed(s.parser, chunk)
  IN CASE s.body = "events" ->
            Scanner(IF fed.error = "none" THEN "events" ELSE "unreadable", fed.parser,
                    Events(s.said, fed.frames))
       [] s.body = "document" ->
            IF Len(s.parser.buffer) + Len(chunk) > MAX_DOCUMENT_BYTES
            THEN Scanner("unreadable", NewParser, s.said)
            ELSE Scanner("document",
                         [buffer |-> s.parser.buffer \o chunk, line_start |-> 0, scanned |-> 0],
                         s.said)
       [] OTHER -> s

\* finish().
Document(s, text) ==
  IF ~Readable(text) THEN s
  ELSE LET d == Says[text[1]]
       IN IF d.type = "error" THEN Erred(s) ELSE Stopped(WithUsage(s, d.usage), d.stop)

Scanned(s) ==
  CASE s.body = "events" -> Scanner(s.body, s.parser, Events(s.said, Finish(s.parser)))
    [] s.body = "document" -> Scanner(s.body, s.parser, Document(s.said, s.parser.buffer))
    [] OTHER -> s
=============================================================================
