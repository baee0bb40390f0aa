------------------------------ MODULE SseParser ------------------------------
(***************************************************************************)
(* Server-sent events as the router reads them (src/sse/parser.rs).  Bytes *)
(* are units: a line feed "lf", a carriage return "cr", the field name     *)
(* "data:", one that is "invalid" UTF-8, and any other.  A frame is its    *)
(* data lines' units, joined by "lf".                                      *)
(***************************************************************************)
EXTENDS Integers, SequencesExt

CONSTANT MAX_FRAME_BYTES

ASSUME SseAssumption == MAX_FRAME_BYTES \in Nat

NewParser == [buffer |-> <<>>, line_start |-> 0, scanned |-> 0]

Stripped(line) == IF line # <<>> /\ line[Len(line)] = "cr" THEN Front(line) ELSE line

\* The line after `from` that ends at `e`.
Line(buf, from, e) == Stripped(SubSeq(buf, from + 1, e - 1))

\* parse_frame: the frame in these bytes, if they have data; Invalid is its error.
Invalid(raw) == Contains(raw, "invalid")

\* What a line adds to the data, which is joined by "lf".
Data(line) == IF line # <<>> /\ line[1] = "data:" THEN <<"lf">> \o Tail(line) ELSE <<>>

\* Where the last line of these bytes begins, and the data of those before it.
Split(raw) ==
  LET Past(st, n) ==
        IF raw[n] = "lf"
        THEN [open |-> n, data |-> st.data \o Data(Line(raw, st.open, n))] ELSE st
      split[n \in 0..Len(raw)] ==
        IF n = 0 THEN [open |-> 0, data |-> <<>>] ELSE Past(split[n - 1], n)
  IN split[Len(raw)]

ParseFrame(raw) ==
  LET split == Split(raw)
      data == split.data \o Data(Line(raw, split.open, Len(raw) + 1))
  IN IF Len(data) > 1 THEN <<Tail(data)>> ELSE <<>>

\* Where the line that is open began.
OpenLineLost(p) == p.scanned   \* a mutant: what an earlier chunk held of it is forgotten

OpenLine(p) == p.line_start

\* Parser::feed.  Only the bytes not scanned yet are searched for line feeds; a blank
\* line ends a frame.
LineEnd(buf, st, e) ==
  LET raw == SubSeq(buf, st.frame + 1, st.line)
  IN IF Line(buf, st.line, e) # <<>>
     THEN [frame |-> st.frame, line |-> e, frames |-> st.frames, error |-> st.error]
     ELSE [frame |-> e, line |-> e, frames |-> st.frames \o ParseFrame(raw),
           error |-> IF Invalid(raw) THEN "utf8" ELSE st.error]

Lines(p, buf) ==
  LET Past(st, n) == IF n > p.scanned /\ buf[n] = "lf" THEN LineEnd(buf, st, n) ELSE st
      lines[n \in 0..Len(buf)] ==
        IF n = 0 THEN [frame |-> 0, line |-> OpenLine(p), frames |-> <<>>, error |-> "none"]
        ELSE Past(lines[n - 1], n)
  IN lines[Len(buf)]

\* An error takes the frames found before it in the chunk along.
Failed(error) == [parser |-> NewParser, frames |-> <<>>, error |-> error]

Fed(buf, end) ==
  IF end.error # "none" THEN Failed(end.error)
  ELSE [parser |-> [buffer |-> SubSeq(buf, end.frame + 1, Len(buf)),
                    line_start |-> end.line - end.frame,
                    scanned |-> Len(buf) - end.frame],
        frames |-> end.frames, error |-> "none"]

Feed(p, chunk) ==
  LET buf == p.buffer \o chunk
  IN IF Len(buf) > MAX_FRAME_BYTES THEN Failed("too large") ELSE Fed(buf, Lines(p, buf))

\* Parser::finish: a last frame that no blank line ends.
Finish(p) == IF Invalid(p.buffer) THEN <<>> ELSE ParseFrame(p.buffer)
=============================================================================
