---------------------------- MODULE StreamEncoder ----------------------------
(***************************************************************************)
(* Events to the frames of a Messages stream (src/anthropic/stream.rs).    *)
(* Each action encodes one event.  The frames are kept as what a client    *)
(* makes of them, reading each as it comes: message.                       *)
(***************************************************************************)
EXTENDS Integers, Sequences

CONSTANTS
  Calls,    \* indexes of tool calls
  Nil       \* no block

ASSUME EncoderAssumption == Nil \notin Nat

VARIABLES
  state,      \* "idle", "open" or "closed"
  nextIndex,  \* StreamEncoder.next_index
  open,       \* the open block: its kind, its call if it is a tool's, its index
  tools,      \* the block of each call started
  stop,       \* StreamEncoder.stop
  message     \* what the client has read: [status, blocks, reason]

encVars == <<state, nextIndex, open, tools, stop, message>>

NoBlock == [kind |-> "none", call |-> Nil, block |-> Nil]

Message(status, blocks, reason) == [status |-> status, blocks |-> blocks, reason |-> reason]
Block(kind, text, st) == [kind |-> kind, text |-> text, state |-> st]

-----------------------------------------------------------------------------
(* The frames, each from the message before it to the message after.  One  *)
(* out of place garbles the message.                                       *)

Garbled(m) == Message("garbled", m.blocks, m.reason)
AllClosed(m) == \A n \in DOMAIN m.blocks : m.blocks[n].state = "closed"
Put(m, n, block) == Message("open", [m.blocks EXCEPT ![n] = block], m.reason)

MessageStart(m) ==
  IF m.status = "none" THEN Message("open", m.blocks, m.reason) ELSE Garbled(m)

BlockStart(m, b, k) ==
  IF m.status = "open" /\ AllClosed(m) /\ b = Len(m.blocks)
  THEN Message("open", Append(m.blocks, Block(k, <<>>, "open")), m.reason)
  ELSE Garbled(m)

Delta(m, b, k, x) ==
  LET block == m.blocks[b + 1]
  IN IF m.status = "open" /\ b + 1 \in DOMAIN m.blocks /\ block.kind = k
     THEN Put(m, b + 1, Block(k, block.text \o x, block.state))
     ELSE Garbled(m)

BlockStop(m, b) ==
  LET block == m.blocks[b + 1]
  IN IF m.status = "open" /\ b + 1 \in DOMAIN m.blocks /\ block.state = "open"
     THEN Put(m, b + 1, Block(block.kind, block.text, "closed"))
     ELSE Garbled(m)

MessageDelta(m, r) ==
  IF m.status = "open" /\ AllClosed(m) THEN Message("said", m.blocks, r) ELSE Garbled(m)

MessageStop(m) ==
  IF m.status = "said" THEN Message("ended", m.blocks, m.reason) ELSE Garbled(m)

ErrorFrame(m) ==
  IF m.status \in {"none", "open"}
  THEN Message(IF m.status = "none" THEN "failed" ELSE "broken off", m.blocks, m.reason)
  ELSE Garbled(m)

-----------------------------------------------------------------------------
(* The encoder.                                                            *)

EncoderInit ==
  /\ state = "idle"
  /\ nextIndex = 0
  /\ open = NoBlock
  /\ tools = [c \in Calls |-> Nil]
  /\ stop = "end_turn"
  /\ message = Message("none", <<>>, Nil)

\* start(): a delta before any Start still gets a message_start.
Started(m) == IF state = "idle" THEN MessageStart(m) ELSE m

\* Faulty: a new block leaves the open one open.
LeftOpen(m) == m

\* close_open()
Closed(m) == IF open = NoBlock THEN m ELSE BlockStop(m, open.block)

Silent == state = "closed" /\ UNCHANGED encVars

Start ==
  /\ state # "closed"
  /\ state' = "open"
  /\ message' = Started(message)
  /\ UNCHANGED <<nextIndex, open, tools, stop>>

\* open_block()
OpenBlock(k) == BlockStart(Closed(Started(message)), nextIndex, k)

\* A new text block and its first delta.
OpenText(k, x) ==
  /\ message' = Delta(OpenBlock(k), nextIndex, k, x)
  /\ open' = [kind |-> k, call |-> Nil, block |-> nextIndex]
  /\ nextIndex' = nextIndex + 1

ContinuesText(k) == open.kind = k

Text(k, x) ==
  /\ state # "closed"
  /\ state' = "open"
  /\ \/ ~ContinuesText(k) /\ OpenText(k, x)
     \/ /\ ContinuesText(k)
        /\ message' = Delta(message, open.block, k, x)
        /\ UNCHANGED <<open, nextIndex>>
  /\ UNCHANGED <<tools, stop>>

CallStart(c) ==
  /\ state # "closed"
  /\ state' = "open"
  /\ message' = OpenBlock("tool")
  /\ open' = [kind |-> "tool", call |-> c, block |-> nextIndex]
  /\ tools' = [tools EXCEPT ![c] = nextIndex]
  /\ nextIndex' = nextIndex + 1
  /\ UNCHANGED stop

BlockOf(c) == tools[c]

\* Arguments go to their call's block, open still or not.
CallArguments(c, x) ==
  /\ state # "closed"
  /\ message' = IF BlockOf(c) = Nil THEN message ELSE Delta(message, BlockOf(c), "tool", x)
  /\ UNCHANGED <<state, nextIndex, open, tools, stop>>

Finish(r) ==
  /\ state # "closed"
  /\ message' = Closed(message)
  /\ open' = NoBlock
  /\ stop' = r
  /\ UNCHANGED <<state, nextIndex, tools>>

\* error(): one frame, and nothing is closed.
Error ==
  /\ state # "closed"
  /\ message' = ErrorFrame(message)
  /\ state' = "closed"
  /\ UNCHANGED <<nextIndex, open, tools, stop>>

CalledTools == \E c \in Calls : tools[c] # Nil

\* StopReason::resolve
Resolved(r, called) == IF r = "end_turn" /\ called THEN "tool_use" ELSE r

\* finish(): Event::Done and the end of input.
Done ==
  \/ state = "idle" /\ Error
  \/ /\ state = "open"
     /\ message' = MessageStop(MessageDelta(Closed(message), Resolved(stop, CalledTools)))
     /\ open' = NoBlock
     /\ state' = "closed"
     /\ UNCHANGED <<nextIndex, tools, stop>>
=============================================================================
