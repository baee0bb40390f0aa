----------------------------- MODULE Translation -----------------------------
(***************************************************************************)
(* A backend's Chat Completions stream read as a Messages stream           *)
(* (src/translate/stream.rs): decoder and encoder joined, and beside them  *)
(* the fold that makes one document of the same events (src/ir/message.rs) *)
(* The backend keeps to one of three conventions: it numbers its tool      *)
(* calls, or gives them one after the other without numbers, or anything.  *)
(***************************************************************************)
EXTENDS ChunkDecoder, StreamEncoder

CONSTANTS
  MaxPayloads,   \* bound on the payloads of a stream
  Conventions    \* of {"numbered", "sequential", "any"}

ASSUME TranslationAssumption == Calls = Indexes /\ Nil = None /\ MaxPayloads \in Nat

VARIABLES
  input,       \* "open", or "ended" as Translator.done
  arrived,     \* payloads so far
  \* Message::from_events, over the same events.
  blocks,      \* Message.blocks
  slots,       \* its map of calls to blocks
  accepting,   \* whether the last block accepts deltas of its kind
  reason,      \* Message.stop_reason
  folded,      \* "running", "ok" or "failed"
  \* What the backend means.
  convention,
  begun,       \* the calls it began
  given        \* the arguments it gave each

foldVars == <<blocks, slots, accepting, reason, folded>>
meant == <<convention, begun, given>>
vars == <<decVars, events, encVars, input, arrived, foldVars, meant>>

Init ==
  /\ DecoderInit /\ EncoderInit
  /\ input = "open" /\ arrived = 0
  /\ blocks = <<>> /\ slots = [c \in Calls |-> Nil] /\ accepting = "no"
  /\ reason = "end_turn" /\ folded = "running"
  /\ convention \in Conventions
  /\ begun = {} /\ given = [c \in Calls |-> <<>>]

-----------------------------------------------------------------------------
(* The backend                                                             *)

Fresh == arrived + 1

Takes ==
  /\ input = "open" /\ events = <<>> /\ arrived < MaxPayloads
  /\ arrived' = arrived + 1
  /\ UNCHANGED <<encVars, foldVars, input>>

\* The call delta d belongs to.
Means(d, c) ==
  \/ convention = "numbered" /\ d.id = "no" /\ d.index = c
  \/ /\ convention = "sequential" /\ d.index = None
     /\ \/ d.name = "yes" /\ c = Cardinality(begun)
        \/ d.name = "no" /\ d.id = "no" /\ c = Cardinality(begun) - 1
  \/ convention = "any" /\ NumberOf(d, c)

GivesCall(d) ==
  /\ Takes
  /\ CallDelta(d)
  /\ \/ \E c \in Calls :
          /\ Means(d, c) /\ state # "closed"
          /\ begun' = begun \cup {c}
          /\ given' = [given EXCEPT ![c] = @ \o d.args]
     \/ /\ state = "closed" \/ (convention = "any" /\ NumberOf(d, None))
        /\ UNCHANGED <<begun, given>>
  /\ UNCHANGED convention

Gives ==
  /\ Takes
  /\ \/ \E k \in Texts : Content(k, <<Fresh>>)
     \/ \E r \in Reasons : Finishing(r)
     \/ Other
     \/ Ends
     \/ Fails
  /\ UNCHANGED meant

\* The last frame came; the translator ends what is open.
InputEnds ==
  /\ input = "open" /\ events = <<>>
  /\ input' = "ended"
  /\ Ends
  /\ UNCHANGED <<encVars, foldVars, arrived, meant>>

\* The connection breaks: an error, and the end of the output.
ConnectionLost ==
  /\ input = "open" /\ events = <<>>
  /\ input' = "ended"
  /\ Fails
  /\ UNCHANGED <<encVars, foldVars, arrived, meant>>

-----------------------------------------------------------------------------
(* Message::from_events                                                    *)

AppendTo(n, x) ==
  blocks' = [blocks EXCEPT ![n] = [kind |-> @.kind, text |-> @.text \o x]]

FoldText(k, x) ==
  /\ IF accepting = "yes" /\ blocks[Len(blocks)].kind = k
     THEN AppendTo(Len(blocks), x)
     ELSE blocks' = Append(blocks, [kind |-> k, text |-> x])
  /\ accepting' = "yes"
  /\ UNCHANGED <<slots, reason, folded>>

FoldCall(c) ==
  /\ slots' = [slots EXCEPT ![c] = Len(blocks) + 1]
  /\ blocks' = Append(blocks, [kind |-> "tool", text |-> <<>>])
  /\ accepting' = "yes"
  /\ UNCHANGED <<reason, folded>>

FoldArguments(c, x) ==
  /\ IF slots[c] = Nil THEN UNCHANGED blocks ELSE AppendTo(slots[c], x)
  /\ UNCHANGED <<slots, accepting, reason, folded>>

\* Faulty: a finish leaves the last block open to more of its kind.
FoldFinishOpen(r) ==
  /\ reason' = r
  /\ UNCHANGED <<blocks, slots, accepting, folded>>

FoldFinish(r) ==
  /\ reason' = r /\ accepting' = "no"
  /\ UNCHANGED <<blocks, slots, folded>>

FoldDone ==
  /\ folded' = "ok"
  /\ reason' = Resolved(reason, \E c \in Calls : slots[c] # Nil)
  /\ UNCHANGED <<blocks, slots, accepting>>

FoldError == folded' = "failed" /\ UNCHANGED <<blocks, slots, accepting, reason>>

Fold(e) ==
  \/ folded # "running" /\ UNCHANGED foldVars
  \/ /\ folded = "running"
     /\ \/ e.type = "start" /\ UNCHANGED foldVars
        \/ e.type = "text" /\ FoldText(e.kind, e.text)
        \/ e.type = "call" /\ FoldCall(e.call)
        \/ e.type = "arguments" /\ FoldArguments(e.call, e.text)
        \/ e.type = "finish" /\ FoldFinish(e.reason)
        \/ e.type = "error" /\ FoldError
        \/ e.type = "done" /\ FoldDone

EncodeEvent(e) ==
  \/ Silent
  \/ e.type = "start" /\ Start
  \/ e.type = "text" /\ Text(e.kind, e.text)
  \/ e.type = "call" /\ CallStart(e.call)
  \/ e.type = "arguments" /\ CallArguments(e.call, e.text)
  \/ e.type = "finish" /\ Finish(e.reason)
  \/ e.type = "error" /\ Error
  \/ e.type = "done" /\ Done

Encode ==
  /\ events # <<>>
  /\ EncodeEvent(Head(events))
  /\ Fold(Head(events))
  /\ events' = Tail(events)
  /\ UNCHANGED <<decVars, input, arrived, meant>>

Next ==
  \/ Gives \/ InputEnds \/ ConnectionLost \/ Encode
  \/ \E i \in Indexes \cup {None}, id, name \in {"no", "yes"}, x \in {<<>>, <<Fresh>>} :
       GivesCall([index |-> i, id |-> id, name |-> name, args |-> x])

Spec == Init /\ [][Next]_vars

-----------------------------------------------------------------------------
(* What a client reads.                                                    *)

Client == INSTANCE MessageStream
  WITH over <- input = "ended" /\ events = <<>>

\* The frames are a message to any client that reads them, whatever the backend sent:
\* blocks numbered and closed in order, text in open blocks of its kind, one end and
\* nothing after it, and no end of input without one; docs/translation.md, steps 4 and 5.
ReadAsMessage == Client!Spec

\* A message that ends well has every tool call the backend began, with all the
\* arguments it gave that call, in order, and no other's: through calls named late,
\* calls without numbers, interleaved deltas and the limits.
CallsArriveWhole ==
  message.status = "ended" =>
    \A c \in Calls :
      /\ c \in begun <=> tools[c] # Nil
      /\ c \in begun => message.blocks[tools[c] + 1].text = given[c]

\* Both response paths follow the same block rules (docs/translation.md, step 5): the
\* document folded from the events is the one a client assembles from the stream.
SameDocument ==
  /\ message.status = "ended" =>
       /\ folded = "ok" /\ message.reason = reason
       /\ blocks = [n \in DOMAIN message.blocks |->
                      [kind |-> message.blocks[n].kind, text |-> message.blocks[n].text]]
  /\ message.status = "broken off" => folded = "failed"

\* What a backend can make the router hold for one stream is bounded, across calls.
HeldUnits == UNION {{i} \X (1..Len(held[i])) : i \in Indexes}
HeldIsBounded ==
  /\ Cardinality(HeldUnits) <= MaxPending
  /\ Cardinality(Known) <= MaxCalls
  /\ Cardinality(HeldUnits) <= pending
=============================================================================
