---------------------------- MODULE MessageStream ----------------------------
(***************************************************************************)
(* What a client is promised of a streamed answer, whatever the backend    *)
(* speaks: a message that grows block by block at its end, and once over   *)
(* stays as it is.  A block has a kind, its text so far, and is open or    *)
(* closed; the message is none yet, open, ended, broken off, or failed     *)
(* before it began.                                                        *)
(***************************************************************************)
EXTENDS Integers, Sequences, SequencesExt

VARIABLES
  message,   \* [status, blocks, reason]
  over       \* whether the stream has come to its end, a Boolean

stream == <<message, over>>

Init == message.status = "none" /\ message.blocks = <<>> /\ ~over

Live == message.status \in {"none", "open"}
Grows(block, grown) ==
  /\ grown.kind = block.kind /\ grown.state = block.state
  /\ IsPrefix(block.text, grown.text)
Shut(blocks) ==
  [n \in DOMAIN blocks |->
     [kind |-> blocks[n].kind, text |-> blocks[n].text, state |-> "closed"]]
Becomes(status, blocks, reason) ==
  message' = [status |-> status, blocks |-> blocks, reason |-> reason]

Begin == message.status = "none" /\ Becomes("open", message.blocks, message.reason)

\* A block starts once all before it are closed.
Add ==
  /\ Live /\ message'.status = "open"
  /\ message'.blocks # <<>>
  /\ Front(message'.blocks) = Shut(message.blocks)
  /\ message'.blocks[Len(message'.blocks)].state = "open"
  /\ message'.reason = message.reason

\* Text is added to the open block, or to a tool's.
Extend ==
  /\ message.status = "open"
  /\ \E n \in DOMAIN message.blocks :
       /\ message.blocks[n].state = "open" \/ message.blocks[n].kind = "tool"
       /\ Becomes("open", [message.blocks EXCEPT ![n] = message'.blocks[n]], message.reason)
       /\ Grows(message.blocks[n], message'.blocks[n])

Close == message.status = "open" /\ Becomes("open", Shut(message.blocks), message.reason)
End == message.status = "open" /\ Becomes("ended", Shut(message.blocks), message'.reason)

Break ==
  /\ Live
  /\ Becomes(IF message.status = "none" THEN "failed" ELSE "broken off",
             message.blocks, message.reason)

\* The stream comes to its end with its message, never before.
Next ==
  /\ Begin \/ Add \/ Extend \/ Close \/ End \/ Break \/ UNCHANGED message
  /\ over' => message'.status \in {"ended", "broken off", "failed"}

Spec == Init /\ [][Next]_stream
=============================================================================
