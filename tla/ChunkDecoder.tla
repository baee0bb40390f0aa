----------------------------- MODULE ChunkDecoder -----------------------------
(***************************************************************************)
(* Chat Completions payloads to events (src/openai/chunk.rs).  A payload   *)
(* with several parts stands for as many payloads in a row: nothing comes  *)
(* between its events.  Text and arguments are sequences of units, each    *)
(* the number of the payload that brought it.                              *)
(***************************************************************************)
EXTENDS Integers, Sequences, FiniteSets

CONSTANTS
  LastIndex,    \* the largest index of a tool call (u32::MAX)
  MaxCalls,     \* MAX_CALLS
  MaxPending,   \* MAX_PENDING_ARGUMENTS
  None

Indexes == 0..LastIndex

ASSUME DecoderAssumption ==
  /\ LastIndex \in Nat /\ MaxCalls \in Nat \ {0} /\ MaxPending \in Nat
  /\ None \notin Nat

VARIABLES
  started,    \* whether the first payload was seen
  calls,      \* what is known of each call
  held,       \* the arguments each pending call holds
  last,       \* the call a delta without index, id and name continues
  pending,    \* ChunkDecoder.pending
  stopped,    \* whether tool calls are followed no longer
  events      \* decoded and not encoded yet, oldest first

decVars == <<started, calls, held, last, pending, stopped>>

Texts == {"thinking", "text"}
Reasons == {"end_turn", "max_tokens", "tool_use"}

StartEvent == [type |-> "start"]
TextEvent(k, x) == [type |-> "text", kind |-> k, text |-> x]
CallEvent(i) == [type |-> "call", call |-> i]
ArgumentsEvent(i, x) == [type |-> "arguments", call |-> i, text |-> x]
FinishEvent(r) == [type |-> "finish", reason |-> r]
ErrorEvent == [type |-> "error"]
DoneEvent == [type |-> "done"]

Known == {i \in Indexes : calls[i] # "none"}
IsPending(i) == calls[i] = "pending"

DecoderInit ==
  /\ started = "no" /\ stopped = "no"
  /\ calls = [i \in Indexes |-> "none"]
  /\ held = [i \in Indexes |-> <<>>]
  /\ last = None
  /\ pending = 0
  /\ events = <<>>

\* Every payload but [DONE] and an error document starts the message.
Opening == IF started = "no" THEN <<StartEvent>> ELSE <<>>
Emit(es) == started' = "yes" /\ events' = Opening \o es

Content(k, x) ==
  /\ Emit(<<TextEvent(k, x)>>)
  /\ UNCHANGED <<calls, held, last, pending, stopped>>

Finishing(r) ==
  /\ Emit(<<FinishEvent(r)>>)
  /\ UNCHANGED <<calls, held, last, pending, stopped>>

\* Usage alone, or nothing of interest.
Other ==
  /\ Emit(<<>>)
  /\ UNCHANGED <<calls, held, last, pending, stopped>>

-----------------------------------------------------------------------------
(* tool_call_delta                                                         *)

Continues(d) == last # None /\ d.id = "no" /\ d.name = "no"

Newest(i) == i \in Known /\ \A j \in Known : j <= i

\* Faulty: an unnumbered delta always continues the latest call.
NumberOfLatest(d, n) ==
  \/ d.index # None /\ n = d.index
  \/ d.index = None /\ last # None /\ n = last
  \/ d.index = None /\ last = None /\ n = 0

\* The index of a delta; None when an unnumbered call would need one past the last.
NumberOf(d, n) ==
  \/ d.index # None /\ n = d.index
  \/ d.index = None /\ Continues(d) /\ n = last
  \/ d.index = None /\ ~Continues(d) /\ Known = {} /\ n = 0
  \/ /\ d.index = None /\ ~Continues(d)
     /\ \E i \in Known : Newest(i) /\ n = IF i = LastIndex THEN None ELSE i + 1

StopFollowing ==
  /\ stopped' = "yes"
  /\ calls' = [i \in Indexes |-> "none"]
  /\ held' = [i \in Indexes |-> <<>>]
  /\ pending' = 0
  /\ Emit(<<ErrorEvent>>)

\* The name is there: everything held goes out with it.
StartCall(i, args) ==
  LET all == held[i] \o args IN
  /\ calls' = [calls EXCEPT ![i] = "started"]
  /\ held' = [held EXCEPT ![i] = <<>>]
  /\ pending' = pending + Len(args) - Len(all)
  /\ Emit(<<CallEvent(i)>> \o (IF all = <<>> THEN <<>> ELSE <<ArgumentsEvent(i, all)>>))

HoldCall(i, args) ==
  /\ calls' = [calls EXCEPT ![i] = "pending"]
  /\ held' = [held EXCEPT ![i] = @ \o args]
  /\ pending' = pending + Len(args)
  /\ Emit(<<>>)

TooMany(i) == calls[i] = "none" /\ Cardinality(Known) = MaxCalls

\* Faulty: each call is held to the limit on its own.
TooLongAlone(i, args) == Len(held[i]) + Len(args) > MaxPending

TooLong(i, args) == pending + Len(args) > MaxPending

CallDelta(d) ==
  \/ /\ stopped = "yes"
     /\ Emit(<<>>)
     /\ UNCHANGED <<calls, held, last, pending, stopped>>
  \/ /\ stopped = "no" /\ NumberOf(d, None)
     /\ StopFollowing
     /\ UNCHANGED last
  \/ \E i \in Indexes :
       /\ stopped = "no" /\ NumberOf(d, i)
       /\ last' = i
       /\ \/ TooMany(i) /\ StopFollowing
          \/ /\ calls[i] = "started"
             /\ Emit(IF d.args = <<>> THEN <<>> ELSE <<ArgumentsEvent(i, d.args)>>)
             /\ UNCHANGED <<calls, held, pending, stopped>>
          \/ /\ calls[i] # "started" /\ ~TooMany(i)
             /\ d.name = "yes"
             /\ StartCall(i, d.args)
             /\ UNCHANGED stopped
          \/ /\ calls[i] # "started" /\ ~TooMany(i)
             /\ d.name = "no"
             /\ \/ TooLong(i, d.args) /\ StopFollowing
                \/ ~TooLong(i, d.args) /\ HoldCall(i, d.args) /\ UNCHANGED stopped

-----------------------------------------------------------------------------
(* Ends                                                                    *)

\* One error per call that never received a name, in the order of their indexes.
Nameless == [k \in 1..Cardinality({i \in Indexes : IsPending(i)}) |-> ErrorEvent]

\* finish(), and then what the encoder is told last: [DONE] and the end of input alike.
Ends ==
  /\ events' = Nameless \o <<DoneEvent>>
  /\ calls' = [i \in Indexes |-> "none"]
  /\ held' = [i \in Indexes |-> <<>>]
  /\ UNCHANGED <<started, last, pending, stopped>>

\* An error document, a payload that is no JSON object, a broken frame.
Fails ==
  /\ events' = <<ErrorEvent>>
  /\ UNCHANGED decVars
=============================================================================
