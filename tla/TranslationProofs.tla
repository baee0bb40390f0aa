--------------------------- MODULE TranslationProofs ---------------------------
(***************************************************************************)
(* Proofs about a translated stream, for any number of payloads, indexes   *)
(* and limits, whatever the backend sends.                                 *)
(***************************************************************************)
EXTENDS Translation, FiniteSetTheorems, SequenceTheorems, TLAPS

-----------------------------------------------------------------------------
(* Types.                                                                  *)

Units == Seq(Nat)
Kinds == Texts \cup {"tool"}
BlockSet == [kind : Kinds, text : Units, state : {"open", "closed"}]
FoldedSet == [kind : Kinds, text : Units]
OpenSet ==
  [kind : Texts, call : {Nil}, block : Nat] \cup [kind : {"tool"}, call : Calls, block : Nat]
    \cup {NoBlock}
EventSet ==
  [type : {"start", "error", "done"}]
    \cup [type : {"text"}, kind : Texts, text : Units]
    \cup [type : {"call"}, call : Calls]
    \cup [type : {"arguments"}, call : Calls, text : Units]
    \cup [type : {"finish"}, reason : Reasons]

EncoderTypeOK ==
  /\ state \in {"idle", "open", "closed"}
  /\ nextIndex \in Nat
  /\ open \in OpenSet
  /\ tools \in [Calls -> Nat \cup {Nil}]
  /\ stop \in Reasons
  /\ message = Message(message.status, message.blocks, message.reason)
  /\ message.status \in {"none", "open", "ended", "broken off", "failed"}
  /\ message.blocks \in Seq(BlockSet)

FoldTypeOK ==
  /\ blocks \in Seq(FoldedSet)
  /\ slots \in [Calls -> Nat \cup {Nil}]
  /\ accepting \in {"no", "yes"}
  /\ reason \in Reasons
  /\ folded \in {"running", "ok", "failed"}

DecoderTypeOK ==
  /\ started \in {"no", "yes"} /\ stopped \in {"no", "yes"}
  /\ calls \in [Indexes -> {"none", "pending", "started"}]
  /\ held \in [Indexes -> Units]
  /\ last \in Indexes \cup {None}
  /\ pending \in Int
  /\ events \in Seq(EventSet)

MeantTypeOK ==
  /\ input \in {"open", "ended"}
  /\ arrived \in Nat
  /\ convention \in Conventions
  /\ begun \in SUBSET Calls
  /\ given \in [Calls -> Units]

-----------------------------------------------------------------------------
(* The encoder: the client's message is as its state says.                 *)

IsOpen(n) == open # NoBlock /\ n = open.block + 1

EncoderInv ==
  /\ state = "idle" => message.status = "none" /\ message.blocks = <<>> /\ open = NoBlock
  /\ state = "open" => message.status = "open"
  /\ state = "closed" => message.status \in {"ended", "broken off", "failed"}
  /\ nextIndex = Len(message.blocks)
  /\ state # "closed" =>
       /\ \A n \in 1..Len(message.blocks) : message.blocks[n].state = "open" <=> IsOpen(n)
       /\ open # NoBlock =>
            /\ open.block + 1 = Len(message.blocks)
            /\ message.blocks[Len(message.blocks)].kind = open.kind
  /\ \A c \in Calls : tools[c] # Nil =>
       tools[c] + 1 \in 1..Len(message.blocks) /\ message.blocks[tools[c] + 1].kind = "tool"
  /\ \A c, d \in Calls : c # d /\ tools[c] # Nil => tools[c] # tools[d]

\* The document beside it holds the same blocks.
SameBlocks ==
  /\ Len(blocks) = Len(message.blocks)
  /\ \A n \in 1..Len(blocks) :
       blocks[n] = [kind |-> message.blocks[n].kind, text |-> message.blocks[n].text]

FoldInv ==
  /\ SameBlocks
  /\ \A c \in Calls : slots[c] = IF tools[c] = Nil THEN Nil ELSE tools[c] + 1
  /\ state # "closed" =>
       /\ folded = "running" /\ reason = stop
       /\ accepting = "yes" <=> open # NoBlock
  /\ message.status = "ended" => folded = "ok" /\ message.reason = reason
  /\ message.status = "broken off" => folded = "failed"
  /\ state = "closed" => folded # "running"

-----------------------------------------------------------------------------
(* The events on their way from the decoder to the encoder.                *)

Final == events[Len(events)]
Ending == events # <<>> /\ Final.type = "done"
Among(e, es) == \E n \in 1..Len(es) : es[n] = e
Failing == Among(ErrorEvent, events)

\* What ends a payload's events, and a call's name just before its arguments.
Orderly(es) ==
  \A n \in 1..Len(es) :
    /\ es[n].type \in {"text", "arguments", "finish", "done"} => n = Len(es)
    /\ es[n].type = "call" /\ n # Len(es) =>
         n + 1 = Len(es) /\ es[Len(es)].type = "arguments" /\ es[Len(es)].call = es[n].call

\* The last event of all closes the message.
ClosedAtLast ==
  input = "ended" /\ state # "closed" => events # <<>> /\ Final.type \in {"error", "done"}

-----------------------------------------------------------------------------
(* A call's arguments: those in its block, on their way, and held.         *)

Starting(c) == Among(CallEvent(c), events)
DueTo(c) == events # <<>> /\ Final.type = "arguments" /\ Final.call = c
Due(c) == IF DueTo(c) THEN Final.text ELSE <<>>
InBlock(c) == IF tools[c] = Nil THEN <<>> ELSE message.blocks[tools[c] + 1].text

Followed(c) ==
  /\ c \in begun <=> calls[c] # "none"
  /\ calls[c] = "started" <=> (tools[c] # Nil \/ Starting(c))
  /\ ~(tools[c] # Nil /\ Starting(c))
  /\ calls[c] # "pending" => held[c] = <<>>
  /\ DueTo(c) => calls[c] = "started"
  /\ given[c] = (InBlock(c) \o Due(c)) \o held[c]

Complete(c) == (c \in begun <=> tools[c] # Nil) /\ given[c] = InBlock(c)

InSequence ==
  \E n \in 0..(LastIndex + 1) : begun = 0..(n - 1) /\ last = IF n = 0 THEN None ELSE n - 1

CallsInv ==
  /\ state # "closed" /\ ~Failing /\ ~Ending =>
       /\ stopped = "no"
       /\ \A c \in Calls : Followed(c)
       /\ convention = "sequential" => InSequence
  /\ state # "closed" /\ ~Failing /\ Ending => Len(events) = 1 /\ \A c \in Calls : Complete(c)
  /\ message.status = "ended" => \A c \in Calls : Complete(c)

TypeInv == EncoderTypeOK /\ FoldTypeOK /\ DecoderTypeOK /\ MeantTypeOK

-----------------------------------------------------------------------------
(* Sequences of blocks.                                                    *)

LEMMA BlockIs ==
  ASSUME NEW b \in BlockSet
  PROVE  /\ b.kind \in Kinds /\ b.text \in Units /\ b.state \in {"open", "closed"}
         /\ b = Block(b.kind, b.text, b.state)
BY DEF Block, BlockSet

LEMMA BlockIn ==
  ASSUME NEW k \in Kinds, NEW x \in Units, NEW st \in {"open", "closed"}
  PROVE  /\ Block(k, x, st) \in BlockSet
         /\ Block(k, x, st).kind = k /\ Block(k, x, st).text = x /\ Block(k, x, st).state = st
BY DEF Block, BlockSet

LEMMA TextJoin ==
  ASSUME NEW x \in Units, NEW y \in Units
  PROVE  x \o y \in Units
BY DEF Units

LEMMA BlocksIn ==
  ASSUME NEW B \in Seq(BlockSet), NEW n \in 1..Len(B)
  PROVE  /\ B[n] \in BlockSet /\ B[n].kind \in Kinds /\ B[n].text \in Units
         /\ B[n].state \in {"open", "closed"}
         /\ B[n] = Block(B[n].kind, B[n].text, B[n].state)
<1>1. B[n] \in BlockSet
  BY ElementOfSeq
<1> QED
  BY <1>1, BlockIs

LEMMA ShutIs ==
  ASSUME NEW B \in Seq(BlockSet)
  PROVE  /\ Client!Shut(B) \in Seq(BlockSet)
         /\ Len(Client!Shut(B)) = Len(B)
         /\ \A n \in 1..Len(B) : Client!Shut(B)[n] = Block(B[n].kind, B[n].text, "closed")
<1>1. \A n \in 1..Len(B) : Block(B[n].kind, B[n].text, "closed") \in BlockSet
  BY BlocksIn, BlockIn
<1>2. Client!Shut(B) = [n \in 1..Len(B) |-> Block(B[n].kind, B[n].text, "closed")]
  BY DEF Client!Shut, Block
<1>3. Len(B) \in Nat
  BY LenProperties
<1> QED
  BY <1>1, <1>2, <1>3

LEMMA ClosedAlready ==
  ASSUME NEW B \in Seq(BlockSet), \A n \in 1..Len(B) : B[n].state = "closed"
  PROVE  Client!Shut(B) = B
<1>1. \A n \in 1..Len(B) : B[n] = Block(B[n].kind, B[n].text, "closed")
  BY BlocksIn
<1> QED
  BY <1>1, ShutIs, SeqEqual

LEMMA LastClosed ==
  ASSUME NEW B \in Seq(BlockSet), Len(B) > 0,
         \A n \in 1..Len(B) : n # Len(B) => B[n].state = "closed"
  PROVE  [B EXCEPT ![Len(B)] = Block(B[Len(B)].kind, B[Len(B)].text, "closed")] = Client!Shut(B)
<1> DEFINE b == Block(B[Len(B)].kind, B[Len(B)].text, "closed")
           C == [B EXCEPT ![Len(B)] = b]
<1>0. Len(B) \in 1..Len(B)
  OBVIOUS
<1>1. b \in BlockSet
  BY <1>0, BlocksIn, BlockIn
<1>2. /\ C \in Seq(BlockSet) /\ Len(C) = Len(B)
      /\ \A n \in 1..Len(B) : C[n] = IF n = Len(B) THEN b ELSE B[n]
  BY <1>0, <1>1, ExceptSeq
<1>3. \A n \in 1..Len(B) : n # Len(B) => B[n] = Block(B[n].kind, B[n].text, "closed")
  BY BlocksIn
<1>4. \A n \in 1..Len(B) : C[n] = Client!Shut(B)[n]
  BY <1>2, <1>3, ShutIs
<1> HIDE DEF C
<1>5. C = Client!Shut(B)
  BY <1>2, <1>4, ShutIs, SeqEqual
<1> QED
  BY <1>5 DEF C

LEMMA GrownIs ==
  ASSUME NEW B \in Seq(BlockSet), NEW b \in BlockSet
  PROVE  LET C == Append(Client!Shut(B), b)
         IN /\ C \in Seq(BlockSet) /\ Len(C) = Len(B) + 1 /\ Len(B) \in Nat
            /\ C[Len(B) + 1] = b
            /\ \A n \in 1..Len(B) : C[n] = Block(B[n].kind, B[n].text, "closed")
<1>1. Client!Shut(B) \in Seq(BlockSet) /\ Len(Client!Shut(B)) = Len(B) /\ Len(B) \in Nat
  BY ShutIs, LenProperties
<1>2. \A n \in 1..Len(B) : Client!Shut(B)[n] = Block(B[n].kind, B[n].text, "closed")
  BY ShutIs
<1> HIDE DEF BlockSet
<1> QED
  BY <1>1, <1>2, AppendProperties

LEMMA PutIs ==
  ASSUME NEW B \in Seq(BlockSet), NEW n \in 1..Len(B), NEW b \in BlockSet
  PROVE  LET C == [B EXCEPT ![n] = b]
         IN /\ C \in Seq(BlockSet) /\ Len(C) = Len(B) /\ Len(B) \in Nat
            /\ \A i \in 1..Len(B) : C[i] = IF i = n THEN b ELSE B[i]
BY ExceptSeq, LenProperties

-----------------------------------------------------------------------------
(* What each frame sequence does to the client's message.                  *)

LEMMA ClosedIs ==
  ASSUME EncoderTypeOK, EncoderInv, state = "open"
  PROVE  Closed(message) = Message("open", Client!Shut(message.blocks), message.reason)
<1> DEFINE B == message.blocks
<1>0. /\ B \in Seq(BlockSet) /\ Len(B) \in Nat /\ message.status = "open"
      /\ message = Message("open", B, message.reason)
  BY LenProperties DEF EncoderTypeOK, EncoderInv
<1>1. CASE open = NoBlock
  <2>1. \A n \in 1..Len(B) : B[n].state = "closed"
    BY <1>0, <1>1, BlocksIn DEF EncoderInv, IsOpen
  <2> QED
    BY <1>0, <1>1, <2>1, ClosedAlready DEF Closed
<1>2. CASE open # NoBlock
  <2>1. /\ open.block + 1 = Len(B) /\ Len(B) \in 1..Len(B)
        /\ \A n \in 1..Len(B) : B[n].state = "open" <=> n = Len(B)
    <3>1. open.block \in Nat
      BY <1>2 DEF EncoderTypeOK, OpenSet
    <3> QED
      BY <1>0, <1>2, <3>1 DEF EncoderInv, IsOpen
  <2>2. \A n \in 1..Len(B) : n # Len(B) => B[n].state = "closed"
    BY <1>0, <2>1, BlocksIn
  <2>3. [B EXCEPT ![Len(B)] = Block(B[Len(B)].kind, B[Len(B)].text, "closed")] = Client!Shut(B)
    BY <1>0, <2>1, <2>2, LastClosed
  <2>4. Len(B) \in DOMAIN B
    BY <1>0, <2>1, LenProperties
  <2>5. Closed(message) = BlockStop(message, open.block)
    BY <1>2 DEF Closed
  <2>6. BlockStop(message, open.block)
          = Message("open", [B EXCEPT ![Len(B)] = Block(B[Len(B)].kind, B[Len(B)].text, "closed")],
                    message.reason)
    BY <1>0, <2>1, <2>4 DEF BlockStop, Put
  <2> QED
    BY <2>3, <2>5, <2>6
<1> QED
  BY <1>1, <1>2

LEMMA OpenBlockIs ==
  ASSUME EncoderTypeOK, EncoderInv, state # "closed", NEW k \in Kinds
  PROVE  OpenBlock(k)
           = Message("open", Append(Client!Shut(message.blocks), Block(k, <<>>, "open")),
                     message.reason)
<1> DEFINE B == message.blocks
           m == Message("open", Client!Shut(B), message.reason)
<1>0. B \in Seq(BlockSet) /\ nextIndex = Len(B)
  BY DEF EncoderTypeOK, EncoderInv
<1>1. Closed(Started(message)) = m
  <2>1. CASE state = "open"
    BY <2>1, ClosedIs DEF Started
  <2>2. CASE state = "idle"
    <3>1. message.status = "none" /\ B = <<>> /\ open = NoBlock
      BY <2>2 DEF EncoderInv
    <3>2. Client!Shut(B) = B
      <4>1. Len(B) = 0
        BY <3>1, EmptySeq
      <4>2. \A n \in 1..Len(B) : B[n].state = "closed"
        BY <4>1
      <4> QED
        BY <1>0, <4>2, ClosedAlready
    <3> QED
      BY <2>2, <3>1, <3>2 DEF Started, MessageStart, Closed
  <2> QED
    BY <2>1, <2>2 DEF EncoderTypeOK
<1>2. m.status = "open" /\ m.blocks = Client!Shut(B) /\ m.reason = message.reason
  BY DEF Message
<1>3. AllClosed(m)
  <2>1. \A n \in 1..Len(B) : Client!Shut(B)[n].state = "closed"
    BY <1>0, ShutIs, BlocksIn, BlockIn
  <2>2. DOMAIN Client!Shut(B) = 1..Len(B)
    BY <1>0, ShutIs, LenProperties
  <2> QED
    BY <1>2, <2>1, <2>2 DEF AllClosed
<1>4. nextIndex = Len(m.blocks)
  BY <1>0, <1>2, ShutIs
<1> HIDE DEF m
<1> QED
  BY <1>1, <1>2, <1>3, <1>4 DEF OpenBlock, BlockStart

\* The last block, new or not, takes the text.
LEMMA DeltaIs ==
  ASSUME NEW B \in Seq(BlockSet), NEW n \in 1..Len(B), NEW x \in Units, NEW r
  PROVE  Delta(Message("open", B, r), n - 1, B[n].kind, x)
           = Put(Message("open", B, r), n, Block(B[n].kind, B[n].text \o x, B[n].state))
<1>1. /\ Message("open", B, r).status = "open" /\ Message("open", B, r).blocks = B
      /\ Message("open", B, r).reason = r
  BY DEF Message
<1>2. n \in DOMAIN B /\ (n - 1) + 1 = n
  BY LenProperties
<1> QED
  BY <1>1, <1>2 DEF Delta

LEMMA NewTextIs ==
  ASSUME NEW B \in Seq(BlockSet), NEW k \in Kinds, NEW x \in Units, NEW r
  PROVE  Delta(Message("open", Append(Client!Shut(B), Block(k, <<>>, "open")), r), Len(B), k, x)
           = Message("open", Append(Client!Shut(B), Block(k, x, "open")), r)
<1> DEFINE C == Append(Client!Shut(B), Block(k, <<>>, "open"))
           D == Append(Client!Shut(B), Block(k, x, "open"))
           E == [C EXCEPT ![Len(B) + 1] = Block(k, x, "open")]
<1>0. /\ Block(k, <<>>, "open") \in BlockSet /\ Block(k, <<>>, "open").kind = k
      /\ Block(k, <<>>, "open").text = <<>> /\ Block(k, <<>>, "open").state = "open"
      /\ Block(k, x, "open") \in BlockSet
  <2>1. <<>> \in Units
    BY EmptySeq DEF Units
  <2> QED
    BY <2>1, BlockIn
<1>1. /\ C \in Seq(BlockSet) /\ Len(C) = Len(B) + 1 /\ Len(B) \in Nat
      /\ C[Len(B) + 1] = Block(k, <<>>, "open")
      /\ \A n \in 1..Len(B) : C[n] = Block(B[n].kind, B[n].text, "closed")
  BY <1>0, GrownIs
<1>2. /\ D \in Seq(BlockSet) /\ Len(D) = Len(B) + 1
      /\ D[Len(B) + 1] = Block(k, x, "open")
      /\ \A n \in 1..Len(B) : D[n] = Block(B[n].kind, B[n].text, "closed")
  BY <1>0, GrownIs
<1> HIDE DEF C, D
<1>3. Len(B) + 1 \in 1..Len(C)
  BY <1>1
<1>4. /\ E \in Seq(BlockSet) /\ Len(E) = Len(C)
      /\ \A i \in 1..Len(C) : E[i] = IF i = Len(B) + 1 THEN Block(k, x, "open") ELSE C[i]
  BY <1>0, <1>1, <1>3, PutIs
<1>5. \A i \in 1..Len(C) : E[i] = D[i]
  BY <1>1, <1>2, <1>4
<1> HIDE DEF E
<1>6. E = D
  BY <1>1, <1>2, <1>4, <1>5, SeqEqual
<1>7. <<>> \o x = x
  BY ConcatEmptySeq DEF Units
<1>8. ASSUME NEW n \in 1..Len(C)
      PROVE  Delta(Message("open", C, r), n - 1, C[n].kind, x)
               = Put(Message("open", C, r), n, Block(C[n].kind, C[n].text \o x, C[n].state))
  BY <1>1, DeltaIs
<1>9. (Len(B) + 1) - 1 = Len(B)
  BY <1>1
<1>10. Delta(Message("open", C, r), Len(B), k, x)
         = Put(Message("open", C, r), Len(B) + 1, Block(k, x, "open"))
  BY <1>0, <1>1, <1>3, <1>7, <1>8, <1>9
<1>11. Put(Message("open", C, r), Len(B) + 1, Block(k, x, "open")) = Message("open", E, r)
  BY DEF Put, Message, E
<1> QED
  BY <1>6, <1>10, <1>11 DEF C, D

-----------------------------------------------------------------------------
(* The five ways an event changes the client's message.                    *)

Adds(k, x) ==
  message' = Message("open", Append(Client!Shut(message.blocks), Block(k, x, "open")),
                     message.reason)

Grows(n, x) ==
  /\ message.status = "open" /\ n \in 1..Len(message.blocks)
  /\ message' = Put(message, n, Block(message.blocks[n].kind, message.blocks[n].text \o x,
                                      message.blocks[n].state))

Shuts(status, r) ==
  message.status = "open" /\ message' = Message(status, Client!Shut(message.blocks), r)

Breaks ==
  /\ message.status \in {"none", "open"}
  /\ message' = Message(IF message.status = "none" THEN "failed" ELSE "broken off",
                        message.blocks, message.reason)

Opens ==
  /\ message.status = "none"
  /\ message' = Message("open", message.blocks, message.reason)

LEMMA AddsIs ==
  ASSUME EncoderTypeOK, NEW k \in Kinds, NEW x \in Units, Adds(k, x)
  PROVE  LET B == message.blocks
             C == message'.blocks
         IN /\ message'.status = "open" /\ message'.reason = message.reason
            /\ message' = Message("open", C, message.reason)
            /\ C \in Seq(BlockSet) /\ Len(C) = Len(B) + 1 /\ Len(B) \in Nat
            /\ C[Len(B) + 1].kind = k /\ C[Len(B) + 1].text = x /\ C[Len(B) + 1].state = "open"
            /\ \A n \in 1..Len(B) :
                 C[n].kind = B[n].kind /\ C[n].text = B[n].text /\ C[n].state = "closed"
<1> DEFINE B == message.blocks
           D == Append(Client!Shut(B), Block(k, x, "open"))
<1>0. B \in Seq(BlockSet)
  BY DEF EncoderTypeOK
<1>1. Block(k, x, "open") \in BlockSet
  BY BlockIn
<1>2. /\ D \in Seq(BlockSet) /\ Len(D) = Len(B) + 1 /\ Len(B) \in Nat
      /\ D[Len(B) + 1] = Block(k, x, "open")
      /\ \A n \in 1..Len(B) : D[n] = Block(B[n].kind, B[n].text, "closed")
  BY <1>0, <1>1, GrownIs
<1>3. /\ message' = Message("open", D, message.reason)
      /\ message'.blocks = D /\ message'.status = "open" /\ message'.reason = message.reason
  BY DEF Adds, Message
<1>4. \A n \in 1..Len(B) : /\ D[n].kind = B[n].kind /\ D[n].text = B[n].text
                           /\ D[n].state = "closed"
  BY <1>0, <1>2, BlocksIn, BlockIn
<1>5. D[Len(B) + 1].kind = k /\ D[Len(B) + 1].text = x /\ D[Len(B) + 1].state = "open"
  BY <1>2, BlockIn
<1> HIDE DEF D
<1> QED
  BY <1>2, <1>3, <1>4, <1>5

LEMMA GrowsIs ==
  ASSUME EncoderTypeOK, NEW n, NEW x \in Units, Grows(n, x)
  PROVE  LET B == message.blocks
             C == message'.blocks
         IN /\ message'.status = "open" /\ message'.reason = message.reason
            /\ message' = Message("open", C, message.reason)
            /\ C = [B EXCEPT ![n] = C[n]]
            /\ C \in Seq(BlockSet) /\ Len(C) = Len(B) /\ Len(B) \in Nat
            /\ C[n].text = B[n].text \o x
            /\ \A i \in 1..Len(B) : C[i].kind = B[i].kind /\ C[i].state = B[i].state
<1> DEFINE B == message.blocks
           b == Block(B[n].kind, B[n].text \o x, B[n].state)
           D == [B EXCEPT ![n] = b]
<1>0. B \in Seq(BlockSet) /\ n \in 1..Len(B)
  BY DEF EncoderTypeOK, Grows
<1>1. B[n].text \o x \in Units
  <2>1. B[n].text \in Units
    BY <1>0, BlocksIn
  <2> QED
    BY <2>1, TextJoin
<1>2. /\ b \in BlockSet /\ b.kind = B[n].kind /\ b.text = B[n].text \o x /\ b.state = B[n].state
  <2> DEFINE k == B[n].kind
             x2 == B[n].text \o x
             st == B[n].state
  <2>1. k \in Kinds /\ x2 \in Units /\ st \in {"open", "closed"}
    BY <1>0, <1>1, BlocksIn
  <2> HIDE DEF k, x2, st
  <2>2. /\ Block(k, x2, st) \in BlockSet /\ Block(k, x2, st).kind = k
        /\ Block(k, x2, st).text = x2 /\ Block(k, x2, st).state = st
    BY <2>1, BlockIn
  <2> QED
    BY <2>2 DEF k, x2, st
<1> HIDE DEF b
<1>3. /\ D \in Seq(BlockSet) /\ Len(D) = Len(B) /\ Len(B) \in Nat
      /\ \A i \in 1..Len(B) : D[i] = IF i = n THEN b ELSE B[i]
  BY <1>0, <1>2, PutIs
<1>4. D[n] = b
  BY <1>0, <1>3
<1>5. D = [B EXCEPT ![n] = D[n]]
  BY <1>4
<1>6. message' = Put(message, n, b)
  BY DEF Grows, b
<1>7. /\ message' = Message("open", D, message.reason)
      /\ message'.blocks = D /\ message'.status = "open" /\ message'.reason = message.reason
  BY <1>6 DEF Put, Message
<1>8. message'.blocks = [B EXCEPT ![n] = message'.blocks[n]]
  BY <1>5, <1>7
<1> HIDE DEF D
<1> QED
  BY <1>0, <1>2, <1>3, <1>4, <1>7, <1>8

LEMMA GrowsElsewhere ==
  ASSUME EncoderTypeOK, NEW n, NEW x \in Units, Grows(n, x),
         NEW i \in 1..Len(message.blocks), i # n
  PROVE  message'.blocks[i].text = message.blocks[i].text
<1> DEFINE B == message.blocks
           b == Block(B[n].kind, B[n].text \o x, B[n].state)
<1>1. message' = Put(message, n, b)
  BY DEF Grows
<1> HIDE DEF b
<1>2. message'.blocks = [B EXCEPT ![n] = b]
  BY <1>1 DEF Put, Message
<1>3. i \in DOMAIN B
  BY LenProperties DEF EncoderTypeOK
<1> QED
  BY <1>2, <1>3

LEMMA ShutsIs ==
  ASSUME EncoderTypeOK, NEW status, NEW r, Shuts(status, r)
  PROVE  LET B == message.blocks
             C == message'.blocks
         IN /\ message'.status = status /\ message'.reason = r
            /\ message' = Message(status, C, r)
            /\ C = Client!Shut(B)
            /\ C \in Seq(BlockSet) /\ Len(C) = Len(B) /\ Len(B) \in Nat
            /\ \A n \in 1..Len(B) :
                 C[n].kind = B[n].kind /\ C[n].text = B[n].text /\ C[n].state = "closed"
<1> DEFINE B == message.blocks
           D == Client!Shut(B)
<1>0. B \in Seq(BlockSet) /\ Len(B) \in Nat
  BY LenProperties DEF EncoderTypeOK
<1>1. D \in Seq(BlockSet) /\ Len(D) = Len(B)
  BY <1>0, ShutIs
<1>2. \A n \in 1..Len(B) : /\ D[n].kind = B[n].kind /\ D[n].text = B[n].text
                           /\ D[n].state = "closed"
  BY <1>0, ShutIs, BlocksIn, BlockIn
<1>3. /\ message' = Message(status, D, r)
      /\ message'.blocks = D /\ message'.status = status /\ message'.reason = r
  BY DEF Shuts, Message
<1> HIDE DEF D
<1> QED
  BY <1>0, <1>1, <1>2, <1>3 DEF D

LEMMA BreaksIs ==
  ASSUME Breaks
  PROVE  /\ message'.status = IF message.status = "none" THEN "failed" ELSE "broken off"
         /\ message'.blocks = message.blocks /\ message'.reason = message.reason
         /\ message' = Message(message'.status, message'.blocks, message'.reason)
BY DEF Breaks, Message

LEMMA OpensIs ==
  ASSUME Opens
  PROVE  /\ message'.status = "open"
         /\ message'.blocks = message.blocks /\ message'.reason = message.reason
         /\ message' = Message(message'.status, message'.blocks, message'.reason)
BY DEF Opens, Message

-----------------------------------------------------------------------------
(* Which event does which.                                                 *)

LEMMA TextIs ==
  ASSUME EncoderTypeOK, EncoderInv, NEW k \in Texts, NEW x \in Units, Text(k, x)
  PROVE  /\ state # "closed" /\ state' = "open" /\ UNCHANGED <<tools, stop>>
         /\ \/ /\ open.kind # k /\ Adds(k, x)
               /\ open' = [kind |-> k, call |-> Nil, block |-> Len(message.blocks)]
               /\ nextIndex' = nextIndex + 1
            \/ /\ open.kind = k /\ open # NoBlock /\ open.block + 1 = Len(message.blocks)
               /\ Grows(Len(message.blocks), x)
               /\ UNCHANGED <<open, nextIndex>>
<1> DEFINE B == message.blocks
<1>0. /\ state # "closed" /\ state' = "open" /\ UNCHANGED <<tools, stop>>
      /\ B \in Seq(BlockSet) /\ k \in Kinds /\ nextIndex = Len(B)
  BY DEF Text, EncoderTypeOK, EncoderInv, Kinds
<1>1. CASE open.kind # k
  <2>1. /\ message' = Delta(OpenBlock(k), nextIndex, k, x)
        /\ open' = [kind |-> k, call |-> Nil, block |-> nextIndex]
        /\ nextIndex' = nextIndex + 1
    BY <1>1 DEF Text, ContinuesText, OpenText
  <2>2. message' = Message("open", Append(Client!Shut(B), Block(k, x, "open")), message.reason)
    BY <1>0, <2>1, OpenBlockIs, NewTextIs
  <2> QED
    BY <1>0, <1>1, <2>1, <2>2 DEF Adds
<1>2. CASE open.kind = k
  <2>1. open # NoBlock
    BY <1>2 DEF NoBlock, Texts
  <2>2. state = "open"
    BY <1>0, <2>1 DEF EncoderTypeOK, EncoderInv
  <2>3. /\ open.block \in Nat /\ open.block + 1 = Len(B) /\ Len(B) \in 1..Len(B)
        /\ B[Len(B)].kind = k /\ message.status = "open"
    <3>1. open.block \in Nat
      BY <2>1 DEF EncoderTypeOK, OpenSet
    <3>2. open.block + 1 = Len(B) /\ B[Len(B)].kind = open.kind /\ message.status = "open"
      BY <2>1, <2>2 DEF EncoderInv
    <3> QED
      BY <1>2, <3>1, <3>2
  <2>4. message' = Delta(message, open.block, k, x) /\ UNCHANGED <<open, nextIndex>>
    BY <1>2 DEF Text, ContinuesText
  <2>5. message = Message("open", B, message.reason)
    BY <2>3 DEF EncoderTypeOK
  <2>6. open.block = Len(B) - 1
    BY <2>3
  <2>7. Delta(Message("open", B, message.reason), Len(B) - 1, B[Len(B)].kind, x)
          = Put(Message("open", B, message.reason), Len(B),
                Block(B[Len(B)].kind, B[Len(B)].text \o x, B[Len(B)].state))
    BY <1>0, <2>3, DeltaIs
  <2>8. message' = Put(message, Len(B), Block(B[Len(B)].kind, B[Len(B)].text \o x,
                                              B[Len(B)].state))
    BY <2>3, <2>4, <2>5, <2>6, <2>7
  <2> QED
    BY <1>0, <1>2, <2>1, <2>3, <2>4, <2>8 DEF Grows
<1> QED
  BY <1>1, <1>2

LEMMA CallIs ==
  ASSUME EncoderTypeOK, EncoderInv, NEW c \in Calls, CallStart(c)
  PROVE  /\ state # "closed" /\ state' = "open" /\ UNCHANGED stop
         /\ Adds("tool", <<>>)
         /\ open' = [kind |-> "tool", call |-> c, block |-> Len(message.blocks)]
         /\ tools' = [tools EXCEPT ![c] = Len(message.blocks)]
         /\ nextIndex' = nextIndex + 1
<1>1. nextIndex = Len(message.blocks) /\ "tool" \in Kinds
  BY DEF EncoderInv, Kinds
<1> QED
  BY <1>1, OpenBlockIs DEF CallStart, Adds

LEMMA ArgumentsIs ==
  ASSUME EncoderTypeOK, EncoderInv, NEW c \in Calls, NEW x \in Units, CallArguments(c, x)
  PROVE  /\ state # "closed" /\ UNCHANGED <<state, nextIndex, open, tools, stop>>
         /\ tools[c] = Nil => UNCHANGED message
         /\ tools[c] # Nil => tools[c] \in Nat /\ Grows(tools[c] + 1, x)
<1> DEFINE B == message.blocks
<1>0. /\ state # "closed" /\ UNCHANGED <<state, nextIndex, open, tools, stop>>
      /\ tools[c] = Nil => UNCHANGED message
      /\ tools[c] # Nil => message' = Delta(message, tools[c], "tool", x)
  BY DEF CallArguments, BlockOf
<1>1. CASE tools[c] # Nil
  <2>1. /\ tools[c] \in Nat /\ B \in Seq(BlockSet) /\ tools[c] + 1 \in 1..Len(B)
        /\ B[tools[c] + 1].kind = "tool"
    BY <1>1 DEF EncoderTypeOK, EncoderInv
  <2>2. state = "open"
    <3>1. state = "idle" => Len(B) = 0
      BY EmptySeq DEF EncoderInv
    <3>2. Len(B) # 0
      BY <2>1
    <3> QED
      BY <1>0, <3>1, <3>2 DEF EncoderTypeOK
  <2>3. message.status = "open" /\ message = Message("open", B, message.reason)
    BY <2>2 DEF EncoderTypeOK, EncoderInv
  <2>4. \A n \in 1..Len(B) :
          Delta(Message("open", B, message.reason), n - 1, B[n].kind, x)
            = Put(Message("open", B, message.reason), n,
                  Block(B[n].kind, B[n].text \o x, B[n].state))
    BY <2>1, DeltaIs
  <2>5. (tools[c] + 1) - 1 = tools[c]
    BY <2>1
  <2>6. message' = Put(message, tools[c] + 1,
                       Block(B[tools[c] + 1].kind, B[tools[c] + 1].text \o x,
                             B[tools[c] + 1].state))
    BY <1>0, <1>1, <2>1, <2>3, <2>4, <2>5
  <2> QED
    BY <1>0, <1>1, <2>1, <2>3, <2>6 DEF Grows
<1> QED
  BY <1>0, <1>1

LEMMA FinishIs ==
  ASSUME EncoderTypeOK, EncoderInv, NEW r \in Reasons, Finish(r)
  PROVE  /\ state # "closed" /\ UNCHANGED <<state, nextIndex, tools>>
         /\ open' = NoBlock /\ stop' = r
         /\ state = "idle" => UNCHANGED message
         /\ state = "open" => Shuts("open", message.reason)
<1>1. /\ state # "closed" /\ UNCHANGED <<state, nextIndex, tools>>
      /\ open' = NoBlock /\ stop' = r /\ message' = Closed(message)
  BY DEF Finish
<1>2. state = "idle" => message' = message
  BY <1>1 DEF EncoderInv, Closed
<1>3. state = "open" => Shuts("open", message.reason)
  BY <1>1, ClosedIs DEF Shuts, EncoderInv
<1> QED
  BY <1>1, <1>2, <1>3

LEMMA ErrorIs ==
  ASSUME EncoderTypeOK, EncoderInv, Error
  PROVE  /\ state # "closed" /\ state' = "closed"
         /\ UNCHANGED <<nextIndex, open, tools, stop>>
         /\ Breaks
<1>1. message.status \in {"none", "open"}
  BY DEF Error, EncoderTypeOK, EncoderInv
<1> QED
  BY <1>1 DEF Error, ErrorFrame, Breaks

LEMMA DoneIs ==
  ASSUME EncoderTypeOK, EncoderInv, Done
  PROVE  /\ state' = "closed" /\ UNCHANGED <<nextIndex, tools, stop>>
         /\ \/ state = "idle" /\ Breaks /\ message.status = "none" /\ UNCHANGED open
            \/ /\ state = "open" /\ open' = NoBlock
               /\ Shuts("ended", Resolved(stop, CalledTools))
<1>1. CASE state = "idle" /\ Error
  BY <1>1, ErrorIs DEF EncoderInv
<1>2. CASE /\ state = "open"
           /\ message' = MessageStop(MessageDelta(Closed(message), Resolved(stop, CalledTools)))
           /\ open' = NoBlock /\ state' = "closed" /\ UNCHANGED <<nextIndex, tools, stop>>
  <2> DEFINE B == message.blocks
             m == Message("open", Client!Shut(B), message.reason)
  <2>1. Closed(message) = m /\ message.status = "open" /\ B \in Seq(BlockSet)
    BY <1>2, ClosedIs DEF EncoderInv, EncoderTypeOK
  <2>2. m.status = "open" /\ m.blocks = Client!Shut(B)
    BY DEF Message
  <2>3. AllClosed(m)
    <3>1. \A n \in 1..Len(B) : Client!Shut(B)[n].state = "closed"
      BY <2>1, ShutIs, BlocksIn, BlockIn
    <3>2. DOMAIN Client!Shut(B) = 1..Len(B)
      BY <2>1, ShutIs, LenProperties
    <3> QED
      BY <2>2, <3>1, <3>2 DEF AllClosed
  <2> HIDE DEF m
  <2>4. MessageDelta(m, Resolved(stop, CalledTools))
          = Message("said", Client!Shut(B), Resolved(stop, CalledTools))
    BY <2>2, <2>3 DEF MessageDelta
  <2>5. MessageStop(Message("said", Client!Shut(B), Resolved(stop, CalledTools)))
          = Message("ended", Client!Shut(B), Resolved(stop, CalledTools))
    BY DEF MessageStop, Message
  <2> QED
    BY <1>2, <2>1, <2>4, <2>5 DEF Shuts
<1> QED
  BY <1>1, <1>2 DEF Done

LEMMA StartIs ==
  ASSUME EncoderTypeOK, EncoderInv, Start
  PROVE  /\ state # "closed" /\ state' = "open" /\ UNCHANGED <<nextIndex, open, tools, stop>>
         /\ state = "idle" => Opens
         /\ state = "open" => UNCHANGED message
<1>1. state = "idle" => message.status = "none" /\ message' = MessageStart(message)
  BY DEF Start, Started, EncoderInv
<1> QED
  BY <1>1 DEF Start, Started, MessageStart, Opens

-----------------------------------------------------------------------------
(* The encoder's invariant, way by way.                                    *)

LEMMA AfterAdd ==
  ASSUME EncoderTypeOK, EncoderInv, NEW k \in Kinds, NEW x \in Units, Adds(k, x),
         state # "closed", state' = "open", stop' \in Reasons, nextIndex' = nextIndex + 1,
         open' \in OpenSet, open' # NoBlock, open'.kind = k, open'.block = Len(message.blocks),
         \/ UNCHANGED tools
         \/ k = "tool" /\ \E c \in Calls : tools' = [tools EXCEPT ![c] = Len(message.blocks)]
  PROVE  EncoderTypeOK' /\ EncoderInv'
<1> DEFINE B == message.blocks
           C == message'.blocks
<1>1. /\ message'.status = "open" /\ message'.reason = message.reason
      /\ message' = Message("open", C, message.reason)
      /\ C \in Seq(BlockSet) /\ Len(C) = Len(B) + 1 /\ Len(B) \in Nat
      /\ C[Len(B) + 1].kind = k /\ C[Len(B) + 1].state = "open"
      /\ \A n \in 1..Len(B) : C[n].kind = B[n].kind /\ C[n].state = "closed"
  BY AddsIs
<1>2. \A c \in Calls : /\ tools'[c] \in Nat \cup {Nil}
                       /\ \/ tools'[c] = tools[c]
                          \/ k = "tool" /\ tools'[c] = Len(B)
  BY <1>1 DEF EncoderTypeOK
<1>3. tools' \in [Calls -> Nat \cup {Nil}]
  BY <1>1 DEF EncoderTypeOK
<1>4. EncoderTypeOK'
  <2>1. message' = Message(message'.status, message'.blocks, message'.reason)
    BY <1>1
  <2>2. nextIndex' \in Nat
    <3>1. nextIndex \in Nat
      BY DEF EncoderTypeOK
    <3> QED
      BY <3>1
  <2>3. message'.status \in {"none", "open", "ended", "broken off", "failed"}
    BY <1>1
  <2>4. message'.blocks \in Seq(BlockSet)
    BY <1>1
  <2>5. state' \in {"idle", "open", "closed"}
    OBVIOUS
  <2> QED
    BY <1>3, <2>1, <2>2, <2>3, <2>4, <2>5 DEF EncoderTypeOK
<1> HIDE DEF C
<1>5. nextIndex' = Len(C) /\ nextIndex = Len(B)
  BY <1>1 DEF EncoderInv
<1>6. \A n \in 1..Len(C) : C[n].state = "open" <=> n = Len(B) + 1
  BY <1>1
<1>7. ASSUME NEW c \in Calls, tools'[c] # Nil
      PROVE  tools'[c] + 1 \in 1..Len(C) /\ C[tools'[c] + 1].kind = "tool"
  <2>1. CASE tools'[c] = tools[c]
    <3>1. tools[c] + 1 \in 1..Len(B) /\ B[tools[c] + 1].kind = "tool"
      BY <1>7, <2>1 DEF EncoderInv
    <3> QED
      BY <1>1, <2>1, <3>1
  <2>2. CASE k = "tool" /\ tools'[c] = Len(B)
    BY <1>1, <2>2
  <2> QED
    BY <1>2, <2>1, <2>2
<1>8. ASSUME NEW c \in Calls, NEW d \in Calls, c # d, tools'[c] # Nil
      PROVE  tools'[c] # tools'[d]
  <2>1. \A e \in Calls : tools[e] # Nil => tools[e] # Len(B)
    <3>1. \A e \in Calls : tools[e] # Nil => tools[e] + 1 \in 1..Len(B)
      BY DEF EncoderInv
    <3>2. \A e \in Calls : tools[e] # Nil => tools[e] \in Nat
      BY DEF EncoderTypeOK
    <3> QED
      BY <1>1, <3>1, <3>2
  <2>2. tools[c] # Nil => tools[c] # tools[d]
    BY <1>8 DEF EncoderInv
  <2>3. Len(B) # Nil
    BY <1>1, EncoderAssumption
  <2>4. CASE UNCHANGED tools
    BY <1>8, <2>2, <2>4
  <2>5. CASE \E e \in Calls : tools' = [tools EXCEPT ![e] = Len(message.blocks)]
    <3>1. PICK e \in Calls : tools' = [tools EXCEPT ![e] = Len(B)]
      BY <2>5
    <3>2. \A f \in Calls : tools'[f] = IF f = e THEN Len(B) ELSE tools[f]
      BY <3>1 DEF EncoderTypeOK
    <3> QED
      BY <1>8, <2>1, <2>2, <2>3, <3>2
  <2> QED
    BY <2>4, <2>5
<1>9. C = message'.blocks
  BY DEF C
<1>10. nextIndex' = Len(C) /\ message'.status = "open" /\ open'.block + 1 = Len(C)
       /\ C[Len(C)].kind = open'.kind
  BY <1>1, <1>5
<1>11. \A n \in 1..Len(C) : C[n].state = "open" <=> IsOpen(n)'
  BY <1>1, <1>6 DEF IsOpen
<1> HIDE DEF B
<1> QED
  BY <1>4, <1>7, <1>8, <1>9, <1>10, <1>11 DEF EncoderInv

LEMMA AfterGrow ==
  ASSUME EncoderTypeOK, EncoderInv, NEW n, NEW x \in Units, Grows(n, x),
         state # "closed", state' = "open", UNCHANGED <<nextIndex, open, tools, stop>>
  PROVE  EncoderTypeOK' /\ EncoderInv'
<1> DEFINE B == message.blocks
           C == message'.blocks
<1>1. /\ message'.status = "open"
      /\ message' = Message("open", C, message'.reason)
      /\ C \in Seq(BlockSet) /\ Len(C) = Len(B) /\ Len(B) \in Nat
      /\ \A i \in 1..Len(B) : C[i].kind = B[i].kind /\ C[i].state = B[i].state
  BY GrowsIs
<1>2. EncoderTypeOK'
  BY <1>1 DEF EncoderTypeOK
<1>3. open # NoBlock => /\ open.block + 1 = Len(B) /\ C[Len(B)].kind = open.kind
  <2>1. ASSUME open # NoBlock PROVE Len(B) \in 1..Len(B)
    <3>1. open.block \in Nat /\ open.block + 1 = Len(B)
      BY <2>1 DEF EncoderTypeOK, EncoderInv, OpenSet
    <3> QED
      BY <3>1
  <2> QED
    BY <1>1, <2>1 DEF EncoderInv
<1>4. \A c \in Calls : tools[c] # Nil =>
         tools[c] + 1 \in 1..Len(B) /\ C[tools[c] + 1].kind = "tool"
  BY <1>1 DEF EncoderInv
<1>5. \A i \in 1..Len(B) : C[i].state = "open" <=> IsOpen(i)
  BY <1>1 DEF EncoderInv
<1> QED
  BY <1>1, <1>2, <1>3, <1>4, <1>5 DEF EncoderInv, IsOpen

LEMMA AfterShut ==
  ASSUME EncoderTypeOK, EncoderInv, NEW status, NEW r, Shuts(status, r),
         state = "open", open' = NoBlock, UNCHANGED <<nextIndex, tools>>, stop' \in Reasons,
         \/ status = "open" /\ state' = "open"
         \/ status = "ended" /\ state' = "closed"
  PROVE  EncoderTypeOK' /\ EncoderInv'
<1> DEFINE B == message.blocks
           C == message'.blocks
<1>1. /\ message'.status = status
      /\ message' = Message(status, C, message'.reason)
      /\ C \in Seq(BlockSet) /\ Len(C) = Len(B) /\ Len(B) \in Nat
      /\ \A n \in 1..Len(B) : C[n].kind = B[n].kind /\ C[n].state = "closed"
  BY ShutsIs
<1>2. EncoderTypeOK'
  BY <1>1 DEF EncoderTypeOK, OpenSet
<1>3. \A c \in Calls : tools[c] # Nil =>
         tools[c] + 1 \in 1..Len(B) /\ C[tools[c] + 1].kind = "tool"
  BY <1>1 DEF EncoderInv
<1> QED
  BY <1>1, <1>2, <1>3 DEF EncoderInv, IsOpen

LEMMA AfterBreak ==
  ASSUME EncoderTypeOK, EncoderInv, Breaks,
         state' = "closed", UNCHANGED <<nextIndex, tools, stop, open>>
  PROVE  EncoderTypeOK' /\ EncoderInv'
BY BreaksIs DEF EncoderTypeOK, EncoderInv

LEMMA AfterOpen ==
  ASSUME EncoderTypeOK, EncoderInv, Opens,
         state = "idle", state' = "open", UNCHANGED <<nextIndex, tools, stop, open>>
  PROVE  EncoderTypeOK' /\ EncoderInv'
BY OpensIs DEF EncoderTypeOK, EncoderInv, IsOpen

LEMMA EventIs ==
  ASSUME NEW e \in EventSet
  PROVE  /\ e.type \in {"start", "text", "call", "arguments", "finish", "error", "done"}
         /\ e.type = "text" => e.kind \in Texts /\ e.text \in Units
         /\ e.type = "call" => e.call \in Calls
         /\ e.type = "arguments" => e.call \in Calls /\ e.text \in Units
         /\ e.type = "finish" => e.reason \in Reasons
BY DEF EventSet

LEMMA EncoderStep ==
  ASSUME EncoderTypeOK, EncoderInv, NEW e \in EventSet, EncodeEvent(e)
  PROVE  EncoderTypeOK' /\ EncoderInv'
<1>0. /\ e.type = "text" => e.kind \in Texts /\ e.text \in Units
      /\ e.type = "call" => e.call \in Calls
      /\ e.type = "arguments" => e.call \in Calls /\ e.text \in Units
      /\ e.type = "finish" => e.reason \in Reasons
  BY EventIs
<1>1. Len(message.blocks) \in Nat /\ <<>> \in Units
  BY LenProperties, EmptySeq DEF EncoderTypeOK, Units
<1>2. CASE Silent
  BY <1>2 DEF Silent, encVars, EncoderTypeOK, EncoderInv, IsOpen
<1>3. CASE Start
  <2>1. CASE state = "idle"
    BY <1>3, <2>1, StartIs, AfterOpen
  <2>2. CASE state = "open"
    BY <1>3, <2>2, StartIs DEF EncoderTypeOK, EncoderInv, IsOpen
  <2> QED
    BY <1>3, <2>1, <2>2 DEF Start, EncoderTypeOK
<1>4. CASE e.type = "text" /\ Text(e.kind, e.text)
  <2> DEFINE k == e.kind
             x == e.text
  <2>0. k \in Texts /\ x \in Units /\ k \in Kinds
    BY <1>0, <1>4 DEF Kinds
  <2> HIDE DEF k, x
  <2>1. Text(k, x)
    BY <1>4 DEF k, x
  <2>2. CASE /\ open.kind # k /\ Adds(k, x)
             /\ open' = [kind |-> k, call |-> Nil, block |-> Len(message.blocks)]
             /\ nextIndex' = nextIndex + 1
    <3>1. state # "closed" /\ state' = "open" /\ UNCHANGED tools /\ stop' \in Reasons
      BY <2>0, <2>1, TextIs DEF EncoderTypeOK
    <3>2. /\ open' \in OpenSet /\ open' # NoBlock /\ open'.kind = k
          /\ open'.block = Len(message.blocks)
      BY <1>1, <2>0, <2>2 DEF OpenSet, NoBlock, Texts
    <3> QED
      BY <2>0, <2>2, <3>1, <3>2, AfterAdd
  <2>3. CASE Grows(Len(message.blocks), x) /\ UNCHANGED <<open, nextIndex>>
    <3>1. state # "closed" /\ state' = "open" /\ UNCHANGED <<tools, stop>>
      BY <2>0, <2>1, TextIs
    <3> QED
      BY <2>0, <2>3, <3>1, AfterGrow
  <2> QED
    BY <2>0, <2>1, <2>2, <2>3, TextIs
<1>5. CASE e.type = "call" /\ CallStart(e.call)
  <2> DEFINE c == e.call
  <2>0. c \in Calls /\ "tool" \in Kinds
    BY <1>0, <1>5 DEF Kinds
  <2>1. CallStart(c)
    BY <1>5
  <2> HIDE DEF c
  <2>2. /\ state # "closed" /\ state' = "open" /\ UNCHANGED stop /\ Adds("tool", <<>>)
        /\ open' = [kind |-> "tool", call |-> c, block |-> Len(message.blocks)]
        /\ tools' = [tools EXCEPT ![c] = Len(message.blocks)]
        /\ nextIndex' = nextIndex + 1
    BY <2>0, <2>1, CallIs
  <2>3. /\ open' \in OpenSet /\ open' # NoBlock /\ open'.kind = "tool"
        /\ open'.block = Len(message.blocks)
    BY <1>1, <2>0, <2>2 DEF OpenSet, NoBlock
  <2>4. stop' \in Reasons
    BY <2>2 DEF EncoderTypeOK
  <2>5. \E d \in Calls : tools' = [tools EXCEPT ![d] = Len(message.blocks)]
    BY <2>0, <2>2
  <2> QED
    BY <1>1, <2>0, <2>2, <2>3, <2>4, <2>5, AfterAdd
<1>6. CASE e.type = "arguments" /\ CallArguments(e.call, e.text)
  <2> DEFINE c == e.call
             x == e.text
  <2>0. c \in Calls /\ x \in Units
    BY <1>0, <1>6
  <2>1. CallArguments(c, x)
    BY <1>6
  <2> HIDE DEF c, x
  <2>2. /\ state # "closed" /\ UNCHANGED <<state, nextIndex, open, tools, stop>>
        /\ tools[c] = Nil => UNCHANGED message
        /\ tools[c] # Nil => tools[c] \in Nat /\ Grows(tools[c] + 1, x)
    BY <2>0, <2>1, ArgumentsIs
  <2>3. CASE tools[c] = Nil
    BY <2>2, <2>3 DEF EncoderTypeOK, EncoderInv, IsOpen
  <2>4. CASE tools[c] # Nil
    <3>1. state' = "open"
      <4>1. tools[c] + 1 \in 1..Len(message.blocks) /\ tools[c] \in Nat
        BY <2>0, <2>2, <2>4 DEF EncoderInv
      <4>2. message.blocks # <<>>
        BY <1>1, <4>1, EmptySeq
      <4> QED
        BY <2>2, <4>2 DEF EncoderTypeOK, EncoderInv
    <3> QED
      BY <2>0, <2>2, <2>4, <3>1, AfterGrow
  <2> QED
    BY <2>3, <2>4
<1>7. CASE e.type = "finish" /\ Finish(e.reason)
  <2>1. /\ state # "closed" /\ UNCHANGED <<state, nextIndex, tools>>
        /\ open' = NoBlock /\ stop' \in Reasons
        /\ state = "idle" => UNCHANGED message
        /\ state = "open" => Shuts("open", message.reason)
    BY <1>0, <1>7, FinishIs
  <2>2. CASE state = "idle"
    <3>1. open = NoBlock
      BY <2>2 DEF EncoderInv
    <3> QED
      BY <2>1, <2>2, <3>1 DEF EncoderTypeOK, EncoderInv, IsOpen
  <2>3. CASE state = "open"
    BY <2>1, <2>3, AfterShut
  <2> QED
    BY <2>1, <2>2, <2>3 DEF EncoderTypeOK
<1>8. CASE Error
  BY <1>8, ErrorIs, AfterBreak
<1>9. CASE Done
  <2>1. CASE state = "idle"
    BY <1>9, <2>1, DoneIs, AfterBreak
  <2>2. CASE state = "open"
    <3>1. stop' \in Reasons
      BY <1>9, DoneIs DEF EncoderTypeOK
    <3> QED
      BY <1>9, <2>2, <3>1, DoneIs, AfterShut
  <2> QED
    BY <1>9, <2>1, <2>2, DoneIs
<1> QED
  BY <1>2, <1>3, <1>4, <1>5, <1>6, <1>7, <1>8, <1>9 DEF EncodeEvent

-----------------------------------------------------------------------------
(* The document beside the message.                                        *)

Folded(k, x) == [kind |-> k, text |-> x]

LEMMA FoldedIs ==
  ASSUME FoldTypeOK, NEW n \in 1..Len(blocks)
  PROVE  blocks[n].kind \in Kinds /\ blocks[n].text \in Units
<1>1. blocks[n] \in FoldedSet
  BY ElementOfSeq DEF FoldTypeOK
<1> QED
  BY <1>1 DEF FoldedSet

LEMMA FoldAdd ==
  ASSUME EncoderTypeOK, FoldTypeOK, SameBlocks, NEW k \in Kinds, NEW x \in Units, Adds(k, x),
         blocks' = Append(blocks, Folded(k, x))
  PROVE  SameBlocks' /\ blocks' \in Seq(FoldedSet)
<1> DEFINE B == message.blocks
           C == message'.blocks
           f == Folded(k, x)
<1>1. /\ Len(C) = Len(B) + 1 /\ Len(B) \in Nat
      /\ C[Len(B) + 1].kind = k /\ C[Len(B) + 1].text = x
      /\ \A n \in 1..Len(B) : C[n].kind = B[n].kind /\ C[n].text = B[n].text
  BY AddsIs
<1>2. f \in FoldedSet /\ blocks \in Seq(FoldedSet)
  BY DEF Folded, FoldedSet, FoldTypeOK
<1>3. blocks' = Append(blocks, f)
  OBVIOUS
<1> HIDE DEF f, C
<1>4. /\ blocks' \in Seq(FoldedSet) /\ Len(blocks') = Len(blocks) + 1
      /\ \A i \in 1..Len(blocks) : blocks'[i] = blocks[i]
      /\ blocks'[Len(blocks) + 1] = f
  BY <1>2, <1>3, AppendProperties
<1>5. /\ Len(blocks) = Len(B)
      /\ \A n \in 1..Len(B) : blocks[n] = [kind |-> B[n].kind, text |-> B[n].text]
  BY DEF SameBlocks
<1>6. blocks'[Len(B) + 1] = [kind |-> C[Len(B) + 1].kind, text |-> C[Len(B) + 1].text]
  BY <1>1, <1>4, <1>5 DEF f, Folded
<1>7. \A n \in 1..Len(B) : blocks'[n] = [kind |-> C[n].kind, text |-> C[n].text]
  BY <1>1, <1>4, <1>5
<1>8. \A n \in 1..(Len(B) + 1) : blocks'[n] = [kind |-> C[n].kind, text |-> C[n].text]
  <2>1. \A n \in 1..(Len(B) + 1) : n = Len(B) + 1 \/ n \in 1..Len(B)
    BY <1>1
  <2> QED
    BY <1>6, <1>7, <2>1
<1> QED
  BY <1>1, <1>4, <1>5, <1>8 DEF SameBlocks, C

LEMMA FoldGrow ==
  ASSUME EncoderTypeOK, FoldTypeOK, SameBlocks, NEW n, NEW x \in Units, Grows(n, x),
         AppendTo(n, x)
  PROVE  SameBlocks' /\ blocks' \in Seq(FoldedSet)
<1> DEFINE B == message.blocks
           C == message'.blocks
           f == Folded(blocks[n].kind, blocks[n].text \o x)
<1>1. /\ Len(C) = Len(B) /\ Len(B) \in Nat /\ n \in 1..Len(B)
      /\ C[n].text = B[n].text \o x
      /\ \A i \in 1..Len(B) : /\ C[i].kind = B[i].kind
                              /\ i # n => C[i].text = B[i].text
  <2>1. n \in 1..Len(B)
    BY DEF Grows
  <2>2. C[n].text = B[n].text \o x
    BY GrowsIs
  <2>3. Len(C) = Len(B) /\ Len(B) \in Nat
    BY GrowsIs
  <2>4. \A i \in 1..Len(B) : C[i].kind = B[i].kind
    BY GrowsIs
  <2>5. ASSUME NEW i \in 1..Len(B), i # n
        PROVE  C[i].text = B[i].text
    BY <2>5, GrowsElsewhere
  <2> QED
    BY <2>1, <2>2, <2>3, <2>4, <2>5
<1>2. Len(blocks) = Len(B) /\ blocks \in Seq(FoldedSet)
  BY DEF SameBlocks, FoldTypeOK
<1>3. f \in FoldedSet
  <2>1. blocks[n].kind \in Kinds /\ blocks[n].text \in Units
    BY <1>1, <1>2, FoldedIs
  <2>2. blocks[n].text \o x \in Units
    BY <2>1, TextJoin
  <2> QED
    BY <2>1, <2>2 DEF Folded, FoldedSet
<1>4. blocks' = [blocks EXCEPT ![n] = f]
  BY DEF AppendTo, Folded
<1>5. f = Folded(B[n].kind, B[n].text \o x)
  <2>1. blocks[n] = [kind |-> B[n].kind, text |-> B[n].text]
    BY <1>1, <1>2 DEF SameBlocks
  <2>2. blocks[n].kind = B[n].kind /\ blocks[n].text = B[n].text
    BY <2>1
  <2> QED
    BY <2>2
<1> HIDE DEF f, C
<1>6. /\ blocks' \in Seq(FoldedSet) /\ Len(blocks') = Len(blocks)
      /\ \A i \in 1..Len(blocks) : blocks'[i] = IF i = n THEN f ELSE blocks[i]
  BY <1>1, <1>2, <1>3, <1>4, ExceptSeq
<1>7. \A i \in 1..Len(B) : blocks[i] = [kind |-> B[i].kind, text |-> B[i].text]
  BY <1>2 DEF SameBlocks
<1>8. blocks'[n] = [kind |-> C[n].kind, text |-> C[n].text]
  BY <1>1, <1>2, <1>5, <1>6 DEF Folded
<1>9. \A i \in 1..Len(B) : i # n => blocks'[i] = [kind |-> C[i].kind, text |-> C[i].text]
  BY <1>1, <1>2, <1>6, <1>7
<1> QED
  BY <1>1, <1>2, <1>6, <1>8, <1>9 DEF SameBlocks, C

\* The frames that add no text leave every block's kind and text.
LEMMA FoldKeep ==
  ASSUME EncoderTypeOK, SameBlocks, UNCHANGED blocks,
         Len(message'.blocks) = Len(message.blocks),
         \A n \in 1..Len(message.blocks) :
           /\ message'.blocks[n].kind = message.blocks[n].kind
           /\ message'.blocks[n].text = message.blocks[n].text
  PROVE  SameBlocks'
BY DEF SameBlocks

LEMMA FoldStep ==
  ASSUME EncoderTypeOK, EncoderInv, FoldTypeOK, FoldInv, NEW e \in EventSet,
         EncodeEvent(e), Fold(e)
  PROVE  FoldTypeOK' /\ FoldInv'
<1>0. /\ e.type = "text" => e.kind \in Texts /\ e.text \in Units
      /\ e.type = "call" => e.call \in Calls
      /\ e.type = "arguments" => e.call \in Calls /\ e.text \in Units
      /\ e.type = "finish" => e.reason \in Reasons
  BY EventIs
<1>1. /\ Len(message.blocks) \in Nat /\ <<>> \in Units /\ SameBlocks
      /\ Len(blocks) = Len(message.blocks)
  BY LenProperties, EmptySeq DEF EncoderTypeOK, Units, FoldInv, SameBlocks
<1>2. CASE state = "closed"
  <2>1. UNCHANGED <<encVars, foldVars>>
    BY <1>2 DEF EncodeEvent, Silent, Start, Text, CallStart, CallArguments, Finish, Error, Done,
                Fold, FoldInv
  <2>2. SameBlocks'
    BY <1>1, <2>1 DEF SameBlocks, encVars, foldVars
  <2> QED
    BY <2>1, <2>2 DEF encVars, foldVars, FoldTypeOK, FoldInv
<1>3. CASE state # "closed"
  <2>0. folded = "running" /\ reason = stop /\ (accepting = "yes" <=> open # NoBlock)
    BY <1>3 DEF FoldInv
  <2>1. CASE e.type = "start"
    <3>1. Start /\ UNCHANGED foldVars
      BY <1>3, <2>0, <2>1 DEF EncodeEvent, Silent, Fold
    <3>2. /\ state' = "open" /\ UNCHANGED <<open, tools, stop>> /\ message'.status = "open"
          /\ message'.blocks = message.blocks
      <4>1. state \in {"idle", "open"} /\ (state = "open" => message.status = "open")
        BY <1>3 DEF EncoderTypeOK, EncoderInv
      <4> QED
        BY <3>1, <4>1, StartIs, OpensIs
    <3>3. SameBlocks'
      BY <1>1, <3>1, <3>2, FoldKeep DEF foldVars
    <3> QED
      BY <1>3, <3>1, <3>2, <3>3 DEF foldVars, FoldTypeOK, FoldInv
  <2>2. CASE e.type = "text"
    <3> DEFINE k == e.kind
               x == e.text
    <3>0. k \in Texts /\ x \in Units /\ k \in Kinds
      BY <1>0, <2>2 DEF Kinds
    <3>1. Text(k, x) /\ FoldText(k, x)
      BY <1>3, <2>0, <2>2 DEF EncodeEvent, Silent, Fold
    <3> HIDE DEF k, x
    <3>2. /\ state' = "open" /\ UNCHANGED <<tools, stop>>
          /\ \/ /\ open.kind # k /\ Adds(k, x)
                /\ open' = [kind |-> k, call |-> Nil, block |-> Len(message.blocks)]
             \/ /\ open.kind = k /\ open # NoBlock /\ open.block + 1 = Len(message.blocks)
                /\ Grows(Len(message.blocks), x)
                /\ UNCHANGED open
      BY <3>0, <3>1, TextIs
    <3>3. /\ accepting' = "yes" /\ UNCHANGED <<slots, reason, folded>>
          /\ IF accepting = "yes" /\ blocks[Len(blocks)].kind = k
             THEN AppendTo(Len(blocks), x)
             ELSE blocks' = Append(blocks, Folded(k, x))
      BY <3>1 DEF FoldText, Folded
    <3>4. open # NoBlock => /\ Len(blocks) \in 1..Len(blocks)
                            /\ blocks[Len(blocks)].kind = open.kind
      <4>1. ASSUME open # NoBlock
            PROVE  /\ Len(blocks) \in 1..Len(blocks)
                   /\ message.blocks[Len(blocks)].kind = open.kind
        <5>1. open.block \in Nat
          BY <4>1 DEF EncoderTypeOK, OpenSet
        <5>2. /\ open.block + 1 = Len(message.blocks)
              /\ message.blocks[Len(message.blocks)].kind = open.kind
          BY <1>3, <4>1 DEF EncoderInv
        <5>3. Len(message.blocks) \in 1..Len(message.blocks)
          BY <5>1, <5>2
        <5> QED
          BY <1>1, <5>2, <5>3
      <4>2. ASSUME open # NoBlock
            PROVE  blocks[Len(blocks)] = [kind |-> message.blocks[Len(blocks)].kind,
                                          text |-> message.blocks[Len(blocks)].text]
        BY <4>1, <4>2, <1>1 DEF SameBlocks
      <4> QED
        BY <4>1, <4>2
    <3>5. SameBlocks' /\ blocks' \in Seq(FoldedSet) /\ message'.status = "open"
      <4>1. CASE open.kind # k
        <5>1. blocks' = Append(blocks, Folded(k, x)) /\ Adds(k, x)
          BY <2>0, <3>2, <3>3, <3>4, <4>1
        <5> QED
          BY <1>1, <3>0, <5>1, FoldAdd, AddsIs
      <4>2. CASE open.kind = k
        <5>1. AppendTo(Len(blocks), x) /\ Grows(Len(blocks), x)
          BY <1>1, <2>0, <3>2, <3>3, <3>4, <4>2
        <5> QED
          BY <1>1, <3>0, <5>1, FoldGrow, GrowsIs
      <4> QED
        BY <4>1, <4>2
    <3>6. open' # NoBlock
      BY <3>0, <3>2 DEF NoBlock, Texts
    <3> QED
      BY <2>0, <3>2, <3>3, <3>5, <3>6 DEF FoldTypeOK, FoldInv
  <2>3. CASE e.type = "call"
    <3> DEFINE c == e.call
    <3>0. c \in Calls /\ "tool" \in Kinds
      BY <1>0, <2>3 DEF Kinds
    <3>1. CallStart(c) /\ FoldCall(c)
      BY <1>3, <2>0, <2>3 DEF EncodeEvent, Silent, Fold
    <3> HIDE DEF c
    <3>2. /\ state' = "open" /\ UNCHANGED stop /\ Adds("tool", <<>>)
          /\ open' = [kind |-> "tool", call |-> c, block |-> Len(message.blocks)]
          /\ tools' = [tools EXCEPT ![c] = Len(message.blocks)]
      BY <3>0, <3>1, CallIs
    <3>3. /\ slots' = [slots EXCEPT ![c] = Len(blocks) + 1]
          /\ blocks' = Append(blocks, Folded("tool", <<>>))
          /\ accepting' = "yes" /\ UNCHANGED <<reason, folded>>
      BY <3>1 DEF FoldCall, Folded
    <3>4. SameBlocks' /\ blocks' \in Seq(FoldedSet) /\ message'.status = "open"
      BY <1>1, <3>0, <3>2, <3>3, FoldAdd, AddsIs
    <3>5. slots' \in [Calls -> Nat \cup {Nil}]
      <4>1. Len(blocks) + 1 \in Nat /\ slots \in [Calls -> Nat \cup {Nil}]
        BY <1>1 DEF FoldTypeOK
      <4> QED
        BY <3>3, <4>1
    <3>6. \A d \in Calls : slots'[d] = IF tools'[d] = Nil THEN Nil ELSE tools'[d] + 1
      <4>1. Len(blocks) # Nil
        BY <1>1, EncoderAssumption
      <4> QED
        BY <1>1, <3>2, <3>3, <4>1 DEF FoldTypeOK, EncoderTypeOK, FoldInv
    <3>7. open' # NoBlock
      BY <3>2 DEF NoBlock
    <3> QED
      BY <2>0, <3>2, <3>3, <3>4, <3>5, <3>6, <3>7 DEF FoldTypeOK, FoldInv
  <2>4. CASE e.type = "arguments"
    <3> DEFINE c == e.call
               x == e.text
    <3>0. c \in Calls /\ x \in Units
      BY <1>0, <2>4
    <3>1. CallArguments(c, x) /\ FoldArguments(c, x)
      BY <1>3, <2>0, <2>4 DEF EncodeEvent, Silent, Fold
    <3> HIDE DEF c, x
    <3>2. /\ UNCHANGED <<state, open, tools, stop>>
          /\ tools[c] = Nil => UNCHANGED message
          /\ tools[c] # Nil => tools[c] \in Nat /\ Grows(tools[c] + 1, x)
      BY <3>0, <3>1, ArgumentsIs
    <3>3. UNCHANGED <<slots, accepting, reason, folded>>
      BY <3>1 DEF FoldArguments
    <3>4. SameBlocks' /\ blocks' \in Seq(FoldedSet) /\ message'.status \notin {"ended", "broken off"}
      <4>1. CASE tools[c] = Nil
        <5>1. slots[c] = Nil
          BY <3>0, <4>1 DEF FoldInv
        <5>2. UNCHANGED <<message, blocks>>
          BY <3>1, <3>2, <4>1, <5>1 DEF FoldArguments
        <5> QED
          BY <1>1, <1>3, <5>2 DEF SameBlocks, FoldTypeOK, EncoderTypeOK, EncoderInv
      <4>2. CASE tools[c] # Nil
        <5>1. slots[c] = tools[c] + 1 /\ slots[c] # Nil
          <6>1. slots[c] = tools[c] + 1
            BY <3>0, <4>2 DEF FoldInv
          <6>2. tools[c] + 1 \in Nat
            BY <3>2, <4>2
          <6> QED
            BY <6>1, <6>2, EncoderAssumption
        <5>2. AppendTo(tools[c] + 1, x) /\ Grows(tools[c] + 1, x)
          BY <3>1, <3>2, <4>2, <5>1 DEF FoldArguments
        <5> QED
          BY <1>1, <3>0, <5>2, FoldGrow, GrowsIs
      <4> QED
        BY <4>1, <4>2
    <3> QED
      BY <2>0, <3>2, <3>3, <3>4 DEF FoldTypeOK, FoldInv
  <2>5. CASE e.type = "finish"
    <3> DEFINE r == e.reason
    <3>0. r \in Reasons
      BY <1>0, <2>5
    <3>1. Finish(r) /\ FoldFinish(r)
      BY <1>3, <2>0, <2>5 DEF EncodeEvent, Silent, Fold
    <3> HIDE DEF r
    <3>2. /\ UNCHANGED <<state, tools>> /\ open' = NoBlock /\ stop' = r
          /\ state = "idle" => UNCHANGED message
          /\ state = "open" => Shuts("open", message.reason)
      BY <3>0, <3>1, FinishIs
    <3>3. reason' = r /\ accepting' = "no" /\ UNCHANGED <<blocks, slots, folded>>
      BY <3>1 DEF FoldFinish
    <3>4. SameBlocks' /\ message'.status \in {"none", "open"}
      <4>1. CASE state = "idle"
        <5>1. message' = message /\ message.status = "none"
          BY <3>2, <4>1 DEF EncoderInv
        <5> QED
          BY <1>1, <3>3, <5>1 DEF SameBlocks
      <4>2. CASE state = "open"
        <5>1. Shuts("open", message.reason)
          BY <3>2, <4>2
        <5> QED
          BY <1>1, <3>3, <5>1, ShutsIs, FoldKeep
      <4> QED
        BY <1>3, <4>1, <4>2 DEF EncoderTypeOK
    <3> QED
      BY <2>0, <3>0, <3>2, <3>3, <3>4 DEF FoldTypeOK, FoldInv
  <2>6. CASE e.type = "error"
    <3>1. Error /\ FoldError
      BY <1>3, <2>0, <2>6 DEF EncodeEvent, Silent, Fold
    <3>2. /\ state' = "closed" /\ UNCHANGED <<open, tools, stop>> /\ Breaks
      BY <3>1, ErrorIs
    <3>3. folded' = "failed" /\ UNCHANGED <<blocks, slots, accepting, reason>>
      BY <3>1 DEF FoldError
    <3>4. SameBlocks' /\ message'.status # "ended"
      BY <1>1, <3>2, <3>3, BreaksIs DEF SameBlocks
    <3> QED
      BY <3>2, <3>3, <3>4 DEF FoldTypeOK, FoldInv
  <2>7. CASE e.type = "done"
    <3>1. Done /\ FoldDone
      BY <1>3, <2>0, <2>7 DEF EncodeEvent, Silent, Fold
    <3>2. /\ folded' = "ok" /\ UNCHANGED <<blocks, slots, accepting>>
          /\ reason' = Resolved(reason, \E c \in Calls : slots[c] # Nil)
      BY <3>1 DEF FoldDone
    <3>3. /\ state' = "closed" /\ UNCHANGED <<tools, stop>>
          /\ \/ Breaks /\ message.status = "none"
             \/ Shuts("ended", Resolved(stop, CalledTools))
      BY <3>1, DoneIs
    <3>4. (\E c \in Calls : slots[c] # Nil) <=> CalledTools
      <4>1. ASSUME NEW c \in Calls
            PROVE  slots[c] # Nil <=> tools[c] # Nil
        <5>1. slots[c] = IF tools[c] = Nil THEN Nil ELSE tools[c] + 1
          BY DEF FoldInv
        <5>2. tools[c] # Nil => tools[c] + 1 \in Nat
          <6>1. tools[c] \in Nat \cup {Nil}
            BY DEF EncoderTypeOK
          <6> QED
            BY <6>1
        <5> QED
          BY <5>1, <5>2, EncoderAssumption
      <4> QED
        BY <4>1 DEF CalledTools
    <3>5. reason' = Resolved(stop, CalledTools)
      BY <2>0, <3>2, <3>4 DEF Resolved
    <3>6. /\ SameBlocks' /\ message'.status # "broken off"
          /\ message'.status = "ended" => message'.reason = reason'
      <4>1. CASE Breaks /\ message.status = "none"
        BY <1>1, <3>2, <4>1, BreaksIs DEF SameBlocks
      <4>2. CASE Shuts("ended", Resolved(stop, CalledTools))
        <5>1. /\ message'.status = "ended" /\ message'.reason = Resolved(stop, CalledTools)
              /\ Len(message'.blocks) = Len(message.blocks)
              /\ \A n \in 1..Len(message.blocks) :
                   /\ message'.blocks[n].kind = message.blocks[n].kind
                   /\ message'.blocks[n].text = message.blocks[n].text
          BY <4>2, ShutsIs
        <5>2. SameBlocks'
          BY <1>1, <3>2, <5>1, FoldKeep
        <5> QED
          BY <3>5, <5>1, <5>2
      <4> QED
        BY <3>3, <4>1, <4>2
    <3>7. reason' \in Reasons
      BY <3>2 DEF FoldTypeOK, Resolved, Reasons
    <3> QED
      BY <3>2, <3>3, <3>6, <3>7 DEF FoldTypeOK, FoldInv
  <2> QED
    BY <2>1, <2>2, <2>3, <2>4, <2>5, <2>6, <2>7, EventIs
<1> QED
  BY <1>2, <1>3

-----------------------------------------------------------------------------
(* Types of the decoder.                                                   *)

LEMMA EventIn ==
  /\ StartEvent \in EventSet /\ ErrorEvent \in EventSet /\ DoneEvent \in EventSet
  /\ \A k \in Texts, x \in Units : TextEvent(k, x) \in EventSet
  /\ \A r \in Reasons : FinishEvent(r) \in EventSet
  /\ \A i \in Indexes : CallEvent(i) \in EventSet
  /\ \A i \in Indexes, x \in Units : ArgumentsEvent(i, x) \in EventSet
BY TranslationAssumption
   DEF EventSet, StartEvent, ErrorEvent, DoneEvent, TextEvent, FinishEvent, CallEvent,
       ArgumentsEvent

LEMMA OneEvent ==
  ASSUME NEW e \in EventSet
  PROVE  <<e>> \in Seq(EventSet) /\ Len(<<e>>) = 1 /\ <<e>>[1] = e
OBVIOUS

LEMMA OpeningIn == Opening \in Seq(EventSet)
BY EventIn, OneEvent, EmptySeq DEF Opening

LEMMA EmitIn ==
  ASSUME NEW es \in Seq(EventSet), Emit(es)
  PROVE  started' = "yes" /\ events' \in Seq(EventSet)
BY OpeningIn, ConcatProperties DEF Emit

LEMMA NamelessIn ==
  /\ Nameless \in Seq(EventSet)
  /\ \A n \in 1..Len(Nameless) : Nameless[n] = ErrorEvent
<1> DEFINE S == {i \in Indexes : IsPending(i)}
<1>1. Cardinality(S) \in Nat
  <2>1. IsFiniteSet(Indexes)
    BY FS_Interval, DecoderAssumption DEF Indexes
  <2> QED
    BY <2>1, FS_Subset, FS_CardinalityType
<1> DEFINE c == Cardinality(S)
<1>2. Nameless = [k \in 1..c |-> ErrorEvent]
  BY DEF Nameless
<1> HIDE DEF c
<1>3. c \in Nat
  BY <1>1 DEF c
<1> QED
  BY <1>2, <1>3, EventIn

LEMMA EndsIn ==
  ASSUME Ends
  PROVE  events' \in Seq(EventSet)
BY NamelessIn, EventIn, OneEvent, ConcatProperties DEF Ends

\* What a delta of a tool call can bring.
Delivered == {<<>>, <<Fresh>>}

LEMMA DeliveredIn ==
  ASSUME MeantTypeOK, NEW x \in Delivered
  PROVE  x \in Units /\ Len(x) \in {0, 1}
<1>1. Fresh \in Nat
  BY DEF Fresh, MeantTypeOK
<1> HIDE DEF Fresh
<1>2. <<Fresh>> \in Seq(Nat) /\ Len(<<Fresh>>) = 1
  BY <1>1
<1>3. <<>> \in Seq(Nat) /\ Len(<<>>) = 0
  BY EmptySeq
<1>4. x = <<>> \/ x = <<Fresh>>
  BY DEF Delivered
<1> QED
  BY <1>2, <1>3, <1>4 DEF Units

LEMMA StopFollowingStep ==
  ASSUME DecoderTypeOK, StopFollowing, last' \in Indexes \cup {None}
  PROVE  DecoderTypeOK'
<1>1. <<ErrorEvent>> \in Seq(EventSet) /\ Emit(<<ErrorEvent>>)
  BY EventIn, OneEvent DEF StopFollowing
<1>2. started' = "yes" /\ events' \in Seq(EventSet)
  BY <1>1, EmitIn
<1>3. <<>> \in Units
  BY EmptySeq DEF Units
<1> QED
  BY <1>2, <1>3 DEF DecoderTypeOK, StopFollowing

LEMMA CallDeltaStep ==
  ASSUME DecoderTypeOK, MeantTypeOK, NEW d, d.args \in Delivered, CallDelta(d)
  PROVE  DecoderTypeOK'
<1>0. /\ d.args \in Units /\ Len(d.args) \in Nat
      /\ <<>> \in Units /\ <<>> \in Seq(EventSet)
  BY DeliveredIn, EmptySeq DEF Units
<1>1. CASE stopped = "yes" /\ Emit(<<>>) /\ UNCHANGED <<calls, held, last, pending, stopped>>
  BY <1>0, <1>1, EmitIn DEF DecoderTypeOK
<1>2. CASE StopFollowing /\ UNCHANGED last
  <2>1. last' \in Indexes \cup {None}
    BY <1>2 DEF DecoderTypeOK
  <2> QED
    BY <1>2, <2>1, StopFollowingStep
<1>3. ASSUME NEW i \in Indexes, last' = i, StopFollowing
      PROVE  DecoderTypeOK'
  BY <1>3, StopFollowingStep
<1>4. ASSUME NEW i \in Indexes, last' = i,
             Emit(IF d.args = <<>> THEN <<>> ELSE <<ArgumentsEvent(i, d.args)>>),
             UNCHANGED <<calls, held, pending, stopped>>
      PROVE  DecoderTypeOK'
  <2>1. (IF d.args = <<>> THEN <<>> ELSE <<ArgumentsEvent(i, d.args)>>) \in Seq(EventSet)
    BY <1>0, EventIn, OneEvent
  <2>2. started' = "yes" /\ events' \in Seq(EventSet)
    BY <1>4, <2>1, EmitIn
  <2> QED
    BY <1>4, <2>2 DEF DecoderTypeOK
<1>5. ASSUME NEW i \in Indexes, last' = i, StartCall(i, d.args), UNCHANGED stopped
      PROVE  DecoderTypeOK'
  <2> DEFINE all == held[i] \o d.args
             es == IF all = <<>> THEN <<>> ELSE <<ArgumentsEvent(i, all)>>
  <2>1. all \in Units
    BY <1>0, TextJoin DEF DecoderTypeOK
  <2> HIDE DEF all
  <2>2. es \in Seq(EventSet)
    BY <1>0, <2>1, EventIn, OneEvent
  <2>3. <<CallEvent(i)>> \in Seq(EventSet)
    BY EventIn, OneEvent
  <2>4. /\ calls' = [calls EXCEPT ![i] = "started"] /\ held' = [held EXCEPT ![i] = <<>>]
        /\ pending' = pending + Len(d.args) - Len(all)
        /\ Emit(<<CallEvent(i)>> \o es)
    BY <1>5 DEF StartCall, all
  <2> HIDE DEF es
  <2>5. started' = "yes" /\ events' \in Seq(EventSet)
    BY <2>2, <2>3, <2>4, EmitIn, ConcatProperties
  <2>6. Len(all) \in Nat
    BY <2>1 DEF Units
  <2> QED
    BY <1>0, <1>5, <2>4, <2>5, <2>6 DEF DecoderTypeOK
<1>6. ASSUME NEW i \in Indexes, last' = i, HoldCall(i, d.args), UNCHANGED stopped
      PROVE  DecoderTypeOK'
  <2>1. held[i] \o d.args \in Units
    BY <1>0, TextJoin DEF DecoderTypeOK
  <2>2. started' = "yes" /\ events' \in Seq(EventSet)
    BY <1>0, <1>6, EmitIn DEF HoldCall
  <2> QED
    BY <1>0, <1>6, <2>1, <2>2 DEF DecoderTypeOK, HoldCall
<1> QED
  BY <1>1, <1>2, <1>3, <1>4, <1>5, <1>6 DEF CallDelta

LEMMA GivesStep ==
  ASSUME DecoderTypeOK, MeantTypeOK, Gives
  PROVE  DecoderTypeOK' /\ MeantTypeOK'
<1>0. <<Fresh>> \in Units /\ <<>> \in Seq(EventSet) /\ <<>> \in Units
  BY DeliveredIn, EmptySeq DEF Delivered, Units
<1> DEFINE x == <<Fresh>>
<1> HIDE DEF x
<1>1. ASSUME NEW k \in Texts, Content(k, <<Fresh>>)
      PROVE  DecoderTypeOK'
  <2>1. TextEvent(k, x) \in EventSet
    BY <1>0, EventIn DEF x
  <2>2. <<TextEvent(k, x)>> \in Seq(EventSet)
    BY <2>1, OneEvent
  <2>3. Emit(<<TextEvent(k, x)>>) /\ UNCHANGED <<calls, held, last, pending, stopped>>
    BY <1>1 DEF Content, x
  <2>4. started' = "yes" /\ events' \in Seq(EventSet)
    BY <2>2, <2>3, EmitIn
  <2> QED
    BY <2>3, <2>4 DEF DecoderTypeOK
<1>2. ASSUME NEW r \in Reasons, Finishing(r)
      PROVE  DecoderTypeOK'
  <2>1. <<FinishEvent(r)>> \in Seq(EventSet)
    BY EventIn, OneEvent
  <2>2. started' = "yes" /\ events' \in Seq(EventSet)
    BY <1>2, <2>1, EmitIn DEF Finishing
  <2> QED
    BY <1>2, <2>2 DEF Finishing, DecoderTypeOK
<1>3. ASSUME Other PROVE DecoderTypeOK'
  <2>1. started' = "yes" /\ events' \in Seq(EventSet)
    BY <1>0, <1>3, EmitIn DEF Other
  <2> QED
    BY <1>3, <2>1 DEF Other, DecoderTypeOK
<1>4. ASSUME Ends PROVE DecoderTypeOK'
  BY <1>0, <1>4, EndsIn DEF Ends, DecoderTypeOK
<1>5. ASSUME Fails PROVE DecoderTypeOK'
  BY <1>5, EventIn, OneEvent DEF Fails, decVars, DecoderTypeOK
<1>6. DecoderTypeOK'
  BY <1>1, <1>2, <1>3, <1>4, <1>5 DEF Gives
<1>7. MeantTypeOK'
  BY DEF Gives, Takes, meant, MeantTypeOK
<1> QED
  BY <1>6, <1>7

LEMMA GivesCallStep ==
  ASSUME DecoderTypeOK, MeantTypeOK, NEW d, d.args \in Delivered, GivesCall(d)
  PROVE  DecoderTypeOK' /\ MeantTypeOK'
<1>1. DecoderTypeOK'
  BY CallDeltaStep DEF GivesCall
<1>2. arrived' \in Nat /\ UNCHANGED <<input, convention>>
  BY DEF GivesCall, Takes, MeantTypeOK
<1>3. d.args \in Units
  BY DeliveredIn
<1>4. CASE UNCHANGED <<begun, given>>
  BY <1>1, <1>2, <1>4 DEF MeantTypeOK
<1>5. ASSUME NEW c \in Calls, begun' = begun \cup {c},
             given' = [given EXCEPT ![c] = @ \o d.args]
      PROVE  MeantTypeOK'
  <2>1. given[c] \o d.args \in Units
    BY <1>3, TextJoin DEF MeantTypeOK
  <2>2. given' \in [Calls -> Units] /\ begun' \in SUBSET Calls
    BY <1>5, <2>1 DEF MeantTypeOK
  <2> QED
    BY <1>2, <2>2 DEF MeantTypeOK
<1> QED
  BY <1>1, <1>4, <1>5 DEF GivesCall

LEMMA InputStep ==
  ASSUME DecoderTypeOK, MeantTypeOK, InputEnds \/ ConnectionLost
  PROVE  DecoderTypeOK' /\ MeantTypeOK'
<1>0. <<>> \in Units
  BY EmptySeq DEF Units
<1>1. CASE InputEnds
  BY <1>0, <1>1, EndsIn DEF InputEnds, Ends, DecoderTypeOK, MeantTypeOK, meant
<1>2. CASE ConnectionLost
  BY <1>2, EventIn, OneEvent
     DEF ConnectionLost, Fails, decVars, DecoderTypeOK, MeantTypeOK, meant
<1> QED
  BY <1>1, <1>2

LEMMA NextIs ==
  ASSUME Next
  PROVE  \/ Gives
         \/ InputEnds \/ ConnectionLost
         \/ Encode
         \/ \E i \in Indexes \cup {None}, id, name \in {"no", "yes"}, x \in Delivered :
              GivesCall([index |-> i, id |-> id, name |-> name, args |-> x])
BY DEF Next, Delivered

LEMMA EncodeIs ==
  ASSUME DecoderTypeOK, Encode
  PROVE  /\ Head(events) \in EventSet /\ events # <<>>
         /\ Head(events) = events[1] /\ Len(events) \in Nat \ {0}
         /\ events' = Tail(events) /\ events' \in Seq(EventSet)
         /\ Len(events') = Len(events) - 1
         /\ \A n \in 1..Len(events') : events'[n] = events[n + 1]
<1>1. events # <<>> /\ events \in Seq(EventSet) /\ events' = Tail(events)
  BY DEF Encode, DecoderTypeOK
<1>2. Len(events) \in Nat \ {0}
  BY <1>1, EmptySeq
<1> QED
  BY <1>1, <1>2, HeadTailProperties

MessageInv == TypeInv /\ EncoderInv /\ FoldInv

LEMMA MessageInit == Init => MessageInv
<1> SUFFICES ASSUME Init PROVE MessageInv
  OBVIOUS
<1>1. /\ <<>> \in Seq(BlockSet) /\ <<>> \in Seq(FoldedSet) /\ <<>> \in Seq(EventSet)
      /\ <<>> \in Units /\ Len(<<>>) = 0
  BY EmptySeq DEF Units
<1>2. /\ message.status = "none" /\ message.blocks = <<>>
      /\ message = Message(message.status, message.blocks, message.reason)
  BY DEF Init, EncoderInit, Message
<1>3. EncoderTypeOK
  BY <1>1, <1>2 DEF Init, EncoderInit, EncoderTypeOK, OpenSet, Reasons
<1>4. EncoderInv
  BY <1>1, <1>2 DEF Init, EncoderInit, EncoderInv
<1>5. FoldTypeOK
  BY <1>1 DEF Init, FoldTypeOK, Reasons
<1>6. FoldInv
  <2>1. SameBlocks
    BY <1>1, <1>2 DEF Init, SameBlocks
  <2>2. \A c \in Calls : slots[c] = Nil /\ tools[c] = Nil
    BY DEF Init, EncoderInit
  <2>3. /\ state = "idle" /\ folded = "running" /\ reason = stop
        /\ accepting = "no" /\ open = NoBlock
    BY DEF Init, EncoderInit
  <2> QED
    BY <1>2, <2>1, <2>2, <2>3 DEF FoldInv
<1>7. DecoderTypeOK
  BY <1>1 DEF Init, DecoderInit, DecoderTypeOK
<1>8. MeantTypeOK
  BY <1>1 DEF Init, MeantTypeOK
<1> QED
  BY <1>3, <1>4, <1>5, <1>6, <1>7, <1>8 DEF MessageInv, TypeInv

LEMMA MessageStep == MessageInv /\ [Next]_vars => MessageInv'
<1> SUFFICES ASSUME MessageInv, [Next]_vars PROVE MessageInv'
  OBVIOUS
<1>0. /\ EncoderTypeOK /\ FoldTypeOK /\ DecoderTypeOK /\ MeantTypeOK
      /\ EncoderInv /\ FoldInv
  BY DEF MessageInv, TypeInv
<1>1. ASSUME UNCHANGED <<encVars, foldVars>>
      PROVE  EncoderTypeOK' /\ FoldTypeOK' /\ EncoderInv' /\ FoldInv'
  BY <1>0, <1>1 DEF encVars, foldVars, EncoderTypeOK, FoldTypeOK, EncoderInv, FoldInv,
                    SameBlocks, IsOpen
<1>2. CASE Gives
  <2>1. UNCHANGED <<encVars, foldVars>>
    BY <1>2 DEF Gives, Takes
  <2> QED
    BY <1>0, <1>1, <1>2, <2>1, GivesStep DEF MessageInv, TypeInv
<1>3. CASE InputEnds \/ ConnectionLost
  <2>1. UNCHANGED <<encVars, foldVars>>
    BY <1>3 DEF InputEnds, ConnectionLost
  <2> QED
    BY <1>0, <1>1, <1>3, <2>1, InputStep DEF MessageInv, TypeInv
<1>4. ASSUME NEW i \in Indexes \cup {None}, NEW id \in {"no", "yes"},
             NEW name \in {"no", "yes"}, NEW x \in Delivered,
             GivesCall([index |-> i, id |-> id, name |-> name, args |-> x])
      PROVE  MessageInv'
  <2> DEFINE d == [index |-> i, id |-> id, name |-> name, args |-> x]
  <2>1. d.args \in Delivered /\ GivesCall(d)
    BY <1>4
  <2> HIDE DEF d
  <2>2. UNCHANGED <<encVars, foldVars>>
    BY <2>1 DEF GivesCall, Takes
  <2> QED
    BY <1>0, <1>1, <2>1, <2>2, GivesCallStep DEF MessageInv, TypeInv
<1>5. CASE Encode
  <2> DEFINE e == Head(events)
  <2>1. e \in EventSet /\ events' \in Seq(EventSet)
    BY <1>0, <1>5, EncodeIs
  <2>2. EncodeEvent(e) /\ Fold(e) /\ UNCHANGED <<decVars, input, arrived, meant>>
    BY <1>5 DEF Encode
  <2> HIDE DEF e
  <2>3. EncoderTypeOK' /\ EncoderInv'
    BY <1>0, <2>1, <2>2, EncoderStep
  <2>4. FoldTypeOK' /\ FoldInv'
    BY <1>0, <2>1, <2>2, FoldStep
  <2>5. DecoderTypeOK' /\ MeantTypeOK'
    BY <1>0, <2>1, <2>2 DEF decVars, meant, DecoderTypeOK, MeantTypeOK
  <2> QED
    BY <2>3, <2>4, <2>5 DEF MessageInv, TypeInv
<1>6. CASE UNCHANGED vars
  <2>1. UNCHANGED <<encVars, foldVars, decVars, events, input, arrived, meant>>
    BY <1>6 DEF vars
  <2>2. DecoderTypeOK' /\ MeantTypeOK'
    BY <1>0, <2>1 DEF decVars, meant, DecoderTypeOK, MeantTypeOK
  <2> QED
    BY <1>1, <2>1, <2>2 DEF MessageInv, TypeInv
<1> QED
  BY <1>2, <1>3, <1>4, <1>5, <1>6, NextIs

LEMMA MessageInvariant == Spec => []MessageInv
BY MessageInit, MessageStep, PTL DEF Spec

\* The document folded from the events is the message a client assembles from the frames:
\* Message::from_events and StreamEncoder close, open and fill the same blocks.
THEOREM DocumentCorrect == Spec => []SameDocument
<1>1. MessageInv => SameDocument
  <2> SUFFICES ASSUME MessageInv PROVE SameDocument
    OBVIOUS
  <2> DEFINE D == [n \in DOMAIN message.blocks |->
                     [kind |-> message.blocks[n].kind, text |-> message.blocks[n].text]]
  <2>1. /\ message.status = "ended" => folded = "ok" /\ message.reason = reason
        /\ message.status = "broken off" => folded = "failed"
        /\ SameBlocks
        /\ message.blocks \in Seq(BlockSet) /\ blocks \in Seq(FoldedSet)
    BY DEF MessageInv, TypeInv, EncoderTypeOK, FoldTypeOK, FoldInv
  <2>2. DOMAIN message.blocks = 1..Len(message.blocks) /\ DOMAIN blocks = 1..Len(blocks)
        /\ blocks = [n \in DOMAIN blocks |-> blocks[n]]
    BY <2>1, LenProperties
  <2>3. blocks = D
    BY <2>1, <2>2 DEF SameBlocks
  <2> QED
    BY <2>1, <2>3 DEF SameDocument
<1> QED
  BY <1>1, MessageInvariant, PTL

-----------------------------------------------------------------------------
(* What a client reads is a message.                                       *)

LEMMA PrefixOfJoin ==
  ASSUME NEW s \in Units, NEW x \in Units
  PROVE  Client!IsPrefix(s, s \o x)
<1> DEFINE t == s \o x
<1>1. t \in Seq(Nat) /\ Len(t) = Len(s) + Len(x) /\ Len(s) \in Nat /\ Len(x) \in Nat
  BY ConcatProperties, LenProperties DEF Units
<1>2. CASE Len(s) = 0
  <2>1. SubSeq(s, 1, Len(s)) = <<>> /\ SubSeq(t, 1, Len(s)) = <<>>
    BY <1>2, SubSeqEmpty
  <2> QED
    BY <1>1, <2>1 DEF Client!IsPrefix
<1>3. CASE Len(s) # 0
  <2>1. 1 \in 1..Len(s) /\ Len(s) \in 1..Len(s)
    BY <1>1, <1>3
  <2>2. SubSeq(t, 1, Len(s)) = SubSeq(s, 1, Len(s))
    BY <2>1, SubSeqOfConcat1 DEF Units
  <2> QED
    BY <1>1, <2>2 DEF Client!IsPrefix
<1> QED
  BY <1>2, <1>3

LEMMA FrontOfGrown ==
  ASSUME NEW B \in Seq(BlockSet), NEW b \in BlockSet
  PROVE  Client!Front(Append(Client!Shut(B), b)) = Client!Shut(B)
<1> DEFINE S == Client!Shut(B)
           C == Append(S, b)
           F == SubSeq(C, 1, Len(C) - 1)
<1>1. S \in Seq(BlockSet) /\ Len(S) \in Nat
  BY ShutIs, LenProperties
<1> HIDE DEF S
<1>2. /\ C \in Seq(BlockSet) /\ Len(C) = Len(S) + 1
      /\ \A i \in 1..Len(S) : C[i] = S[i]
  BY <1>1, AppendProperties
<1> HIDE DEF C
<1>3. \A i \in 1..(Len(C) - 1) : C[i] \in BlockSet
  BY <1>1, <1>2, ElementOfSeq
<1>4. /\ F \in Seq(BlockSet) /\ Len(F) = Len(S)
      /\ \A i \in 1..Len(S) : F[i] = C[i]
  BY <1>1, <1>2, <1>3, SubSeqProperties
<1> HIDE DEF F
<1>5. F = S
  BY <1>1, <1>2, <1>4, SeqEqual
<1> QED
  BY <1>5 DEF F, C, S, Client!Front

LEMMA AddsReads ==
  ASSUME EncoderTypeOK, EncoderInv, state # "closed", NEW k \in Kinds, NEW x \in Units,
         Adds(k, x)
  PROVE  Client!Add
<1> DEFINE B == message.blocks
           C == message'.blocks
<1>1. /\ message'.status = "open" /\ message'.reason = message.reason
      /\ C \in Seq(BlockSet) /\ Len(C) = Len(B) + 1 /\ Len(B) \in Nat
      /\ C[Len(B) + 1].state = "open"
  BY AddsIs
<1>2. C = Append(Client!Shut(B), Block(k, x, "open"))
  BY DEF Adds, Message
<1>3. Client!Front(C) = Client!Shut(B)
  <2> DEFINE b == Block(k, x, "open")
  <2>1. b \in BlockSet /\ B \in Seq(BlockSet)
    BY BlockIn DEF EncoderTypeOK
  <2> HIDE DEF b
  <2>2. Client!Front(Append(Client!Shut(B), b)) = Client!Shut(B)
    BY <2>1, FrontOfGrown
  <2> QED
    BY <1>2, <2>2 DEF b
<1>4. C # <<>>
  BY <1>1, EmptySeq
<1>5. C[Len(C)].state = "open"
  BY <1>1
<1>6. message.status \in {"none", "open"}
  BY DEF EncoderTypeOK, EncoderInv
<1> QED
  BY <1>1, <1>3, <1>4, <1>5, <1>6 DEF Client!Add, Client!Live

LEMMA GrowsReads ==
  ASSUME EncoderTypeOK, NEW n, NEW x \in Units, Grows(n, x),
         message.blocks[n].state = "open" \/ message.blocks[n].kind = "tool"
  PROVE  Client!Extend
<1> DEFINE B == message.blocks
           C == message'.blocks
<1>1. n \in 1..Len(B) /\ message.status = "open"
  BY DEF Grows
<1>2. /\ message' = Message("open", C, message.reason)
      /\ C = [B EXCEPT ![n] = C[n]]
  BY GrowsIs
<1>3. C[n].text = B[n].text \o x
  BY GrowsIs
<1>4. C[n].kind = B[n].kind /\ C[n].state = B[n].state
  BY <1>1, GrowsIs
<1>5. B[n].text \in Units /\ n \in DOMAIN B
  BY <1>1, BlocksIn, LenProperties DEF EncoderTypeOK
<1>6. Client!IsPrefix(B[n].text, C[n].text)
  BY <1>3, <1>5, PrefixOfJoin
<1>7. Client!Grows(B[n], C[n])
  BY <1>4, <1>6 DEF Client!Grows
<1>8. Client!Becomes("open", [B EXCEPT ![n] = C[n]], message.reason)
  BY <1>2 DEF Client!Becomes, Message
<1> QED
  BY <1>1, <1>5, <1>7, <1>8 DEF Client!Extend

ClientStep ==
  Client!Begin \/ Client!Add \/ Client!Extend \/ Client!Close \/ Client!End \/ Client!Break
    \/ UNCHANGED message

LEMMA BreaksReads == Breaks => Client!Break
BY DEF Breaks, Client!Break, Client!Live, Client!Becomes, Message

LEMMA EventReads ==
  ASSUME EncoderTypeOK, EncoderInv, NEW e \in EventSet, EncodeEvent(e)
  PROVE  ClientStep
<1>0. /\ e.type = "text" => e.kind \in Texts /\ e.text \in Units
      /\ e.type = "call" => e.call \in Calls
      /\ e.type = "arguments" => e.call \in Calls /\ e.text \in Units
      /\ e.type = "finish" => e.reason \in Reasons
  BY EventIs
<1>2. CASE Silent
  BY <1>2 DEF Silent, encVars, ClientStep
<1>3. CASE Start
  <2>1. UNCHANGED message \/ Opens
    BY <1>3, StartIs DEF EncoderTypeOK
  <2> QED
    BY <2>1 DEF Opens, Message, Client!Begin, Client!Becomes, ClientStep
<1>4. CASE e.type = "text" /\ Text(e.kind, e.text)
  <2> DEFINE k == e.kind
             x == e.text
  <2>0. k \in Texts /\ x \in Units /\ k \in Kinds
    BY <1>0, <1>4 DEF Kinds
  <2> HIDE DEF k, x
  <2>1. Text(k, x)
    BY <1>4 DEF k, x
  <2>2. CASE Adds(k, x)
    BY <2>0, <2>1, <2>2, TextIs, AddsReads DEF ClientStep
  <2>3. CASE /\ open # NoBlock /\ open.block + 1 = Len(message.blocks)
             /\ Grows(Len(message.blocks), x)
    <3>1. Len(message.blocks) \in 1..Len(message.blocks)
      BY <2>3 DEF Grows
    <3>2. message.blocks[Len(message.blocks)].state = "open"
      BY <2>0, <2>1, <2>3, <3>1, TextIs DEF EncoderInv, IsOpen
    <3> QED
      BY <2>0, <2>3, <3>2, GrowsReads DEF ClientStep
  <2> QED
    BY <2>0, <2>1, <2>2, <2>3, TextIs
<1>5. CASE e.type = "call" /\ CallStart(e.call)
  <2>1. "tool" \in Kinds /\ <<>> \in Units
    BY EmptySeq DEF Kinds, Units
  <2>2. state # "closed" /\ Adds("tool", <<>>)
    BY <1>0, <1>5, CallIs
  <2> QED
    BY <2>1, <2>2, AddsReads DEF ClientStep
<1>6. CASE e.type = "arguments" /\ CallArguments(e.call, e.text)
  <2> DEFINE c == e.call
             x == e.text
  <2>0. c \in Calls /\ x \in Units
    BY <1>0, <1>6
  <2>1. CallArguments(c, x)
    BY <1>6
  <2> HIDE DEF c, x
  <2>2. /\ tools[c] = Nil => UNCHANGED message
        /\ tools[c] # Nil => Grows(tools[c] + 1, x)
    BY <2>0, <2>1, ArgumentsIs
  <2>3. tools[c] # Nil => message.blocks[tools[c] + 1].kind = "tool"
    BY <2>0 DEF EncoderInv
  <2> QED
    BY <2>0, <2>2, <2>3, GrowsReads DEF ClientStep
<1>7. CASE e.type = "finish" /\ Finish(e.reason)
  <2>1. UNCHANGED message \/ Shuts("open", message.reason)
    BY <1>0, <1>7, FinishIs DEF EncoderTypeOK
  <2> QED
    BY <2>1 DEF Shuts, Message, Client!Close, Client!Becomes, ClientStep
<1>8. CASE Error
  BY <1>8, ErrorIs, BreaksReads DEF ClientStep
<1>9. CASE Done
  <2>1. Breaks \/ Shuts("ended", Resolved(stop, CalledTools))
    BY <1>9, DoneIs
  <2>2. ASSUME Shuts("ended", Resolved(stop, CalledTools)) PROVE Client!End
    <3>1. message'.reason = Resolved(stop, CalledTools)
      BY <2>2, ShutsIs
    <3> QED
      BY <2>2, <3>1 DEF Shuts, Message, Client!End, Client!Becomes
  <2> QED
    BY <2>1, <2>2, BreaksReads DEF ClientStep
<1> QED
  BY <1>2, <1>3, <1>4, <1>5, <1>6, <1>7, <1>8, <1>9 DEF EncodeEvent

\* What closes the message comes last, and nothing follows the end of the input.
ReadInv == MessageInv /\ ClosedAtLast

LEMMA LastCloses ==
  ASSUME MessageInv, ClosedAtLast, [Next]_vars, MessageInv'
  PROVE  ClosedAtLast'
<1>0. DecoderTypeOK /\ DecoderTypeOK' /\ MeantTypeOK
  BY DEF MessageInv, TypeInv
<1>1. CASE Gives \/ \E d : GivesCall(d)
  BY <1>1 DEF Gives, GivesCall, Takes, ClosedAtLast
<1>2. CASE InputEnds
  <2>1. /\ Nameless \in Seq(EventSet) /\ <<DoneEvent>> \in Seq(EventSet)
        /\ Len(<<DoneEvent>>) = 1 /\ <<DoneEvent>>[1] = DoneEvent
    BY NamelessIn, EventIn, OneEvent
  <2>2. events' = Nameless \o <<DoneEvent>>
    BY <1>2 DEF InputEnds, Ends
  <2>3. /\ Len(events') = Len(Nameless) + 1 /\ Len(Nameless) \in Nat
        /\ events'[Len(Nameless) + 1] = DoneEvent
    BY <2>1, <2>2, ConcatProperties, LenProperties
  <2>4. events' # <<>>
    BY <2>3, EmptySeq
  <2> QED
    BY <2>3, <2>4 DEF ClosedAtLast, Final, DoneEvent
<1>3. CASE ConnectionLost
  <2>1. events' = <<ErrorEvent>>
    BY <1>3 DEF ConnectionLost, Fails
  <2>2. Len(events') = 1 /\ events'[1] = ErrorEvent
    BY <2>1, EventIn, OneEvent
  <2>3. events' # <<>>
    BY <2>2, EmptySeq
  <2> QED
    BY <2>2, <2>3 DEF ClosedAtLast, Final, ErrorEvent
<1>4. CASE Encode
  <2> SUFFICES ASSUME input' = "ended", state' # "closed"
               PROVE  events' # <<>> /\ Final'.type \in {"error", "done"}
    BY DEF ClosedAtLast
  <2>1. /\ Head(events) = events[1] /\ Len(events) \in Nat \ {0} /\ events # <<>>
        /\ Len(events') = Len(events) - 1
        /\ \A n \in 1..Len(events') : events'[n] = events[n + 1]
    BY <1>0, <1>4, EncodeIs
  <2>2. /\ EncodeEvent(Head(events)) /\ input = "ended"
    BY <1>4 DEF Encode
  <2>3. state # "closed"
    BY <2>2 DEF EncodeEvent, Silent, encVars, Start, Text, CallStart, CallArguments, Finish,
                Error, Done
  <2>4. Final.type \in {"error", "done"}
    BY <2>2, <2>3 DEF ClosedAtLast
  <2>5. Len(events) # 1
    <3>1. ASSUME Len(events) = 1 PROVE FALSE
      <4>1. Head(events).type \in {"error", "done"}
        BY <2>1, <2>4, <3>1 DEF Final
      <4>2. Error \/ Done
        BY <2>2, <2>3, <4>1 DEF EncodeEvent, Silent
      <4> QED
        BY <4>2 DEF Error, Done
    <3> QED
      BY <3>1
  <2>6. Len(events') \in 1..Len(events') /\ Len(events') + 1 = Len(events)
    BY <2>1, <2>5
  <2>7. Final' = Final
    BY <2>1, <2>6 DEF Final
  <2>8. events' # <<>>
    BY <2>6, EmptySeq
  <2> QED
    BY <2>4, <2>7, <2>8
<1>5. CASE UNCHANGED vars
  BY <1>5 DEF vars, encVars, ClosedAtLast, Final
<1> QED
  BY <1>1, <1>2, <1>3, <1>4, <1>5, NextIs

LEMMA ReadInvariant == Spec => []ReadInv
<1>1. Init => ReadInv
  BY MessageInit DEF Init, ReadInv, ClosedAtLast
<1>2. ReadInv /\ [Next]_vars => ReadInv'
  BY MessageStep, LastCloses DEF ReadInv
<1> QED
  BY <1>1, <1>2, PTL DEF Spec

LEMMA ReadStep ==
  ASSUME ReadInv, ReadInv', [Next]_vars
  PROVE  Client!Next
<1>1. ClientStep
  <2>1. CASE Encode
    <3>1. Head(events) \in EventSet /\ EncodeEvent(Head(events))
      BY <2>1, EncodeIs DEF Encode, ReadInv, MessageInv, TypeInv
    <3> QED
      BY <3>1, EventReads DEF ReadInv, MessageInv, TypeInv
  <2>2. CASE ~Encode
    <3>1. UNCHANGED message
      BY <2>2 DEF Next, Gives, GivesCall, Takes, InputEnds, ConnectionLost, vars, encVars
    <3> QED
      BY <3>1 DEF ClientStep
  <2> QED
    BY <2>1, <2>2
<1>2. (input = "ended" /\ events = <<>>)' => message'.status \in {"ended", "broken off", "failed"}
  BY DEF ReadInv, ClosedAtLast, MessageInv, EncoderInv
<1> QED
  BY <1>1, <1>2 DEF Client!Next, ClientStep

\* Whatever the backend sends, the frames are a message to a client that reads them: the
\* encoder and the decoder before it (src/anthropic/stream.rs, src/openai/chunk.rs)
\* implement MessageStream.
THEOREM ReadCorrect == Spec => ReadAsMessage
<1>1. Init => Client!Init
  BY DEF Init, EncoderInit, Message, Client!Init
<1>2. ReadInv /\ ReadInv' /\ [Next]_vars => [Client!Next]_(Client!stream)
  BY ReadStep
<1> QED
  BY <1>1, <1>2, ReadInvariant, PTL DEF Spec, ReadAsMessage, Client!Spec

-----------------------------------------------------------------------------
(* What the decoder holds is bounded.                                      *)

UnitsOf(h) == UNION {{i} \X (1..Len(h[i])) : i \in Indexes}

LEMMA UnitsAre ==
  ASSUME NEW h, NEW u
  PROVE  u \in UnitsOf(h) <=> \E i \in Indexes : \E n \in 1..Len(h[i]) : u = <<i, n>>
<1>1. u \in UnitsOf(h) <=> \E i \in Indexes : u \in {i} \X (1..Len(h[i]))
  BY Zenon DEF UnitsOf
<1>2. ASSUME NEW i
      PROVE  u \in {i} \X (1..Len(h[i])) <=> \E n \in 1..Len(h[i]) : u = <<i, n>>
  OBVIOUS
<1> QED
  BY <1>1, <1>2, Zenon

LEMMA NoUnits ==
  ASSUME NEW h, \A i \in Indexes : h[i] = <<>>
  PROVE  UnitsOf(h) = {} /\ IsFiniteSet(UnitsOf(h)) /\ Cardinality(UnitsOf(h)) = 0
<1>1. \A i \in Indexes : Len(h[i]) = 0
  BY EmptySeq
<1>2. \A i \in Indexes : 1..Len(h[i]) = {}
  BY <1>1
<1>3. UnitsOf(h) = {}
  BY <1>2, UnitsAre
<1> QED
  BY <1>3, FS_EmptySet

LEMMA UnitsFreed ==
  ASSUME NEW h \in [Indexes -> Units], NEW i \in Indexes, IsFiniteSet(UnitsOf(h)),
         NEW g, \A j \in Indexes : g[j] = IF j = i THEN <<>> ELSE h[j]
  PROVE  /\ IsFiniteSet(UnitsOf(g))
         /\ Cardinality(UnitsOf(g)) = Cardinality(UnitsOf(h)) - Len(h[i])
<1> DEFINE T == {i} \X (1..Len(h[i]))
<1>0. Len(h[i]) \in Nat
  BY LenProperties DEF Units
<1>1. T \subseteq UnitsOf(h)
  BY UnitsAre
<1>2. UnitsOf(g) = UnitsOf(h) \ T
  <2>1. 1..Len(g[i]) = {}
    <3>1. g[i] = <<>>
      OBVIOUS
    <3>2. Len(g[i]) = 0
      BY <3>1, EmptySeq
    <3> QED
      BY <3>2
  <2>2. ASSUME NEW u \in UnitsOf(g) PROVE u \in UnitsOf(h) /\ u \notin T
    <3>0. PICK j \in Indexes : \E n \in 1..Len(g[j]) : u = <<j, n>>
      BY <2>2, UnitsAre
    <3>1. PICK n \in 1..Len(g[j]) : u = <<j, n>>
      BY <3>0
    <3>2. j # i /\ g[j] = h[j]
      BY <2>1
    <3>3. n \in 1..Len(h[j])
      BY <3>2
    <3> QED
      BY <3>1, <3>2, <3>3, UnitsAre
  <2>3. ASSUME NEW u \in UnitsOf(h), u \notin T PROVE u \in UnitsOf(g)
    <3>0. PICK j \in Indexes : \E n \in 1..Len(h[j]) : u = <<j, n>>
      BY <2>3, UnitsAre
    <3>1. PICK n \in 1..Len(h[j]) : u = <<j, n>>
      BY <3>0
    <3>2. j # i
      BY <2>3, <3>1
    <3>3. g[j] = h[j]
      BY <3>2
    <3>4. n \in 1..Len(g[j])
      BY <3>3
    <3> QED
      BY <3>1, <3>4, UnitsAre
  <2> QED
    BY <2>2, <2>3
<1>3. IsFiniteSet(T) /\ Cardinality(T) = Len(h[i])
  <2>1. IsFiniteSet({i}) /\ Cardinality({i}) = 1
    BY FS_Singleton
  <2>2. IsFiniteSet(1..Len(h[i])) /\ Cardinality(1..Len(h[i])) = Len(h[i])
    <3>1. /\ IsFiniteSet(1..Len(h[i]))
          /\ Cardinality(1..Len(h[i])) = IF 1 > Len(h[i]) THEN 0 ELSE Len(h[i]) - 1 + 1
      BY <1>0, FS_Interval
    <3> QED
      BY <1>0, <3>1
  <2>3. IsFiniteSet(T) /\ Cardinality(T) = Cardinality({i}) * Cardinality(1..Len(h[i]))
    BY <2>1, <2>2, FS_Product
  <2> QED
    BY <1>0, <2>1, <2>2, <2>3
<1> HIDE DEF T
<1>4. UnitsOf(h) \cap T = T
  BY <1>1
<1>5. /\ IsFiniteSet(UnitsOf(h) \ T)
      /\ Cardinality(UnitsOf(h) \ T) = Cardinality(UnitsOf(h)) - Cardinality(UnitsOf(h) \cap T)
  BY FS_Difference
<1> QED
  BY <1>2, <1>3, <1>4, <1>5

LEMMA UnitsAdded ==
  ASSUME NEW h \in [Indexes -> Units], NEW i \in Indexes, IsFiniteSet(UnitsOf(h)),
         NEW x \in Units, Len(x) \in {0, 1},
         NEW g, \A j \in Indexes : g[j] = IF j = i THEN h[i] \o x ELSE h[j]
  PROVE  /\ IsFiniteSet(UnitsOf(g))
         /\ Cardinality(UnitsOf(g)) <= Cardinality(UnitsOf(h)) + Len(x)
<1> DEFINE N == Len(h[i])
<1>0. N \in Nat /\ Len(g[i]) = N + Len(x) /\ Cardinality(UnitsOf(h)) \in Nat
  <2>1. h[i] \in Seq(Nat) /\ x \in Seq(Nat)
    BY DEF Units
  <2>2. Len(h[i] \o x) = Len(h[i]) + Len(x) /\ Len(h[i]) \in Nat
    BY <2>1, ConcatProperties, LenProperties
  <2>3. g[i] = h[i] \o x
    OBVIOUS
  <2> QED
    BY <2>2, <2>3, FS_CardinalityType
<1> HIDE DEF N
<1>1. \A j \in Indexes : j # i => g[j] = h[j]
  OBVIOUS
<1>2. CASE Len(x) = 0
  <2>1. \A j \in Indexes : Len(g[j]) = Len(h[j])
    BY <1>0, <1>1, <1>2 DEF N
  <2>2. \A u : u \in UnitsOf(g) <=> u \in UnitsOf(h)
    BY <2>1, UnitsAre
  <2>3. UnitsOf(g) = UnitsOf(h)
    BY <2>2
  <2> QED
    BY <1>0, <1>2, <2>3
<1>3. CASE Len(x) = 1
  <2>1. ASSUME NEW u \in UnitsOf(g)
        PROVE  u \in UnitsOf(h) \cup {<<i, N + 1>>}
    <3>0. PICK j \in Indexes : \E n \in 1..Len(g[j]) : u = <<j, n>>
      BY <2>1, UnitsAre
    <3>1. PICK n \in 1..Len(g[j]) : u = <<j, n>>
      BY <3>0
    <3>2. CASE j = i
      <4>1. n \in 1..N \/ n = N + 1
        BY <1>0, <1>3, <3>2
      <4> QED
        BY <3>1, <3>2, <4>1, UnitsAre DEF N
    <3>3. CASE j # i
      <4>1. n \in 1..Len(h[j])
        BY <1>1, <3>3
      <4> QED
        BY <3>1, <4>1, UnitsAre
    <3> QED
      BY <3>2, <3>3
  <2>2. UnitsOf(g) \in SUBSET (UnitsOf(h) \cup {<<i, N + 1>>})
    BY <2>1
  <2>3. /\ IsFiniteSet(UnitsOf(h) \cup {<<i, N + 1>>})
        /\ Cardinality(UnitsOf(h) \cup {<<i, N + 1>>}) <= Cardinality(UnitsOf(h)) + 1
    <3>1. /\ IsFiniteSet(UnitsOf(h) \cup {<<i, N + 1>>})
          /\ Cardinality(UnitsOf(h) \cup {<<i, N + 1>>})
               = IF <<i, N + 1>> \in UnitsOf(h) THEN Cardinality(UnitsOf(h))
                 ELSE Cardinality(UnitsOf(h)) + 1
      BY FS_AddElement
    <3> QED
      BY <1>0, <3>1
  <2>4. /\ IsFiniteSet(UnitsOf(g))
        /\ Cardinality(UnitsOf(g)) <= Cardinality(UnitsOf(h) \cup {<<i, N + 1>>})
    BY <2>2, <2>3, FS_Subset
  <2>5. /\ Cardinality(UnitsOf(g)) \in Nat
        /\ Cardinality(UnitsOf(h) \cup {<<i, N + 1>>}) \in Nat
    BY <2>3, <2>4, FS_CardinalityType
  <2> QED
    BY <1>0, <1>3, <2>3, <2>4, <2>5
<1> QED
  BY <1>2, <1>3

HeldInv ==
  /\ IsFiniteSet(UnitsOf(held))
  /\ Cardinality(UnitsOf(held)) <= pending
  /\ pending <= MaxPending
  /\ Cardinality(Known) <= MaxCalls

LEMMA KnownFinite == IsFiniteSet(Known) /\ Cardinality(Known) \in Nat
<1>1. IsFiniteSet(Indexes)
  BY FS_Interval, DecoderAssumption DEF Indexes
<1>2. Known \in SUBSET Indexes
  BY DEF Known
<1> QED
  BY <1>1, <1>2, FS_Subset, FS_CardinalityType

LEMMA ForgottenHeld ==
  ASSUME calls' = [i \in Indexes |-> "none"], held' = [i \in Indexes |-> <<>>],
         pending' \in Int, 0 <= pending', pending' <= MaxPending
  PROVE  HeldInv'
<1>1. \A i \in Indexes : held'[i] = <<>> /\ calls'[i] = "none"
  OBVIOUS
<1>2. IsFiniteSet(UnitsOf(held')) /\ Cardinality(UnitsOf(held')) = 0
  BY <1>1, NoUnits
<1>3. Known' = {}
  BY <1>1 DEF Known
<1>4. Cardinality(Known') = 0
  BY <1>3, FS_EmptySet
<1> QED
  BY <1>2, <1>4, DecoderAssumption DEF HeldInv

LEMMA KnownGrows ==
  ASSUME HeldInv, DecoderTypeOK, NEW i \in Indexes, ~TooMany(i),
         NEW st \in {"pending", "started"}, calls' = [calls EXCEPT ![i] = st]
  PROVE  Cardinality(Known') <= MaxCalls
<1>1. Known' = Known \cup {i}
  BY DEF Known, DecoderTypeOK
<1>2. CASE i \in Known
  BY <1>1, <1>2, FS_AddElement, KnownFinite DEF HeldInv
<1>3. CASE i \notin Known
  <2>1. Cardinality(Known) # MaxCalls
    BY <1>3 DEF TooMany, Known
  <2>2. Cardinality(Known') = Cardinality(Known) + 1
    BY <1>1, <1>3, FS_AddElement, KnownFinite
  <2>3. Cardinality(Known) \in Nat /\ Cardinality(Known) <= MaxCalls /\ MaxCalls \in Nat
    BY KnownFinite, DecoderAssumption DEF HeldInv
  <2> QED
    BY <2>1, <2>2, <2>3
<1> QED
  BY <1>2, <1>3

LEMMA HeldStep ==
  ASSUME DecoderTypeOK, MeantTypeOK, HeldInv, [Next]_vars
  PROVE  HeldInv'
<1>0. /\ IsFiniteSet(UnitsOf(held)) /\ Cardinality(UnitsOf(held)) \in Nat
      /\ pending \in Int /\ Cardinality(UnitsOf(held)) <= pending /\ pending <= MaxPending
      /\ held \in [Indexes -> Units]
  BY FS_CardinalityType DEF HeldInv, DecoderTypeOK
<1>1. ASSUME UNCHANGED <<calls, held, pending>> PROVE HeldInv'
  BY <1>1 DEF HeldInv, Known
<1>2. ASSUME Ends PROVE HeldInv'
  BY <1>0, <1>2, ForgottenHeld DEF Ends
<1>3. CASE Gives
  BY <1>1, <1>2, <1>3 DEF Gives, Content, Finishing, Other, Fails, decVars
<1>4. CASE InputEnds \/ ConnectionLost
  BY <1>1, <1>2, <1>4 DEF InputEnds, ConnectionLost, Fails, decVars
<1>5. CASE Encode \/ UNCHANGED vars
  BY <1>1, <1>5 DEF Encode, vars, decVars
<1>6. ASSUME NEW d, d.args \in Delivered, GivesCall(d)
      PROVE  HeldInv'
  <2> DEFINE x == d.args
  <2>0. x \in Units /\ Len(x) \in {0, 1}
    BY <1>6, DeliveredIn
  <2> HIDE DEF x
  <2>1. ASSUME StopFollowing PROVE HeldInv'
    BY <2>1, ForgottenHeld, DecoderAssumption DEF StopFollowing
  <2>2. ASSUME NEW i \in Indexes, ~TooMany(i), StartCall(i, x)
        PROVE  HeldInv'
    <3>1. /\ calls' = [calls EXCEPT ![i] = "started"]
          /\ held' = [held EXCEPT ![i] = <<>>]
          /\ pending' = pending + Len(x) - Len(held[i] \o x)
      BY <2>2 DEF StartCall
    <3>2. \A j \in Indexes : held'[j] = IF j = i THEN <<>> ELSE held[j]
      BY <1>0, <3>1
    <3>3. /\ IsFiniteSet(UnitsOf(held'))
          /\ Cardinality(UnitsOf(held')) = Cardinality(UnitsOf(held)) - Len(held[i])
      BY <1>0, <3>2, UnitsFreed
    <3>4. Len(held[i] \o x) = Len(held[i]) + Len(x) /\ Len(held[i]) \in Nat
      BY <1>0, <2>0, ConcatProperties, LenProperties DEF Units
    <3>5. pending' = pending - Len(held[i])
      BY <1>0, <2>0, <3>1, <3>4
    <3>6. Cardinality(Known') <= MaxCalls
      BY <2>2, <3>1, KnownGrows
    <3> QED
      BY <1>0, <3>3, <3>4, <3>5, <3>6, DecoderAssumption DEF HeldInv
  <2>3. ASSUME NEW i \in Indexes, ~TooMany(i), ~TooLong(i, x), HoldCall(i, x)
        PROVE  HeldInv'
    <3>1. /\ calls' = [calls EXCEPT ![i] = "pending"]
          /\ held' = [held EXCEPT ![i] = @ \o x]
          /\ pending' = pending + Len(x)
      BY <2>3 DEF HoldCall
    <3>2. \A j \in Indexes : held'[j] = IF j = i THEN held[i] \o x ELSE held[j]
      BY <1>0, <3>1
    <3>3. /\ IsFiniteSet(UnitsOf(held'))
          /\ Cardinality(UnitsOf(held')) <= Cardinality(UnitsOf(held)) + Len(x)
      BY <1>0, <2>0, <3>2, UnitsAdded
    <3>4. Cardinality(UnitsOf(held')) \in Nat
      BY <3>3, FS_CardinalityType
    <3>5. Cardinality(Known') <= MaxCalls
      BY <2>3, <3>1, KnownGrows
    <3>6. pending + Len(x) <= MaxPending
      BY <1>0, <2>0, <2>3, DecoderAssumption DEF TooLong
    <3> QED
      BY <1>0, <2>0, <3>1, <3>3, <3>4, <3>5, <3>6 DEF HeldInv
  <2>4. CallDelta(d)
    BY <1>6 DEF GivesCall
  <2> QED
    BY <1>1, <2>1, <2>2, <2>3, <2>4 DEF CallDelta, x
<1>7. ASSUME NEW i, NEW id, NEW name, NEW y \in Delivered,
             GivesCall([index |-> i, id |-> id, name |-> name, args |-> y])
      PROVE  HeldInv'
  <2> DEFINE d == [index |-> i, id |-> id, name |-> name, args |-> y]
  <2>1. d.args \in Delivered /\ GivesCall(d)
    BY <1>7
  <2> HIDE DEF d
  <2> QED
    BY <1>6, <2>1
<1> QED
  BY <1>3, <1>4, <1>5, <1>7, NextIs

\* What one stream makes the decoder hold is bounded, across its calls (src/openai/chunk.rs,
\* MAX_CALLS and MAX_PENDING_ARGUMENTS).
THEOREM HeldCorrect == Spec => []HeldIsBounded
<1>1. Init => HeldInv
  <2> SUFFICES ASSUME Init PROVE HeldInv
    OBVIOUS
  <2>1. \A i \in Indexes : held[i] = <<>> /\ calls[i] = "none"
    BY DEF Init, DecoderInit
  <2>2. IsFiniteSet(UnitsOf(held)) /\ Cardinality(UnitsOf(held)) = 0
    BY <2>1, NoUnits
  <2>3. Known = {}
    BY <2>1 DEF Known
  <2>4. Cardinality(Known) = 0
    BY <2>3, FS_EmptySet
  <2> QED
    BY <2>2, <2>4, DecoderAssumption DEF HeldInv, Init, DecoderInit
<1>2. MessageInv /\ HeldInv /\ [Next]_vars => HeldInv'
  BY HeldStep DEF MessageInv, TypeInv
<1>3. MessageInv /\ HeldInv => HeldIsBounded
  <2> SUFFICES ASSUME MessageInv, HeldInv PROVE HeldIsBounded
    OBVIOUS
  <2>1. UnitsOf(held) = HeldUnits
    BY DEF UnitsOf, HeldUnits
  <2>2. /\ Cardinality(HeldUnits) \in Nat /\ Cardinality(HeldUnits) <= pending
        /\ pending <= MaxPending /\ Cardinality(Known) <= MaxCalls /\ pending \in Int
    BY <2>1, FS_CardinalityType DEF HeldInv, MessageInv, TypeInv, DecoderTypeOK
  <2> QED
    BY <2>2, DecoderAssumption DEF HeldIsBounded
<1> QED
  BY <1>1, <1>2, <1>3, MessageInvariant, PTL DEF Spec

-----------------------------------------------------------------------------
(* The events of a payload.                                                *)

LEMMA OpeningIs ==
  /\ Opening \in Seq(EventSet) /\ Len(Opening) \in {0, 1}
  /\ \A n \in 1..Len(Opening) : Opening[n] = StartEvent
<1>1. CASE started = "no"
  <2>1. Opening = <<StartEvent>>
    BY <1>1 DEF Opening
  <2>2. /\ <<StartEvent>> \in Seq(EventSet) /\ Len(<<StartEvent>>) = 1
        /\ <<StartEvent>>[1] = StartEvent
    BY EventIn, OneEvent
  <2> QED
    BY <2>1, <2>2
<1>2. CASE started # "no"
  <2>1. Opening = <<>>
    BY <1>2 DEF Opening
  <2>2. <<>> \in Seq(EventSet) /\ Len(<<>>) = 0
    BY EmptySeq
  <2> QED
    BY <2>1, <2>2
<1> QED
  BY <1>1, <1>2

LEMMA EmitsAre ==
  ASSUME NEW es \in Seq(EventSet), Emit(es)
  PROVE  /\ events' \in Seq(EventSet) /\ Len(es) \in Nat /\ Len(Opening) \in {0, 1}
         /\ Len(events') = Len(Opening) + Len(es)
         /\ \A n \in 1..Len(events') :
              events'[n] = IF n <= Len(Opening) THEN StartEvent ELSE es[n - Len(Opening)]
<1>1. /\ Opening \in Seq(EventSet) /\ Len(Opening) \in {0, 1}
      /\ \A n \in 1..Len(Opening) : Opening[n] = StartEvent
  BY OpeningIs
<1>2. events' = Opening \o es /\ Len(es) \in Nat
  BY LenProperties DEF Emit
<1>3. /\ Opening \o es \in Seq(EventSet)
      /\ Len(Opening \o es) = Len(Opening) + Len(es)
      /\ \A n \in 1..(Len(Opening) + Len(es)) :
           (Opening \o es)[n] = IF n <= Len(Opening) THEN Opening[n] ELSE es[n - Len(Opening)]
  BY <1>1, ConcatProperties
<1>4. \A n \in 1..(Len(Opening) + Len(es)) :
        (Opening \o es)[n] = IF n <= Len(Opening) THEN StartEvent ELSE es[n - Len(Opening)]
  BY <1>1, <1>3
<1> HIDE DEF Opening
<1> QED
  BY <1>1, <1>2, <1>3, <1>4

LEMMA EmitsOrderly ==
  ASSUME NEW es \in Seq(EventSet), Emit(es), Orderly(es)
  PROVE  /\ Orderly(events')
         /\ \A e : e.type # "start" => (Among(e, events') <=> Among(e, es))
         /\ Len(es) > 0 => events' # <<>> /\ Final' = es[Len(es)]
         /\ Len(es) = 0 /\ events' # <<>> => Final' = StartEvent
<1> DEFINE L == Len(Opening)
           m == Len(es)
           E == events'
<1>1. /\ E \in Seq(EventSet) /\ m \in Nat /\ L \in {0, 1} /\ Len(E) = L + m
      /\ \A n \in 1..Len(E) : E[n] = IF n <= L THEN StartEvent ELSE es[n - L]
  BY EmitsAre
<1> HIDE DEF L, m, E
<1>2. StartEvent.type = "start"
  BY DEF StartEvent
<1>3. m > 0 => E[Len(E)] = es[m] /\ E # <<>>
  <2>1. ASSUME m > 0 PROVE Len(E) \in 1..Len(E) /\ ~(Len(E) <= L) /\ Len(E) - L = m
    BY <1>1, <2>1
  <2> QED
    BY <1>1, <2>1, EmptySeq
<1>4. m = 0 /\ E # <<>> => E[Len(E)] = StartEvent
  <2>1. ASSUME m = 0, E # <<>> PROVE Len(E) \in 1..Len(E) /\ Len(E) <= L
    BY <1>1, <2>1, EmptySeq
  <2> QED
    BY <1>1, <2>1
<1>5. ASSUME NEW e, e.type # "start"
      PROVE  Among(e, E) <=> Among(e, es)
  <2>1. ASSUME NEW n \in 1..Len(E), E[n] = e
        PROVE  \E k \in 1..m : es[k] = e
    <3>1. ~(n <= L)
      BY <1>1, <1>2, <1>5, <2>1
    <3>2. n - L \in 1..m /\ es[n - L] = e
      BY <1>1, <2>1, <3>1
    <3> QED
      BY <3>2
  <2>2. ASSUME NEW k \in 1..m, es[k] = e
        PROVE  \E n \in 1..Len(E) : E[n] = e
    <3>1. k + L \in 1..Len(E) /\ ~(k + L <= L) /\ (k + L) - L = k
      BY <1>1
    <3>2. E[k + L] = e
      BY <1>1, <2>2, <3>1
    <3> QED
      BY <3>1, <3>2
  <2> QED
    BY <2>1, <2>2 DEF Among, m
<1>6. ASSUME NEW n \in 1..Len(E)
      PROVE  /\ E[n].type \in {"text", "arguments", "finish", "done"} => n = Len(E)
             /\ E[n].type = "call" /\ n # Len(E) =>
                  n + 1 = Len(E) /\ E[Len(E)].type = "arguments" /\ E[Len(E)].call = E[n].call
  <2>1. CASE n <= L
    BY <1>1, <1>2, <2>1
  <2>2. CASE ~(n <= L)
    <3>1. n - L \in 1..m /\ E[n] = es[n - L] /\ m > 0
      BY <1>1, <2>2
    <3>2. E[Len(E)] = es[m]
      BY <1>3, <3>1
    <3>3. /\ es[n - L].type \in {"text", "arguments", "finish", "done"} => n - L = m
          /\ es[n - L].type = "call" /\ n - L # m =>
               (n - L) + 1 = m /\ es[m].type = "arguments" /\ es[m].call = es[n - L].call
      BY <3>1 DEF Orderly, m
    <3> QED
      BY <1>1, <3>1, <3>2, <3>3
  <2> QED
    BY <2>1, <2>2
<1> QED
  BY <1>3, <1>4, <1>5, <1>6 DEF Orderly, Final, E, m

LEMMA NoEventOrderly == Orderly(<<>>) /\ <<>> \in Seq(EventSet) /\ Len(<<>>) = 0
BY EmptySeq DEF Orderly

LEMMA OneEventOrderly ==
  ASSUME NEW e \in EventSet
  PROVE  /\ Orderly(<<e>>) /\ <<e>> \in Seq(EventSet) /\ Len(<<e>>) = 1 /\ <<e>>[1] = e
         /\ \A f : Among(f, <<e>>) <=> f = e
<1> DEFINE es == <<e>>
<1>1. es \in Seq(EventSet) /\ Len(es) = 1 /\ es[1] = e
  BY OneEvent
<1> HIDE DEF es
<1>2. Orderly(es) /\ \A f : Among(f, es) <=> f = e
  BY <1>1 DEF Orderly, Among
<1> QED
  BY <1>1, <1>2 DEF es

LEMMA CallOrderly ==
  ASSUME NEW i \in Indexes, NEW x \in Units
  PROVE  LET es == <<CallEvent(i)>> \o (IF x = <<>> THEN <<>> ELSE <<ArgumentsEvent(i, x)>>)
         IN /\ Orderly(es) /\ es \in Seq(EventSet) /\ Len(es) > 0 /\ Among(CallEvent(i), es)
            /\ \A j \in Indexes : Among(CallEvent(j), es) => j = i
            /\ x = <<>> => es[Len(es)] = CallEvent(i)
            /\ x # <<>> => es[Len(es)] = ArgumentsEvent(i, x)
<1> DEFINE c == CallEvent(i)
           a == ArgumentsEvent(i, x)
<1>0. /\ c \in EventSet /\ a \in EventSet
      /\ c.type = "call" /\ c.call = i /\ a.type = "arguments" /\ a.call = i
      /\ \A j \in Indexes : (c = CallEvent(j) => j = i) /\ a # CallEvent(j)
  <2>1. c \in EventSet /\ a \in EventSet
    BY EventIn
  <2>2. c.type = "call" /\ c.call = i /\ a.type = "arguments" /\ a.call = i
    BY DEF CallEvent, ArgumentsEvent
  <2>3. \A j \in Indexes : CallEvent(j).type = "call" /\ CallEvent(j).call = j
    BY DEF CallEvent
  <2> QED
    BY <2>1, <2>2, <2>3
<1> HIDE DEF c, a
<1>1. CASE x = <<>>
  <2> DEFINE es == <<c>>
  <2>1. <<c>> \o <<>> = <<c>>
    BY <1>0, OneEvent, ConcatEmptySeq
  <2>2. es \in Seq(EventSet) /\ Len(es) = 1 /\ es[1] = c
    BY <1>0, OneEvent
  <2> HIDE DEF es
  <2>3. Orderly(es) /\ Among(c, es) /\ \A j \in Indexes : Among(CallEvent(j), es) => j = i
    BY <1>0, <2>2 DEF Orderly, Among
  <2> QED
    BY <1>1, <2>1, <2>2, <2>3 DEF es, c
<1>2. CASE x # <<>>
  <2> DEFINE es == <<c>> \o <<a>>
  <2>1. /\ <<c>> \in Seq(EventSet) /\ Len(<<c>>) = 1 /\ <<c>>[1] = c
        /\ <<a>> \in Seq(EventSet) /\ Len(<<a>>) = 1 /\ <<a>>[1] = a
    BY <1>0, OneEvent
  <2>2. /\ es \in Seq(EventSet) /\ Len(es) = Len(<<c>>) + Len(<<a>>)
        /\ \A n \in 1..(Len(<<c>>) + Len(<<a>>)) :
             es[n] = IF n <= Len(<<c>>) THEN <<c>>[n] ELSE <<a>>[n - Len(<<c>>)]
    BY <2>1, ConcatProperties
  <2>3. Len(es) = 2 /\ es[1] = c /\ es[2] = a
    BY <2>1, <2>2
  <2> HIDE DEF es
  <2>4. Orderly(es) /\ Among(c, es) /\ \A j \in Indexes : Among(CallEvent(j), es) => j = i
    <3>1. \A n \in 1..Len(es) : n = 1 \/ n = 2
      BY <2>3
    <3> QED
      BY <1>0, <2>3, <3>1 DEF Orderly, Among
  <2> QED
    BY <1>2, <2>2, <2>3, <2>4 DEF es, c, a
<1> QED
  BY <1>1, <1>2

LEMMA EndsOrderly ==
  ASSUME Ends
  PROVE  /\ Orderly(events') /\ events' # <<>> /\ Final' = DoneEvent
         /\ Len(events') = 1 \/ Among(ErrorEvent, events')
         /\ Len(events') = 1 => Nameless = <<>>
<1> DEFINE N == Nameless
           E == events'
<1>1. /\ N \in Seq(EventSet) /\ Len(N) \in Nat /\ \A n \in 1..Len(N) : N[n] = ErrorEvent
      /\ <<DoneEvent>> \in Seq(EventSet) /\ Len(<<DoneEvent>>) = 1
      /\ <<DoneEvent>>[1] = DoneEvent
  BY NamelessIn, EventIn, OneEvent, LenProperties
<1>2. E = N \o <<DoneEvent>>
  BY DEF Ends
<1> HIDE DEF N, E
<1>3. /\ Len(E) = Len(N) + 1
      /\ \A n \in 1..(Len(N) + 1) : E[n] = IF n <= Len(N) THEN ErrorEvent ELSE DoneEvent
  BY <1>1, <1>2, ConcatProperties
<1>4. E # <<>>
  BY <1>1, <1>3, EmptySeq
<1>5. E[Len(E)] = DoneEvent
  BY <1>1, <1>3
<1>6. Orderly(E)
  BY <1>1, <1>3 DEF Orderly, ErrorEvent, DoneEvent
<1>7. Len(E) = 1 \/ Among(ErrorEvent, E)
  <2>1. ASSUME Len(E) # 1 PROVE 1 \in 1..Len(E) /\ E[1] = ErrorEvent
    BY <1>1, <1>3, <2>1
  <2> QED
    BY <2>1 DEF Among
<1>8. Len(E) = 1 => N = <<>>
  <2>1. Len(E) = 1 => Len(N) = 0
    <3>1. ASSUME Len(E) = 1 PROVE Len(N) + 1 = 1
      BY <1>3, <3>1
    <3>2. Len(N) \in Nat
      BY <1>1
    <3> QED
      BY <3>1, <3>2
  <2>2. N # <<>> => Len(N) \in Nat \ {0}
    BY <1>1, EmptySeq
  <2> QED
    BY <2>1, <2>2
<1> QED
  BY <1>4, <1>5, <1>6, <1>7, <1>8 DEF Final, E, N

-----------------------------------------------------------------------------
(* Whose arguments a delta brings.                                         *)

LEMMA NumberIsOne ==
  ASSUME NEW d, NEW m, NEW n, NumberOf(d, m), NumberOf(d, n)
  PROVE  m = n
<1>1. CASE d.index # None
  BY <1>1 DEF NumberOf
<1>2. CASE d.index = None /\ Continues(d)
  BY <1>2 DEF NumberOf
<1>3. CASE d.index = None /\ ~Continues(d)
  <2>1. ASSUME NEW i, NEW j, Newest(i), Newest(j) PROVE i = j
    <3>1. i \in Int /\ j \in Int /\ i <= j /\ j <= i
      BY <2>1, DecoderAssumption DEF Newest, Known, Indexes
    <3> QED
      BY <3>1
  <2>2. \A i \in Known : Known # {}
    OBVIOUS
  <2> QED
    BY <1>3, <2>1, <2>2 DEF NumberOf
<1> QED
  BY <1>1, <1>2, <1>3

LEMMA JoinNone ==
  ASSUME NEW x \in Units
  PROVE  x \o <<>> = x /\ <<>> \o x = x
BY ConcatEmptySeq DEF Units

LEMMA JoinAgain ==
  ASSUME NEW x \in Units, NEW y \in Units, NEW z \in Units
  PROVE  (x \o y) \o z = x \o (y \o z)
BY ConcatAssociative, SMTT(30) DEF Units

LEMMA NoUnit == <<>> \in Units
BY EmptySeq DEF Units

LEMMA InBlockIn ==
  ASSUME EncoderTypeOK, EncoderInv, NEW c \in Calls
  PROVE  InBlock(c) \in Units
<1>1. CASE tools[c] = Nil
  BY <1>1, NoUnit DEF InBlock
<1>2. CASE tools[c] # Nil
  <2>1. tools[c] + 1 \in 1..Len(message.blocks) /\ message.blocks \in Seq(BlockSet)
    BY <1>2 DEF EncoderInv, EncoderTypeOK
  <2> QED
    BY <1>2, <2>1, BlocksIn DEF InBlock
<1> QED
  BY <1>1, <1>2

LEMMA NothingOnItsWay ==
  ASSUME events = <<>>
  PROVE  ~Failing /\ ~Ending /\ \A c : ~Starting(c) /\ ~DueTo(c) /\ Due(c) = <<>>
<1>1. Len(events) = 0
  BY EmptySeq
<1>2. \A e : ~Among(e, events)
  BY <1>1 DEF Among
<1> QED
  BY <1>2 DEF Failing, Ending, Starting, DueTo, Due

\* Between two payloads, with nothing on its way.
Quiet(c) ==
  /\ c \in begun <=> calls[c] # "none"
  /\ calls[c] = "started" <=> tools[c] # Nil
  /\ calls[c] # "pending" => held[c] = <<>>
  /\ given[c] = InBlock(c) \o held[c]

CallTypes(c) == InBlock(c) \in Units /\ held[c] \in Units /\ given[c] \in Units

LEMMA CallTypesIn ==
  ASSUME MessageInv, NEW c \in Calls
  PROVE  CallTypes(c)
BY InBlockIn, TranslationAssumption
   DEF MessageInv, TypeInv, DecoderTypeOK, MeantTypeOK, CallTypes

LEMMA QuietIs ==
  ASSUME MessageInv, CallsInv, state # "closed", events = <<>>
  PROVE  /\ stopped = "no" /\ \A c \in Calls : Quiet(c)
         /\ convention = "sequential" => InSequence
<1>1. ~Failing /\ ~Ending /\ \A c : ~Starting(c) /\ ~DueTo(c) /\ Due(c) = <<>>
  BY NothingOnItsWay
<1>2. /\ stopped = "no" /\ \A c \in Calls : Followed(c)
      /\ convention = "sequential" => InSequence
  BY <1>1 DEF CallsInv
<1>3. \A c \in Calls : Quiet(c)
  <2> SUFFICES ASSUME NEW c \in Calls PROVE Quiet(c)
    OBVIOUS
  <2>1. Followed(c) /\ ~Starting(c) /\ Due(c) = <<>>
    BY <1>1, <1>2
  <2>2. InBlock(c) \o <<>> = InBlock(c)
    BY CallTypesIn, JoinNone DEF CallTypes
  <2>3. given[c] = InBlock(c) \o held[c]
    BY <2>1, <2>2 DEF Followed
  <2> QED
    BY <2>1, <2>3 DEF Followed, Quiet
<1> QED
  BY <1>2, <1>3

LEMMA InBlockStays ==
  ASSUME UNCHANGED encVars, NEW c \in Calls
  PROVE  InBlock(c)' = InBlock(c) /\ (tools'[c] # Nil <=> tools[c] # Nil)
BY DEF InBlock, encVars

\* A call no event of the payload is about.
LEMMA StillFollowed ==
  ASSUME NEW c \in Calls, CallTypes(c), Quiet(c), UNCHANGED encVars,
         c \in begun' <=> c \in begun, calls'[c] = calls[c], held'[c] = held[c],
         given'[c] = given[c], ~Starting(c)', ~DueTo(c)'
  PROVE  Followed(c)'
<1>1. InBlock(c)' = InBlock(c) /\ (tools'[c] # Nil <=> tools[c] # Nil)
  BY InBlockStays
<1>2. Due(c)' = <<>>
  BY DEF Due
<1>3. (InBlock(c) \o <<>>) \o held[c] = InBlock(c) \o held[c]
  BY JoinNone DEF CallTypes
<1>4. given'[c] = (InBlock(c)' \o Due(c)') \o held'[c]
  BY <1>1, <1>2, <1>3 DEF Quiet
<1> QED
  BY <1>1, <1>4 DEF Quiet, Followed

\* Arguments of a call already named go straight out.
LEMMA StartedFollowed ==
  ASSUME NEW i \in Indexes, CallTypes(i), Quiet(i), UNCHANGED encVars, NEW x \in Units,
         calls[i] = "started", i \in begun', calls'[i] = calls[i], held'[i] = held[i],
         given'[i] = given[i] \o x, ~Starting(i)', DueTo(i)' <=> x # <<>>, Due(i)' = x
  PROVE  Followed(i)'
<1>0. i \in Calls
  BY TranslationAssumption
<1>1. InBlock(i)' = InBlock(i) /\ (tools'[i] # Nil <=> tools[i] # Nil)
  BY <1>0, InBlockStays
<1>2. held[i] = <<>> /\ given[i] = InBlock(i) \o held[i]
  BY DEF Quiet
<1>3. given[i] = InBlock(i)
  BY <1>2, JoinNone DEF CallTypes
<1>4. (InBlock(i) \o x) \o <<>> = InBlock(i) \o x
  BY TextJoin, JoinNone DEF CallTypes
<1>5. given'[i] = (InBlock(i)' \o Due(i)') \o held'[i]
  BY <1>1, <1>2, <1>3, <1>4
<1> QED
  BY <1>1, <1>2, <1>5 DEF Quiet, Followed

\* A name releases what was held.
LEMMA StartFollowed ==
  ASSUME NEW i \in Indexes, CallTypes(i), Quiet(i), UNCHANGED encVars, NEW x \in Units,
         calls[i] # "started", i \in begun', calls'[i] = "started", held'[i] = <<>>,
         given'[i] = given[i] \o x, Starting(i)', Due(i)' = held[i] \o x
  PROVE  Followed(i)'
<1>0. i \in Calls
  BY TranslationAssumption
<1>1. tools[i] = Nil /\ tools'[i] = Nil /\ InBlock(i) = <<>> /\ InBlock(i)' = <<>>
  BY <1>0, InBlockStays DEF Quiet, InBlock
<1>2. given[i] = held[i]
  BY <1>1, JoinNone DEF Quiet, CallTypes
<1>3. (<<>> \o (held[i] \o x)) \o <<>> = held[i] \o x
  BY TextJoin, JoinNone DEF CallTypes
<1>4. given'[i] = (InBlock(i)' \o Due(i)') \o held'[i]
  BY <1>1, <1>2, <1>3
<1> QED
  BY <1>1, <1>4 DEF Followed

\* Without one they wait.
LEMMA HoldFollowed ==
  ASSUME NEW i \in Indexes, CallTypes(i), Quiet(i), UNCHANGED encVars, NEW x \in Units,
         calls[i] # "started", i \in begun', calls'[i] = "pending", held'[i] = held[i] \o x,
         given'[i] = given[i] \o x, ~Starting(i)', ~DueTo(i)'
  PROVE  Followed(i)'
<1>0. i \in Calls
  BY TranslationAssumption
<1>1. InBlock(i)' = InBlock(i) /\ (tools'[i] # Nil <=> tools[i] # Nil)
  BY <1>0, InBlockStays
<1>2. Due(i)' = <<>>
  BY DEF Due
<1>3. given[i] = InBlock(i) \o held[i] /\ InBlock(i) \o <<>> = InBlock(i)
  BY JoinNone DEF Quiet, CallTypes
<1>4. (InBlock(i) \o held[i]) \o x = InBlock(i) \o (held[i] \o x)
  BY JoinAgain DEF CallTypes
<1>5. given'[i] = (InBlock(i)' \o Due(i)') \o held'[i]
  BY <1>1, <1>2, <1>3, <1>4
<1> QED
  BY <1>1, <1>5 DEF Quiet, Followed

-----------------------------------------------------------------------------
(* What a payload's events are about.                                      *)

LEMMA EventTypes ==
  /\ StartEvent.type = "start" /\ ErrorEvent.type = "error" /\ DoneEvent.type = "done"
  /\ \A i : CallEvent(i).type = "call" /\ CallEvent(i).call = i
  /\ \A i, x : /\ ArgumentsEvent(i, x).type = "arguments" /\ ArgumentsEvent(i, x).call = i
               /\ ArgumentsEvent(i, x).text = x
  /\ \A k, x : TextEvent(k, x).type = "text"
  /\ \A r : FinishEvent(r).type = "finish"
BY DEF StartEvent, ErrorEvent, DoneEvent, CallEvent, ArgumentsEvent, TextEvent, FinishEvent

LEMMA EmitsNothing ==
  ASSUME Emit(<<>>)
  PROVE  Orderly(events') /\ ~Ending' /\ \A c : ~Starting(c)' /\ ~DueTo(c)'
<1>1. Orderly(<<>>) /\ <<>> \in Seq(EventSet) /\ Len(<<>>) = 0
  BY NoEventOrderly
<1>2. \A e : ~Among(e, <<>>)
  BY <1>1 DEF Among
<1>3. /\ Orderly(events')
      /\ events' # <<>> => Final' = StartEvent
      /\ \A e : e.type # "start" => ~Among(e, events')
  BY <1>1, <1>2, EmitsOrderly
<1>4. \A c : ~Starting(c)'
  BY <1>3, EventTypes DEF Starting
<1>5. ~Ending'
  BY <1>3, EventTypes DEF Ending
<1>6. \A c : ~DueTo(c)'
  BY <1>3, EventTypes DEF DueTo
<1> QED
  BY <1>3, <1>4, <1>5, <1>6

LEMMA EmitsOne ==
  ASSUME NEW e \in EventSet, Emit(<<e>>)
  PROVE  /\ Orderly(events') /\ events' # <<>> /\ Final' = e
         /\ \A f : f.type # "start" => (Among(f, events') <=> f = e)
<1> DEFINE es == <<e>>
<1>1. /\ Orderly(es) /\ es \in Seq(EventSet) /\ Len(es) = 1 /\ es[1] = e
      /\ \A f : Among(f, es) <=> f = e
  BY OneEventOrderly
<1>2. Emit(es)
  OBVIOUS
<1> HIDE DEF es
<1>3. /\ Orderly(events')
      /\ \A f : f.type # "start" => (Among(f, events') <=> Among(f, es))
      /\ Len(es) > 0 => events' # <<>> /\ Final' = es[Len(es)]
  BY <1>1, <1>2, EmitsOrderly
<1> QED
  BY <1>1, <1>3

LEMMA EmitsPlain ==
  ASSUME NEW e \in EventSet, e.type \in {"text", "finish"}, Emit(<<e>>)
  PROVE  Orderly(events') /\ ~Ending' /\ \A c : ~Starting(c)' /\ ~DueTo(c)'
BY EmitsOne, EventTypes DEF Ending, Starting, DueTo

LEMMA EmitsError ==
  ASSUME Emit(<<ErrorEvent>>)
  PROVE  Orderly(events') /\ Failing'
BY EmitsOne, EventTypes, EventIn DEF Failing

LEMMA EmitsArguments ==
  ASSUME NEW i \in Indexes, NEW x \in Units, Emit(<<ArgumentsEvent(i, x)>>)
  PROVE  /\ Orderly(events') /\ ~Ending' /\ \A c : ~Starting(c)'
         /\ \A c : DueTo(c)' <=> c = i
         /\ Due(i)' = x
<1> DEFINE e == ArgumentsEvent(i, x)
<1>1. e \in EventSet /\ e.type = "arguments" /\ e.call = i /\ e.text = x /\ Emit(<<e>>)
  BY EventIn, EventTypes
<1> HIDE DEF e
<1>2. /\ Orderly(events') /\ events' # <<>> /\ Final' = e
      /\ \A f : f.type # "start" => (Among(f, events') <=> f = e)
  BY <1>1, EmitsOne
<1>3. \A c : DueTo(c)' <=> c = i
  BY <1>1, <1>2 DEF DueTo
<1>4. Due(i)' = x
  BY <1>1, <1>2, <1>3 DEF Due
<1> QED
  BY <1>1, <1>2, <1>3, <1>4, EventTypes DEF Ending, Starting

LEMMA EmitsCall ==
  ASSUME NEW i \in Indexes, NEW x \in Units,
         Emit(<<CallEvent(i)>> \o (IF x = <<>> THEN <<>> ELSE <<ArgumentsEvent(i, x)>>))
  PROVE  /\ Orderly(events') /\ ~Ending'
         /\ \A c \in Indexes : Starting(c)' <=> c = i
         /\ \A c : DueTo(c)' => c = i
         /\ Due(i)' = x
<1> DEFINE es == <<CallEvent(i)>> \o (IF x = <<>> THEN <<>> ELSE <<ArgumentsEvent(i, x)>>)
<1>1. /\ Orderly(es) /\ es \in Seq(EventSet) /\ Len(es) > 0 /\ Among(CallEvent(i), es)
      /\ \A j \in Indexes : Among(CallEvent(j), es) => j = i
      /\ x = <<>> => es[Len(es)] = CallEvent(i)
      /\ x # <<>> => es[Len(es)] = ArgumentsEvent(i, x)
  BY CallOrderly
<1>2. Emit(es)
  OBVIOUS
<1> HIDE DEF es
<1>3. /\ Orderly(events')
      /\ \A f : f.type # "start" => (Among(f, events') <=> Among(f, es))
      /\ events' # <<>> /\ Final' = es[Len(es)]
  BY <1>1, <1>2, EmitsOrderly
<1>4. \A c \in Indexes : Starting(c)' <=> c = i
  BY <1>1, <1>3, EventTypes DEF Starting
<1>5. ~Ending'
  BY <1>1, <1>3, EventTypes DEF Ending
<1>6. \A c : DueTo(c)' <=> x # <<>> /\ c = i
  BY <1>1, <1>3, EventTypes DEF DueTo
<1>7. Due(i)' = x
  BY <1>1, <1>3, <1>6, EventTypes DEF Due
<1> QED
  BY <1>3, <1>4, <1>5, <1>6, <1>7

-----------------------------------------------------------------------------
(* The convention decides the call a delta belongs to.                     *)

LEMMA SequenceIs ==
  ASSUME MessageInv, InSequence
  PROVE  \E n \in 0..(LastIndex + 1) :
           /\ begun = 0..(n - 1) /\ last = (IF n = 0 THEN None ELSE n - 1)
           /\ Cardinality(begun) = n
<1>1. PICK n \in 0..(LastIndex + 1) : begun = 0..(n - 1) /\ last = IF n = 0 THEN None ELSE n - 1
  BY DEF InSequence
<1>2. n \in Int /\ n >= 0
  BY <1>1, DecoderAssumption
<1>3. Cardinality(0..(n - 1)) = IF 0 > n - 1 THEN 0 ELSE (n - 1) - 0 + 1
  BY <1>2, FS_Interval
<1>4. Cardinality(begun) = n
  BY <1>1, <1>2, <1>3
<1> QED
  BY <1>1, <1>4

LEMMA KnownIsBegun ==
  ASSUME MessageInv, \A c \in Calls : Quiet(c)
  PROVE  Known = begun
<1>1. begun \subseteq Calls /\ Calls = Indexes
  BY TranslationAssumption DEF MessageInv, TypeInv, MeantTypeOK
<1>2. \A c \in Calls : c \in begun <=> calls[c] # "none"
  BY DEF Quiet
<1> QED
  BY <1>1, <1>2 DEF Known

LEMMA MeantCall ==
  ASSUME MessageInv, \A c \in Calls : Quiet(c), convention = "sequential" => InSequence,
         NEW d, d.name \in {"no", "yes"}, NEW c \in Calls, Means(d, c),
         NEW i \in Indexes, NumberOf(d, i)
  PROVE  c = i
<1>0. Calls = Indexes /\ c \in Nat /\ i \in Nat /\ None \notin Nat /\ LastIndex \in Nat
  BY TranslationAssumption, DecoderAssumption DEF Indexes
<1>1. CASE convention = "any"
  BY <1>1, NumberIsOne DEF Means
<1>2. CASE convention = "numbered"
  <2>1. d.index = c /\ d.index # None
    BY <1>0, <1>2 DEF Means
  <2> QED
    BY <2>1 DEF NumberOf
<1>3. CASE convention = "sequential"
  <2>1. PICK n \in 0..(LastIndex + 1) :
          /\ begun = 0..(n - 1) /\ last = (IF n = 0 THEN None ELSE n - 1)
          /\ Cardinality(begun) = n
    BY <1>3, SequenceIs
  <2>2. Known = 0..(n - 1) /\ n \in Nat
    BY <1>0, <2>1, KnownIsBegun
  <2>3. d.index = None
    BY <1>3 DEF Means
  <2>4. CASE d.name = "yes"
    <3>1. c = n /\ ~Continues(d)
      BY <1>3, <2>1, <2>4 DEF Means, Continues
    <3>2. CASE Known = {} /\ i = 0
      BY <2>2, <3>1, <3>2
    <3>3. CASE \E j \in Known : Newest(j) /\ i = IF j = LastIndex THEN None ELSE j + 1
      <4>1. PICK j \in Known : Newest(j) /\ i = IF j = LastIndex THEN None ELSE j + 1
        BY <3>3
      <4>2. j \in Nat /\ j <= n - 1 /\ n - 1 \in Known
        BY <2>2, <4>1
      <4>3. n - 1 <= j
        BY <4>1, <4>2 DEF Newest
      <4>4. i = j + 1
        BY <1>0, <4>1
      <4> QED
        BY <2>2, <3>1, <4>2, <4>3, <4>4
    <3> QED
      BY <2>3, <3>1, <3>2, <3>3 DEF NumberOf
  <2>5. CASE d.name = "no"
    <3>1. d.id = "no" /\ c = n - 1
      BY <1>3, <2>1, <2>5 DEF Means
    <3>2. n # 0
      BY <1>0, <2>2, <3>1
    <3>3. last = c /\ last # None
      BY <1>0, <2>1, <3>1, <3>2
    <3> QED
      BY <2>3, <2>5, <3>1, <3>3 DEF NumberOf, Continues
  <2> QED
    BY <2>4, <2>5
<1> QED
  BY <1>1, <1>2, <1>3 DEF Means

LEMMA SequenceKept ==
  ASSUME MessageInv, InSequence, convention = "sequential", NEW d, d.name \in {"no", "yes"},
         NEW c \in Calls, Means(d, c), begun' = begun \cup {c}, last' = c
  PROVE  InSequence'
<1>0. c \in 0..LastIndex /\ LastIndex \in Nat
  BY TranslationAssumption, DecoderAssumption DEF Indexes
<1>1. PICK n \in 0..(LastIndex + 1) :
        /\ begun = 0..(n - 1) /\ last = (IF n = 0 THEN None ELSE n - 1)
        /\ Cardinality(begun) = n
  BY SequenceIs
<1>2. n \in Nat
  BY <1>0
<1>3. CASE c = n
  <2>1. n + 1 \in 0..(LastIndex + 1) /\ n + 1 # 0 /\ (n + 1) - 1 = n
    BY <1>0, <1>2, <1>3
  <2>2. begun' = 0..((n + 1) - 1)
    BY <1>1, <1>2, <1>3
  <2> QED
    BY <1>3, <2>1, <2>2 DEF InSequence
<1>4. CASE c = n - 1
  <2>1. n # 0
    BY <1>0, <1>2, <1>4
  <2>2. begun' = 0..(n - 1)
    BY <1>1, <1>2, <1>4, <2>1
  <2> QED
    BY <1>4, <2>1, <2>2 DEF InSequence
<1> QED
  BY <1>1, <1>3, <1>4 DEF Means

-----------------------------------------------------------------------------
(* Payloads keep the calls' arguments.                                     *)

LEMMA ClosedCalls ==
  ASSUME CallsInv, state = "closed", UNCHANGED <<encVars, begun, given>>
  PROVE  CallsInv'
<1>1. state' = "closed" /\ message' = message
  BY DEF encVars
<1>2. \A c \in Calls : Complete(c) => Complete(c)'
  BY DEF Complete, InBlock, encVars
<1> QED
  BY <1>1, <1>2 DEF CallsInv

LEMMA NotEnded ==
  ASSUME MessageInv, state # "closed"
  PROVE  message.status \in {"none", "open"}
BY DEF MessageInv, TypeInv, EncoderTypeOK, EncoderInv

LEMMA FailedCalls ==
  ASSUME MessageInv, state # "closed", UNCHANGED encVars, Failing'
  PROVE  CallsInv'
<1>1. message'.status # "ended"
  BY NotEnded DEF encVars
<1> QED
  BY <1>1 DEF CallsInv

LEMMA PlainCalls ==
  ASSUME MessageInv, CallsInv, state # "closed", events = <<>>,
         UNCHANGED <<encVars, calls, held, last, stopped, meant>>,
         ~Ending', \A c : ~Starting(c)' /\ ~DueTo(c)'
  PROVE  CallsInv'
<1>1. message'.status # "ended"
  BY NotEnded DEF encVars
<1>2. /\ stopped = "no" /\ \A c \in Calls : Quiet(c)
      /\ convention = "sequential" => InSequence
  BY QuietIs
<1>3. \A c \in Calls : Followed(c)'
  BY <1>2, CallTypesIn, StillFollowed DEF meant
<1>4. convention' = "sequential" => InSequence'
  BY <1>2 DEF meant, InSequence
<1> QED
  BY <1>1, <1>2, <1>3, <1>4 DEF CallsInv

LEMMA EndedCalls ==
  ASSUME MessageInv, CallsInv, state # "closed", events = <<>>, UNCHANGED <<encVars, meant>>,
         Ends
  PROVE  CallsInv'
<1>1. message'.status # "ended"
  BY NotEnded DEF encVars
<1>2. \A c \in Calls : Quiet(c)
  BY QuietIs
<1>3. /\ events' # <<>> /\ Final' = DoneEvent /\ Ending'
      /\ Failing' \/ Len(events') = 1
      /\ Len(events') = 1 => Nameless = <<>>
  BY EndsOrderly, EventTypes DEF Failing, Ending
<1>4. ASSUME Len(events') = 1
      PROVE  \A c \in Calls : Complete(c)'
  <2>1. \A c \in Calls : calls[c] # "pending"
    <3> DEFINE S == {i \in Indexes : IsPending(i)}
    <3>1. IsFiniteSet(S)
      <4>1. IsFiniteSet(Indexes)
        BY FS_Interval, DecoderAssumption DEF Indexes
      <4> QED
        BY <4>1, FS_Subset
    <3>2. Cardinality(S) \in Nat
      BY <3>1, FS_CardinalityType
    <3> DEFINE n == Cardinality(S)
    <3>3. Nameless = [k \in 1..n |-> ErrorEvent] /\ Nameless = <<>>
      BY <1>3, <1>4 DEF Nameless
    <3> HIDE DEF n
    <3>4. DOMAIN Nameless = 1..n /\ DOMAIN Nameless = {}
      BY <3>3
    <3>5. n = 0
      BY <3>2, <3>4 DEF n
    <3>6. S = {}
      BY <3>1, <3>5, FS_EmptySet DEF n
    <3> QED
      BY <3>6, TranslationAssumption DEF IsPending
  <2>2. ASSUME NEW c \in Calls
        PROVE  Complete(c)'
    <3>1. Quiet(c) /\ held[c] = <<>> /\ CallTypes(c)
      BY <1>2, <2>1, CallTypesIn DEF Quiet
    <3>2. given[c] = InBlock(c)
      BY <3>1, JoinNone DEF Quiet, CallTypes
    <3>3. c \in begun <=> tools[c] # Nil
      <4>1. calls[c] \in {"none", "started"}
        BY <2>1, TranslationAssumption DEF MessageInv, TypeInv, DecoderTypeOK
      <4> QED
        BY <3>1, <4>1 DEF Quiet
    <3>4. InBlock(c)' = InBlock(c) /\ (tools'[c] # Nil <=> tools[c] # Nil)
      BY InBlockStays
    <3> QED
      BY <3>2, <3>3, <3>4 DEF Complete, meant
  <2> QED
    BY <2>2
<1> QED
  BY <1>1, <1>3, <1>4 DEF CallsInv

\* Call c is delta d's, which the backend means for it.
LEMMA FollowedCalls ==
  ASSUME MessageInv, CallsInv, state # "closed", events = <<>>,
         NEW d, d.name \in {"no", "yes"}, d.args \in Delivered,
         NEW c \in Calls, Means(d, c), UNCHANGED <<encVars, stopped, convention>>,
         begun' = begun \cup {c}, \A j \in Calls : j # c => given'[j] = given[j],
         last' = c, ~Ending', Followed(c)',
         \A j \in Calls : j # c =>
           calls'[j] = calls[j] /\ held'[j] = held[j] /\ ~Starting(j)' /\ ~DueTo(j)'
  PROVE  CallsInv'
<1>1. message'.status # "ended"
  BY NotEnded DEF encVars
<1>2. /\ stopped = "no" /\ \A j \in Calls : Quiet(j)
      /\ convention = "sequential" => InSequence
  BY QuietIs
<1>3. ASSUME NEW j \in Calls, j # c
      PROVE  Followed(j)'
  <2>1. given'[j] = given[j] /\ (j \in begun' <=> j \in begun)
    BY <1>3 DEF MessageInv, TypeInv, MeantTypeOK
  <2>2. /\ calls'[j] = calls[j] /\ held'[j] = held[j] /\ ~Starting(j)' /\ ~DueTo(j)'
        /\ CallTypes(j) /\ Quiet(j)
    BY <1>2, <1>3, CallTypesIn
  <2> QED
    BY <2>1, <2>2, StillFollowed
<1>4. convention' = "sequential" => InSequence'
  BY <1>2, SequenceKept
<1> QED
  BY <1>1, <1>2, <1>3, <1>4 DEF CallsInv

LEMMA StopsFollowing ==
  ASSUME StopFollowing
  PROVE  Orderly(events') /\ Failing'
BY EmitsError DEF StopFollowing

LEMMA ArgumentsGoOut ==
  ASSUME NEW i \in Indexes, NEW x \in Units,
         Emit(IF x = <<>> THEN <<>> ELSE <<ArgumentsEvent(i, x)>>)
  PROVE  /\ Orderly(events') /\ ~Ending' /\ \A c : ~Starting(c)'
         /\ \A c : c # i => ~DueTo(c)'
         /\ DueTo(i)' <=> x # <<>>
         /\ Due(i)' = x
<1>1. CASE x = <<>>
  <2>1. Emit(<<>>)
    BY <1>1
  <2>2. Orderly(events') /\ ~Ending' /\ \A c : ~Starting(c)' /\ ~DueTo(c)'
    BY <2>1, EmitsNothing
  <2>3. Due(i)' = <<>>
    BY <2>2 DEF Due
  <2> QED
    BY <1>1, <2>2, <2>3
<1>2. CASE x # <<>>
  <2>1. Emit(<<ArgumentsEvent(i, x)>>)
    BY <1>2
  <2> QED
    BY <1>2, <2>1, EmitsArguments
<1> QED
  BY <1>1, <1>2

LEMMA DeltaOrderly ==
  ASSUME DecoderTypeOK, MeantTypeOK, NEW d, d.args \in Delivered, CallDelta(d)
  PROVE  Orderly(events')
<1>0. d.args \in Units
  BY DeliveredIn
<1>1. CASE Emit(<<>>)
  BY <1>1, EmitsNothing
<1>2. CASE StopFollowing
  BY <1>2, StopsFollowing
<1>3. ASSUME NEW i \in Indexes,
             Emit(IF d.args = <<>> THEN <<>> ELSE <<ArgumentsEvent(i, d.args)>>)
      PROVE  Orderly(events')
  BY <1>0, <1>3, ArgumentsGoOut
<1>4. ASSUME NEW i \in Indexes, StartCall(i, d.args)
      PROVE  Orderly(events')
  <2> DEFINE all == held[i] \o d.args
  <2>1. all \in Units
    BY <1>0, TextJoin DEF DecoderTypeOK
  <2>2. Emit(<<CallEvent(i)>> \o (IF all = <<>> THEN <<>> ELSE <<ArgumentsEvent(i, all)>>))
    BY <1>4 DEF StartCall
  <2> HIDE DEF all
  <2> QED
    BY <2>1, <2>2, EmitsCall
<1>5. ASSUME NEW i \in Indexes, HoldCall(i, d.args)
      PROVE  Orderly(events')
  BY <1>5, EmitsNothing DEF HoldCall
<1> QED
  BY <1>1, <1>2, <1>3, <1>4, <1>5 DEF CallDelta

LEMMA DeltaCalls ==
  ASSUME MessageInv, CallsInv, NEW d, d.name \in {"no", "yes"}, d.args \in Delivered,
         GivesCall(d)
  PROVE  CallsInv'
<1> DEFINE x == d.args
<1>0. /\ x \in Units /\ events = <<>> /\ UNCHANGED <<encVars, convention>> /\ CallDelta(d)
      /\ Calls = Indexes /\ None \notin Indexes
      /\ calls \in [Indexes -> {"none", "pending", "started"}] /\ held \in [Indexes -> Units]
      /\ given \in [Calls -> Units]
  BY DeliveredIn, TranslationAssumption, DecoderAssumption
     DEF GivesCall, Takes, MessageInv, TypeInv, DecoderTypeOK, MeantTypeOK, Indexes
<1>1. CASE state = "closed"
  BY <1>0, <1>1, ClosedCalls DEF GivesCall
<1>2. CASE state # "closed"
  <2>1. /\ stopped = "no" /\ \A c \in Calls : Quiet(c) /\ CallTypes(c)
        /\ convention = "sequential" => InSequence
    BY <1>0, <1>2, QuietIs, CallTypesIn
  <2>2. ASSUME StopFollowing PROVE CallsInv'
    BY <1>0, <1>2, <2>2, StopsFollowing, FailedCalls
  <2>3. ASSUME NEW i \in Indexes, NumberOf(d, i), last' = i,
               \/ /\ calls[i] = "started"
                  /\ Emit(IF x = <<>> THEN <<>> ELSE <<ArgumentsEvent(i, x)>>)
                  /\ UNCHANGED <<calls, held, pending, stopped>>
               \/ calls[i] # "started" /\ StartCall(i, x) /\ UNCHANGED stopped
               \/ calls[i] # "started" /\ HoldCall(i, x) /\ UNCHANGED stopped
        PROVE  CallsInv'
    <3>1. ~(convention = "any" /\ NumberOf(d, None))
      BY <1>0, <2>3, NumberIsOne
    <3>2. PICK c \in Calls : /\ Means(d, c) /\ begun' = begun \cup {c}
                             /\ given' = [given EXCEPT ![c] = @ \o d.args]
      BY <1>2, <3>1 DEF GivesCall
    <3>3. c = i
      BY <2>1, <2>3, <3>2, MeantCall
    <3>4. i \in begun' /\ given'[i] = given[i] \o x /\ Quiet(i) /\ CallTypes(i)
      BY <1>0, <2>1, <3>2, <3>3
    <3>5. ASSUME UNCHANGED stopped, ~Ending', Followed(i)',
                 \A j \in Calls : j # i =>
                   calls'[j] = calls[j] /\ held'[j] = held[j] /\ ~Starting(j)' /\ ~DueTo(j)'
          PROVE  CallsInv'
      <4>1. /\ i \in Calls /\ Means(d, i) /\ begun' = begun \cup {i} /\ last' = i
            /\ \A j \in Calls : j # i => given'[j] = given[j]
        BY <1>0, <2>3, <3>2, <3>3
      <4>2. events = <<>> /\ UNCHANGED <<encVars, stopped, convention>>
        BY <1>0, <3>5
      <4> QED
        BY <1>2, <3>5, <4>1, <4>2, FollowedCalls
    <3>6. CASE /\ calls[i] = "started"
               /\ Emit(IF x = <<>> THEN <<>> ELSE <<ArgumentsEvent(i, x)>>)
               /\ UNCHANGED <<calls, held, pending, stopped>>
      <4>1. /\ ~Ending' /\ \A j : ~Starting(j)'
            /\ \A j : j # i => ~DueTo(j)'
            /\ DueTo(i)' <=> x # <<>>
            /\ Due(i)' = x
        BY <1>0, <3>6, ArgumentsGoOut
      <4>2. Followed(i)'
        BY <1>0, <3>4, <3>6, <4>1, StartedFollowed
      <4> QED
        BY <3>5, <3>6, <4>1, <4>2
    <3>7. CASE calls[i] # "started" /\ StartCall(i, x) /\ UNCHANGED stopped
      <4> DEFINE all == held[i] \o x
      <4>1. all \in Units
        BY <1>0, TextJoin
      <4>2. /\ calls' = [calls EXCEPT ![i] = "started"] /\ held' = [held EXCEPT ![i] = <<>>]
            /\ Emit(<<CallEvent(i)>> \o (IF all = <<>> THEN <<>> ELSE <<ArgumentsEvent(i, all)>>))
        BY <3>7 DEF StartCall
      <4> HIDE DEF all
      <4>3. /\ ~Ending' /\ \A j \in Indexes : Starting(j)' <=> j = i
            /\ \A j : DueTo(j)' => j = i
            /\ Due(i)' = all
        BY <4>1, <4>2, EmitsCall
      <4>4. calls'[i] = "started" /\ held'[i] = <<>>
        BY <1>0, <4>2
      <4>5. \A j \in Calls : j # i => calls'[j] = calls[j] /\ held'[j] = held[j]
        BY <1>0, <4>2
      <4>6. Starting(i)' /\ Due(i)' = held[i] \o x
        BY <4>3 DEF all
      <4>7. Followed(i)'
        BY <1>0, <3>4, <3>7, <4>4, <4>6, StartFollowed
      <4> QED
        BY <1>0, <3>5, <3>7, <4>3, <4>5, <4>7
    <3>8. CASE calls[i] # "started" /\ HoldCall(i, x) /\ UNCHANGED stopped
      <4>1. /\ calls' = [calls EXCEPT ![i] = "pending"]
            /\ held' = [held EXCEPT ![i] = @ \o x] /\ Emit(<<>>)
        BY <3>8 DEF HoldCall
      <4>2. ~Ending' /\ \A j : ~Starting(j)' /\ ~DueTo(j)'
        BY <4>1, EmitsNothing
      <4>3. calls'[i] = "pending" /\ held'[i] = held[i] \o x
        BY <1>0, <4>1
      <4>4. \A j \in Calls : j # i => calls'[j] = calls[j] /\ held'[j] = held[j]
        BY <1>0, <4>1
      <4>5. Followed(i)'
        BY <1>0, <3>4, <3>8, <4>2, <4>3, HoldFollowed
      <4> QED
        BY <3>5, <3>8, <4>2, <4>4, <4>5
    <3> QED
      BY <2>3, <3>6, <3>7, <3>8
  <2> HIDE DEF x
  <2> QED
    BY <1>0, <2>1, <2>2, <2>3 DEF CallDelta, x
<1> QED
  BY <1>1, <1>2

LEMMA PayloadCalls ==
  ASSUME MessageInv, CallsInv, Gives \/ InputEnds \/ ConnectionLost
  PROVE  CallsInv' /\ Orderly(events')
<1>0. /\ events = <<>> /\ UNCHANGED <<encVars, meant>>
      /\ UNCHANGED <<encVars, begun, given>> /\ DecoderTypeOK /\ MeantTypeOK
  BY DEF Gives, Takes, InputEnds, ConnectionLost, meant, MessageInv, TypeInv
<1>1. ASSUME Ends PROVE CallsInv' /\ Orderly(events')
  <2>1. state # "closed" => CallsInv'
    BY <1>0, <1>1, EndedCalls
  <2> QED
    BY <1>0, <1>1, <2>1, ClosedCalls, EndsOrderly
<1>2. ASSUME Fails PROVE CallsInv' /\ Orderly(events')
  <2>1. Orderly(events') /\ Failing'
    BY <1>2, OneEventOrderly, EventIn DEF Fails, Failing
  <2>2. state # "closed" => CallsInv'
    BY <1>0, <2>1, FailedCalls
  <2> QED
    BY <1>0, <2>1, <2>2, ClosedCalls
<1>3. ASSUME UNCHANGED <<calls, held, last, pending, stopped>>, Orderly(events'), ~Ending',
             \A c : ~Starting(c)' /\ ~DueTo(c)'
      PROVE  CallsInv' /\ Orderly(events')
  <2>1. state # "closed" => CallsInv'
    BY <1>0, <1>3, PlainCalls
  <2> QED
    BY <1>0, <1>3, <2>1, ClosedCalls
<1>4. ASSUME NEW k \in Texts, Content(k, <<Fresh>>)
      PROVE  CallsInv' /\ Orderly(events')
  <2> DEFINE x == <<Fresh>>
  <2>0. x \in Units
    BY <1>0, DeliveredIn DEF Delivered
  <2> HIDE DEF x
  <2>1. TextEvent(k, x) \in EventSet /\ TextEvent(k, x).type = "text"
    BY <2>0, EventIn, EventTypes
  <2>2. Emit(<<TextEvent(k, x)>>) /\ UNCHANGED <<calls, held, last, pending, stopped>>
    BY <1>4 DEF Content, x
  <2> QED
    BY <1>3, <2>1, <2>2, EmitsPlain
<1>5. ASSUME NEW r \in Reasons, Finishing(r)
      PROVE  CallsInv' /\ Orderly(events')
  <2>1. FinishEvent(r) \in EventSet /\ FinishEvent(r).type = "finish"
    BY EventIn, EventTypes
  <2>2. Emit(<<FinishEvent(r)>>) /\ UNCHANGED <<calls, held, last, pending, stopped>>
    BY <1>5 DEF Finishing
  <2> QED
    BY <1>3, <2>1, <2>2, EmitsPlain
<1>6. ASSUME Other PROVE CallsInv' /\ Orderly(events')
  BY <1>3, <1>6, EmitsNothing DEF Other
<1> QED
  BY <1>1, <1>2, <1>4, <1>5, <1>6 DEF Gives, InputEnds, ConnectionLost

-----------------------------------------------------------------------------
(* Encoding an event keeps them too.                                       *)

LEMMA EventForms ==
  ASSUME NEW e \in EventSet
  PROVE  /\ e.type = "call" => e = CallEvent(e.call)
         /\ e.type = "error" => e = ErrorEvent
BY DEF EventSet, CallEvent, ErrorEvent

LEMMA EventTaken ==
  ASSUME DecoderTypeOK, Orderly(events), Encode
  PROVE  /\ Orderly(events')
         /\ \A f : Among(f, events) <=> (f = Head(events) \/ Among(f, events'))
         /\ events' # <<>> => Final' = Final
         /\ events' = <<>> => Final = Head(events)
         /\ events' = <<>> <=> Len(events) = 1
         /\ Head(events).type \in {"text", "arguments", "finish", "done"} => events' = <<>>
         /\ Head(events).type = "call" /\ events' # <<>> =>
              /\ Final.type = "arguments" /\ Final.call = Head(events).call
              /\ \A f : Among(f, events') => f.type = "arguments"
<1> DEFINE E == events'
           m == Len(events)
           e == Head(events)
<1>1. /\ e = events[1] /\ m \in Nat \ {0} /\ events # <<>>
      /\ E \in Seq(EventSet) /\ Len(E) = m - 1
      /\ \A n \in 1..(m - 1) : E[n] = events[n + 1]
  BY EncodeIs
<1>2. \A n \in 1..m :
        /\ events[n].type \in {"text", "arguments", "finish", "done"} => n = m
        /\ events[n].type = "call" /\ n # m =>
             n + 1 = m /\ events[m].type = "arguments" /\ events[m].call = events[n].call
  BY DEF Orderly
<1> HIDE DEF E, m, e
<1>3. E = <<>> <=> m = 1
  <2>1. E = <<>> => Len(E) = 0
    BY EmptySeq
  <2>2. E # <<>> => Len(E) \in Nat \ {0}
    BY <1>1, EmptySeq
  <2> QED
    BY <1>1, <2>1, <2>2
<1>4. E # <<>> => E[Len(E)] = events[m]
  <2>1. ASSUME E # <<>> PROVE Len(E) \in 1..(m - 1) /\ Len(E) + 1 = m
    BY <1>1, <1>3, <2>1
  <2> QED
    BY <1>1, <2>1
<1>5. E = <<>> => events[m] = e
  BY <1>1, <1>3
<1>6. Orderly(E)
  <2> SUFFICES ASSUME NEW n \in 1..Len(E)
               PROVE  /\ E[n].type \in {"text", "arguments", "finish", "done"} => n = Len(E)
                      /\ E[n].type = "call" /\ n # Len(E) =>
                           /\ n + 1 = Len(E) /\ E[Len(E)].type = "arguments"
                           /\ E[Len(E)].call = E[n].call
    BY DEF Orderly
  <2>1. n \in 1..(m - 1) /\ n + 1 \in 1..m /\ E[n] = events[n + 1] /\ E[Len(E)] = events[m]
    <3>1. n \in 1..(m - 1) /\ n + 1 \in 1..m
      BY <1>1
    <3>2. m # 1
      BY <1>1, <3>1
    <3> QED
      BY <1>1, <1>3, <1>4, <3>1, <3>2
  <2>2. /\ events[n + 1].type \in {"text", "arguments", "finish", "done"} => n + 1 = m
        /\ events[n + 1].type = "call" /\ n + 1 # m =>
             (n + 1) + 1 = m /\ events[m].type = "arguments"
               /\ events[m].call = events[n + 1].call
    BY <1>2, <2>1
  <2> QED
    BY <1>1, <2>1, <2>2
<1>7. ASSUME NEW f
      PROVE  Among(f, events) <=> (f = e \/ Among(f, E))
  <2>1. ASSUME NEW n \in 1..m, events[n] = f
        PROVE  f = e \/ \E k \in 1..Len(E) : E[k] = f
    <3>1. CASE n = 1
      BY <1>1, <2>1, <3>1
    <3>2. CASE n # 1
      <4>1. n - 1 \in 1..(m - 1) /\ n - 1 \in 1..Len(E) /\ (n - 1) + 1 = n
        BY <1>1, <3>2
      <4>2. E[n - 1] = f
        BY <1>1, <2>1, <4>1
      <4> QED
        BY <4>1, <4>2
    <3> QED
      BY <3>1, <3>2
  <2>2. ASSUME NEW k \in 1..Len(E), E[k] = f
        PROVE  \E n \in 1..m : events[n] = f
    <3>1. k \in 1..(m - 1) /\ k + 1 \in 1..m
      BY <1>1
    <3>2. events[k + 1] = f
      BY <1>1, <2>2, <3>1
    <3> QED
      BY <3>1, <3>2
  <2>3. f = e => \E n \in 1..m : events[n] = f
    BY <1>1
  <2> QED
    BY <2>1, <2>2, <2>3 DEF Among, m
<1>8. e.type \in {"text", "arguments", "finish", "done"} => E = <<>>
  BY <1>1, <1>2, <1>3
<1>9. ASSUME e.type = "call", E # <<>>
      PROVE  /\ events[m].type = "arguments" /\ events[m].call = e.call
             /\ \A f : Among(f, E) => f.type = "arguments"
  <2>1. 1 \in 1..m /\ m # 1
    BY <1>1, <1>3, <1>9
  <2>2. 1 + 1 = m /\ events[m].type = "arguments" /\ events[m].call = e.call
    BY <1>1, <1>2, <1>9, <2>1
  <2>3. Len(E) = 1 /\ E[1] = events[m]
    BY <1>1, <2>2
  <2>4. \A f : Among(f, E) => f = events[m]
    BY <2>3 DEF Among
  <2> QED
    BY <2>2, <2>4
<1> QED
  BY <1>3, <1>4, <1>5, <1>6, <1>7, <1>8, <1>9 DEF Final, E, m, e

\* Only a call's name and its arguments change what the blocks of calls hold.
LEMMA EventKeepsText ==
  ASSUME EncoderTypeOK, EncoderInv, NEW e \in EventSet, EncodeEvent(e), state # "closed",
         e.type \notin {"call", "arguments"}, NEW c \in Calls
  PROVE  InBlock(c)' = InBlock(c) /\ tools' = tools
<1> DEFINE B == message.blocks
           C == message'.blocks
<1>0. tools[c] # Nil => tools[c] + 1 \in 1..Len(B) /\ B[tools[c] + 1].kind = "tool"
  BY DEF EncoderInv
<1>1. ASSUME tools' = tools, \A n \in 1..Len(B) : C[n].text = B[n].text
      PROVE  InBlock(c)' = InBlock(c) /\ tools' = tools
  BY <1>0, <1>1 DEF InBlock
<1>2. CASE Start
  <2>1. C = B /\ tools' = tools
    BY <1>2, StartIs, OpensIs DEF EncoderTypeOK
  <2> QED
    BY <1>1, <2>1
<1>3. CASE e.type = "text" /\ Text(e.kind, e.text)
  <2> DEFINE k == e.kind
             x == e.text
  <2>0. k \in Texts /\ x \in Units /\ k \in Kinds
    BY <1>3, EventIs DEF Kinds
  <2>1. Text(k, x)
    BY <1>3
  <2> HIDE DEF k, x
  <2>2. tools' = tools
    BY <2>0, <2>1, TextIs
  <2>3. CASE Adds(k, x)
    BY <1>1, <2>0, <2>2, <2>3, AddsIs
  <2>4. CASE /\ open.kind = k /\ open # NoBlock /\ Grows(Len(B), x)
    <3>1. B[Len(B)].kind = k
      <4>1. state # "closed" => B[Len(B)].kind = open.kind
        BY <2>4 DEF EncoderInv
      <4> QED
        BY <2>4, <4>1
    <3>2. tools[c] # Nil => tools[c] + 1 # Len(B)
      BY <1>0, <2>0, <3>1 DEF Texts
    <3>3. tools[c] # Nil => C[tools[c] + 1].text = B[tools[c] + 1].text
      BY <1>0, <2>0, <2>4, <3>2, GrowsElsewhere
    <3> QED
      BY <2>2, <3>3 DEF InBlock
  <2> QED
    BY <2>0, <2>1, <2>3, <2>4, TextIs
<1>4. CASE e.type = "finish" /\ Finish(e.reason)
  <2>1. UNCHANGED message \/ Shuts("open", message.reason)
    BY <1>4, EventIs, FinishIs DEF EncoderTypeOK
  <2>2. tools' = tools
    BY <1>4, EventIs, FinishIs
  <2> QED
    BY <1>1, <2>1, <2>2, ShutsIs
<1>5. CASE Error
  <2>1. C = B /\ tools' = tools
    BY <1>5, ErrorIs, BreaksIs
  <2> QED
    BY <1>1, <2>1
<1>6. CASE Done
  <2>1. tools' = tools
    BY <1>6, DoneIs
  <2>2. Breaks \/ Shuts("ended", Resolved(stop, CalledTools))
    BY <1>6, DoneIs
  <2> QED
    BY <1>1, <2>1, <2>2, BreaksIs, ShutsIs
<1> QED
  BY <1>2, <1>3, <1>4, <1>5, <1>6 DEF EncodeEvent, Silent

LEMMA EventCloses ==
  ASSUME EncoderTypeOK, EncoderInv, NEW e \in EventSet, EncodeEvent(e), state # "closed"
  PROVE  /\ e.type \in {"error", "done"} => state' = "closed"
         /\ message'.status = "ended" => e.type = "done"
<1>1. EncoderTypeOK' /\ EncoderInv'
  BY EncoderStep
<1>2. e.type \in {"error", "done"} => state' = "closed"
  BY DEF EncodeEvent, Silent, Error, Done
<1>3. ASSUME e.type \notin {"error", "done"} PROVE state' # "closed"
  BY <1>3 DEF EncodeEvent, Silent, Start, Text, CallStart, CallArguments, Finish
<1>4. ASSUME e.type = "error" PROVE message'.status # "ended"
  <2>1. Error
    BY <1>4 DEF EncodeEvent, Silent
  <2> QED
    BY <2>1, ErrorIs, BreaksIs
<1>5. state' # "closed" => message'.status # "ended"
  BY <1>1 DEF EncoderTypeOK, EncoderInv
<1> QED
  BY <1>2, <1>3, <1>4, <1>5

LEMMA NameFollowed ==
  ASSUME EncoderTypeOK, EncoderInv, NEW c \in Calls, CallStart(c),
         \A j \in Calls : Followed(j), Starting(c), ~Starting(c)',
         UNCHANGED <<calls, held, begun, given>>,
         \A j \in Calls : j # c => (Starting(j)' <=> Starting(j)),
         \A j : (DueTo(j)' <=> DueTo(j)) /\ Due(j)' = Due(j),
         NEW d \in Calls
  PROVE  Followed(d)'
<1> DEFINE B == message.blocks
           C == message'.blocks
<1>1. /\ Adds("tool", <<>>) /\ tools' = [tools EXCEPT ![c] = Len(B)]
      /\ <<>> \in Units /\ "tool" \in Kinds
  BY CallIs, NoUnit DEF Kinds
<1>2. /\ Len(B) \in Nat /\ C[Len(B) + 1].text = <<>>
      /\ \A n \in 1..Len(B) : C[n].text = B[n].text
  BY <1>1, AddsIs
<1>3. \A j \in Calls : tools'[j] = IF j = c THEN Len(B) ELSE tools[j]
  BY <1>1 DEF EncoderTypeOK
<1>4. Len(B) # Nil
  BY <1>2, EncoderAssumption
<1>5. tools[c] = Nil /\ calls[c] = "started"
  BY DEF Followed
<1>6. InBlock(d)' = InBlock(d)
  <2>1. CASE d = c
    <3>1. InBlock(d) = <<>>
      BY <1>5, <2>1 DEF InBlock
    <3>2. InBlock(d)' = <<>>
      BY <1>2, <1>3, <1>4, <2>1 DEF InBlock
    <3> QED
      BY <3>1, <3>2
  <2>2. CASE d # c
    <3>1. tools'[d] = tools[d]
      BY <1>3, <2>2
    <3>2. tools[d] # Nil => tools[d] + 1 \in 1..Len(B)
      BY DEF EncoderInv
    <3> QED
      BY <1>2, <3>1, <3>2 DEF InBlock
  <2> QED
    BY <2>1, <2>2
<1>7. given'[d] = (InBlock(d)' \o Due(d)') \o held'[d]
  BY <1>6 DEF Followed
<1>8. CASE d = c
  BY <1>3, <1>4, <1>5, <1>7, <1>8 DEF Followed
<1>9. CASE d # c
  BY <1>3, <1>7, <1>9 DEF Followed
<1> QED
  BY <1>8, <1>9

LEMMA ArgumentsFollowed ==
  ASSUME MessageInv, NEW c \in Calls, NEW x \in Units, CallArguments(c, x),
         \A j \in Calls : Followed(j), UNCHANGED <<calls, held, begun, given>>,
         DueTo(c), Due(c) = x, \A j : ~Starting(j) /\ ~Starting(j)' /\ ~DueTo(j)',
         \A j : j # c => ~DueTo(j),
         NEW d \in Calls
  PROVE  Followed(d)'
<1> DEFINE B == message.blocks
           C == message'.blocks
<1>0. EncoderTypeOK /\ EncoderInv
  BY DEF MessageInv, TypeInv
<1>1. tools[c] # Nil
  BY DEF Followed
<1>2. tools' = tools /\ Grows(tools[c] + 1, x)
  BY <1>0, <1>1, ArgumentsIs
<1>3. Due(d)' = <<>>
  BY DEF Due
<1>4. CASE d = c
  <2>1. C[tools[c] + 1].text = B[tools[c] + 1].text \o x
    BY <1>0, <1>2, GrowsIs
  <2>2. InBlock(d)' = InBlock(d) \o x
    BY <1>1, <1>2, <1>4, <2>1 DEF InBlock
  <2>3. InBlock(d) \in Units
    BY CallTypesIn DEF CallTypes
  <2>4. (InBlock(d) \o x) \o <<>> = InBlock(d) \o x
    BY <2>3, TextJoin, JoinNone
  <2>5. given'[d] = (InBlock(d)' \o Due(d)') \o held'[d]
    BY <1>3, <1>4, <2>2, <2>4 DEF Followed
  <2> QED
    BY <1>2, <2>5 DEF Followed
<1>5. CASE d # c
  <2>1. InBlock(d)' = InBlock(d)
    <3>1. CASE tools[d] = Nil
      BY <1>2, <3>1 DEF InBlock
    <3>2. CASE tools[d] # Nil
      <4>1. tools[d] # tools[c] /\ tools[d] \in Nat /\ tools[c] \in Nat
            /\ tools[d] + 1 \in 1..Len(B)
        BY <1>0, <1>1, <1>5, <3>2 DEF EncoderTypeOK, EncoderInv
      <4>2. tools[d] + 1 # tools[c] + 1
        BY <4>1
      <4>3. C[tools[d] + 1].text = B[tools[d] + 1].text
        BY <1>0, <1>2, <4>1, <4>2, GrowsElsewhere
      <4> QED
        BY <1>2, <4>3 DEF InBlock
    <3> QED
      BY <3>1, <3>2
  <2>2. Due(d) = <<>>
    BY <1>5 DEF Due
  <2>3. given'[d] = (InBlock(d)' \o Due(d)') \o held'[d]
    BY <1>3, <2>1, <2>2 DEF Followed
  <2> QED
    BY <1>2, <2>3 DEF Followed
<1> QED
  BY <1>4, <1>5

\* An event that is about no call.
LEMMA FollowedKept ==
  ASSUME NEW c \in Calls, Followed(c), InBlock(c)' = InBlock(c), tools' = tools,
         Starting(c)' <=> Starting(c), DueTo(c)' <=> DueTo(c), Due(c)' = Due(c),
         UNCHANGED <<calls, held, begun, given>>
  PROVE  Followed(c)'
BY DEF Followed

LEMMA NoneAmongNone == \A f : ~Among(f, <<>>)
<1>1. Len(<<>>) = 0
  BY EmptySeq
<1> QED
  BY <1>1 DEF Among

\* What is left on its way once the first event is taken.
LEMMA OnItsWay ==
  ASSUME DecoderTypeOK, Orderly(events), Encode, Head(events).type \notin {"error", "done"}
  PROVE  /\ Failing' <=> Failing
         /\ Ending' <=> Ending
         /\ Ending => Len(events) # 1
         /\ \A j : Head(events).type # "call" => (Starting(j)' <=> Starting(j))
         /\ \A j : Head(events).type # "arguments" =>
              (DueTo(j)' <=> DueTo(j)) /\ Due(j)' = Due(j)
<1> DEFINE e == Head(events)
<1>0. /\ \A f : Among(f, events) <=> (f = e \/ Among(f, events'))
      /\ events' # <<>> => Final' = Final
      /\ events' = <<>> => Final = e
      /\ events' = <<>> <=> Len(events) = 1
      /\ events # <<>>
  BY EventTaken, EncodeIs
<1>1. e.type \notin {"error", "done"}
  OBVIOUS
<1> HIDE DEF e
<1>2. ErrorEvent # e /\ \A j : e.type # "call" => CallEvent(j) # e
  BY <1>1, EventTypes
<1>3. Failing' <=> Failing
  BY <1>0, <1>2 DEF Failing
<1>4. (Ending' <=> Ending) /\ (Ending => Len(events) # 1)
  BY <1>0, <1>1 DEF Ending
<1>5. \A j : e.type # "call" => (Starting(j)' <=> Starting(j))
  BY <1>0, <1>2 DEF Starting
<1>6. ASSUME NEW j, e.type # "arguments"
      PROVE  (DueTo(j)' <=> DueTo(j)) /\ Due(j)' = Due(j)
  <2>1. CASE events' = <<>>
    BY <1>0, <1>6, <2>1 DEF DueTo, Due
  <2>2. CASE events' # <<>>
    BY <1>0, <2>2 DEF DueTo, Due
  <2> QED
    BY <2>1, <2>2
<1> QED
  BY <1>3, <1>4, <1>5, <1>6 DEF e

LEMMA CallEncoded ==
  ASSUME MessageInv, Orderly(events), Encode, state # "closed", Head(events).type = "call",
         \A c \in Calls : Followed(c), NEW d \in Calls
  PROVE  Followed(d)'
<1> DEFINE e == Head(events)
           c == e.call
<1>0. /\ EncoderTypeOK /\ EncoderInv /\ DecoderTypeOK /\ e \in EventSet /\ e.type = "call"
      /\ EncodeEvent(e) /\ UNCHANGED <<calls, held, begun, given>>
  BY EncodeIs DEF MessageInv, TypeInv, Encode, decVars, meant
<1>1. \A f : Among(f, events) <=> (f = e \/ Among(f, events'))
  BY <1>0, EventTaken
<1>2. ASSUME NEW f, Among(f, events') PROVE f.type = "arguments"
  <2>1. CASE events' = <<>>
    BY <1>2, <2>1, NoneAmongNone
  <2>2. CASE events' # <<>>
    BY <1>0, <1>2, <2>2, EventTaken
  <2> QED
    BY <2>1, <2>2
<1>3. \A j : (DueTo(j)' <=> DueTo(j)) /\ Due(j)' = Due(j)
  BY <1>0, OnItsWay
<1> HIDE DEF e
<1>4. c \in Calls /\ e = CallEvent(c)
  BY <1>0, EventIs, EventForms
<1>5. CallStart(c)
  BY <1>0 DEF EncodeEvent, Silent, Start, Finish, Error, Done
<1> HIDE DEF c
<1>6. \A j : CallEvent(j) = e <=> j = c
  BY <1>4, EventTypes
<1>7. \A j : ~Starting(j)'
  BY <1>2, EventTypes DEF Starting
<1>8. Starting(c) /\ \A j : j # c => ~Starting(j)
  BY <1>1, <1>6, <1>7 DEF Starting
<1> QED
  BY <1>0, <1>3, <1>4, <1>5, <1>7, <1>8, NameFollowed

LEMMA ArgumentsEncoded ==
  ASSUME MessageInv, Orderly(events), Encode, state # "closed",
         Head(events).type = "arguments", \A c \in Calls : Followed(c), NEW d \in Calls
  PROVE  Followed(d)'
<1> DEFINE e == Head(events)
           c == e.call
           x == e.text
<1>0. /\ DecoderTypeOK /\ e \in EventSet /\ e.type = "arguments" /\ events # <<>>
      /\ EncodeEvent(e) /\ UNCHANGED <<calls, held, begun, given>>
  BY EncodeIs DEF MessageInv, TypeInv, Encode, decVars, meant
<1>1. /\ \A f : Among(f, events) <=> (f = e \/ Among(f, events'))
      /\ events' = <<>> /\ Final = e
  BY <1>0, EventTaken
<1> HIDE DEF e
<1>2. c \in Calls /\ x \in Units
  BY <1>0, EventIs
<1>3. CallArguments(c, x)
  BY <1>0 DEF EncodeEvent, Silent, Start, Finish, Error, Done
<1>4. \A j : ~Starting(j) /\ ~Starting(j)' /\ ~DueTo(j)'
  <2>1. \A j : CallEvent(j) # e
    BY <1>0, EventTypes
  <2> QED
    BY <1>1, <2>1, NoneAmongNone DEF Starting, DueTo
<1>5. DueTo(c) /\ Due(c) = x /\ \A j : j # c => ~DueTo(j)
  BY <1>0, <1>1 DEF DueTo, Due
<1> HIDE DEF c, x
<1> QED
  BY <1>0, <1>2, <1>3, <1>4, <1>5, ArgumentsFollowed

LEMMA EncodeCalls ==
  ASSUME MessageInv, CallsInv, Orderly(events), Encode
  PROVE  CallsInv' /\ Orderly(events')
<1> DEFINE e == Head(events)
<1>0. /\ EncoderTypeOK /\ EncoderInv /\ DecoderTypeOK /\ e \in EventSet
      /\ EncodeEvent(e) /\ UNCHANGED <<calls, held, last, stopped, convention, begun, given>>
  BY EncodeIs DEF MessageInv, TypeInv, Encode, decVars, meant
<1>1. /\ Orderly(events')
      /\ \A f : Among(f, events) <=> (f = e \/ Among(f, events'))
      /\ events' = <<>> => Final = e
      /\ events' = <<>> <=> Len(events) = 1
      /\ e.type \in {"text", "arguments", "finish", "done"} => events' = <<>>
  BY <1>0, EventTaken
<1>2. e.type = "call" => \A c \in Calls : (\A j \in Calls : Followed(j)) /\ state # "closed"
                                            => Followed(c)'
  BY CallEncoded
<1>3. e.type = "arguments" =>
        \A c \in Calls : (\A j \in Calls : Followed(j)) /\ state # "closed" => Followed(c)'
  BY ArgumentsEncoded
<1>4. e.type \notin {"error", "done"} =>
        /\ Failing' <=> Failing
        /\ Ending' <=> Ending
        /\ Ending => Len(events) # 1
        /\ \A j : e.type # "call" => (Starting(j)' <=> Starting(j))
        /\ \A j : e.type # "arguments" => (DueTo(j)' <=> DueTo(j)) /\ Due(j)' = Due(j)
  BY <1>0, OnItsWay
<1> HIDE DEF e
<1>5. CASE state = "closed"
  <2>1. UNCHANGED <<encVars, begun, given>>
    BY <1>0, <1>5 DEF EncodeEvent, Silent, Start, Text, CallStart, CallArguments, Finish,
                      Error, Done
  <2> QED
    BY <1>1, <1>5, <2>1, ClosedCalls
<1>6. CASE state # "closed"
  <2>1. /\ e.type \in {"error", "done"} => state' = "closed"
        /\ message'.status = "ended" => e.type = "done"
    BY <1>0, <1>6, EventCloses
  <2>2. ASSUME e.type \notin {"call", "arguments"}, NEW c \in Calls
        PROVE  InBlock(c)' = InBlock(c) /\ tools' = tools
    BY <1>0, <1>6, <2>2, EventKeepsText
  <2>3. ASSUME message'.status = "ended", NEW c \in Calls
        PROVE  Complete(c)'
    <3>1. e.type = "done" /\ Final = e /\ events' = <<>> /\ events # <<>>
      BY <1>0, <1>1, <2>1, <2>3, EncodeIs
    <3>2. Ending /\ ~Failing
      BY <1>1, <3>1, EventTypes, NoneAmongNone DEF Ending, Failing
    <3>3. Complete(c)
      BY <1>6, <3>2 DEF CallsInv
    <3> QED
      BY <1>0, <2>2, <3>1, <3>3 DEF Complete
  <2>4. ASSUME state' # "closed", ~Failing'
        PROVE  ~Ending /\ ~Ending' /\ ~Failing /\ e.type \notin {"error", "done"}
    BY <1>4, <1>6, <2>1, <2>4 DEF CallsInv
  <2>5. ASSUME state' # "closed", ~Failing', ~Ending'
        PROVE  /\ stopped' = "no" /\ \A c \in Calls : Followed(c)'
               /\ convention' = "sequential" => InSequence'
    <3>1. /\ stopped = "no" /\ \A c \in Calls : Followed(c)
          /\ convention = "sequential" => InSequence
      BY <1>6, <2>4, <2>5 DEF CallsInv
    <3>2. CASE e.type \in {"call", "arguments"}
      BY <1>0, <1>2, <1>3, <1>6, <3>1, <3>2 DEF InSequence
    <3>3. CASE e.type \notin {"call", "arguments"}
      <4>1. \A c \in Calls : Followed(c)'
        BY <1>0, <1>4, <2>2, <2>4, <2>5, <3>1, <3>3, FollowedKept
      <4> QED
        BY <1>0, <3>1, <4>1 DEF InSequence
    <3> QED
      BY <3>2, <3>3
  <2>6. CallsInv'
    BY <2>3, <2>4, <2>5 DEF CallsInv
  <2> QED
    BY <1>1, <2>6
<1> QED
  BY <1>5, <1>6

WholeInv == MessageInv /\ CallsInv /\ Orderly(events)

LEMMA WholeInit == Init => WholeInv
<1> SUFFICES ASSUME Init PROVE WholeInv
  OBVIOUS
<1>1. MessageInv /\ events = <<>> /\ message.status = "none"
  BY MessageInit DEF Init, DecoderInit, EncoderInit, Message
<1>2. \A c \in Calls : Followed(c)
  <2> SUFFICES ASSUME NEW c \in Calls PROVE Followed(c)
    OBVIOUS
  <2>1. /\ begun = {} /\ calls[c] = "none" /\ tools[c] = Nil /\ held[c] = <<>>
        /\ given[c] = <<>>
    BY TranslationAssumption DEF Init, DecoderInit, EncoderInit
  <2>2. ~Starting(c) /\ ~DueTo(c) /\ Due(c) = <<>> /\ InBlock(c) = <<>>
    BY <1>1, <2>1, NothingOnItsWay DEF InBlock
  <2>3. (<<>> \o <<>>) \o <<>> = <<>>
    BY NoUnit, JoinNone
  <2> QED
    BY <2>1, <2>2, <2>3 DEF Followed
<1>3. InSequence
  <2>1. begun = 0..(0 - 1) /\ last = None /\ 0 \in 0..(LastIndex + 1)
    BY DecoderAssumption DEF Init, DecoderInit
  <2> QED
    BY <2>1 DEF InSequence
<1>4. stopped = "no" /\ ~Failing /\ ~Ending
  BY <1>1, NothingOnItsWay DEF Init, DecoderInit
<1> QED
  BY <1>1, <1>2, <1>3, <1>4, NoEventOrderly DEF WholeInv, CallsInv

LEMMA WholeStep == WholeInv /\ [Next]_vars => WholeInv'
<1> SUFFICES ASSUME WholeInv, [Next]_vars PROVE WholeInv'
  OBVIOUS
<1>0. MessageInv /\ CallsInv /\ Orderly(events) /\ MessageInv'
  BY MessageStep DEF WholeInv
<1>1. CASE Gives \/ InputEnds \/ ConnectionLost
  BY <1>0, <1>1, PayloadCalls DEF WholeInv
<1>2. CASE Encode
  BY <1>0, <1>2, EncodeCalls DEF WholeInv
<1>3. ASSUME NEW i \in Indexes \cup {None}, NEW id \in {"no", "yes"},
             NEW name \in {"no", "yes"}, NEW x \in Delivered,
             GivesCall([index |-> i, id |-> id, name |-> name, args |-> x])
      PROVE  WholeInv'
  <2> DEFINE d == [index |-> i, id |-> id, name |-> name, args |-> x]
  <2>1. d.args \in Delivered /\ d.name \in {"no", "yes"} /\ GivesCall(d)
    BY <1>3
  <2> HIDE DEF d
  <2>2. CallDelta(d) /\ DecoderTypeOK /\ MeantTypeOK
    BY <1>0, <2>1 DEF GivesCall, MessageInv, TypeInv
  <2>3. Orderly(events')
    BY <2>1, <2>2, DeltaOrderly
  <2>4. CallsInv'
    BY <1>0, <2>1, DeltaCalls
  <2> QED
    BY <1>0, <2>3, <2>4 DEF WholeInv
<1>4. CASE UNCHANGED vars
  <2>1. UNCHANGED <<state, message, tools, events, stopped, calls, held, last, convention,
                    begun, given>>
    BY <1>4 DEF vars, decVars, encVars, meant
  <2>2. CallsInv' /\ Orderly(events')
    BY <1>0, <2>1 DEF CallsInv, Orderly, Failing, Among, Ending, Final, Followed, Starting,
                      DueTo, Due, InBlock, Complete, InSequence
  <2> QED
    BY <1>0, <2>2 DEF WholeInv
<1> QED
  BY <1>1, <1>2, <1>3, <1>4, NextIs

\* A message that ends well has every call the backend began and all it gave each: what
\* ChunkDecoder holds until a name comes, what is on its way and what a block has are
\* together what was given, for calls that are numbered or come one after the other, and
\* past MAX_CALLS or MAX_PENDING_ARGUMENTS the message does not end well.
THEOREM CallsCorrect == Spec => []CallsArriveWhole
<1>1. WholeInv => CallsArriveWhole
  <2> SUFFICES ASSUME WholeInv, message.status = "ended", NEW c \in Calls
               PROVE  /\ c \in begun <=> tools[c] # Nil
                      /\ c \in begun => message.blocks[tools[c] + 1].text = given[c]
    BY DEF CallsArriveWhole
  <2>1. Complete(c)
    BY DEF WholeInv, CallsInv
  <2> QED
    BY <2>1 DEF Complete, InBlock
<1> QED
  BY <1>1, WholeInit, WholeStep, PTL DEF Spec
=============================================================================
