---------------------------- MODULE RoutingProofs ----------------------------
(***************************************************************************)
(* Proofs about routing, for any callers, names, lists, number of live     *)
(* backends and clock.                                                     *)
(***************************************************************************)
EXTENDS Routing, TLAPS

\* Every action of Next as one disjunction, so a step proof has one case each.
LEMMA StepCases ==
  ASSUME [Next]_vars
  PROVE  \/ Tick
         \/ \E c \in Callers, a \in Asks : Arrive(c, a)
         \/ \E c \in Callers, b \in Backends :
              \/ Serve(c, b) \/ StartPull(c, b) \/ Cancel(c, b)
              \/ \E models \in SUBSET Names : EndPull(c, b, models)
         \/ UNCHANGED vars
  BY RoutingAssumption DEF Next, PullFails, PullAnswers

\* What a caller's walk changes, and that it changes nothing of the others.
LEMMA WalksShape ==
  ASSUME TypeOK, NEW c \in Callers, NEW b \in Backends, NEW models, Walks(c, b, models),
         at[c] = b
  PROVE  /\ queue' \in [Backends -> Seq(Callers)]
         /\ pc' \in [Callers -> {"away", "waiting", "pulling", "routed"}]
         /\ at' \in [Callers -> Nat]
         /\ answer' \in [Callers -> {"none", "config", "live", "default", "unknown", "listed"}]
         /\ lacking' \in [Callers -> SUBSET Backends]
         /\ \A d \in Callers \ {c} : /\ pc'[d] = pc[d] /\ at'[d] = at[d]
                                     /\ answer'[d] = answer[d] /\ lacking'[d] = lacking[d]
         /\ \/ /\ pc'[c] = "routed" /\ answer'[c] = "live"
               /\ at'[c] = b /\ lacking'[c] = lacking[c]
            \/ /\ pc'[c] = "waiting" /\ answer'[c] = answer[c]
               /\ b < Lives /\ at'[c] = b + 1 /\ lacking'[c] = lacking[c] \cup {b}
            \/ /\ pc'[c] = "routed" /\ answer'[c] = Unlisted(ask[c])
               /\ b = Lives /\ lacking'[c] = lacking[c] \cup {b}
<1> USE RoutingAssumption
<1>1. queue[b] \in Seq(Callers) /\ queue[b] # <<>> /\ b \in Nat
  BY DEF Walks, Holds, TypeOK, Backends
<1>2. Tail(queue[b]) \in Seq(Callers)
  BY <1>1
<1>3. CASE Found(c, b, models)
  <2>1. /\ queue' = [queue EXCEPT ![b] = Tail(queue[b])]
        /\ pc' = [pc EXCEPT ![c] = "routed"]
        /\ answer' = [answer EXCEPT ![c] = "live"]
        /\ at' = at /\ lacking' = lacking
    BY <1>3 DEF Walks
  <2>2. queue' \in [Backends -> Seq(Callers)]
    BY <1>2, <2>1 DEF TypeOK
  <2> QED BY <2>1, <2>2 DEF TypeOK
<1>4. CASE ~Found(c, b, models) /\ b < Lives
  <2>1. b + 1 \in Backends /\ b + 1 # b /\ b + 1 \in Nat
    BY <1>1, <1>4 DEF Backends
  <2>2. queue[b + 1] \in Seq(Callers)
    BY <2>1 DEF TypeOK
  <2>3. Append(queue[b + 1], c) \in Seq(Callers)
    BY <2>2
  <2>4. /\ queue' = [queue EXCEPT ![b] = Tail(queue[b]), ![b + 1] = Append(queue[b + 1], c)]
        /\ pc' = [pc EXCEPT ![c] = "waiting"]
        /\ at' = [at EXCEPT ![c] = b + 1]
        /\ lacking' = [lacking EXCEPT ![c] = lacking[c] \cup {b}]
        /\ answer' = answer
    <3>1. b # Lives /\ ask[c].name \notin models
      BY <1>1, <1>4 DEF Found
    <3> QED BY <1>4, <3>1, Zenon DEF Walks
  <2>5. queue' \in [Backends -> Seq(Callers)]
    BY <1>2, <2>1, <2>3, <2>4 DEF TypeOK
  <2>6. /\ pc' \in [Callers -> {"away", "waiting", "pulling", "routed"}]
        /\ at' \in [Callers -> Nat]
        /\ lacking' \in [Callers -> SUBSET Backends]
    BY <2>1, <2>4 DEF TypeOK
  <2>7. \A d \in Callers \ {c} : /\ pc'[d] = pc[d] /\ at'[d] = at[d]
                                 /\ answer'[d] = answer[d] /\ lacking'[d] = lacking[d]
    BY <2>4 DEF TypeOK
  <2>8. /\ pc'[c] = "waiting" /\ answer'[c] = answer[c]
        /\ at'[c] = b + 1 /\ lacking'[c] = lacking[c] \cup {b}
    BY <2>4 DEF TypeOK
  <2>9. answer' \in [Callers -> {"none", "config", "live", "default", "unknown", "listed"}]
    BY <2>4 DEF TypeOK
  <2> QED BY <1>4, <2>5, <2>6, <2>7, <2>8, <2>9
<1>5. CASE ~Found(c, b, models) /\ b = Lives
  <2>1. Unlisted(ask[c]) \in {"listed", "default", "unknown"}
    BY DEF Unlisted
  <2>2. /\ queue' = [queue EXCEPT ![b] = Tail(queue[b])]
        /\ pc' = [pc EXCEPT ![c] = "routed"]
        /\ answer' = [answer EXCEPT ![c] = Unlisted(ask[c])]
        /\ lacking' = [lacking EXCEPT ![c] = lacking[c] \cup {b}]
        /\ at' = at
    BY <1>1, <1>5 DEF Walks, Found
  <2>3. queue' \in [Backends -> Seq(Callers)]
    BY <1>2, <2>2 DEF TypeOK
  <2>4. /\ pc' \in [Callers -> {"away", "waiting", "pulling", "routed"}]
        /\ at' \in [Callers -> Nat]
        /\ answer' \in [Callers -> {"none", "config", "live", "default", "unknown", "listed"}]
        /\ lacking' \in [Callers -> SUBSET Backends]
    BY <2>1, <2>2 DEF TypeOK
  <2>5. \A d \in Callers \ {c} : /\ pc'[d] = pc[d] /\ at'[d] = at[d]
                                 /\ answer'[d] = answer[d] /\ lacking'[d] = lacking[d]
    BY <2>2 DEF TypeOK
  <2>6. pc'[c] = "routed" /\ answer'[c] = Unlisted(ask[c]) /\ lacking'[c] = lacking[c] \cup {b}
    BY <2>2 DEF TypeOK
  <2>7. at' \in [Callers -> Nat]
    BY <2>2 DEF TypeOK
  <2> QED BY <1>5, <2>3, <2>4, <2>5, <2>6, <2>7
<1>6. b <= Lives
  BY DEF Backends
<1> QED BY <1>1, <1>3, <1>4, <1>5, <1>6

\* The queue stays a sequence of callers when a waiter leaves it.
LEMMA LeaveType ==
  ASSUME TypeOK, NEW c \in Callers, NEW b \in Backends, Leave(c, b)
  PROVE  queue' \in [Backends -> Seq(Callers)]
<1> DEFINE q == queue[b]
<1>1. q \in Seq(Callers)
  BY DEF TypeOK
<1>2. PICK i \in 1..Len(q) :
        queue' = [queue EXCEPT ![b] = [j \in 1..(Len(q) - 1) |-> IF j < i THEN q[j] ELSE q[j + 1]]]
  BY DEF Leave, TypeOK
<1>3. Len(q) \in Nat /\ Len(q) >= 1
  BY <1>1, <1>2
<1>4. [j \in 1..(Len(q) - 1) |-> IF j < i THEN q[j] ELSE q[j + 1]] \in Seq(Callers)
  <2>1. \A j \in 1..(Len(q) - 1) : (IF j < i THEN q[j] ELSE q[j + 1]) \in Callers
    BY <1>1, <1>3
  <2> QED BY <1>3, <2>1
<1> HIDE DEF q
<1> QED BY <1>2, <1>4 DEF TypeOK

\* The entry a pull leaves.
Pulled(c, b, models) ==
  [at |-> now, auth |-> KeyFor(b, ask[c]), complete |-> FilledBy(b, ask[c]), models |-> models]

LEMMA PulledType ==
  ASSUME TypeOK, NEW c \in Callers, NEW b \in Backends, NEW models \in SUBSET Names,
         ask[c] \in AskRec
  PROVE  /\ Pulled(c, b, models) \in Entries
         /\ Pulled(c, b, models).at = now
         /\ Pulled(c, b, models).auth = KeyFor(b, ask[c])
         /\ Pulled(c, b, models).complete = FilledBy(b, ask[c])
<1>1. KeyFor(b, ask[c]) \in Auths \cup {Own}
  BY DEF KeyFor, AskRec
<1>2. FilledBy(b, ask[c]) \in {"yes", "no"}
  BY DEF FilledBy, AskRec
<1> QED BY <1>1, <1>2 DEF Pulled, Entries, TypeOK

-----------------------------------------------------------------------------
(* The inductive invariant.                                                *)

\* What is known of a request on its walk.
Walking(c) == pc[c] \in {"waiting", "pulling"}
WalkInv ==
  \A c \in Callers :
    Walking(c) =>
      /\ ask[c] \in AskRec /\ ask[c].name \notin Configured
      /\ at[c] \in Backends /\ lacking[c] = 1..(at[c] - 1)
      /\ answer[c] = "none"

\* A pull is never older than its deadline, a list no older than its pull.
AgeInv ==
  /\ \A c \in Callers : pc[c] = "pulling" => since[c] <= now /\ now - since[c] <= PullTimeout
  /\ \A b \in Backends :
       entry[b] # None =>
         /\ entry[b].at = ended[b] /\ ended[b] <= now
         /\ began[b] <= ended[b] /\ ended[b] - began[b] <= PullTimeout

\* Who shares a pull is still on its way and fits the list it left.
SharingInv ==
  \A b \in Backends : \A c \in sharing[b] :
    /\ Walking(c) /\ at[c] = b
    /\ entry[b] # None /\ Fits(b, ask[c], entry[b])

IInv == TypeOK /\ WalkInv /\ RoutedInOrder /\ AgeInv /\ SharingInv

\* A walk of c, which had not routed it before, keeps what is known of requests.
LEMMA WalksInv ==
  ASSUME TypeOK, WalkInv, RoutedInOrder, NEW c \in Callers, NEW b \in Backends, NEW models,
         Walking(c), at[c] = b, Walks(c, b, models), ask' = ask
  PROVE  WalkInv' /\ RoutedInOrder'
<1> USE RoutingAssumption
<1>0. /\ ask[c] \in AskRec /\ ask[c].name \notin Configured
      /\ lacking[c] = 1..(b - 1) /\ answer[c] = "none" /\ b \in 1..Lives
  BY DEF WalkInv, Backends
<1>1. 1..((b + 1) - 1) = lacking[c] \cup {b}
  BY <1>0
<1>2. /\ \A d \in Callers \ {c} : /\ pc'[d] = pc[d] /\ at'[d] = at[d]
                                  /\ answer'[d] = answer[d] /\ lacking'[d] = lacking[d]
      /\ \/ /\ pc'[c] = "routed" /\ answer'[c] = "live"
            /\ at'[c] = b /\ lacking'[c] = lacking[c]
         \/ /\ pc'[c] = "waiting" /\ answer'[c] = answer[c]
            /\ b < Lives /\ at'[c] = b + 1 /\ lacking'[c] = lacking[c] \cup {b}
         \/ /\ pc'[c] = "routed" /\ answer'[c] = Unlisted(ask[c])
            /\ b = Lives /\ lacking'[c] = lacking[c] \cup {b}
  BY WalksShape
<1>3. WalkInv'
  <2> SUFFICES ASSUME NEW d \in Callers, Walking(d)'
               PROVE  /\ ask[d] \in AskRec /\ ask[d].name \notin Configured
                      /\ at'[d] \in Backends /\ lacking'[d] = 1..(at'[d] - 1)
                      /\ answer'[d] = "none"
    BY DEF WalkInv
  <2>1. CASE d # c
    BY <1>2, <2>1 DEF WalkInv, Walking
  <2>2. CASE d = c
    <3>1. pc'[c] = "waiting" /\ b < Lives /\ at'[c] = b + 1 /\ answer'[c] = "none"
          /\ lacking'[c] = lacking[c] \cup {b}
      BY <1>0, <1>2, <2>2 DEF Walking
    <3> QED BY <1>0, <1>1, <2>2, <3>1 DEF Backends
  <2> QED BY <2>1, <2>2
<1>4. RoutedInOrder'
  <2> SUFFICES ASSUME NEW d \in Callers
               PROVE  /\ answer'[d] = "config" => ask[d].name \in Configured
                      /\ answer'[d] = "live" /\ pc'[d] = "routed" =>
                           ask[d].name \notin Configured /\ lacking'[d] = 1..(at'[d] - 1)
                      /\ answer'[d] \in {"default", "unknown"} /\ pc'[d] = "routed" =>
                           ask[d].name \notin Configured /\ lacking'[d] = Backends
    BY DEF RoutedInOrder
  <2>1. CASE d # c
    BY <1>2, <2>1 DEF RoutedInOrder
  <2>2. CASE d = c
    <3>1. Unlisted(ask[c]) \in {"listed", "default", "unknown"}
      BY DEF Unlisted
    <3>2. b = Lives => lacking[c] \cup {b} = Backends
      BY <1>0 DEF Backends
    <3> QED BY <1>0, <1>2, <2>2, <3>1, <3>2
  <2> QED BY <2>1, <2>2
<1> QED BY <1>3, <1>4

LEMMA StepArrive ==
  ASSUME IInv, NEW c \in Callers, NEW a \in Asks, Arrive(c, a)
  PROVE  IInv'
<1> USE RoutingAssumption
<1>1. TypeOK /\ a \in AskRec
  BY DEF IInv
<1>2. ~Walking(c)
  BY DEF Arrive, Walking
<1>3. queue' \in [Backends -> Seq(Callers)]
  <2>1. CASE queue' = queue
    BY <1>1, <2>1 DEF TypeOK
  <2>2. CASE Lives > 0 /\ queue' = [queue EXCEPT ![1] = Append(queue[1], c)]
    <3>1. 1 \in Backends
      BY <2>2 DEF Backends
    <3>2. Append(queue[1], c) \in Seq(Callers)
      BY <1>1, <3>1 DEF TypeOK
    <3> QED BY <1>1, <2>2, <3>1, <3>2 DEF TypeOK
  <2> QED BY <2>1, <2>2 DEF Arrive
<1>4. /\ pc' \in [Callers -> {"away", "waiting", "pulling", "routed"}]
      /\ at' \in [Callers -> Nat]
      /\ answer' \in [Callers -> {"none", "config", "live", "default", "unknown", "listed"}]
  <2>1. Unlisted(a) \in {"listed", "default", "unknown"}
    BY DEF Unlisted
  <2>2. pc' \in [Callers -> {"away", "waiting", "pulling", "routed"}]
    BY <1>1 DEF Arrive, TypeOK
  <2>3. at' \in [Callers -> Nat]
    BY <1>1, SMTT(30) DEF Arrive, TypeOK
  <2>4. answer' \in [Callers -> {"none", "config", "live", "default", "unknown", "listed"}]
    BY <1>1, <2>1 DEF Arrive, TypeOK
  <2> QED BY <2>2, <2>3, <2>4
<1>5. /\ ask' = [ask EXCEPT ![c] = a]
      /\ lacking' = [lacking EXCEPT ![c] = {}]
      /\ UNCHANGED <<now, entry, since, began, ended, sharing>>
  BY DEF Arrive
<1>6. TypeOK'
  BY <1>1, <1>3, <1>4, <1>5 DEF TypeOK
<1>7. \A d \in Callers \ {c} : /\ pc'[d] = pc[d] /\ at'[d] = at[d] /\ ask'[d] = ask[d]
                               /\ answer'[d] = answer[d] /\ lacking'[d] = lacking[d]
  BY <1>1 DEF Arrive, TypeOK
<1>8. /\ ask'[c] = a /\ lacking'[c] = {}
      /\ \/ pc'[c] = "routed" /\ answer'[c] = "config" /\ a.name \in Configured
         \/ pc'[c] = "routed" /\ answer'[c] = Unlisted(a) /\ a.name \notin Configured /\ Lives = 0
         \/ /\ pc'[c] = "waiting" /\ answer'[c] = "none" /\ a.name \notin Configured
            /\ Lives > 0 /\ at'[c] = 1
  BY <1>1 DEF Arrive, TypeOK
<1>9. WalkInv'
  <2>1. Lives > 0 => 1 \in Backends /\ 1..(1 - 1) = {}
    BY DEF Backends
  <2> QED BY <1>1, <1>7, <1>8, <2>1 DEF IInv, WalkInv, Walking
<1>10. RoutedInOrder'
  <2>1. Unlisted(a) \in {"listed", "default", "unknown"}
    BY DEF Unlisted
  <2>2. Lives = 0 => Backends = {}
    BY DEF Backends
  <2> QED BY <1>7, <1>8, <2>1, <2>2 DEF IInv, RoutedInOrder
<1>11. AgeInv'
  BY <1>5, <1>7, <1>8 DEF IInv, AgeInv
<1>12. SharingInv'
  BY <1>1, <1>2, <1>5, <1>7 DEF IInv, SharingInv, Walking, TypeOK, Fits, KeyFor, FilledBy
<1> QED BY <1>6, <1>9, <1>10, <1>11, <1>12 DEF IInv

LEMMA StepServe ==
  ASSUME IInv, NEW c \in Callers, NEW b \in Backends, Serve(c, b)
  PROVE  IInv'
<1> USE RoutingAssumption
<1>1. TypeOK /\ Walking(c) /\ at[c] = b /\ Walks(c, b, entry[b].models)
  BY DEF IInv, Serve, Walking
<1>2. UNCHANGED <<now, entry, ask, since, began, ended>>
      /\ sharing' = [sharing EXCEPT ![b] = sharing[b] \ {c}]
  BY DEF Serve
<1>3. WalkInv' /\ RoutedInOrder'
  BY <1>1, <1>2, WalksInv DEF IInv
<1>4. \A d \in Callers \ {c} : pc'[d] = pc[d] /\ at'[d] = at[d]
  BY <1>1, WalksShape
<1>5. pc'[c] # "pulling"
  BY <1>1, WalksShape
<1>6. TypeOK'
  <2>1. /\ queue' \in [Backends -> Seq(Callers)]
        /\ pc' \in [Callers -> {"away", "waiting", "pulling", "routed"}]
        /\ at' \in [Callers -> Nat]
        /\ answer' \in [Callers -> {"none", "config", "live", "default", "unknown", "listed"}]
        /\ lacking' \in [Callers -> SUBSET Backends]
    BY <1>1, WalksShape
  <2>2. sharing' \in [Backends -> SUBSET Callers]
    BY <1>1, <1>2 DEF TypeOK
  <2> QED BY <1>1, <1>2, <2>1, <2>2 DEF TypeOK
<1>7. AgeInv'
  BY <1>2, <1>4, <1>5 DEF IInv, AgeInv
<1>8. SharingInv'
  <2> SUFFICES ASSUME NEW x \in Backends, NEW d \in sharing'[x]
               PROVE  /\ Walking(d)' /\ at'[d] = x
                      /\ entry'[x] # None /\ Fits(x, ask'[d], entry'[x])
    BY <1>2 DEF SharingInv, Fits, KeyFor, FilledBy
  <2>1. d \in sharing[x] /\ d \in Callers
    BY <1>1, <1>2 DEF TypeOK
  <2>2. Walking(d) /\ at[d] = x /\ entry[x] # None /\ Fits(x, ask[d], entry[x])
    BY <2>1 DEF IInv, SharingInv
  <2>3. d # c
    BY <1>1, <1>2, <2>2 DEF TypeOK
  <2> QED BY <1>2, <1>4, <2>1, <2>2, <2>3 DEF Walking
<1> QED BY <1>3, <1>6, <1>7, <1>8 DEF IInv

LEMMA StepStartPull ==
  ASSUME IInv, NEW c \in Callers, NEW b \in Backends, StartPull(c, b)
  PROVE  IInv'
<1> USE RoutingAssumption
<1>1. TypeOK /\ pc[c] = "waiting"
  BY DEF IInv, StartPull
<1>2. /\ pc' = [pc EXCEPT ![c] = "pulling"]
      /\ since' = [since EXCEPT ![c] = now]
      /\ UNCHANGED <<now, entry, queue, ask, at, answer, began, ended, lacking, sharing>>
  BY DEF StartPull, history
<1>3. TypeOK'
  BY <1>1, <1>2 DEF TypeOK
<1>4. \A d \in Callers : Walking(d)' <=> Walking(d)
  BY <1>1, <1>2 DEF Walking, TypeOK
<1>5. WalkInv'
  BY <1>2, <1>4 DEF IInv, WalkInv
<1>6. RoutedInOrder'
  <2>1. \A d \in Callers : pc'[d] = "routed" => pc[d] = "routed"
    BY <1>1, <1>2 DEF TypeOK
  <2> QED BY <1>2, <2>1 DEF IInv, RoutedInOrder
<1>7. AgeInv'
  <2>1. \A d \in Callers : pc'[d] = "pulling" =>
          since'[d] = now \/ (pc[d] = "pulling" /\ since'[d] = since[d])
    BY <1>1, <1>2 DEF TypeOK
  <2> QED BY <1>1, <1>2, <2>1 DEF IInv, AgeInv, TypeOK
<1>8. SharingInv'
  BY <1>1, <1>2, <1>4 DEF IInv, SharingInv, TypeOK, Fits, KeyFor, FilledBy
<1> QED BY <1>3, <1>5, <1>6, <1>7, <1>8 DEF IInv

LEMMA StepEndPull ==
  ASSUME IInv, NEW c \in Callers, NEW b \in Backends, NEW models \in SUBSET Names,
         EndPull(c, b, models)
  PROVE  IInv'
<1> DEFINE e == Pulled(c, b, models)
<1> USE RoutingAssumption
<1>1. TypeOK /\ Walking(c) /\ pc[c] = "pulling" /\ at[c] = b /\ Walks(c, b, models)
  BY DEF IInv, EndPull, Walking
<1>2. /\ entry' = [entry EXCEPT ![b] = e]
      /\ began' = [began EXCEPT ![b] = since[c]]
      /\ ended' = [ended EXCEPT ![b] = now]
      /\ since' = [since EXCEPT ![c] = 0]
      /\ sharing' = [sharing EXCEPT ![b] =
           {d \in Callers : d # c /\ pc[d] = "waiting" /\ at[d] = b /\ Fits(b, ask[d], e)}]
      /\ now' = now /\ ask' = ask
  BY DEF EndPull, Ended, Pulled
<1>3. ask[c] \in AskRec
  BY <1>1 DEF IInv, WalkInv
<1>4. e \in Entries /\ e.at = now
  BY <1>1, <1>3, PulledType
<1> HIDE DEF e
<1>5. WalkInv' /\ RoutedInOrder'
  BY <1>1, <1>2, WalksInv DEF IInv
<1>6. \A d \in Callers \ {c} : pc'[d] = pc[d] /\ at'[d] = at[d]
  BY <1>1, WalksShape
<1>7. pc'[c] # "pulling"
  BY <1>1, WalksShape
<1>8. TypeOK'
  <2>1. /\ queue' \in [Backends -> Seq(Callers)]
        /\ pc' \in [Callers -> {"away", "waiting", "pulling", "routed"}]
        /\ at' \in [Callers -> Nat]
        /\ answer' \in [Callers -> {"none", "config", "live", "default", "unknown", "listed"}]
        /\ lacking' \in [Callers -> SUBSET Backends]
    BY <1>1, WalksShape
  <2>2. sharing' \in [Backends -> SUBSET Callers]
    BY <1>1, <1>2 DEF TypeOK
  <2>3. entry' \in [Backends -> Entries \cup {None}]
    BY <1>1, <1>2, <1>4 DEF TypeOK
  <2>4. /\ began' \in [Backends -> Nat] /\ ended' \in [Backends -> Nat]
        /\ since' \in [Callers -> Nat] /\ now' \in Nat
        /\ ask' \in [Callers -> Asks \cup {None}]
    BY <1>1, <1>2 DEF TypeOK
  <2> QED BY <2>1, <2>2, <2>3, <2>4 DEF TypeOK
<1>9. AgeInv'
  <2>1. since[c] <= now /\ now - since[c] <= PullTimeout
    BY <1>1 DEF IInv, AgeInv
  <2>2. ASSUME NEW d \in Callers, pc'[d] = "pulling"
        PROVE  since'[d] <= now' /\ now' - since'[d] <= PullTimeout
    <3>1. d # c
      BY <1>7, <2>2
    <3>2. pc[d] = "pulling" /\ since'[d] = since[d]
      BY <1>1, <1>2, <1>6, <2>2, <3>1 DEF TypeOK
    <3> QED BY <1>2, <3>2 DEF IInv, AgeInv
  <2>3. ASSUME NEW x \in Backends, entry'[x] # None
        PROVE  /\ entry'[x].at = ended'[x] /\ ended'[x] <= now'
               /\ began'[x] <= ended'[x] /\ ended'[x] - began'[x] <= PullTimeout
    <3>1. CASE x = b
      <4>1. entry'[x] = e /\ ended'[x] = now /\ began'[x] = since[c]
        BY <1>1, <1>2, <3>1 DEF TypeOK
      <4>2. now \in Nat
        BY <1>1 DEF TypeOK
      <4> QED BY <1>2, <1>4, <2>1, <4>1, <4>2
    <3>2. CASE x # b
      <4>1. entry'[x] = entry[x] /\ ended'[x] = ended[x] /\ began'[x] = began[x]
        BY <1>1, <1>2, <3>2 DEF TypeOK
      <4> QED BY <1>2, <2>3, <4>1 DEF IInv, AgeInv
    <3> QED BY <3>1, <3>2
  <2> QED BY <2>2, <2>3 DEF AgeInv
<1>10. SharingInv'
  <2> SUFFICES ASSUME NEW x \in Backends, NEW d \in sharing'[x]
               PROVE  /\ Walking(d)' /\ at'[d] = x
                      /\ entry'[x] # None /\ Fits(x, ask'[d], entry'[x])
    BY DEF SharingInv, Fits, KeyFor, FilledBy
  <2>1. CASE x = b
    <3>1. /\ d \in Callers /\ d # c /\ pc[d] = "waiting" /\ at[d] = b
          /\ Fits(b, ask[d], e)
      BY <1>1, <1>2, <2>1 DEF TypeOK
    <3>2. entry'[x] = e /\ e # None
      BY <1>1, <1>2, <1>4, <2>1 DEF TypeOK
    <3> QED BY <1>2, <1>6, <2>1, <3>1, <3>2 DEF Walking
  <2>2. CASE x # b
    <3>1. d \in sharing[x] /\ d \in Callers /\ entry'[x] = entry[x]
      BY <1>1, <1>2, <2>2 DEF TypeOK
    <3>2. Walking(d) /\ at[d] = x /\ entry[x] # None /\ Fits(x, ask[d], entry[x])
      BY <3>1 DEF IInv, SharingInv
    <3>3. d # c
      BY <1>1, <2>2, <3>2
    <3> QED BY <1>2, <1>6, <3>1, <3>2, <3>3 DEF Walking
  <2> QED BY <2>1, <2>2
<1> QED BY <1>5, <1>8, <1>9, <1>10 DEF IInv

LEMMA StepCancel ==
  ASSUME IInv, NEW c \in Callers, NEW b \in Backends, Cancel(c, b)
  PROVE  IInv'
<1> USE RoutingAssumption
<1>1. TypeOK /\ Walking(c) /\ at[c] = b /\ answer[c] = "none"
  BY DEF IInv, Cancel, Walking, WalkInv
<1>2. /\ pc' = [pc EXCEPT ![c] = "away"]
      /\ ask' = [ask EXCEPT ![c] = None]
      /\ at' = [at EXCEPT ![c] = 0]
      /\ since' = [since EXCEPT ![c] = 0]
      /\ lacking' = [lacking EXCEPT ![c] = {}]
      /\ sharing' = [sharing EXCEPT ![b] = sharing[b] \ {c}]
      /\ UNCHANGED <<now, entry, answer, began, ended>>
  BY DEF Cancel
<1>3. queue' \in [Backends -> Seq(Callers)]
  BY <1>1, LeaveType DEF Cancel
<1>4. TypeOK'
  BY <1>1, <1>2, <1>3 DEF TypeOK
<1>5. pc'[c] = "away" /\ \A d \in Callers \ {c} :
        /\ pc'[d] = pc[d] /\ ask'[d] = ask[d] /\ at'[d] = at[d]
        /\ since'[d] = since[d] /\ lacking'[d] = lacking[d]
  BY <1>1, <1>2 DEF TypeOK
<1>6. WalkInv'
  BY <1>2, <1>5 DEF IInv, WalkInv, Walking
<1>7. RoutedInOrder'
  BY <1>1, <1>2, <1>5 DEF IInv, RoutedInOrder
<1>8. AgeInv'
  BY <1>2, <1>5 DEF IInv, AgeInv
<1>9. SharingInv'
  <2> SUFFICES ASSUME NEW x \in Backends, NEW d \in sharing'[x]
               PROVE  /\ Walking(d)' /\ at'[d] = x
                      /\ entry'[x] # None /\ Fits(x, ask'[d], entry'[x])
    BY <1>2 DEF SharingInv, Fits, KeyFor, FilledBy
  <2>1. d \in sharing[x] /\ d \in Callers
    BY <1>1, <1>2 DEF TypeOK
  <2>2. Walking(d) /\ at[d] = x /\ entry[x] # None /\ Fits(x, ask[d], entry[x])
    BY <2>1 DEF IInv, SharingInv
  <2>3. d # c
    BY <1>1, <1>2, <2>2 DEF TypeOK
  <2> QED BY <1>2, <1>5, <2>1, <2>2, <2>3 DEF Walking
<1> QED BY <1>4, <1>6, <1>7, <1>8, <1>9 DEF IInv

LEMMA StepTick ==
  ASSUME IInv, Tick
  PROVE  IInv'
<1> USE RoutingAssumption
<1>1. TypeOK /\ now' = now + 1
  BY DEF IInv, Tick
<1>2. UNCHANGED <<entry, queue, pc, ask, at, since, answer, began, ended, lacking, sharing>>
  BY DEF Tick, cache, history
<1>3. TypeOK'
  BY <1>1, <1>2 DEF TypeOK
<1>4. WalkInv' /\ RoutedInOrder'
  BY <1>2 DEF IInv, WalkInv, Walking, RoutedInOrder
<1>5. AgeInv'
  <2>1. ASSUME NEW c \in Callers, pc[c] = "pulling"
        PROVE  since[c] <= now' /\ now' - since[c] <= PullTimeout
    <3>1. since[c] \in Nat /\ now \in Nat /\ since[c] <= now
      BY <1>1, <2>1 DEF IInv, AgeInv, TypeOK
    <3>2. now - since[c] < PullTimeout
      BY <2>1 DEF Tick
    <3> QED BY <1>1, <3>1, <3>2
  <2>2. ASSUME NEW b \in Backends
        PROVE  ended[b] <= now => ended[b] <= now'
    <3>1. ended[b] \in Nat /\ now \in Nat
      BY <1>1 DEF TypeOK
    <3> QED BY <1>1, <3>1
  <2> QED BY <1>2, <2>1, <2>2 DEF IInv, AgeInv
<1>6. SharingInv'
  BY <1>2 DEF IInv, SharingInv, Walking, Fits, KeyFor, FilledBy
<1> QED BY <1>3, <1>4, <1>5, <1>6 DEF IInv

\* Every step keeps the inductive invariant.
LEMMA StepIInv ==
  ASSUME IInv, [Next]_vars
  PROVE  IInv'
<1>1. ASSUME UNCHANGED vars PROVE IInv'
  <2> UNCHANGED <<now, entry, queue, pc, ask, at, since, answer, began, ended, lacking, sharing>>
    BY <1>1 DEF vars, cache, history
  <2> QED BY DEF IInv, TypeOK, WalkInv, Walking, RoutedInOrder, AgeInv, SharingInv,
                 Fits, KeyFor, FilledBy
<1> QED BY <1>1, StepCases, StepArrive, StepServe, StepStartPull, StepEndPull, StepCancel, StepTick

LEMMA IInvCorrect == Spec => []IInv
<1>1. Init => IInv
  <2> SUFFICES ASSUME Init PROVE IInv
    OBVIOUS
  <2> USE RoutingAssumption
  <2>1. TypeOK
    BY DEF Init, TypeOK
  <2> QED BY <2>1 DEF Init, IInv, WalkInv, Walking, RoutedInOrder, AgeInv, SharingInv
<1>2. IInv /\ [Next]_vars => IInv'
  BY StepIInv
<1> QED BY <1>1, <1>2, PTL DEF Spec

-----------------------------------------------------------------------------
(* The theorems.                                                           *)

\* Requests, caches, locks and clocks keep their types.
THEOREM RoutingTypeCorrect == Spec => []TypeOK
<1>1. IInv => TypeOK
  BY DEF IInv
<1> QED BY <1>1, IInvCorrect, PTL

\* A request goes where the order of names says, for any number of live backends.
THEOREM OrderCorrect == Spec => []RoutedInOrder
<1>1. IInv => RoutedInOrder
  BY DEF IInv
<1> QED BY <1>1, IInvCorrect, PTL

\* A caller that waits is routed or moved on only by being given a list.
LEMMA GivenBy ==
  ASSUME IInv, [Next]_vars, NEW c \in Callers, NEW b \in Backends, Given(c, b)
  PROVE  Serve(c, b) \/ \E models \in SUBSET Names : EndPull(c, b, models)
<1>1. TypeOK /\ Walking(c) /\ at[c] = b /\ pc'[c] # "away" /\ (pc'[c] = "routed" \/ at'[c] # b)
  BY DEF IInv, Given, Walking
<1>2. ~Tick /\ ~UNCHANGED vars
  BY <1>1 DEF Tick, vars, cache, Walking
<1>3. ASSUME NEW d \in Callers, NEW a \in Asks PROVE ~Arrive(d, a)
  <2>1. CASE d = c
    BY <1>1, <2>1 DEF Arrive, Walking
  <2>2. CASE d # c
    BY <1>1, <2>2 DEF Arrive, Walking, TypeOK
  <2> QED BY <2>1, <2>2
<1>4. ASSUME NEW d \in Callers, NEW x \in Backends
      PROVE  ~StartPull(d, x) /\ ~Cancel(d, x)
  BY <1>1 DEF StartPull, Cancel, Walking, TypeOK
<1>5. ASSUME NEW d \in Callers, NEW x \in Backends, NEW models, at[d] = x, Walks(d, x, models)
      PROVE  d = c /\ x = b
  <2>1. \A f \in Callers \ {d} : pc'[f] = pc[f] /\ at'[f] = at[f]
    BY <1>1, <1>5, WalksShape
  <2> QED BY <1>1, <1>5, <2>1 DEF Walking
<1>6. ASSUME NEW d \in Callers, NEW x \in Backends, Serve(d, x) PROVE d = c /\ x = b
  BY <1>5, <1>6 DEF Serve
<1>7. ASSUME NEW d \in Callers, NEW x \in Backends, NEW models \in SUBSET Names,
             EndPull(d, x, models)
      PROVE  d = c /\ x = b
  BY <1>5, <1>7 DEF EndPull
<1> QED BY <1>2, <1>3, <1>4, <1>6, <1>7, StepCases

\* Nobody is given a list or a refusal that belongs to another, or a stale one.
THEOREM OwnListCorrect == Spec => GivenOwnList
<1> USE RoutingAssumption
<1>1. ASSUME IInv, [Next]_vars, NEW c \in Callers, NEW b \in Backends, Given(c, b)
      PROVE  /\ entry'[b] # None
             /\ entry'[b].auth = KeyFor(b, ask[c])
             /\ FilledBy(b, ask[c]) = "yes" => entry'[b].complete = "yes"
             /\ now - began'[b] < TTL + PullTimeout
  <2>1. TypeOK /\ now \in Nat /\ began[b] \in Nat /\ ended[b] \in Nat /\ since[c] \in Nat
    BY <1>1 DEF IInv, TypeOK
  <2>2. CASE Serve(c, b)
    <3>1. entry' = entry /\ began' = began /\ Usable(b, ask[c])
      BY <2>2 DEF Serve
    <3>2. entry[b] # None /\ Fits(b, ask[c], entry[b]) /\ now - entry[b].at < TTL
      BY <3>1 DEF Usable
    <3>3. entry[b].at = ended[b] /\ ended[b] - began[b] <= PullTimeout
      BY <1>1, <3>2 DEF IInv, AgeInv
    <3>4. now - began[b] < TTL + PullTimeout
      BY <2>1, <3>2, <3>3
    <3> QED BY <3>1, <3>2, <3>4 DEF Fits
  <2>3. ASSUME NEW models \in SUBSET Names, EndPull(c, b, models)
        PROVE  /\ entry'[b] # None
               /\ entry'[b].auth = KeyFor(b, ask[c])
               /\ FilledBy(b, ask[c]) = "yes" => entry'[b].complete = "yes"
               /\ now - began'[b] < TTL + PullTimeout
    <3>1. entry'[b] = Pulled(c, b, models) /\ began'[b] = since[c] /\ pc[c] = "pulling"
      BY <2>1, <2>3 DEF EndPull, Ended, Pulled, TypeOK
    <3>2. ask[c] \in AskRec
      BY <1>1, <3>1 DEF IInv, WalkInv, Walking
    <3>3. now - since[c] <= PullTimeout
      BY <1>1, <3>1 DEF IInv, AgeInv
    <3>4. now - since[c] < TTL + PullTimeout
      BY <2>1, <3>3
    <3>5. Pulled(c, b, models) # None
      BY <2>1, <3>2, PulledType
    <3> QED BY <2>1, <3>1, <3>2, <3>4, <3>5, PulledType
  <2> QED BY <1>1, <2>2, <2>3, GivenBy
<1>2. IInv /\ [Next]_vars =>
        [\A c \in Callers, b \in Backends :
           Given(c, b) =>
             /\ entry'[b] # None
             /\ entry'[b].auth = KeyFor(b, ask[c])
             /\ FilledBy(b, ask[c]) = "yes" => entry'[b].complete = "yes"
             /\ now - began'[b] < TTL + PullTimeout]_vars
  BY <1>1
<1> QED BY <1>2, IInvCorrect, PTL DEF Spec, GivenOwnList

\* Requests that waited while a list was pulled do not pull it again.
THEOREM SharingCorrect == Spec => MissesShareOnePull
<1> USE RoutingAssumption
<1>1. ASSUME IInv, [Next]_vars, NEW c \in Callers, NEW b \in Backends,
             pc[c] = "waiting", pc'[c] = "pulling", c \in sharing[b]
      PROVE  now - ended[b] >= TTL
  <2>1. TypeOK /\ at[c] = b /\ entry[b] # None /\ Fits(b, ask[c], entry[b])
        /\ entry[b].at = ended[b]
    BY <1>1 DEF IInv, SharingInv, AgeInv
  <2>2. \E x \in Backends : StartPull(c, x)
    <3>1. ~Tick /\ ~UNCHANGED vars
      BY <1>1 DEF Tick, vars
    <3>2. ASSUME NEW d \in Callers, NEW a \in Asks PROVE ~Arrive(d, a)
      <4> SUFFICES ASSUME Arrive(d, a) PROVE FALSE
        OBVIOUS
      <4>1. DOMAIN pc = Callers /\ c \in Callers /\ pc[c] = "waiting" /\ pc'[c] = "pulling"
        BY <1>1, <2>1 DEF TypeOK
      <4>2. pc[d] \in {"away", "routed"}
        BY DEF Arrive
      <4>3. \E p \in {"routed", "waiting"} : pc' = [pc EXCEPT ![d] = p]
        BY DEF Arrive
      <4> QED
        BY <4>1, <4>2, <4>3
    <3>3. ASSUME NEW d \in Callers, NEW x \in Backends, NEW models, at[d] = x, Walks(d, x, models)
          PROVE  FALSE
      BY <1>1, <2>1, <3>3, WalksShape
    <3>4. ASSUME NEW d \in Callers, NEW x \in Backends
          PROVE  /\ ~Serve(d, x) /\ ~Cancel(d, x)
                 /\ \A models \in SUBSET Names : ~EndPull(d, x, models)
                 /\ StartPull(d, x) => d = c
      BY <1>1, <2>1, <3>3 DEF Serve, Cancel, EndPull, StartPull, TypeOK
    <3> QED BY <1>1, <3>1, <3>2, <3>4, StepCases
  <2>3. ~Usable(b, ask[c])
    BY <2>1, <2>2 DEF StartPull
  <2>4. ~(now - ended[b] < TTL)
    BY <2>1, <2>3 DEF Usable
  <2>5. now \in Nat /\ ended[b] \in Nat
    BY <2>1 DEF TypeOK
  <2> QED BY <2>4, <2>5
<1>2. IInv /\ [Next]_vars =>
        [\A c \in Callers, b \in Backends :
           /\ pc[c] = "waiting" /\ pc'[c] = "pulling" /\ c \in sharing[b]
           => now - ended[b] >= TTL]_vars
  BY <1>1
<1> QED BY <1>2, IInvCorrect, PTL DEF Spec, MissesShareOnePull
=============================================================================
