-------------------------- MODULE AnswerStreamProofs --------------------------
(***************************************************************************)
(* Proofs about an answer on its way to the client, for any chunks, limits *)
(* and intervals, and whatever the backend and the client do: its clocks,  *)
(* the frames read from it, the pings put between them, and the usage it   *)
(* tells.                                                                  *)
(***************************************************************************)
EXTENDS AnswerStream, SequenceTheorems, WellFoundedInduction, TLAPS

ClockTypeOK ==
  /\ deadline \in Nat
  /\ sleep \in Nat \cup {None}
  /\ silent \in 0..Idle
  /\ got_first \in {"no", "yes"}

\* Between two chunks of a stream the idle limit counts, before the first one and for a
\* document what is left of the time to the first byte.
BetweenChunks == asked = "stream" /\ got_first = "yes"

\* A timer that is set has been set no earlier than the last chunk was taken.
ClockInv ==
  /\ got_first = "no" => relayed = <<>>
  /\ ended = "no" /\ sleep # None =>
       IF BetweenChunks THEN sleep + silent >= Idle ELSE sleep = deadline

TimeInv == ClockTypeOK /\ ClockInv /\ TimedOutForSilence

LEMMA LessIs ==
  ASSUME NEW n \in Nat
  PROVE  Less(n) \in Nat /\ Less(n) + 1 >= n /\ (n = 0 => Less(n) = 0)
BY DEF Less

LEMMA TimeInit == Init => TimeInv
BY AnswerAssumption
   DEF Init, TimeInv, ClockTypeOK, ClockInv, TimedOutForSilence

LEMMA TickTime ==
  ASSUME TimeInv, Tick
  PROVE  TimeInv'
<1>0. /\ ended = "no" /\ ended' = "no" /\ UNCHANGED <<asked, got_first, relayed>>
      /\ deadline' = Less(deadline) /\ sleep' = (IF sleep = None THEN None ELSE Less(sleep))
      /\ silent' = (IF silent < Idle THEN silent + 1 ELSE silent)
  BY DEF Tick, chosen
<1>1. Idle \in Nat /\ None \notin Nat
  BY AnswerAssumption
<1>2. /\ deadline \in Nat /\ sleep \in Nat \cup {None} /\ silent \in 0..Idle
      /\ got_first \in {"no", "yes"}
  BY DEF TimeInv, ClockTypeOK
<1>3. ClockTypeOK'
  BY <1>0, <1>1, <1>2, LessIs DEF ClockTypeOK
<1>4. ASSUME sleep' # None
      PROVE  IF BetweenChunks' THEN sleep' + silent' >= Idle ELSE sleep' = deadline'
  <2>1. sleep \in Nat /\ sleep' = Less(sleep)
    BY <1>0, <1>2, <1>4
  <2>2. IF BetweenChunks THEN sleep + silent >= Idle ELSE sleep = deadline
    BY <1>0, <1>1, <2>1 DEF TimeInv, ClockInv
  <2>3. CASE BetweenChunks
    <3>1. sleep' \in Nat /\ sleep' + 1 >= sleep /\ sleep + silent >= Idle
      BY <2>1, <2>2, <2>3, LessIs
    <3>2. sleep' + silent' >= Idle
      BY <1>0, <1>1, <1>2, <2>1, <3>1
    <3> QED
      BY <1>0, <2>3, <3>2 DEF BetweenChunks
  <2>4. CASE ~BetweenChunks
    BY <1>0, <2>1, <2>2, <2>4 DEF BetweenChunks
  <2> QED
    BY <2>3, <2>4
<1> QED
  BY <1>0, <1>3, <1>4 DEF TimeInv, ClockInv, TimedOutForSilence

LEMMA NoSilence == 0 \in 0..Idle /\ Idle \in Nat
BY AnswerAssumption

\* A chunk that is taken stops the timer, whatever is made of it.
LEMMA TakenTime ==
  ASSUME TimeInv, Taken, ended = "no", ended' \in {"no", "too large"}, asked' = asked,
         silent' = 0
  PROVE  TimeInv'
<1>0. got_first' = "yes" /\ sleep' = None /\ deadline' = deadline
  BY DEF Taken
<1>1. ClockTypeOK'
  BY <1>0, NoSilence DEF TimeInv, ClockTypeOK
<1>2. ClockInv'
  BY <1>0 DEF ClockInv
<1>3. TimedOutForSilence'
  BY DEF TimedOutForSilence
<1> QED
  BY <1>1, <1>2, <1>3 DEF TimeInv

LEMMA WaitingIs ==
  ASSUME ClockTypeOK
  PROVE  Left \in Nat /\ Waiting = IF BetweenChunks THEN Idle ELSE deadline
BY AnswerAssumption DEF ClockTypeOK, Left, Waiting, BetweenChunks

\* The timer runs out.
LEMMA TimeoutTime ==
  ASSUME TimeInv, Timeout
  PROVE  TimeInv'
<1>0. /\ ended = "no" /\ queue = <<>> /\ Left = 0 /\ sleep' = 0
      /\ ended' = (IF BetweenChunks THEN "idle" ELSE "first byte")
      /\ UNCHANGED <<asked, deadline, got_first, queue, relayed, silent>>
  BY DEF Timeout, Ends, chosen, BetweenChunks
<1>1. Idle \in Nat /\ None \notin Nat /\ ClockTypeOK /\ silent \in 0..Idle /\ deadline \in Nat
  BY AnswerAssumption DEF TimeInv, ClockTypeOK
<1>2. IF BetweenChunks THEN silent >= Idle ELSE deadline = 0
  <2>1. CASE sleep = None
    <3>1. (IF BetweenChunks THEN Idle ELSE deadline) = 0
      BY <1>0, <1>1, <2>1, WaitingIs DEF Left
    <3> QED
      BY <1>1, <3>1
  <2>2. CASE sleep # None
    <3>1. sleep = 0
      BY <1>0, <2>2 DEF Left
    <3>2. IF BetweenChunks THEN sleep + silent >= Idle ELSE sleep = deadline
      BY <1>0, <2>2 DEF TimeInv, ClockInv
    <3> QED
      BY <1>1, <3>1, <3>2
  <2> QED
    BY <2>1, <2>2
<1>3. asked = "stream" /\ ~BetweenChunks => relayed = <<>>
  BY DEF BetweenChunks, TimeInv, ClockTypeOK, ClockInv
<1>4. ClockTypeOK' /\ ClockInv'
  BY <1>0, <1>1 DEF TimeInv, ClockTypeOK, ClockInv
<1>5. TimedOutForSilence'
  BY <1>0, <1>2, <1>3 DEF TimedOutForSilence
<1> QED
  BY <1>4, <1>5 DEF TimeInv

\* The timer is set where it was not, and nothing has come.
LEMMA PendingTime ==
  ASSUME TimeInv, Pending
  PROVE  TimeInv'
<1>0. /\ ended = "no" /\ sleep' = Left
      /\ UNCHANGED <<ended, asked, deadline, got_first, queue, relayed, silent>>
  BY DEF Pending, chosen
<1>1. Idle \in Nat /\ None \notin Nat /\ ClockTypeOK /\ silent \in 0..Idle
  BY AnswerAssumption DEF TimeInv, ClockTypeOK
<1>2. Left \in Nat
  BY <1>1, WaitingIs
<1>3. IF BetweenChunks THEN Left + silent >= Idle ELSE Left = deadline
  <2>1. CASE sleep = None
    BY <1>1, <2>1, WaitingIs DEF Left
  <2>2. CASE sleep # None
    BY <1>0, <2>2 DEF Left, TimeInv, ClockInv
  <2> QED
    BY <2>1, <2>2
<1>4. ClockTypeOK'
  BY <1>0, <1>1, <1>2 DEF ClockTypeOK
<1>5. ClockInv'
  BY <1>0, <1>3 DEF TimeInv, ClockInv, BetweenChunks
<1>6. TimedOutForSilence'
  BY <1>0 DEF TimedOutForSilence
<1> QED
  BY <1>4, <1>5, <1>6 DEF TimeInv

\* Any other end, or what touches none of the clocks.
LEMMA OtherTime ==
  ASSUME TimeInv, UNCHANGED <<asked, timed, relayed, silent>>,
         \/ ended' = ended /\ queue' = queue
         \/ ended = "no" /\ ended' \notin {"idle", "first byte"}
  PROVE  TimeInv'
<1>0. UNCHANGED <<deadline, got_first, sleep>>
  BY DEF timed
<1>1. ClockTypeOK' /\ ClockInv'
  BY <1>0 DEF TimeInv, ClockTypeOK, ClockInv, BetweenChunks
<1>2. TimedOutForSilence'
  BY <1>0 DEF TimeInv, TimedOutForSilence
<1> QED
  BY <1>1, <1>2 DEF TimeInv

LEMMA TimeStep == TimeInv /\ [Next]_vars => TimeInv'
<1> SUFFICES ASSUME TimeInv, [Next]_vars PROVE TimeInv'
  OBVIOUS
<1>1. CASE Arrive
  BY <1>1, OtherTime DEF Arrive, chosen
<1>2. CASE Stop
  BY <1>2, OtherTime DEF Stop, chosen
<1>3. CASE Tick
  BY <1>3, TickTime
<1>4. CASE Relay
  BY <1>4, TakenTime DEF Relay, chosen
<1>5. CASE Keep
  BY <1>5, TakenTime DEF Keep, chosen
<1>6. CASE End
  BY <1>6, OtherTime DEF End, Ends, chosen
<1>7. CASE Timeout
  BY <1>7, TimeoutTime
<1>8. CASE Pending
  BY <1>8, PendingTime
<1>9. CASE Leave
  BY <1>9, OtherTime DEF Leave, Ends, chosen
<1>10. CASE UNCHANGED vars
  BY <1>10, OtherTime DEF vars, chosen
<1> QED
  BY <1>1, <1>2, <1>3, <1>4, <1>5, <1>6, <1>7, <1>8, <1>9, <1>10 DEF Next, Poll

\* An answer is given up only when the backend has been silent for the idle limit since its
\* last chunk was taken, or has let the time to the first byte pass: TimedBody drops its
\* timer with each chunk, and looks at it only when there is none.
THEOREM TimedOutCorrect == Spec => []TimedOutForSilence
<1>1. TimeInv => TimedOutForSilence
  BY DEF TimeInv
<1> QED
  BY <1>1, TimeInit, TimeStep, PTL DEF Spec

-----------------------------------------------------------------------------
\* Induction and recursion.  A set of numbers has a least one, so what is in it with 0 and
\* with each successor is all of them.
LEMMA LeastNumber == ASSUME NEW T \in SUBSET Nat, T # {} PROVE \E x \in T : \A y \in T : x <= y
<1> DEFINE R == {ss \in Nat \X Nat : ss[1] < ss[2]}
<1>1. IsWellFoundedOn(R, Nat)
  BY NatLessThanWellFounded, Zenon DEF OpToRel
<1> HIDE DEF R
<1>2. PICK x \in T : \A y \in T : ~ (<<y, x>> \in R)
  BY <1>1, WFMin
<1>3. ASSUME NEW y \in T, y < x PROVE FALSE
  <2>1. <<y, x>> \in Nat \X Nat /\ <<y, x>>[1] < <<y, x>>[2]
    BY <1>3
  <2>2. <<y, x>> \in R
    BY <2>1 DEF R
  <2> QED
    BY <1>2, <2>2
<1> QED
  BY <1>3

LEMMA AllNumbers == ASSUME NEW T \in SUBSET Nat, 0 \in T, \A n \in T : n + 1 \in T PROVE T = Nat
<1> SUFFICES ASSUME Nat \ T # {} PROVE FALSE
  OBVIOUS
<1>1. PICK x \in Nat \ T : \A y \in Nat \ T : x <= y
  BY LeastNumber
<1>2. x # 0 /\ x - 1 \in Nat /\ x - 1 \in T
  BY <1>1
<1> QED
  BY <1>1, <1>2

\* The same up to a bound.
LEMMA UpTo ==
  ASSUME NEW n \in Nat, NEW T \in SUBSET (0..n), 0 \in T,
         \A k \in T : k < n => k + 1 \in T
  PROVE  T = 0..n
<1> DEFINE S == {k \in Nat : k <= n => k \in T}
<1>1. 0 \in S
  OBVIOUS
<1>2. ASSUME NEW k \in S PROVE k + 1 \in S
  <2>1. k \in Nat /\ (k <= n => k \in T)
    OBVIOUS
  <2>2. k + 1 \in Nat /\ (k + 1 <= n => k <= n /\ k < n)
    BY <2>1
  <2> HIDE DEF S
  <2>3. k + 1 <= n => k + 1 \in T
    BY <2>1, <2>2
  <2> QED
    BY <2>2, <2>3 DEF S
<1>3. S = Nat
  <2> HIDE DEF S
  <2>1. S \in SUBSET Nat
    BY DEF S
  <2> QED
    BY <1>1, <1>2, <2>1, AllNumbers
<1>4. \A k \in 0..n : k \in T
  BY <1>3
<1> QED
  BY <1>4

\* A run of n steps of F from x, through X.
Runs(f, X, x, n, F) ==
  f \in [0..n -> X] /\ f[0] = x /\ \A m \in 1..n : f[m] = F[m][f[m - 1]]

LEMMA RunExists ==
  ASSUME NEW X, NEW x \in X, NEW n \in Nat, NEW F \in [1..n -> [X -> X]]
  PROVE  \E f : Runs(f, X, x, n, F)
<1> DEFINE T == {k \in 0..n : \E f : Runs(f, X, x, k, F)}
<1>1. 0 \in T
  <2> DEFINE f == [m \in 0..0 |-> x]
  <2>1. Runs(f, X, x, 0, F)
    BY DEF Runs
  <2> QED
    BY <2>1
<1>2. ASSUME NEW k \in T, k < n PROVE k + 1 \in T
  <2>1. k \in 0..n /\ k + 1 \in 1..n /\ k + 1 \in 0..n /\ \E f : Runs(f, X, x, k, F)
    BY <1>2
  <2>2. PICK f : Runs(f, X, x, k, F)
    BY <2>1
  <2> HIDE DEF T
  <2> DEFINE y == F[k + 1][f[k]]
             g == [m \in 0..(k + 1) |-> IF m = k + 1 THEN y ELSE f[m]]
  <2>3. f[k] \in X /\ y \in X
    BY <2>1, <2>2 DEF Runs
  <2>4. \A m \in 0..k : g[m] = f[m] /\ f[m] \in X
    BY <2>1, <2>2 DEF Runs
  <2>5. g[k + 1] = y
    BY <2>1
  <2>6. g \in [0..(k + 1) -> X]
    <3>1. \A m \in 0..(k + 1) : g[m] \in X
      <4> TAKE m \in 0..(k + 1)
      <4>1. m = k + 1 \/ m \in 0..k
        BY <2>1
      <4> HIDE DEF g
      <4> QED
        BY <2>3, <2>4, <2>5, <4>1
    <3>2. g = [m \in 0..(k + 1) |-> g[m]]
      OBVIOUS
    <3> HIDE DEF g
    <3> QED
      BY <3>1, <3>2
  <2>7. ASSUME NEW m \in 1..(k + 1) PROVE g[m] = F[m][g[m - 1]]
    <3>1. CASE m = k + 1
      <4>1. m - 1 = k /\ k \in 0..k
        BY <2>1, <3>1
      <4> QED
        BY <2>4, <2>5, <3>1, <4>1
    <3>2. CASE m # k + 1
      <4>1. m \in 1..k /\ m \in 0..k /\ m - 1 \in 0..k
        BY <2>1, <3>2
      <4>2. f[m] = F[m][f[m - 1]]
        BY <2>2, <4>1 DEF Runs
      <4> QED
        BY <2>4, <4>1, <4>2
    <3> QED
      BY <3>1, <3>2
  <2> HIDE DEF g
  <2>8. g[0] = x
    <3>1. 0 \in 0..k /\ f[0] = x
      BY <2>1, <2>2 DEF Runs
    <3> QED
      BY <2>4, <3>1
  <2>9. Runs(g, X, x, k + 1, F)
    BY <2>6, <2>7, <2>8 DEF Runs
  <2> QED
    BY <2>1, <2>9 DEF T
<1>3. T = 0..n
  <2> HIDE DEF T
  <2>1. T \in SUBSET (0..n)
    BY DEF T
  <2> QED
    BY <1>1, <1>2, <2>1, UpTo
<1>4. n \in T
  <2> HIDE DEF T
  <2>1. n \in 0..n
    OBVIOUS
  <2> QED
    BY <1>3, <2>1
<1> QED
  BY <1>4

\* There is no other: what takes the same steps from the same place is the same.
Follows(g, X, x, n, F) ==
  g[0] = x /\ \A m \in 1..n : g[m - 1] \in X => g[m] = F[m][g[m - 1]]

LEMMA RunIs ==
  ASSUME NEW X, NEW x \in X, NEW n \in Nat, NEW F \in [1..n -> [X -> X]],
         NEW f, Runs(f, X, x, n, F), NEW g, Follows(g, X, x, n, F)
  PROVE  \A m \in 0..n : g[m] = f[m]
<1> DEFINE T == {m \in 0..n : g[m] = f[m]}
<1>1. 0 \in T
  BY DEF Runs, Follows
<1>2. ASSUME NEW k \in T, k < n PROVE k + 1 \in T
  <2>1. k \in 0..n /\ k + 1 \in 1..n /\ k + 1 \in 0..n /\ (k + 1) - 1 = k /\ g[k] = f[k]
    BY <1>2
  <2>2. f[k] \in X /\ f[k + 1] = F[k + 1][f[k]]
    BY <2>1 DEF Runs
  <2>3. g[k + 1] = F[k + 1][g[k]]
    BY <2>1, <2>2 DEF Follows
  <2> QED
    BY <2>1, <2>2, <2>3
<1>3. T = 0..n
  <2> HIDE DEF T
  <2>1. T \in SUBSET (0..n)
    BY DEF T
  <2> QED
    BY <1>1, <1>2, <2>1, UpTo
<1> QED
  BY <1>3

-----------------------------------------------------------------------------
\* Bytes, and the lines they are split into: parse_frame, parser.rs:104-128.

Bytes == Seq(Unit)

\* Lines.
LEMMA Sliced ==
  ASSUME NEW buf \in Bytes, NEW m \in Nat, NEW n \in Int, n <= Len(buf)
  PROVE  /\ SubSeq(buf, m + 1, n) \in Bytes
         /\ Len(SubSeq(buf, m + 1, n)) = IF m + 1 <= n THEN n - m ELSE 0
BY DEF Bytes

LEMMA NoBytes == <<>> \in Bytes /\ Len(<<>>) = 0
BY EmptySeq DEF Bytes

LEMMA OneByte == ASSUME NEW u \in Unit PROVE <<u>> \in Bytes /\ Len(<<u>>) = 1
BY DEF Bytes

LEMMA Units ==
  /\ "lf" \in Unit /\ "cr" \in Unit /\ "data:" \in Unit /\ "ping" \in Unit
  /\ "invalid" \in Unit
BY DEF Unit

\* Slices that agree everywhere are the same.
LEMMA SameSlice ==
  ASSUME NEW S, NEW s \in Seq(S), NEW t \in Seq(S), NEW m \in Int, NEW n \in Int,
         \A i \in m..n : i \in 1..Len(t) /\ s[i] = t[i]
  PROVE  SubSeq(s, m, n) = SubSeq(t, m, n)
<1>1. \A i \in m..n : s[i] \in S /\ t[i] \in S
  BY ElementOfSeq
<1> DEFINE a == SubSeq(s, m, n)  b == SubSeq(t, m, n)
<1>2. /\ a \in Seq(S) /\ b \in Seq(S) /\ Len(a) = Len(b)
      /\ \A i \in 1..(n - m + 1) : a[i] = s[m + i - 1] /\ b[i] = t[m + i - 1]
      /\ Len(a) = IF m <= n THEN n - m + 1 ELSE 0
  BY <1>1, SubSeqProperties
<1> HIDE DEF a, b
<1>3. ASSUME NEW i \in 1..Len(a) PROVE a[i] = b[i]
  <2>1. i \in 1..(n - m + 1) /\ m + i - 1 \in m..n
    BY <1>2
  <2> QED
    BY <1>2, <2>1
<1>4. a = b
  BY <1>2, <1>3, SeqEqual
<1> QED
  BY <1>4 DEF a, b

\* A slice, and the next byte.
LEMMA SliceMore ==
  ASSUME NEW q \in Bytes, NEW m \in Nat, NEW k \in Nat, m <= k, k + 1 <= Len(q)
  PROVE  /\ q[k + 1] \in Unit /\ SubSeq(q, m + 1, k) \in Bytes
         /\ SubSeq(q, m + 1, k + 1) = Append(SubSeq(q, m + 1, k), q[k + 1])
<1>1. Len(q) \in Nat /\ k + 1 \in 1..Len(q) /\ k \in Int /\ k <= Len(q)
  BY LenProperties DEF Bytes
<1>2. q[k + 1] \in Unit
  BY <1>1, ElementOfSeq DEF Bytes
<1>3. SubSeq(q, m + 1, k) \in Bytes
  BY <1>1, Sliced
<1>4. /\ m + 1 \in 1..Len(q) /\ k + 1 \in (m + 1)..Len(q) /\ (k + 1) - 1 = k
  BY <1>1
<1>5. SubSeq(q, m + 1, k + 1) = SubSeq(q, m + 1, k) \o <<q[k + 1]>>
  BY <1>4, SubSeqRecursiveSecond DEF Bytes
<1> QED
  BY <1>2, <1>3, <1>5, AppendIsConcat DEF Bytes

LEMMA StrippedType == ASSUME NEW line \in Bytes PROVE Stripped(line) \in Bytes
<1>1. CASE line = <<>>
  BY <1>1 DEF Stripped, Bytes
<1>2. CASE line # <<>>
  <2>1. Len(line) - 1 \in Int /\ Len(line) - 1 <= Len(line)
    BY DEF Bytes
  <2>2. SubSeq(line, 0 + 1, Len(line) - 1) \in Bytes
    BY <2>1, Sliced
  <2>3. Front(line) \in Bytes
    BY <2>2 DEF Front
  <2> QED
    BY <2>3 DEF Stripped
<1> QED
  BY <1>1, <1>2

LEMMA LineType ==
  ASSUME NEW buf \in Bytes, NEW m \in Nat, NEW n \in Nat, n <= Len(buf) + 1
  PROVE  Line(buf, m, n) \in Bytes
<1>1. n - 1 \in Int /\ n - 1 <= Len(buf)
  BY DEF Bytes
<1>2. SubSeq(buf, m + 1, n - 1) \in Bytes
  BY <1>1, Sliced
<1> QED
  BY <1>2, StrippedType DEF Line

LEMMA DataType == ASSUME NEW line \in Bytes PROVE Data(line) \in Bytes
<1>1. CASE line = <<>>
  <2>1. Data(line) = <<>>
    BY <1>1 DEF Data
  <2> QED
    BY <2>1 DEF Bytes
<1>2. CASE line # <<>>
  <2>1. Tail(line) \in Bytes
    BY <1>2, HeadTailProperties DEF Bytes
  <2>2. <<"lf">> \in Bytes /\ <<>> \in Bytes
    BY Units, OneByte, NoBytes
  <2>3. <<"lf">> \o Tail(line) \in Bytes
    <3> HIDE <1>2
    <3> QED
      BY <2>1, <2>2, ConcatProperties DEF Bytes
  <2> QED
    BY <2>2, <2>3 DEF Data
<1> QED
  BY <1>1, <1>2

Splits == [open : Nat, data : Bytes]
NoLines == [open |-> 0, data |-> <<>>]
Past(raw, st, n) ==
  IF raw[n] = "lf" THEN [open |-> n, data |-> st.data \o Data(Line(raw, st.open, n))] ELSE st

LEMMA PastType ==
  ASSUME NEW raw \in Bytes, NEW st \in Splits, NEW n \in 1..Len(raw)
  PROVE  Past(raw, st, n) \in Splits
<1>1. n \in Nat /\ n <= Len(raw) + 1 /\ st.open \in Nat /\ st.data \in Bytes
  BY DEF Splits, Bytes
<1>2. Data(Line(raw, st.open, n)) \in Bytes
  BY <1>1, LineType, DataType
<1> DEFINE added == Data(Line(raw, st.open, n))
<1> HIDE DEF added
<1>3. st.data \o added \in Bytes
  BY <1>1, <1>2 DEF Bytes, added
<1> QED
  BY <1>1, <1>3 DEF Past, Splits, added

LEMMA SplitRun ==
  ASSUME NEW raw \in Bytes
  PROVE  \E f \in [0..Len(raw) -> Splits] :
           /\ f[0] = NoLines /\ \A m \in 1..Len(raw) : f[m] = Past(raw, f[m - 1], m)
           /\ Split(raw) = f[Len(raw)]
<1> DEFINE n == Len(raw)
           F == [m \in 1..n |-> [st \in Splits |-> Past(raw, st, m)]]
           c == CHOOSE c : c = [m \in 0..n |-> IF m = 0 THEN NoLines ELSE Past(raw, c[m - 1], m)]
<1>1. n \in Nat /\ NoLines \in Splits
  BY DEF Splits, Bytes, NoLines
<1>2. F \in [1..n -> [Splits -> Splits]]
  BY PastType
<1>3. Split(raw) = c[n]
  BY DEF Split, Past, NoLines
<1> HIDE DEF c, n
<1>4. PICK f : Runs(f, Splits, NoLines, n, F)
  <2> HIDE DEF F
  <2> QED
    BY <1>1, <1>2, RunExists
<1>5. \A m \in 1..n : f[m - 1] \in Splits /\ f[m] = Past(raw, f[m - 1], m)
  <2> TAKE m \in 1..n
  <2>1. m - 1 \in 0..n
    BY <1>1
  <2>2. f[m - 1] \in Splits /\ f[m] = F[m][f[m - 1]]
    <3> HIDE DEF F
    <3> QED
      BY <1>4, <2>1 DEF Runs
  <2> QED
    BY <2>2
<1>6. f = [m \in 0..n |-> IF m = 0 THEN NoLines ELSE Past(raw, f[m - 1], m)]
  <2>1. f[0] = NoLines /\ f = [m \in 0..n |-> f[m]]
    BY <1>4 DEF Runs
  <2>2. \A m \in 0..n : m # 0 => m \in 1..n
    BY <1>1
  <2> QED
    BY <1>5, <2>1, <2>2
<1>7. c = [m \in 0..n |-> IF m = 0 THEN NoLines ELSE Past(raw, c[m - 1], m)]
  BY <1>6 DEF c
<1>8. c[0] = NoLines /\ \A m \in 1..n : c[m - 1] \in Splits => c[m] = F[m][c[m - 1]]
  <2>1. 0 \in 0..n /\ \A m \in 1..n : m \in 0..n /\ m # 0
    BY <1>1
  <2>2. c[0] = NoLines /\ \A m \in 1..n : c[m] = Past(raw, c[m - 1], m)
    BY <1>7, <2>1
  <2> QED
    BY <2>2
<1>9. c[n] = f[n]
  <2> HIDE DEF F
  <2>1. \A m \in 0..n : c[m] = f[m]
    <3>1. Follows(c, Splits, NoLines, n, F)
      BY <1>8 DEF Follows
    <3> QED
      BY <1>1, <1>2, <1>4, <3>1, RunIs
  <2>2. n \in 0..n
    BY <1>1
  <2> QED
    BY <2>1, <2>2
<1>10. f \in [0..n -> Splits] /\ f[0] = NoLines
  BY <1>4 DEF Runs
<1> QED
  BY <1>3, <1>5, <1>9, <1>10 DEF n

LEMMA SplitType == ASSUME NEW raw \in Bytes PROVE Split(raw) \in Splits
<1>1. Len(raw) \in 0..Len(raw)
  BY LenProperties DEF Bytes
<1> QED
  BY <1>1, SplitRun

LEMMA SplitNone == Split(<<>>) = NoLines
<1>1. <<>> \in Bytes /\ Len(<<>>) = 0
  BY DEF Bytes
<1> QED
  BY <1>1, SplitRun

LEMMA SplitMore ==
  ASSUME NEW raw \in Bytes, NEW u \in Unit
  PROVE  LET st == Split(raw)
             n == Len(raw) + 1
         IN Split(Append(raw, u)) =
              IF u = "lf" THEN [open |-> n, data |-> st.data \o Data(Line(raw, st.open, n))]
              ELSE st
<1> DEFINE more == Append(raw, u)
           n == Len(raw)
           F == [m \in 1..n |-> [st \in Splits |-> Past(raw, st, m)]]
<1>1. more \in Bytes /\ n \in Nat /\ Len(more) = n + 1 /\ n + 1 \in 1..(n + 1) /\ more[n + 1] = u
      /\ \A m \in 1..n : more[m] = raw[m] /\ m \in 1..(n + 1)
  <2>1. n \in Nat
    BY LenProperties DEF Bytes
  <2>2. \A m \in 1..n : m \in 1..(n + 1)
    BY <2>1
  <2>3. /\ more \in Bytes /\ Len(more) = n + 1 /\ more[n + 1] = u
        /\ \A m \in 1..n : more[m] = raw[m]
    BY AppendProperties DEF Bytes
  <2> HIDE DEF more, n
  <2> QED
    BY <2>1, <2>2, <2>3
<1>2. ASSUME NEW st \in Splits, NEW m \in Nat, m <= n + 1
      PROVE  Line(more, st.open, m) = Line(raw, st.open, m)
  <2>1. SubSeq(more, st.open + 1, m - 1) = SubSeq(raw, st.open + 1, m - 1)
    <3>1. st.open \in Nat /\ st.open + 1 \in Int /\ m - 1 \in Int
      BY <1>2 DEF Splits
    <3>2. \A i \in (st.open + 1)..(m - 1) : i \in 1..n
      BY <1>1, <1>2, <3>1
    <3> QED
      BY <1>1, <3>1, <3>2, SameSlice DEF Bytes
  <2> QED
    BY <2>1 DEF Line
<1> HIDE DEF more
<1>3. PICK g \in [0..(n + 1) -> Splits] :
        /\ g[0] = NoLines /\ \A m \in 1..(n + 1) : g[m] = Past(more, g[m - 1], m)
        /\ Split(more) = g[n + 1]
  BY <1>1, SplitRun
<1>4. PICK f \in [0..n -> Splits] :
        /\ f[0] = NoLines /\ \A m \in 1..n : f[m] = Past(raw, f[m - 1], m)
        /\ Split(raw) = f[n]
  BY SplitRun
<1> HIDE DEF n
<1>5. \A m \in 1..n : m - 1 \in 0..n /\ m - 1 \in 0..(n + 1) /\ m \in Nat /\ m <= n + 1
  BY <1>1
<1>6. Runs(f, Splits, NoLines, n, F)
  <2>1. \A m \in 1..n : f[m] = F[m][f[m - 1]]
    BY <1>4, <1>5
  <2> HIDE DEF F
  <2> QED
    BY <1>4, <2>1 DEF Runs
<1>7. \A m \in 1..n : g[m - 1] \in Splits => g[m] = F[m][g[m - 1]]
  <2> TAKE m \in 1..n
  <2>1. g[m - 1] \in Splits /\ m \in 1..(n + 1) /\ more[m] = raw[m]
    BY <1>1, <1>3, <1>5
  <2>2. Line(more, g[m - 1].open, m) = Line(raw, g[m - 1].open, m)
    BY <1>2, <1>5, <2>1
  <2>3. g[m] = Past(raw, g[m - 1], m)
    BY <1>3, <2>1, <2>2 DEF Past
  <2> QED
    BY <2>1, <2>3
<1>8. F \in [1..n -> [Splits -> Splits]]
  BY PastType DEF n
<1>9. g[n] = f[n]
  <2> HIDE DEF F, n, more
  <2>1. n \in Nat /\ n \in 0..n /\ g[0] = NoLines
    BY <1>1, <1>3
  <2>2. NoLines \in Splits
    BY NoBytes DEF Splits, NoLines
  <2>3. \A m \in 0..n : g[m] = f[m]
    <3>1. Follows(g, Splits, NoLines, n, F)
      BY <1>7, <2>1 DEF Follows
    <3> QED
      BY <1>6, <1>8, <2>2, <2>1, <3>1, RunIs
  <2> QED
    BY <2>1, <2>3
<1>10. Split(more) = Past(more, Split(raw), n + 1)
  <2>1. (n + 1) - 1 = n
    BY <1>1
  <2> QED
    BY <1>1, <1>3, <1>4, <1>9, <2>1
<1>11. Split(raw) \in Splits /\ n + 1 \in Nat /\ n + 1 <= n + 1
  BY <1>1, <1>4
<1>12. Line(more, Split(raw).open, n + 1) = Line(raw, Split(raw).open, n + 1)
  BY <1>2, <1>11
<1> QED
  BY <1>1, <1>10, <1>12 DEF Past, n, more

\* Whatever is split ends with the line that is open: the lines before it, split alone, are
\* the same.
LEMMA SplitComplete ==
  ASSUME NEW q \in Bytes
  PROVE  /\ Split(q) \in Splits /\ Split(q).open \in 0..Len(q)
         /\ Split(SubSeq(q, 1, Split(q).open)) = Split(q)
<1> DEFINE n == Len(q)
           p(k) == SubSeq(q, 1, k)
           T == {k \in 0..n : /\ p(k) \in Bytes /\ Len(p(k)) = k
                              /\ Split(p(k)) \in Splits /\ Split(p(k)).open \in 0..k
                              /\ Split(p(Split(p(k)).open)) = Split(p(k))}
<1>1. n \in Nat
  BY LenProperties DEF Bytes
<1>2. 0 \in T
  <2>1. p(0) = <<>>
    BY SubSeqEmpty
  <2>2. NoLines \in Splits /\ NoLines.open = 0
    BY NoBytes DEF Splits, NoLines
  <2>3. Split(p(0)) = NoLines
    BY <2>1, SplitNone
  <2> HIDE DEF p, n
  <2>4. 0 \in 0..n /\ 0 \in 0..0
    BY <1>1
  <2> QED
    BY <2>1, <2>2, <2>3, <2>4, NoBytes
<1>3. ASSUME NEW k \in T, k < n PROVE k + 1 \in T
  <2>1. /\ k \in 0..n /\ p(k) \in Bytes /\ Len(p(k)) = k
        /\ Split(p(k)) \in Splits /\ Split(p(k)).open \in 0..k
        /\ Split(p(Split(p(k)).open)) = Split(p(k))
    OBVIOUS
  <2>2. k + 1 \in 0..n /\ k + 1 \in 1..n /\ k \in Nat /\ k + 1 \in 0..(k + 1)
    BY <1>1, <1>3, <2>1
  <2>3. q[k + 1] \in Unit /\ p(k + 1) = Append(p(k), q[k + 1])
    <3>1. 0 \in Nat /\ 0 + 1 = 1 /\ 0 <= k /\ k + 1 <= Len(q)
      BY <2>2
    <3> QED
      BY <2>2, <3>1, SliceMore
  <2> HIDE DEF T, p, n
  <2>4. p(k + 1) \in Bytes /\ Len(p(k + 1)) = k + 1
    BY <2>1, <2>3, AppendProperties DEF Bytes
  <2>5. CASE q[k + 1] = "lf"
    <3>1. Split(p(k + 1)) = [open |-> k + 1, data |-> Split(p(k)).data \o Data(Line(p(k), Split(p(k)).open, k + 1))]
      BY <2>1, <2>3, <2>5, SplitMore
    <3>2. Split(p(k + 1)).open = k + 1
      BY <3>1
    <3>3. Split(p(k + 1)) \in Splits
      BY <2>4, SplitType
    <3> QED
      BY <2>2, <2>4, <3>2, <3>3 DEF T
  <2>6. CASE q[k + 1] # "lf"
    <3>1. Split(p(k + 1)) = Split(p(k))
      BY <2>1, <2>3, <2>6, SplitMore
    <3>2. Split(p(k)).open \in 0..(k + 1)
      BY <2>1, <2>2
    <3> QED
      BY <2>1, <2>2, <2>4, <3>1, <3>2 DEF T
  <2> QED
    BY <2>5, <2>6
<1>4. n \in T
  <2> HIDE DEF T, n
  <2>1. T \in SUBSET (0..n) /\ n \in 0..n
    BY <1>1 DEF T
  <2>2. T = 0..n
    BY <1>1, <1>2, <1>3, <2>1, UpTo
  <2> QED
    BY <2>1, <2>2
<1>5. p(n) = q
  BY SubSeqFull DEF Bytes
<1> QED
  BY <1>4, <1>5

-----------------------------------------------------------------------------
\* What a reader has read, byte by byte.

Readings ==
  [line : Bytes, data : Bytes, bad : {"yes", "no"}, frames : Seq(Bytes), size : Nat, widest : Nat]
Unread ==
  [line |-> <<>>, data |-> <<>>, bad |-> "no", frames |-> <<>>, size |-> 0, widest |-> 0]

LEMMA MadeReading ==
  ASSUME NEW line \in Bytes, NEW data \in Bytes, NEW bad \in {"yes", "no"},
         NEW frames \in Seq(Bytes), NEW size \in Nat, NEW widest \in Nat
  PROVE  [line |-> line, data |-> data, bad |-> bad, frames |-> frames, size |-> size,
          widest |-> widest] \in Readings
BY DEF Readings

LEMMA UnreadType == Unread \in Readings
<1>1. <<>> \in Seq(Bytes)
  BY EmptySeq
<1> QED
  BY <1>1, NoBytes DEF Unread, Readings

\* What a line adds to the data, in the words of both sides.
LEMMA DataAdded ==
  ASSUME NEW data \in Bytes, NEW line \in Bytes
  PROVE  /\ data \o Data(line) \in Bytes
         /\ line # <<>> =>
              data \o Data(line) =
                IF line[1] = "data:" THEN data \o <<"lf">> \o Tail(line) ELSE data
<1>1. Data(line) \in Bytes /\ <<"lf">> \in Bytes
  BY DataType, Units, OneByte
<1>2. data \o Data(line) \in Bytes
  BY <1>1, ConcatProperties DEF Bytes
<1>3. ASSUME line # <<>>, line[1] = "data:"
      PROVE  data \o Data(line) = data \o <<"lf">> \o Tail(line)
  <2>1. Tail(line) \in Bytes
    BY <1>3, HeadTailProperties DEF Bytes
  <2>2. Data(line) = <<"lf">> \o Tail(line)
    BY <1>3 DEF Data
  <2> QED
    BY <1>1, <2>1, <2>2, ConcatAssociative DEF Bytes
<1>4. ASSUME line # <<>>, line[1] # "data:" PROVE data \o Data(line) = data
  <2>1. Data(line) = <<>>
    BY <1>4 DEF Data
  <2> QED
    BY <2>1, ConcatEmptySeq DEF Bytes
<1> QED
  BY <1>2, <1>3, <1>4

\* Byte's three cases.
Wider(R) == IF R.size + 1 > R.widest THEN R.size + 1 ELSE R.widest

LEMMA ByteOther ==
  ASSUME NEW R \in Readings, NEW u \in Unit, u # "lf"
  PROVE  Byte(R, u) = [line |-> Append(R.line, u), data |-> R.data, bad |-> R.bad,
                       frames |-> R.frames, size |-> R.size + 1, widest |-> Wider(R)]
BY DEF Byte, Wider

LEMMA ByteLine ==
  ASSUME NEW R \in Readings, Stripped(R.line) # <<>>
  PROVE  Byte(R, "lf") = [line |-> <<>>, data |-> R.data \o Data(Stripped(R.line)),
                          bad |-> IF Contains(Stripped(R.line), "invalid") THEN "yes" ELSE R.bad,
                          frames |-> R.frames, size |-> R.size + 1, widest |-> Wider(R)]
<1>1. R.data \in Bytes /\ R.line \in Bytes /\ Stripped(R.line) \in Bytes
  BY StrippedType DEF Readings
<1>2. R.data \o Data(Stripped(R.line)) =
        IF Stripped(R.line)[1] = "data:" THEN R.data \o <<"lf">> \o Tail(Stripped(R.line)) ELSE R.data
  BY <1>1, DataAdded
<1> QED
  BY <1>2 DEF Byte, Wider

Given(R) ==
  IF R.bad = "yes" THEN Append(R.frames, <<"invalid">>)
  ELSE IF Len(R.data) > 1 THEN Append(R.frames, Tail(R.data)) ELSE R.frames

LEMMA ByteBlank ==
  ASSUME NEW R \in Readings, Stripped(R.line) = <<>>
  PROVE  Byte(R, "lf") = [line |-> <<>>, data |-> <<>>, bad |-> "no", frames |-> Given(R),
                          size |-> 0, widest |-> Wider(R)]
BY DEF Byte, Wider, Given

LEMMA ByteType == ASSUME NEW R \in Readings, NEW u \in Unit PROVE Byte(R, u) \in Readings
<1>1. /\ R.data \in Bytes /\ R.line \in Bytes /\ R.bad \in {"yes", "no"} /\ R.frames \in Seq(Bytes)
      /\ R.size \in Nat /\ R.widest \in Nat
  BY DEF Readings
<1>2. R.size + 1 \in Nat /\ Wider(R) \in Nat /\ 0 \in Nat
  BY <1>1 DEF Wider
<1>3. CASE u # "lf"
  <2>1. Append(R.line, u) \in Bytes
    BY <1>1, AppendProperties DEF Bytes
  <2>2. [line |-> Append(R.line, u), data |-> R.data, bad |-> R.bad, frames |-> R.frames,
         size |-> R.size + 1, widest |-> Wider(R)] \in Readings
    BY <1>1, <1>2, <2>1, MadeReading
  <2> QED
    BY <1>3, <2>2, ByteOther
<1>4. CASE u = "lf" /\ Stripped(R.line) # <<>>
  <2>1. R.data \o Data(Stripped(R.line)) \in Bytes
    BY <1>1, StrippedType, DataAdded
  <2>2. (IF Contains(Stripped(R.line), "invalid") THEN "yes" ELSE R.bad) \in {"yes", "no"}
    BY <1>1
  <2> DEFINE bad == IF Contains(Stripped(R.line), "invalid") THEN "yes" ELSE R.bad
             data == R.data \o Data(Stripped(R.line))
  <2> HIDE DEF bad, data
  <2>3. [line |-> <<>>, data |-> data, bad |-> bad, frames |-> R.frames,
         size |-> R.size + 1, widest |-> Wider(R)] \in Readings
    <3>1. data \in Bytes /\ bad \in {"yes", "no"}
      BY <2>1, <2>2 DEF data, bad
    <3> QED
      BY <1>1, <1>2, <3>1, NoBytes, MadeReading
  <2> QED
    BY <1>4, <2>3, ByteLine DEF data, bad
<1>5. CASE u = "lf" /\ Stripped(R.line) = <<>>
  <2>1. Append(R.frames, <<"invalid">>) \in Seq(Bytes)
    BY <1>1, Units, OneByte, AppendProperties
  <2>2. ASSUME Len(R.data) > 1 PROVE Append(R.frames, Tail(R.data)) \in Seq(Bytes)
    <3>1. R.data # <<>>
      BY <2>2, NoBytes
    <3>2. Tail(R.data) \in Bytes
      BY <1>1, <3>1, HeadTailProperties DEF Bytes
    <3> QED
      BY <1>1, <3>2, AppendProperties
  <2>3. Given(R) \in Seq(Bytes)
    BY <1>1, <2>1, <2>2 DEF Given
  <2> QED
    BY <1>2, <1>5, <2>3, ByteBlank, NoBytes, MadeReading
<1> QED
  BY <1>3, <1>4, <1>5

LEMMA ReadingRun ==
  ASSUME NEW text \in Bytes
  PROVE  \E f \in [0..Len(text) -> Readings] :
           /\ f[0] = Unread /\ \A m \in 1..Len(text) : f[m] = Byte(f[m - 1], text[m])
           /\ Reading(text) = f[Len(text)]
<1> DEFINE n == Len(text)
           F == [m \in 1..n |-> [R \in Readings |-> Byte(R, text[m])]]
           c == CHOOSE c : c = [m \in 0..n |-> IF m = 0 THEN Unread ELSE Byte(c[m - 1], text[m])]
<1>1. n \in Nat /\ Unread \in Readings /\ \A m \in 1..n : text[m] \in Unit
  BY UnreadType, ElementOfSeq, LenProperties DEF Bytes
<1>2. F \in [1..n -> [Readings -> Readings]]
  BY <1>1, ByteType
<1>3. Reading(text) = c[n]
  BY DEF Reading, Unread
<1> HIDE DEF c, n
<1>4. PICK f : Runs(f, Readings, Unread, n, F)
  <2> HIDE DEF F
  <2> QED
    BY <1>1, <1>2, RunExists
<1>5. \A m \in 1..n : f[m - 1] \in Readings /\ f[m] = Byte(f[m - 1], text[m])
  <2> TAKE m \in 1..n
  <2>1. m - 1 \in 0..n
    BY <1>1
  <2>2. f[m - 1] \in Readings /\ f[m] = F[m][f[m - 1]]
    <3> HIDE DEF F
    <3> QED
      BY <1>4, <2>1 DEF Runs
  <2> QED
    BY <2>2
<1>6. f = [m \in 0..n |-> IF m = 0 THEN Unread ELSE Byte(f[m - 1], text[m])]
  <2>1. f[0] = Unread /\ f = [m \in 0..n |-> f[m]]
    BY <1>4 DEF Runs
  <2>2. \A m \in 0..n : m # 0 => m \in 1..n
    BY <1>1
  <2> QED
    BY <1>5, <2>1, <2>2
<1>7. c = [m \in 0..n |-> IF m = 0 THEN Unread ELSE Byte(c[m - 1], text[m])]
  BY <1>6 DEF c
<1>8. c[0] = Unread /\ \A m \in 1..n : c[m - 1] \in Readings => c[m] = F[m][c[m - 1]]
  <2>1. 0 \in 0..n /\ \A m \in 1..n : m \in 0..n /\ m # 0
    BY <1>1
  <2>2. c[0] = Unread /\ \A m \in 1..n : c[m] = Byte(c[m - 1], text[m])
    BY <1>7, <2>1
  <2> QED
    BY <2>2
<1>9. c[n] = f[n]
  <2> HIDE DEF F
  <2>1. \A m \in 0..n : c[m] = f[m]
    <3>1. Follows(c, Readings, Unread, n, F)
      BY <1>8 DEF Follows
    <3> QED
      BY <1>1, <1>2, <1>4, <3>1, RunIs
  <2>2. n \in 0..n
    BY <1>1
  <2> QED
    BY <2>1, <2>2
<1>10. f \in [0..n -> Readings] /\ f[0] = Unread
  BY <1>4 DEF Runs
<1> QED
  BY <1>3, <1>5, <1>9, <1>10 DEF n

LEMMA ReadNone == Reading(<<>>) = Unread
BY NoBytes, ReadingRun

LEMMA ReadingType == ASSUME NEW text \in Bytes PROVE Reading(text) \in Readings
<1>1. Len(text) \in 0..Len(text)
  BY LenProperties DEF Bytes
<1> QED
  BY <1>1, ReadingRun

LEMMA ReadMore ==
  ASSUME NEW text \in Bytes, NEW u \in Unit
  PROVE  Append(text, u) \in Bytes /\ Reading(Append(text, u)) = Byte(Reading(text), u)
<1> DEFINE more == Append(text, u)
           n == Len(text)
           F == [m \in 1..n |-> [R \in Readings |-> Byte(R, text[m])]]
<1>1. more \in Bytes /\ n \in Nat /\ Len(more) = n + 1 /\ n + 1 \in 1..(n + 1) /\ more[n + 1] = u
      /\ \A m \in 1..n : more[m] = text[m] /\ m \in 1..(n + 1) /\ m - 1 \in 0..n /\ m - 1 \in 0..(n + 1)
  <2>1. n \in Nat
    BY LenProperties DEF Bytes
  <2>2. \A m \in 1..n : m \in 1..(n + 1) /\ m - 1 \in 0..n /\ m - 1 \in 0..(n + 1)
    BY <2>1
  <2>3. /\ more \in Bytes /\ Len(more) = n + 1 /\ more[n + 1] = u
        /\ \A m \in 1..n : more[m] = text[m]
    BY AppendProperties DEF Bytes
  <2> HIDE DEF more, n
  <2> QED
    BY <2>1, <2>2, <2>3
<1>2. F \in [1..n -> [Readings -> Readings]]
  <2>1. \A m \in 1..n : text[m] \in Unit
    BY ElementOfSeq DEF Bytes
  <2> QED
    BY <2>1, ByteType
<1> HIDE DEF more
<1>3. PICK g \in [0..(n + 1) -> Readings] :
        /\ g[0] = Unread /\ \A m \in 1..(n + 1) : g[m] = Byte(g[m - 1], more[m])
        /\ Reading(more) = g[n + 1]
  BY <1>1, ReadingRun
<1>4. PICK f \in [0..n -> Readings] :
        /\ f[0] = Unread /\ \A m \in 1..n : f[m] = Byte(f[m - 1], text[m])
        /\ Reading(text) = f[n]
  BY ReadingRun
<1> HIDE DEF n
<1>5. Runs(f, Readings, Unread, n, F)
  <2>1. \A m \in 1..n : f[m] = F[m][f[m - 1]]
    BY <1>1, <1>4
  <2> HIDE DEF F
  <2> QED
    BY <1>4, <2>1 DEF Runs
<1>6. \A m \in 1..n : g[m - 1] \in Readings => g[m] = F[m][g[m - 1]]
  <2> TAKE m \in 1..n
  <2>1. g[m - 1] \in Readings /\ m \in 1..(n + 1) /\ more[m] = text[m]
    BY <1>1, <1>3
  <2>2. g[m] = Byte(g[m - 1], text[m])
    BY <1>3, <2>1
  <2> QED
    BY <2>1, <2>2
<1>7. g[n] = f[n]
  <2> HIDE DEF F
  <2>1. n \in Nat /\ n \in 0..n /\ g[0] = Unread
    BY <1>1, <1>3
  <2>2. \A m \in 0..n : g[m] = f[m]
    <3>1. Follows(g, Readings, Unread, n, F)
      BY <1>6, <2>1 DEF Follows
    <3> QED
      BY <1>2, <1>5, UnreadType, <2>1, <3>1, RunIs
  <2> QED
    BY <2>1, <2>2
<1>8. Reading(more) = Byte(Reading(text), u)
  <2>1. (n + 1) - 1 = n
    BY <1>1
  <2> QED
    BY <1>1, <1>3, <1>4, <1>7, <2>1
<1> QED
  BY <1>1, <1>8 DEF more

LEMMA ContainsAppend ==
  ASSUME NEW S, NEW s \in Seq(S), NEW e \in S, NEW x
  PROVE  Contains(Append(s, e), x) <=> Contains(s, x) \/ e = x
<1> DEFINE t == Append(s, e)
           n == Len(s)
<1>1. n \in Nat /\ Len(t) = n + 1 /\ t[n + 1] = e /\ \A i \in 1..n : t[i] = s[i]
  BY AppendProperties, LenProperties
<1>2. Contains(t, x) <=> \E i \in 1..Len(t) : t[i] = x
  BY DEF Contains
<1>3. Contains(s, x) <=> \E i \in 1..n : s[i] = x
  BY DEF Contains
<1> HIDE DEF t, n
<1>4. ASSUME NEW i \in 1..Len(t), t[i] = x PROVE e = x \/ \E j \in 1..n : s[j] = x
  <2>1. i \in 1..n \/ i = n + 1
    BY <1>1
  <2> QED
    BY <1>1, <1>4, <2>1
<1>5. ASSUME NEW i \in 1..n, s[i] = x PROVE \E j \in 1..Len(t) : t[j] = x
  <2>1. i \in 1..Len(t) /\ t[i] = x
    BY <1>1, <1>5
  <2> QED
    BY <2>1
<1>6. ASSUME e = x PROVE \E j \in 1..Len(t) : t[j] = x
  <2>1. n + 1 \in 1..Len(t) /\ t[n + 1] = x
    BY <1>1, <1>6
  <2> QED
    BY <2>1
<1>7. Contains(t, x) <=> Contains(s, x) \/ e = x
  BY <1>2, <1>3, <1>4, <1>5, <1>6
<1> QED
  BY <1>7 DEF t

LEMMA ContainsConcat ==
  ASSUME NEW S, NEW s \in Seq(S), NEW t \in Seq(S), NEW x
  PROVE  Contains(s \o t, x) <=> Contains(s, x) \/ Contains(t, x)
<1> DEFINE c == s \o t
           m == Len(s)
           n == Len(t)
<1>1. /\ m \in Nat /\ n \in Nat /\ Len(c) = m + n
      /\ \A i \in 1..(m + n) : c[i] = IF i <= m THEN s[i] ELSE t[i - m]
  BY ConcatProperties, LenProperties
<1>2. Contains(c, x) <=> \E i \in 1..Len(c) : c[i] = x
  BY DEF Contains
<1>3. Contains(s, x) <=> \E i \in 1..m : s[i] = x
  BY DEF Contains
<1>4. Contains(t, x) <=> \E i \in 1..n : t[i] = x
  BY DEF Contains
<1> HIDE DEF c, m, n
<1>5. ASSUME NEW i \in 1..Len(c), c[i] = x
      PROVE  (\E j \in 1..m : s[j] = x) \/ (\E j \in 1..n : t[j] = x)
  <2>1. i \in 1..(m + n)
    BY <1>1
  <2>2. CASE i <= m
    <3>1. i \in 1..m /\ s[i] = x
      BY <1>1, <1>5, <2>1, <2>2
    <3> QED
      BY <3>1
  <2>3. CASE ~(i <= m)
    <3>1. i - m \in 1..n
      BY <1>1, <2>1, <2>3
    <3>2. t[i - m] = x
      BY <1>1, <1>5, <2>1, <2>3
    <3> QED
      BY <3>1, <3>2
  <2> QED
    BY <2>2, <2>3
<1>6. ASSUME NEW i \in 1..m, s[i] = x PROVE \E j \in 1..Len(c) : c[j] = x
  <2>1. i \in 1..Len(c) /\ i \in 1..(m + n) /\ i <= m
    BY <1>1
  <2>2. c[i] = x
    BY <1>1, <1>6, <2>1
  <2> QED
    BY <2>1, <2>2
<1>7. ASSUME NEW i \in 1..n, t[i] = x PROVE \E j \in 1..Len(c) : c[j] = x
  <2>1. m + i \in 1..Len(c) /\ m + i \in 1..(m + n) /\ ~(m + i <= m) /\ (m + i) - m = i
    BY <1>1
  <2>2. c[m + i] = x
    BY <1>1, <1>7, <2>1
  <2> QED
    BY <2>1, <2>2
<1>8. Contains(c, x) <=> Contains(s, x) \/ Contains(t, x)
  BY <1>2, <1>3, <1>4, <1>5, <1>6, <1>7
<1> QED
  BY <1>8 DEF c

LEMMA ContainsNone == ASSUME NEW x PROVE Contains(<<>>, x) <=> FALSE
<1>1. Len(<<>>) = 0
  BY NoBytes
<1> QED
  BY <1>1 DEF Contains

\* A line is itself, or that and a carriage return.
LEMMA StrippedIs ==
  ASSUME NEW line \in Bytes
  PROVE  line = Stripped(line) \/ line = Append(Stripped(line), "cr")
<1>1. CASE line # <<>> /\ line[Len(line)] = "cr"
  <2>1. PICK s \in Seq(Unit), e \in Unit : line = Append(s, e)
    BY <1>1, SequenceEmptyOrAppend DEF Bytes
  <2>2. Len(line) = Len(s) + 1 /\ Len(s) \in Nat /\ line[Len(s) + 1] = e
    BY <2>1, AppendProperties, LenProperties
  <2>3. e = "cr"
    BY <1>1, <2>2
  <2>4. SubSeq(line, 1, Len(s)) = s
    <3>1. \A i \in 1..Len(s) : i \in 1..Len(s) /\ line[i] = s[i]
      BY <2>1, AppendProperties
    <3>2. SubSeq(line, 1, Len(s)) = SubSeq(s, 1, Len(s))
      BY <2>2, <3>1, SameSlice DEF Bytes
    <3> QED
      BY <3>2, SubSeqFull
  <2>5. Len(line) - 1 = Len(s)
    BY <2>2
  <2>6. Stripped(line) = s
    BY <1>1, <2>4, <2>5 DEF Stripped, Front
  <2> QED
    BY <2>1, <2>3, <2>6
<1>2. CASE ~(line # <<>> /\ line[Len(line)] = "cr")
  BY <1>2 DEF Stripped
<1> QED
  BY <1>1, <1>2

LEMMA StrippedNone == Stripped(<<>>) = <<>>
BY DEF Stripped

LEMMA StrippedContains ==
  ASSUME NEW line \in Bytes
  PROVE  Contains(line, "invalid") <=> Contains(Stripped(line), "invalid")
<1>1. Stripped(line) \in Bytes
  BY StrippedType
<1>2. Contains(Append(Stripped(line), "cr"), "invalid") <=> Contains(Stripped(line), "invalid") \/ "cr" = "invalid"
  BY <1>1, Units, ContainsAppend DEF Bytes
<1> QED
  BY <1>2, StrippedIs

-----------------------------------------------------------------------------
\* A byte moves what a reader has read as it moves the split of what is pending.

\* What has been read of a frame is what the bytes pending of it are split into.
Reads(R, q) ==
  /\ R.line = SubSeq(q, Split(q).open + 1, Len(q))
  /\ R.data = Split(q).data
  /\ R.bad = "yes" <=> Contains(SubSeq(q, 1, Split(q).open), "invalid")
  /\ R.size = Len(q) /\ R.size <= R.widest

LEMMA ReadsNone ==
  ASSUME NEW R, R.line = <<>>, R.data = <<>>, R.bad = "no", R.size = 0, R.size <= R.widest
  PROVE  Reads(R, <<>>)
<1>1. Split(<<>>).open = 0 /\ Split(<<>>).data = <<>>
  BY SplitNone DEF NoLines
<1>2. SubSeq(<<>>, 0 + 1, 0) = <<>> /\ SubSeq(<<>>, 1, 0) = <<>>
  BY SubSeqEmpty
<1>3. ~Contains(<<>>, "invalid")
  BY ContainsNone
<1> QED
  BY <1>1, <1>2, <1>3, NoBytes DEF Reads

\* The bytes of a pending frame, its whole lines and then its open one.
LEMMA Halves ==
  ASSUME NEW q \in Bytes
  PROVE  LET o == Split(q).open
         IN /\ o \in Nat /\ o <= Len(q) /\ Len(q) \in Nat
            /\ SubSeq(q, 1, o) \in Bytes /\ Len(SubSeq(q, 1, o)) = o
            /\ SubSeq(q, o + 1, Len(q)) \in Bytes
            /\ SubSeq(q, 1, o) \o SubSeq(q, o + 1, Len(q)) = q
<1> DEFINE o == Split(q).open
           n == Len(q)
<1>1. n \in Nat /\ o \in 0..n
  BY SplitComplete, LenProperties DEF Bytes
<1> HIDE DEF o
<1>2. o \in Nat /\ o <= n /\ n <= n /\ n \in Int /\ o \in Int /\ 0 \in Nat /\ 0 + 1 = 1 /\ o - 0 = o
      /\ (1 <= o \/ o = 0)
  BY <1>1
<1>3. SubSeq(q, 0 + 1, o) \in Bytes /\ Len(SubSeq(q, 0 + 1, o)) = IF 0 + 1 <= o THEN o - 0 ELSE 0
  BY <1>2, Sliced
<1>4. SubSeq(q, o + 1, n) \in Bytes
  BY <1>2, Sliced
<1>5. 1 \in 1..(n + 1) /\ o \in (1 - 1)..n /\ n \in o..n
  BY <1>1
<1>6. SubSeq(q, 1, o) \o SubSeq(q, o + 1, n) = SubSeq(q, 1, n)
  BY <1>5, ConcatAdjacentSubSeq DEF Bytes
<1>7. SubSeq(q, 1, n) = q
  BY SubSeqFull DEF Bytes
<1>8. Len(SubSeq(q, 1, o)) = o
  BY <1>2, <1>3
<1>9. SubSeq(q, 1, o) \in Bytes
  BY <1>2, <1>3
<1>10. /\ o \in Nat /\ o <= n /\ n \in Nat
       /\ SubSeq(q, 1, o) \in Bytes /\ Len(SubSeq(q, 1, o)) = o
       /\ SubSeq(q, o + 1, n) \in Bytes
       /\ SubSeq(q, 1, o) \o SubSeq(q, o + 1, n) = q
  BY <1>1, <1>2, <1>4, <1>6, <1>7, <1>8, <1>9, Zenon
<1> QED
  BY <1>10, Zenon DEF o

LEMMA WidestGrows == ASSUME NEW R \in Readings PROVE R.widest <= Wider(R) /\ R.size + 1 <= Wider(R) /\ 0 <= Wider(R)
BY DEF Readings, Wider

LEMMA ReadsOther ==
  ASSUME NEW q \in Bytes, NEW R \in Readings, Reads(R, q), NEW u \in Unit, u # "lf"
  PROVE  /\ Reads(Byte(R, u), Append(q, u)) /\ Byte(R, u).frames = R.frames
         /\ Split(Append(q, u)) = Split(q)
<1> DEFINE r == Append(q, u)
           o == Split(q).open
           n == Len(q)
<1>1. Split(r) = Split(q)
  BY SplitMore
<1>2. r \in Bytes /\ Len(r) = n + 1 /\ r[n + 1] = u /\ \A i \in 1..n : r[i] = q[i]
  BY AppendProperties DEF Bytes
<1>3. o \in Nat /\ o <= n /\ n \in Nat
  BY Halves
<1> HIDE DEF r, o, n
<1>4. SubSeq(r, o + 1, n + 1) = Append(SubSeq(r, o + 1, n), u)
  <2>1. n + 1 <= Len(r)
    BY <1>2, <1>3
  <2> QED
    BY <1>2, <1>3, <2>1, SliceMore
<1>5. ASSUME NEW m \in Nat, NEW k \in Nat, k <= n
      PROVE  SubSeq(r, m + 1, k) = SubSeq(q, m + 1, k)
  <2>1. m + 1 \in Int /\ k \in Int /\ \A i \in (m + 1)..k : i \in 1..n
    BY <1>3, <1>5
  <2> QED
    BY <1>2, <2>1, SameSlice DEF Bytes, n
<1>6. SubSeq(r, o + 1, n + 1) = Append(SubSeq(q, o + 1, n), u)
  <2>1. n <= n
    BY <1>3
  <2>2. SubSeq(r, o + 1, n) = SubSeq(q, o + 1, n)
    BY <1>3, <1>5, <2>1
  <2> QED
    BY <1>4, <2>2, Zenon
<1>7. SubSeq(r, 1, o) = SubSeq(q, 1, o)
  <2>1. SubSeq(r, 0 + 1, o) = SubSeq(q, 0 + 1, o)
    BY <1>3, <1>5
  <2>2. 0 + 1 = 1
    OBVIOUS
  <2> QED
    BY <2>1, <2>2
<1>8. /\ R.line = SubSeq(q, o + 1, n) /\ R.data = Split(q).data
      /\ R.bad = "yes" <=> Contains(SubSeq(q, 1, o), "invalid")
      /\ R.size = n
  BY DEF Reads, o, n
<1> DEFINE B == Byte(R, u)
<1>9. /\ B.line = Append(R.line, u) /\ B.data = R.data /\ B.bad = R.bad /\ B.frames = R.frames
      /\ B.size = R.size + 1 /\ B.widest = Wider(R)
  BY ByteOther
<1>10. B.size <= B.widest
  BY <1>9, WidestGrows
<1> HIDE DEF B
<1>11. Reads(B, r)
  <2>1. Split(r).open = o /\ Split(r).data = Split(q).data
    BY <1>1 DEF o
  <2> QED
    BY <1>2, <1>6, <1>7, <1>8, <1>9, <1>10, <2>1 DEF Reads
<1> QED
  BY <1>1, <1>9, <1>11 DEF B, r

LEMMA ReadsLine ==
  ASSUME NEW q \in Bytes, NEW R \in Readings, Reads(R, q), Stripped(R.line) # <<>>
  PROVE  /\ Reads(Byte(R, "lf"), Append(q, "lf")) /\ Byte(R, "lf").frames = R.frames
         /\ Split(Append(q, "lf")).open = Len(q) + 1
<1> DEFINE r == Append(q, "lf")
           o == Split(q).open
           n == Len(q)
<1>1. Split(r).open = n + 1 /\ Split(r).data = Split(q).data \o Data(Line(q, o, n + 1))
  <2> DEFINE data == Split(q).data \o Data(Line(q, o, n + 1))
  <2>1. Split(r) = [open |-> n + 1, data |-> data]
    BY SplitMore, Units
  <2> HIDE DEF r, data
  <2>2. Split(r).open = n + 1 /\ Split(r).data = data
    BY <2>1
  <2> QED
    BY <2>2 DEF data
<1>2. r \in Bytes /\ Len(r) = n + 1
  BY AppendProperties, Units DEF Bytes
<1>3. o \in Nat /\ o <= n /\ n \in Nat /\ SubSeq(q, 1, o) \in Bytes /\ SubSeq(q, o + 1, n) \in Bytes
      /\ SubSeq(q, 1, o) \o SubSeq(q, o + 1, n) = q
  BY Halves
<1>4. Contains(r, "invalid") <=> Contains(q, "invalid")
  <2>1. Contains(r, "invalid") <=> Contains(q, "invalid") \/ "lf" = "invalid"
    BY Units, ContainsAppend DEF Bytes
  <2> QED
    BY <2>1
<1> HIDE DEF r, o, n
<1>5. /\ R.line = SubSeq(q, o + 1, n) /\ R.data = Split(q).data
      /\ R.bad = "yes" <=> Contains(SubSeq(q, 1, o), "invalid")
      /\ R.size = n
  BY DEF Reads, o, n
<1>6. Line(q, o, n + 1) = Stripped(R.line)
  <2>1. (n + 1) - 1 = n
    BY <1>3
  <2> QED
    BY <1>5, <2>1 DEF Line
<1>7. Contains(q, "invalid") <=> R.bad = "yes" \/ Contains(Stripped(R.line), "invalid")
  <2>1. Contains(q, "invalid") <=>
          Contains(SubSeq(q, 1, o), "invalid") \/ Contains(SubSeq(q, o + 1, n), "invalid")
    <3> DEFINE s == SubSeq(q, 1, o)
               t == SubSeq(q, o + 1, n)
    <3>1. s \in Bytes /\ t \in Bytes /\ s \o t = q
      BY <1>3
    <3> HIDE DEF s, t
    <3>2. Contains(s \o t, "invalid") <=> Contains(s, "invalid") \/ Contains(t, "invalid")
      BY <3>1, ContainsConcat DEF Bytes
    <3>3. Contains(q, "invalid") <=> Contains(s, "invalid") \/ Contains(t, "invalid")
      BY <3>1, <3>2
    <3> QED
      BY <3>3 DEF s, t
  <2>2. Contains(R.line, "invalid") <=> Contains(Stripped(R.line), "invalid")
    BY <1>3, <1>5, StrippedContains
  <2> QED
    BY <1>5, <2>1, <2>2
<1>8. SubSeq(r, (n + 1) + 1, n + 1) = <<>>
  <2>1. (n + 1) + 1 \in Int /\ n + 1 \in Int /\ n + 1 < (n + 1) + 1
    BY <1>3
  <2> QED
    BY <2>1, SubSeqEmpty
<1>9. SubSeq(r, 1, n + 1) = r
  BY <1>2, SubSeqFull DEF Bytes
<1> DEFINE B == Byte(R, "lf")
<1>10. /\ B.line = <<>> /\ B.data = R.data \o Data(Stripped(R.line))
       /\ B.bad = (IF Contains(Stripped(R.line), "invalid") THEN "yes" ELSE R.bad)
       /\ B.frames = R.frames /\ B.size = R.size + 1 /\ B.widest = Wider(R)
  <2> DEFINE bad == IF Contains(Stripped(R.line), "invalid") THEN "yes" ELSE R.bad
  <2>1. B = [line |-> <<>>, data |-> R.data \o Data(Stripped(R.line)), bad |-> bad,
             frames |-> R.frames, size |-> R.size + 1, widest |-> Wider(R)]
    BY ByteLine
  <2> HIDE DEF B, bad
  <2>2. /\ B.line = <<>> /\ B.data = R.data \o Data(Stripped(R.line)) /\ B.bad = bad
        /\ B.frames = R.frames /\ B.size = R.size + 1 /\ B.widest = Wider(R)
    BY <2>1
  <2> QED
    BY <2>2 DEF bad
<1>11. B.size <= B.widest
  BY <1>10, WidestGrows
<1> HIDE DEF B
<1>12. Split(r).open = n + 1 /\ Split(r).data = B.data
  <2>1. Split(r).open = n + 1 /\ Split(r).data = Split(q).data \o Data(Line(q, o, n + 1))
    BY <1>1
  <2> QED
    BY <1>5, <1>6, <1>10, <2>1
<1>13. B.bad = "yes" <=> Contains(r, "invalid")
  BY <1>4, <1>7, <1>10
<1>14. Reads(B, r)
  BY <1>2, <1>5, <1>8, <1>9, <1>10, <1>11, <1>12, <1>13 DEF Reads
<1> QED
  BY <1>10, <1>12, <1>14 DEF B, r, n

\* What a frame's lines give, however they were come by.
Ended(raw) == IF Invalid(raw) THEN << <<"invalid">> >> ELSE ParseFrame(raw)

LEMMA DataNone == Data(Stripped(<<>>)) = <<>>
BY StrippedNone DEF Data

LEMMA ParseWhole ==
  ASSUME NEW q \in Bytes
  PROVE  ParseFrame(SubSeq(q, 1, Split(q).open)) =
           IF Len(Split(q).data) > 1 THEN <<Tail(Split(q).data)>> ELSE <<>>
<1> DEFINE o == Split(q).open
           raw == SubSeq(q, 1, o)
<1>1. o \in Nat /\ raw \in Bytes /\ Len(raw) = o
  BY Halves
<1>2. Split(raw) = Split(q) /\ Split(q).data \in Bytes
  BY SplitComplete DEF Splits
<1> HIDE DEF raw
<1>3. Line(raw, Split(raw).open, Len(raw) + 1) = Stripped(<<>>)
  <2>1. (o + 1) - 1 = o /\ o < o + 1 /\ o + 1 \in Int /\ o \in Int
    BY <1>1
  <2>2. SubSeq(raw, o + 1, o) = <<>>
    BY <2>1, SubSeqEmpty
  <2> QED
    BY <1>1, <1>2, <2>1, <2>2 DEF Line
<1>4. Split(raw).data \o Data(Line(raw, Split(raw).open, Len(raw) + 1)) = Split(q).data
  BY <1>2, <1>3, DataNone, ConcatEmptySeq DEF Bytes
<1>5. ParseFrame(raw) = IF Len(Split(q).data) > 1 THEN <<Tail(Split(q).data)>> ELSE <<>>
  BY <1>4 DEF ParseFrame
<1> QED
  BY <1>5 DEF raw

LEMMA ReadsBlank ==
  ASSUME NEW q \in Bytes, NEW R \in Readings, Reads(R, q), Stripped(R.line) = <<>>
  PROVE  /\ Reads(Byte(R, "lf"), <<>>)
         /\ Byte(R, "lf").frames = R.frames \o Ended(SubSeq(q, 1, Split(q).open))
<1> DEFINE raw == SubSeq(q, 1, Split(q).open)
           B == Byte(R, "lf")
<1>1. /\ B.line = <<>> /\ B.data = <<>> /\ B.bad = "no" /\ B.frames = Given(R)
      /\ B.size = 0 /\ B.widest = Wider(R)
  BY ByteBlank
<1>2. Reads(B, <<>>)
  <2>1. B.size <= B.widest
    BY <1>1, WidestGrows
  <2> HIDE DEF B
  <2> QED
    BY <1>1, <2>1, ReadsNone
<1>3. R.bad = "yes" <=> Invalid(raw)
  BY DEF Reads, Invalid
<1>4. ParseFrame(raw) = IF Len(R.data) > 1 THEN <<Tail(R.data)>> ELSE <<>>
  BY ParseWhole DEF Reads
<1>5. R.frames \in Seq(Bytes) /\ R.data \in Bytes /\ <<"invalid">> \in Bytes
  BY Units, OneByte DEF Readings
<1> HIDE DEF raw, B
<1>6. Given(R) = R.frames \o Ended(raw)
  <2>1. CASE R.bad = "yes"
    <3>1. Given(R) = Append(R.frames, <<"invalid">>) /\ Ended(raw) = << <<"invalid">> >>
      BY <1>3, <2>1 DEF Given, Ended
    <3> QED
      BY <1>5, <3>1, AppendIsConcat
  <2>2. CASE R.bad # "yes" /\ Len(R.data) > 1
    <3>1. Tail(R.data) \in Bytes
      <4>1. R.data # <<>>
        BY <2>2, NoBytes
      <4> QED
        BY <1>5, <4>1, HeadTailProperties DEF Bytes
    <3>2. Given(R) = Append(R.frames, Tail(R.data)) /\ Ended(raw) = <<Tail(R.data)>>
      BY <1>3, <1>4, <2>2 DEF Given, Ended
    <3> QED
      BY <1>5, <3>1, <3>2, AppendIsConcat
  <2>3. CASE R.bad # "yes" /\ ~(Len(R.data) > 1)
    <3>1. Given(R) = R.frames /\ Ended(raw) = <<>>
      BY <1>3, <1>4, <2>3 DEF Given, Ended
    <3> QED
      BY <1>5, <3>1, ConcatEmptySeq
  <2> QED
    BY <2>1, <2>2, <2>3
<1> QED
  BY <1>1, <1>2, <1>6 DEF raw, B

-----------------------------------------------------------------------------
\* Parser::feed: the scan of a chunk and the reading of it go together from its first
\* byte, parser.rs:38-69.

LEMMA SliceIs ==
  ASSUME NEW q, NEW lo \in Int, NEW hi \in Int, \A i \in lo..hi : q[i] \in Unit
  PROVE  /\ SubSeq(q, lo, hi) \in Bytes
         /\ Len(SubSeq(q, lo, hi)) = IF lo <= hi THEN hi - lo + 1 ELSE 0
         /\ \A i \in 1..(hi - lo + 1) : SubSeq(q, lo, hi)[i] = q[lo + i - 1]
BY SubSeqProperties DEF Bytes

LEMMA SliceOfSlice ==
  ASSUME NEW buf \in Bytes, NEW a \in Nat, NEW n \in Nat, a <= n, n <= Len(buf),
         NEW x \in Nat, NEW y \in Nat, x <= y, y <= n - a
  PROVE  SubSeq(SubSeq(buf, a + 1, n), x + 1, y) = SubSeq(buf, (a + x) + 1, a + y)
<1> DEFINE q == SubSeq(buf, a + 1, n)
           s == SubSeq(q, x + 1, y)
           t == SubSeq(buf, (a + x) + 1, a + y)
<1>1. Len(buf) \in Nat /\ \A i \in 1..Len(buf) : buf[i] \in Unit
  BY LenProperties, ElementOfSeq DEF Bytes
<1>2. /\ q \in Bytes /\ Len(q) = (IF a + 1 <= n THEN n - (a + 1) + 1 ELSE 0)
      /\ \A i \in 1..(n - (a + 1) + 1) : q[i] = buf[(a + 1) + i - 1]
  <2>1. a + 1 \in Int /\ n \in Int /\ \A i \in (a + 1)..n : i \in 1..Len(buf)
    BY <1>1
  <2>2. \A i \in (a + 1)..n : buf[i] \in Unit
    BY <1>1, <2>1
  <2> DEFINE lo == a + 1
             hi == n
  <2>3. lo \in Int /\ hi \in Int /\ \A i \in lo..hi : buf[i] \in Unit
    BY <2>1, <2>2
  <2> HIDE DEF lo, hi
  <2>4. /\ SubSeq(buf, lo, hi) \in Bytes
        /\ Len(SubSeq(buf, lo, hi)) = IF lo <= hi THEN hi - lo + 1 ELSE 0
        /\ \A i \in 1..(hi - lo + 1) : SubSeq(buf, lo, hi)[i] = buf[lo + i - 1]
    BY ONLY <2>3, SliceIs
  <2> QED
    BY <2>4 DEF lo, hi
<1> HIDE DEF q
<1>3. Len(q) = n - a /\ Len(q) \in Nat
  BY <1>2
<1>4. ASSUME NEW i \in 1..(n - a) PROVE q[i] = buf[a + i] /\ q[i] \in Unit
  <2>1. i \in 1..(n - (a + 1) + 1) /\ (a + 1) + i - 1 = a + i /\ i \in 1..Len(q)
    BY <1>3
  <2> QED
    BY <1>2, <2>1, ElementOfSeq DEF Bytes
<1>5. /\ s \in Bytes /\ Len(s) = (IF x + 1 <= y THEN y - (x + 1) + 1 ELSE 0)
      /\ \A i \in 1..(y - (x + 1) + 1) : s[i] = q[(x + 1) + i - 1]
  <2>1. x + 1 \in Int /\ y \in Int /\ \A i \in (x + 1)..y : i \in 1..(n - a)
    OBVIOUS
  <2>2. \A i \in (x + 1)..y : q[i] \in Unit
    BY <1>4, <2>1
  <2> DEFINE lo == x + 1
             hi == y
  <2>3. lo \in Int /\ hi \in Int /\ \A i \in lo..hi : q[i] \in Unit
    BY <2>1, <2>2
  <2> HIDE DEF lo, hi
  <2>4. /\ SubSeq(q, lo, hi) \in Bytes
        /\ Len(SubSeq(q, lo, hi)) = IF lo <= hi THEN hi - lo + 1 ELSE 0
        /\ \A i \in 1..(hi - lo + 1) : SubSeq(q, lo, hi)[i] = q[lo + i - 1]
    BY ONLY <2>3, SliceIs
  <2> QED
    BY <2>4 DEF lo, hi
<1>6. /\ t \in Bytes
      /\ Len(t) = (IF (a + x) + 1 <= a + y THEN (a + y) - ((a + x) + 1) + 1 ELSE 0)
      /\ \A i \in 1..((a + y) - ((a + x) + 1) + 1) : t[i] = buf[((a + x) + 1) + i - 1]
  <2>1. (a + x) + 1 \in Int /\ a + y \in Int
        /\ \A i \in ((a + x) + 1)..(a + y) : i \in 1..Len(buf)
    BY <1>1
  <2>2. \A i \in ((a + x) + 1)..(a + y) : buf[i] \in Unit
    BY <1>1, <2>1
  <2> DEFINE lo == (a + x) + 1
             hi == a + y
  <2>3. lo \in Int /\ hi \in Int /\ \A i \in lo..hi : buf[i] \in Unit
    BY <2>1, <2>2
  <2> HIDE DEF lo, hi
  <2>4. /\ SubSeq(buf, lo, hi) \in Bytes
        /\ Len(SubSeq(buf, lo, hi)) = IF lo <= hi THEN hi - lo + 1 ELSE 0
        /\ \A i \in 1..(hi - lo + 1) : SubSeq(buf, lo, hi)[i] = buf[lo + i - 1]
    BY ONLY <2>3, SliceIs
  <2> QED
    BY <2>4 DEF lo, hi
<1> HIDE DEF s, t
<1>7. Len(s) = Len(t) /\ Len(s) = y - x
  BY <1>5, <1>6
<1>8. ASSUME NEW i \in 1..Len(s) PROVE s[i] = t[i]
  <2>1. /\ i \in 1..(y - (x + 1) + 1) /\ (x + 1) + i - 1 = x + i /\ x + i \in 1..(n - a)
        /\ i \in 1..((a + y) - ((a + x) + 1) + 1) /\ ((a + x) + 1) + i - 1 = a + (x + i)
    BY <1>7
  <2>2. s[i] = q[x + i] /\ t[i] = buf[a + (x + i)]
    BY <1>5, <1>6, <2>1
  <2> QED
    BY <1>4, <2>1, <2>2
<1>9. s = t
  BY <1>5, <1>6, <1>7, <1>8, SeqEqual DEF Bytes
<1> QED
  BY <1>9 DEF s, t, q

LEMMA ParseType ==
  ASSUME NEW raw \in Bytes PROVE ParseFrame(raw) \in Seq(Bytes) /\ Ended(raw) \in Seq(Bytes)
<1> DEFINE data == Split(raw).data \o Data(Line(raw, Split(raw).open, Len(raw) + 1))
<1>1. Split(raw).open \in Nat /\ Split(raw).data \in Bytes /\ Len(raw) + 1 \in Nat
      /\ Len(raw) + 1 <= Len(raw) + 1
  BY SplitType, LenProperties DEF Splits, Bytes
<1>2. Line(raw, Split(raw).open, Len(raw) + 1) \in Bytes
  BY <1>1, LineType
<1>3. data \in Bytes
  BY <1>1, <1>2, DataAdded
<1>4. ParseFrame(raw) = IF Len(data) > 1 THEN <<Tail(data)>> ELSE <<>>
  BY DEF ParseFrame
<1> HIDE DEF data
<1>5. ASSUME Len(data) > 1 PROVE <<Tail(data)>> \in Seq(Bytes)
  <2>1. data # <<>>
    BY <1>5, NoBytes
  <2>2. Tail(data) \in Bytes
    BY <1>3, <2>1, HeadTailProperties DEF Bytes
  <2> QED
    BY <2>2
<1>6. << <<"invalid">> >> \in Seq(Bytes) /\ <<>> \in Seq(Bytes)
  BY Units, OneByte
<1> QED
  BY <1>4, <1>5, <1>6 DEF Ended

Scans(N) == [frame : 0..N, line : 0..N, frames : Seq(Bytes), error : {"none", "utf8"}]

LEMMA LineEndType ==
  ASSUME NEW buf \in Bytes, NEW S \in Scans(Len(buf)), NEW e \in 1..Len(buf)
  PROVE  LineEnd(buf, S, e) \in Scans(Len(buf))
<1> DEFINE raw == SubSeq(buf, S.frame + 1, S.line)
<1>1. /\ S.frame \in Nat /\ S.line \in Int /\ S.line <= Len(buf) /\ Len(buf) \in Nat
      /\ S.frames \in Seq(Bytes) /\ S.error \in {"none", "utf8"} /\ e \in 0..Len(buf)
      /\ S.frame \in 0..Len(buf)
  BY LenProperties DEF Scans, Bytes
<1>2. raw \in Bytes
  BY <1>1, Sliced
<1> HIDE DEF raw
<1>3. S.frames \o ParseFrame(raw) \in Seq(Bytes)
  BY <1>1, <1>2, ParseType, ConcatProperties
<1>4. CASE Line(buf, S.line, e) # <<>>
  BY <1>1, <1>4 DEF LineEnd, Scans
<1>5. CASE Line(buf, S.line, e) = <<>>
  <2> DEFINE error == IF Invalid(raw) THEN "utf8" ELSE S.error
             frames == S.frames \o ParseFrame(raw)
  <2>1. LineEnd(buf, S, e) = [frame |-> e, line |-> e, frames |-> frames, error |-> error]
    BY <1>5 DEF LineEnd, raw
  <2>2. error \in {"none", "utf8"} /\ frames \in Seq(Bytes)
    BY <1>1, <1>3
  <2> HIDE DEF error, frames
  <2> QED
    BY <1>1, <2>1, <2>2 DEF Scans
<1> QED
  BY <1>4, <1>5

\* Where a scan stands, and what has been read by then.
Scanning(buf, S, n, R, base) ==
  LET q == SubSeq(buf, S.frame + 1, n)
  IN /\ S.frame <= n /\ Reads(R, q) /\ S.line = S.frame + Split(q).open
     /\ S.error = "none" => R.frames = base \o S.frames
     /\ S.error # "none" => Contains(R.frames, <<"invalid">>)

ScanPast(buf, S, e) == IF buf[e] = "lf" THEN LineEnd(buf, S, e) ELSE S

LEMMA ScanStep ==
  ASSUME NEW buf \in Bytes, NEW S \in Scans(Len(buf)), NEW n \in Nat, n + 1 <= Len(buf),
         NEW R \in Readings, NEW base \in Seq(Bytes), Scanning(buf, S, n, R, base)
  PROVE  Scanning(buf, ScanPast(buf, S, n + 1), n + 1, Byte(R, buf[n + 1]), base)
<1> DEFINE q == SubSeq(buf, S.frame + 1, n)
           o == Split(q).open
           u == buf[n + 1]
           raw == SubSeq(q, 1, o)
<1>1. /\ S.frame \in Nat /\ S.frame <= n /\ n <= Len(buf) /\ Len(buf) \in Nat
      /\ S.frames \in Seq(Bytes) /\ R.frames \in Seq(Bytes)
  BY LenProperties DEF Scans, Bytes, Scanning, Readings
<1>2. u \in Unit /\ q \in Bytes /\ SubSeq(buf, S.frame + 1, n + 1) = Append(q, u)
  BY <1>1, SliceMore
<1>3. Len(q) = n - S.frame
  <2>1. n \in Int
    OBVIOUS
  <2>2. Len(q) = IF S.frame + 1 <= n THEN n - S.frame ELSE 0
    BY <1>1, <2>1, Sliced
  <2> HIDE DEF q
  <2> QED
    BY <1>1, <2>2
<1>4. /\ Reads(R, q) /\ S.line = S.frame + o
      /\ S.error = "none" => R.frames = base \o S.frames
      /\ S.error # "none" => Contains(R.frames, <<"invalid">>)
  BY DEF Scanning
<1>5. o \in Nat /\ o <= Len(q) /\ raw \in Bytes
  BY <1>2, Halves
<1> DEFINE a == S.frame
<1> HIDE DEF o, a
<1>6. /\ SubSeq(q, o + 1, Len(q)) = SubSeq(buf, S.line + 1, n)
      /\ SubSeq(q, 1, o) = SubSeq(buf, S.frame + 1, S.line)
  <2>1. /\ a \in Nat /\ a <= n /\ n <= Len(buf) /\ o \in Nat /\ 0 \in Nat /\ n - a \in Nat
        /\ o <= n - a /\ n - a <= n - a /\ 0 <= o /\ a + (n - a) = n /\ a + 0 = a /\ 0 + 1 = 1
    <3> HIDE DEF q
    <3> QED
      BY <1>1, <1>3, <1>5 DEF a
  <2>2. q = SubSeq(buf, a + 1, n)
    BY DEF a
  <2> HIDE DEF q
  <2>3. SubSeq(SubSeq(buf, a + 1, n), o + 1, n - a) = SubSeq(buf, (a + o) + 1, a + (n - a))
    BY <2>1, SliceOfSlice
  <2>4. SubSeq(SubSeq(buf, a + 1, n), 0 + 1, o) = SubSeq(buf, (a + 0) + 1, a + o)
    BY <2>1, SliceOfSlice
  <2>5. Len(q) = n - a /\ S.line = a + o /\ S.frame = a
    BY <1>3, <1>4 DEF a
  <2>6. SubSeq(q, o + 1, Len(q)) = SubSeq(buf, S.line + 1, n)
    BY <2>1, <2>2, <2>3, <2>5
  <2>7. SubSeq(q, 1, o) = SubSeq(buf, S.frame + 1, S.line)
    BY <2>1, <2>2, <2>4, <2>5
  <2> QED
    BY <2>6, <2>7
<1>7. raw = SubSeq(buf, S.frame + 1, S.line)
  BY <1>6
<1>8. Line(buf, S.line, n + 1) = Stripped(R.line)
  <2>1. (n + 1) - 1 = n
    OBVIOUS
  <2>2. R.line = SubSeq(q, o + 1, Len(q))
    BY <1>4 DEF Reads, o
  <2> HIDE DEF q, o
  <2> QED
    BY <1>6, <2>1, <2>2 DEF Line
<1> DEFINE B == Byte(R, u)
<1> HIDE DEF q, o, u, raw, B
<1>9. CASE u # "lf"
  <2>1. Reads(B, Append(q, u)) /\ B.frames = R.frames /\ Split(Append(q, u)).open = o
    BY <1>2, <1>4, <1>9, ReadsOther DEF B, o
  <2>2. ScanPast(buf, S, n + 1) = S
    BY <1>9 DEF ScanPast, u
  <2>3. S.frame <= n + 1
    BY <1>1
  <2> QED
    BY <1>2, <1>4, <2>1, <2>2, <2>3 DEF Scanning, B, u
<1>10. CASE u = "lf" /\ Stripped(R.line) # <<>>
  <2>1. Reads(B, Append(q, u)) /\ B.frames = R.frames /\ Split(Append(q, u)).open = Len(q) + 1
    BY <1>2, <1>4, <1>10, ReadsLine DEF B
  <2> DEFINE E == ScanPast(buf, S, n + 1)
  <2>2. E = [frame |-> S.frame, line |-> n + 1, frames |-> S.frames, error |-> S.error]
    BY <1>8, <1>10 DEF ScanPast, u, LineEnd
  <2>3. E.frame = S.frame /\ E.line = n + 1 /\ E.frames = S.frames /\ E.error = S.error
    BY <2>2
  <2>4. S.frame <= n + 1 /\ n + 1 = S.frame + (Len(q) + 1)
    BY <1>1, <1>3
  <2> HIDE DEF E
  <2>5. SubSeq(buf, E.frame + 1, n + 1) = Append(q, u)
    BY <1>2, <2>3
  <2>6. Scanning(buf, E, n + 1, B, base)
    BY <1>4, <2>1, <2>3, <2>4, <2>5 DEF Scanning
  <2> QED
    BY <2>6 DEF E, B, u
<1>11. CASE u = "lf" /\ Stripped(R.line) = <<>>
  <2>1. Reads(B, <<>>) /\ B.frames = R.frames \o Ended(raw)
    BY <1>2, <1>4, <1>11, ReadsBlank DEF B, raw, o
  <2> DEFINE E == ScanPast(buf, S, n + 1)
             error == IF Invalid(raw) THEN "utf8" ELSE S.error
             frames == S.frames \o ParseFrame(raw)
  <2>2. E = [frame |-> n + 1, line |-> n + 1, frames |-> frames, error |-> error]
    BY <1>7, <1>8, <1>11 DEF ScanPast, u, LineEnd
  <2> HIDE DEF E, error, frames
  <2>3. E.frame = n + 1 /\ E.line = n + 1 /\ E.frames = frames /\ E.error = error
    BY <2>2
  <2>4. SubSeq(buf, E.frame + 1, n + 1) = <<>>
    <3>1. (n + 1) + 1 \in Int /\ n + 1 \in Int /\ n + 1 < (n + 1) + 1
      OBVIOUS
    <3> QED
      BY <2>3, <3>1, SubSeqEmpty
  <2>5. Split(<<>>).open = 0
    BY SplitNone DEF NoLines
  <2>6. n + 1 <= n + 1 /\ n + 1 = (n + 1) + 0
    OBVIOUS
  <2>7. ParseFrame(raw) \in Seq(Bytes) /\ Ended(raw) \in Seq(Bytes)
    BY <1>5, ParseType
  <2>8. ASSUME error = "none" PROVE B.frames = base \o frames
    <3>1. ~Invalid(raw) /\ S.error = "none"
      BY <2>8 DEF error
    <3>2. B.frames = (base \o S.frames) \o ParseFrame(raw)
      BY <1>4, <2>1, <3>1 DEF Ended
    <3> DEFINE P == ParseFrame(raw)
               M == S.frames
    <3>3. P \in Seq(Bytes) /\ M \in Seq(Bytes)
      BY <1>1, <2>7
    <3>4. B.frames = (base \o M) \o P /\ frames = M \o P
      BY <3>2 DEF frames
    <3> HIDE DEF P, M
    <3>5. (base \o M) \o P = base \o (M \o P)
      BY ONLY <3>3, ConcatAssociative
    <3> QED
      BY <3>4, <3>5
  <2>9. ASSUME error # "none" PROVE Contains(B.frames, <<"invalid">>)
    <3>1. Contains(B.frames, <<"invalid">>)
            <=> Contains(R.frames, <<"invalid">>) \/ Contains(Ended(raw), <<"invalid">>)
      BY <1>1, <2>1, <2>7, ContainsConcat
    <3>2. CASE Invalid(raw)
      <4>1. Contains(Ended(raw), <<"invalid">>)
        <5>1. Ended(raw) = << <<"invalid">> >>
          BY <3>2 DEF Ended
        <5>2. 1 \in 1..Len(Ended(raw)) /\ Ended(raw)[1] = <<"invalid">>
          BY <5>1
        <5> QED
          BY <5>2, Zenon DEF Contains
      <4> QED
        BY <3>1, <4>1
    <3>3. CASE ~Invalid(raw)
      <4>1. S.error # "none"
        BY <2>9, <3>3 DEF error
      <4> QED
        BY <1>4, <3>1, <4>1
    <3> QED
      BY <3>2, <3>3
  <2>10. Scanning(buf, E, n + 1, B, base)
    BY <2>1, <2>3, <2>4, <2>5, <2>6, <2>8, <2>9 DEF Scanning
  <2> QED
    BY <2>10 DEF E, B, u
<1> QED
  BY <1>9, <1>10, <1>11

LinesPast(p, buf, S, n) == IF n > p.scanned /\ buf[n] = "lf" THEN LineEnd(buf, S, n) ELSE S
LinesFrom(p) == [frame |-> 0, line |-> OpenLine(p), frames |-> <<>>, error |-> "none"]

LEMMA LinesRun ==
  ASSUME NEW buf \in Bytes, NEW p, p.line_start \in 0..Len(buf)
  PROVE  \E f \in [0..Len(buf) -> Scans(Len(buf))] :
           /\ f[0] = LinesFrom(p)
           /\ \A m \in 1..Len(buf) : f[m] = LinesPast(p, buf, f[m - 1], m)
           /\ Lines(p, buf) = f[Len(buf)]
<1> DEFINE n == Len(buf)
           X == Scans(n)
           x == LinesFrom(p)
           F == [m \in 1..n |-> [S \in X |-> LinesPast(p, buf, S, m)]]
           c == CHOOSE c : c = [m \in 0..n |-> IF m = 0 THEN x ELSE LinesPast(p, buf, c[m - 1], m)]
<1>1. n \in Nat /\ 0 \in 0..n
  BY LenProperties DEF Bytes
<1>2. x \in X
  <2>1. <<>> \in Seq(Bytes)
    BY EmptySeq
  <2> QED
    BY <1>1, <2>1 DEF LinesFrom, OpenLine, Scans
<1>3. F \in [1..n -> [X -> X]]
  <2>1. ASSUME NEW m \in 1..n, NEW S \in X PROVE LinesPast(p, buf, S, m) \in X
    BY LineEndType DEF LinesPast
  <2> HIDE DEF X, n
  <2> QED
    BY <2>1
<1>4. Lines(p, buf) = c[n]
  BY DEF Lines, LinesPast, LinesFrom
<1> HIDE DEF c, n, X, x
<1>5. PICK f : Runs(f, X, x, n, F)
  <2> HIDE DEF F
  <2> QED
    BY <1>1, <1>2, <1>3, RunExists
<1>6. \A m \in 1..n : f[m - 1] \in X /\ f[m] = LinesPast(p, buf, f[m - 1], m)
  <2> TAKE m \in 1..n
  <2>1. m - 1 \in 0..n
    BY <1>1
  <2>2. f[m - 1] \in X /\ f[m] = F[m][f[m - 1]]
    <3> HIDE DEF F
    <3> QED
      BY <1>5, <2>1 DEF Runs
  <2> QED
    BY <2>2
<1>7. f = [m \in 0..n |-> IF m = 0 THEN x ELSE LinesPast(p, buf, f[m - 1], m)]
  <2>1. f[0] = x /\ f = [m \in 0..n |-> f[m]]
    BY <1>5 DEF Runs
  <2>2. \A m \in 0..n : m # 0 => m \in 1..n
    BY <1>1
  <2> QED
    BY <1>6, <2>1, <2>2
<1>8. c = [m \in 0..n |-> IF m = 0 THEN x ELSE LinesPast(p, buf, c[m - 1], m)]
  BY <1>7 DEF c
<1>9. c[0] = x /\ \A m \in 1..n : c[m - 1] \in X => c[m] = F[m][c[m - 1]]
  <2>1. 0 \in 0..n /\ \A m \in 1..n : m \in 0..n /\ m # 0
    BY <1>1
  <2>2. c[0] = x /\ \A m \in 1..n : c[m] = LinesPast(p, buf, c[m - 1], m)
    BY <1>8, <2>1
  <2> QED
    BY <2>2
<1>10. c[n] = f[n]
  <2> HIDE DEF F
  <2>1. \A m \in 0..n : c[m] = f[m]
    <3>1. Follows(c, X, x, n, F)
      BY <1>9 DEF Follows
    <3> QED
      BY <1>1, <1>2, <1>3, <1>5, <3>1, RunIs
  <2>2. n \in 0..n
    BY <1>1
  <2> QED
    BY <2>1, <2>2
<1>11. f \in [0..n -> X] /\ f[0] = x
  BY <1>5 DEF Runs
<1>12. f \in [0..n -> X] /\ f[0] = x /\ Lines(p, buf) = f[n]
       /\ \A m \in 1..n : f[m] = LinesPast(p, buf, f[m - 1], m)
  BY <1>4, <1>6, <1>10, <1>11
<1> QED
  BY <1>12 DEF n, X, x

\* A parser between two chunks.
Parsing(p) == p.buffer \in Bytes /\ p.line_start = Split(p.buffer).open /\ p.scanned = Len(p.buffer)

LEMMA TextMore ==
  ASSUME NEW text \in Bytes, NEW chunk \in Bytes, NEW k \in Nat, k + 1 <= Len(chunk)
  PROVE  /\ text \o SubSeq(chunk, 1, k) \in Bytes /\ chunk[k + 1] \in Unit
         /\ text \o SubSeq(chunk, 1, k + 1) = Append(text \o SubSeq(chunk, 1, k), chunk[k + 1])
<1> DEFINE c == SubSeq(chunk, 1, k)
           d == SubSeq(chunk, 1, k + 1)
           u == chunk[k + 1]
<1>1. u \in Unit /\ c \in Bytes /\ d = Append(c, u)
  <2>1. 0 \in Nat /\ 0 <= k /\ 0 + 1 = 1
    OBVIOUS
  <2>2. u \in Unit /\ SubSeq(chunk, 0 + 1, k) \in Bytes
        /\ SubSeq(chunk, 0 + 1, k + 1) = Append(SubSeq(chunk, 0 + 1, k), u)
    BY <2>1, SliceMore
  <2> QED
    BY <2>1, <2>2
<1> HIDE DEF c, d, u
<1>2. d = c \o <<u>> /\ <<u>> \in Bytes
  BY <1>1, AppendIsConcat, OneByte DEF Bytes
<1>3. text \o c \in Bytes
  BY <1>1, ConcatProperties DEF Bytes
<1>4. (text \o c) \o <<u>> = text \o (c \o <<u>>)
  BY <1>1, <1>2, ConcatAssociative DEF Bytes
<1>5. Append(text \o c, u) = (text \o c) \o <<u>>
  BY <1>1, <1>3, AppendIsConcat DEF Bytes
<1>6. text \o d = Append(text \o c, u)
  BY <1>2, <1>4, <1>5
<1> QED
  BY <1>1, <1>3, <1>6 DEF c, d, u

LEMMA SliceNone == ASSUME NEW s PROVE SubSeq(s, 1, 0) = <<>>
BY SubSeqEmpty

\* Wherever a chunk is cut off, the scan of it and the reading go together.
LEMMA ScanReads ==
  ASSUME NEW p, Parsing(p), NEW text \in Bytes, NEW chunk \in Bytes, Reads(Reading(text), p.buffer)
  PROVE  LET buf == p.buffer \o chunk
         IN /\ buf \in Bytes /\ text \o chunk \in Bytes
            /\ Len(buf) = Len(p.buffer) + Len(chunk)
            /\ Lines(p, buf) \in Scans(Len(buf))
            /\ Scanning(buf, Lines(p, buf), Len(buf), Reading(text \o chunk), Reading(text).frames)
<1> DEFINE buf == p.buffer \o chunk
           N == Len(buf)
           b == Len(p.buffer)
           base == Reading(text).frames
           t(k) == text \o SubSeq(chunk, 1, k)
<1>1. /\ p.buffer \in Bytes /\ buf \in Bytes /\ b \in Nat /\ Len(chunk) \in Nat /\ N = b + Len(chunk)
      /\ \A i \in 1..b : buf[i] = p.buffer[i]
      /\ \A i \in 1..Len(chunk) : buf[b + i] = chunk[i]
  <2>1. p.buffer \in Bytes /\ b \in Nat /\ Len(chunk) \in Nat
    BY LenProperties DEF Bytes, Parsing
  <2>2. /\ buf \in Bytes /\ N = b + Len(chunk)
        /\ \A i \in 1..(b + Len(chunk)) : buf[i] = IF i <= b THEN p.buffer[i] ELSE chunk[i - b]
    BY <2>1, ConcatProperties DEF Bytes
  <2> HIDE DEF buf, N, b
  <2>3. ASSUME NEW i \in 1..b PROVE buf[i] = p.buffer[i]
    <3>1. i \in 1..(b + Len(chunk)) /\ i <= b
      BY <2>1
    <3> QED
      BY <2>2, <3>1
  <2>4. ASSUME NEW i \in 1..Len(chunk) PROVE buf[b + i] = chunk[i]
    <3>1. b + i \in 1..(b + Len(chunk)) /\ ~(b + i <= b) /\ (b + i) - b = i
      BY <2>1
    <3> QED
      BY <2>2, <3>1
  <2> QED
    BY <2>1, <2>2, <2>3, <2>4
<1>2. p.line_start \in 0..N /\ p.scanned = b
  <2>1. Split(p.buffer).open \in 0..b
    BY <1>1, SplitComplete
  <2> HIDE DEF N, b
  <2>2. p.line_start \in 0..N
    BY <1>1, <2>1 DEF Parsing
  <2> QED
    BY <2>2 DEF Parsing, b
<1>3. base \in Seq(Bytes) /\ Reading(text) \in Readings
  BY ReadingType DEF Readings
<1> HIDE DEF buf, b, base
<1>4. PICK f \in [0..N -> Scans(N)] :
        /\ f[0] = LinesFrom(p)
        /\ \A m \in 1..N : f[m] = LinesPast(p, buf, f[m - 1], m)
        /\ Lines(p, buf) = f[N]
  BY <1>1, <1>2, LinesRun
<1> HIDE DEF N
<1>5. f[b] = LinesFrom(p)
  <2> DEFINE T == {m \in 0..b : f[m] = LinesFrom(p)}
  <2>1. 0 \in T
    BY <1>1, <1>4
  <2>2. ASSUME NEW m \in T, m < b PROVE m + 1 \in T
    <3>1. m + 1 \in 0..b /\ m + 1 \in 1..N /\ (m + 1) - 1 = m /\ ~(m + 1 > b)
      BY <1>1, <2>2
    <3>2. f[m] = LinesFrom(p)
      OBVIOUS
    <3> HIDE DEF T
    <3>3. f[m + 1] = f[m]
      BY <1>2, <1>4, <3>1 DEF LinesPast
    <3> QED
      BY <3>1, <3>2, <3>3 DEF T
  <2>3. T = 0..b
    <3> HIDE DEF T
    <3>1. T \in SUBSET (0..b)
      BY DEF T
    <3> QED
      BY <1>1, <2>1, <2>2, <3>1, UpTo
  <2>4. b \in T
    BY <1>1, <2>3
  <2> QED
    BY <2>4
<1>6. Scanning(buf, f[b], b, Reading(t(0)), base) /\ t(0) \in Bytes
  <2>1. t(0) = text
    <3>1. SubSeq(chunk, 1, 0) = <<>>
      BY SliceNone
    <3> QED
      BY <3>1, ConcatEmptySeq DEF Bytes
  <2>2. SubSeq(buf, 1, b) = p.buffer
    <3>1. SubSeq(buf, 1, b) = SubSeq(p.buffer, 1, b)
      <4>1. 1 \in Int /\ b \in Int /\ \A i \in 1..b : i \in 1..Len(p.buffer)
        BY <1>1 DEF b
      <4> QED
        BY <1>1, <4>1, SameSlice DEF Bytes
    <3> QED
      BY <1>1, <3>1, SubSeqFull DEF Bytes, b
  <2> DEFINE S == f[b]
  <2>3. S.frame = 0 /\ S.line = Split(p.buffer).open /\ S.frames = <<>> /\ S.error = "none"
    BY <1>5 DEF LinesFrom, OpenLine, Parsing
  <2> HIDE DEF S
  <2>4. SubSeq(buf, S.frame + 1, b) = p.buffer
    <3>1. S.frame + 1 = 1
      BY <2>3
    <3> QED
      BY <2>2, <3>1
  <2>5. Split(p.buffer).open = 0 + Split(p.buffer).open /\ 0 <= b
    BY <1>1, SplitType DEF Splits
  <2>6. Reading(text).frames = base \o <<>>
    BY <1>3, ConcatEmptySeq DEF base
  <2>7. Scanning(buf, S, b, Reading(text), base)
    BY <2>3, <2>4, <2>5, <2>6 DEF Scanning
  <2> QED
    BY <2>1, <2>7 DEF S
<1> DEFINE T == {k \in 0..Len(chunk) : t(k) \in Bytes /\ Scanning(buf, f[b + k], b + k, Reading(t(k)), base)}
<1>7. 0 \in T
  <2>1. b + 0 = b /\ 0 \in 0..Len(chunk)
    BY <1>1
  <2> QED
    BY <1>6, <2>1
<1>8. ASSUME NEW k \in T, k < Len(chunk) PROVE k + 1 \in T
  <2>1. k \in 0..Len(chunk) /\ t(k) \in Bytes /\ Scanning(buf, f[b + k], b + k, Reading(t(k)), base)
    OBVIOUS
  <2> HIDE DEF T
  <2>2. /\ k \in Nat /\ k + 1 <= Len(chunk) /\ k + 1 \in 1..Len(chunk) /\ k + 1 \in 0..Len(chunk)
        /\ b + k \in Nat /\ (b + k) + 1 <= N /\ b + k \in 0..N
        /\ b + (k + 1) = (b + k) + 1 /\ (b + k) + 1 > b /\ (b + k) + 1 \in 1..N
        /\ ((b + k) + 1) - 1 = b + k
    BY <1>1, <1>8, <2>1
  <2>3. chunk[k + 1] \in Unit /\ t(k + 1) = Append(t(k), chunk[k + 1])
    BY <2>2, TextMore
  <2> HIDE DEF t
  <2>4. t(k + 1) \in Bytes /\ Reading(t(k + 1)) = Byte(Reading(t(k)), chunk[k + 1])
    BY <2>1, <2>3, ReadMore
  <2>5. buf[(b + k) + 1] = chunk[k + 1]
    BY <1>1, <2>2
  <2>6. f[(b + k) + 1] = ScanPast(buf, f[b + k], (b + k) + 1)
    BY <1>2, <1>4, <2>2 DEF LinesPast, ScanPast
  <2>7. f[b + k] \in Scans(Len(buf)) /\ (b + k) + 1 <= Len(buf)
    BY <1>4, <2>2 DEF N
  <2>8. Reading(t(k)) \in Readings
    BY <2>1, ReadingType
  <2>9. Scanning(buf, ScanPast(buf, f[b + k], (b + k) + 1), (b + k) + 1,
                 Byte(Reading(t(k)), buf[(b + k) + 1]), base)
    BY <1>1, <1>3, <2>1, <2>2, <2>7, <2>8, ScanStep
  <2>10. Scanning(buf, f[b + (k + 1)], b + (k + 1), Reading(t(k + 1)), base)
    BY <2>2, <2>4, <2>5, <2>6, <2>9
  <2> QED
    BY <2>2, <2>4, <2>10 DEF T
<1>9. Len(chunk) \in T
  <2> HIDE DEF T
  <2>1. T \in SUBSET (0..Len(chunk)) /\ Len(chunk) \in 0..Len(chunk)
    BY <1>1 DEF T
  <2>2. T = 0..Len(chunk)
    BY <1>1, <1>7, <1>8, <2>1, UpTo
  <2> QED
    BY <2>1, <2>2
<1>10. t(Len(chunk)) = text \o chunk
  BY SubSeqFull DEF Bytes
<1>11. t(Len(chunk)) \in Bytes /\ Scanning(buf, f[N], N, Reading(t(Len(chunk))), base)
  BY <1>1, <1>9
<1> HIDE DEF t, T
<1>12. f[N] \in Scans(N)
  <2>1. N \in 0..N
    BY <1>1
  <2> QED
    BY <1>4, <2>1
<1>13. /\ buf \in Bytes /\ text \o chunk \in Bytes /\ N = b + Len(chunk)
       /\ Lines(p, buf) \in Scans(N)
       /\ Scanning(buf, Lines(p, buf), N, Reading(text \o chunk), base)
  BY <1>1, <1>4, <1>10, <1>11, <1>12
<1> QED
  BY <1>13 DEF buf, N, b, base

\* More bytes take no frame back, and do not narrow the widest.
Beyond(R, T) ==
  /\ R \in Readings /\ T \in Readings /\ R.widest <= T.widest
  /\ \E more \in Seq(Bytes) : T.frames = R.frames \o more

LEMMA BeyondIs ==
  ASSUME NEW R \in Readings, NEW T \in Readings, R.widest <= T.widest,
         NEW more \in Seq(Bytes), T.frames = R.frames \o more
  PROVE  Beyond(R, T)
BY Zenon DEF Beyond

LEMMA BeyondSame ==
  ASSUME NEW R \in Readings, NEW T \in Readings, R.widest <= T.widest, T.frames = R.frames
  PROVE  Beyond(R, T)
<1>1. R.frames \in Seq(Bytes)
  BY DEF Readings
<1>2. R.frames = R.frames \o <<>> /\ <<>> \in Seq(Bytes)
  BY <1>1, ConcatEmptySeq, EmptySeq
<1>3. T.frames = R.frames \o <<>>
  BY <1>2, Zenon
<1> QED
  BY <1>2, <1>3, BeyondIs

LEMMA BeyondByte == ASSUME NEW R \in Readings, NEW u \in Unit PROVE Beyond(R, Byte(R, u))
<1> DEFINE B == Byte(R, u)
<1>1. B \in Readings /\ R.frames \in Seq(Bytes) /\ R.data \in Bytes
  BY ByteType DEF Readings
<1>2. R.widest <= Wider(R)
  BY WidestGrows
<1>3. R.frames = R.frames \o <<>> /\ <<>> \in Seq(Bytes)
  BY <1>1, ConcatEmptySeq, EmptySeq
<1>4. ASSUME NEW x \in Bytes PROVE Append(R.frames, x) = R.frames \o <<x>> /\ <<x>> \in Seq(Bytes)
  BY <1>1, AppendIsConcat
<1>5. CASE u # "lf"
  <2>1. B.frames = R.frames /\ B.widest = Wider(R)
    BY <1>5, ByteOther
  <2> HIDE DEF B
  <2>2. Beyond(R, B)
    BY <1>1, <1>2, <2>1, BeyondSame
  <2> QED
    BY <2>2 DEF B
<1>6. CASE u = "lf" /\ Stripped(R.line) # <<>>
  <2>1. B.frames = R.frames /\ B.widest = Wider(R)
    <3> DEFINE bad == IF Contains(Stripped(R.line), "invalid") THEN "yes" ELSE R.bad
    <3>1. B = [line |-> <<>>, data |-> R.data \o Data(Stripped(R.line)), bad |-> bad,
               frames |-> R.frames, size |-> R.size + 1, widest |-> Wider(R)]
      BY <1>6, ByteLine
    <3> HIDE DEF B, bad
    <3> QED
      BY <3>1
  <2> HIDE DEF B
  <2>2. Beyond(R, B)
    BY <1>1, <1>2, <2>1, BeyondSame
  <2> QED
    BY <2>2 DEF B
<1>7. CASE u = "lf" /\ Stripped(R.line) = <<>>
  <2>1. B.frames = Given(R) /\ B.widest = Wider(R)
    BY <1>7, ByteBlank
  <2>2. \E more \in Seq(Bytes) : Given(R) = R.frames \o more
    <3>1. CASE R.bad = "yes"
      BY <1>4, <3>1, Units, OneByte DEF Given
    <3>2. CASE R.bad # "yes" /\ Len(R.data) > 1
      <4>1. R.data # <<>>
        BY <3>2, NoBytes
      <4>2. Tail(R.data) \in Bytes
        BY <1>1, <4>1, HeadTailProperties DEF Bytes
      <4> QED
        BY <1>4, <3>2, <4>2 DEF Given
    <3>3. CASE R.bad # "yes" /\ ~(Len(R.data) > 1)
      BY <1>3, <3>3 DEF Given
    <3> QED
      BY <3>1, <3>2, <3>3
  <2> HIDE DEF B
  <2> QED
    BY <1>1, <1>2, <2>1, <2>2, BeyondIs DEF B
<1> QED
  BY <1>5, <1>6, <1>7

LEMMA BeyondFurther ==
  ASSUME NEW R, NEW T, NEW V, Beyond(R, T), Beyond(T, V) PROVE Beyond(R, V)
<1>1. /\ R \in Readings /\ T \in Readings /\ V \in Readings
      /\ R.frames \in Seq(Bytes) /\ R.widest \in Nat /\ T.widest \in Nat /\ V.widest \in Nat
      /\ R.widest <= T.widest /\ T.widest <= V.widest
  BY DEF Beyond, Readings
<1>2. PICK m \in Seq(Bytes) : T.frames = R.frames \o m
  BY DEF Beyond
<1>3. PICK n \in Seq(Bytes) : V.frames = T.frames \o n
  BY DEF Beyond
<1> DEFINE F == R.frames
<1>4. F \in Seq(Bytes) /\ V.frames = (F \o m) \o n
  BY <1>1, <1>2, <1>3
<1> HIDE DEF F
<1>5. (F \o m) \o n = F \o (m \o n) /\ m \o n \in Seq(Bytes)
  BY <1>4, ConcatAssociative, ConcatProperties
<1>6. V.frames = R.frames \o (m \o n) /\ R.widest <= V.widest
  BY <1>1, <1>4, <1>5 DEF F
<1> QED
  BY <1>1, <1>5, <1>6, BeyondIs

LEMMA ReadsBeyond ==
  ASSUME NEW text \in Bytes, NEW chunk \in Bytes
  PROVE  text \o chunk \in Bytes /\ Beyond(Reading(text), Reading(text \o chunk))
<1> DEFINE t(k) == text \o SubSeq(chunk, 1, k)
           n == Len(chunk)
           T == {k \in 0..n : t(k) \in Bytes /\ Beyond(Reading(text), Reading(t(k)))}
<1>1. n \in Nat /\ Reading(text) \in Readings
  BY LenProperties, ReadingType DEF Bytes
<1>2. t(0) = text /\ t(n) = text \o chunk
  <2>1. SubSeq(chunk, 1, 0) = <<>> /\ SubSeq(chunk, 1, n) = chunk
    BY SliceNone, SubSeqFull DEF Bytes
  <2> QED
    BY <2>1, ConcatEmptySeq DEF Bytes
<1> HIDE DEF n
<1>3. 0 \in T
  <2>1. Beyond(Reading(text), Reading(text))
    <3>1. Reading(text).widest <= Reading(text).widest
      BY <1>1 DEF Readings
    <3> QED
      BY <1>1, <3>1, BeyondSame
  <2>2. 0 \in 0..n
    BY <1>1
  <2> HIDE DEF t
  <2> QED
    BY <1>2, <2>1, <2>2
<1>4. ASSUME NEW k \in T, k < n PROVE k + 1 \in T
  <2>1. k \in 0..n /\ t(k) \in Bytes /\ Beyond(Reading(text), Reading(t(k)))
    OBVIOUS
  <2> HIDE DEF T
  <2>2. k \in Nat /\ k + 1 <= n /\ k + 1 \in 0..n
    BY <1>1, <1>4, <2>1
  <2>3. chunk[k + 1] \in Unit /\ t(k + 1) = Append(t(k), chunk[k + 1])
    BY <2>2, TextMore DEF n
  <2> HIDE DEF t
  <2>4. t(k + 1) \in Bytes /\ Reading(t(k + 1)) = Byte(Reading(t(k)), chunk[k + 1])
    BY <2>1, <2>3, ReadMore
  <2>5. Beyond(Reading(t(k)), Byte(Reading(t(k)), chunk[k + 1]))
    BY <2>1, <2>3, ReadingType, BeyondByte
  <2>6. Beyond(Reading(text), Reading(t(k + 1)))
    BY <2>1, <2>4, <2>5, BeyondFurther
  <2> QED
    BY <2>2, <2>4, <2>6 DEF T
<1>5. n \in T
  <2> HIDE DEF T
  <2>1. T \in SUBSET (0..n) /\ n \in 0..n
    BY <1>1 DEF T
  <2>2. T = 0..n
    BY <1>1, <1>3, <1>4, <2>1, UpTo
  <2> QED
    BY <2>1, <2>2
<1> QED
  BY <1>2, <1>5

\* Parser::feed: what it gives of a chunk is what a reader reads in it.
LEMMA FeedReads ==
  ASSUME NEW p, Parsing(p), NEW text \in Bytes, NEW chunk \in Bytes, Reads(Reading(text), p.buffer)
  PROVE  LET fed == Feed(p, chunk)
             T == Reading(text)
             R == Reading(text \o chunk)
         IN /\ fed.error = "none" => /\ Parsing(fed.parser) /\ Reads(R, fed.parser.buffer)
                                     /\ fed.frames \in Seq(Bytes) /\ R.frames = T.frames \o fed.frames
            /\ fed.error # "none" => /\ fed.frames = <<>>
                                     /\ \/ Contains(R.frames, <<"invalid">>)
                                        \/ R.widest + Len(chunk) > MAX_FRAME_BYTES
<1> DEFINE buf == p.buffer \o chunk
           N == Len(buf)
           b == Len(p.buffer)
           fed == Feed(p, chunk)
           end == Lines(p, buf)
           T == Reading(text)
           R == Reading(text \o chunk)
<1> SUFFICES /\ fed.error = "none" => /\ Parsing(fed.parser) /\ Reads(R, fed.parser.buffer)
                                      /\ fed.frames \in Seq(Bytes)
                                      /\ R.frames = T.frames \o fed.frames
             /\ fed.error # "none" => /\ fed.frames = <<>>
                                      /\ \/ Contains(R.frames, <<"invalid">>)
                                         \/ R.widest + Len(chunk) > MAX_FRAME_BYTES
  OBVIOUS
<1>1. /\ buf \in Bytes /\ text \o chunk \in Bytes /\ N = b + Len(chunk)
      /\ end \in Scans(N) /\ Scanning(buf, end, N, R, T.frames)
  BY ScanReads
<1>2. N \in Nat /\ b \in Nat /\ Len(chunk) \in Nat /\ MAX_FRAME_BYTES \in Nat
  BY <1>1, LenProperties, SseAssumption DEF Bytes, Parsing
<1>3. Beyond(T, R)
  BY ReadsBeyond
<1>4. CASE N > MAX_FRAME_BYTES
  <2>1. fed = Failed("too large")
    BY <1>4 DEF Feed
  <2> HIDE DEF fed
  <2>2. fed.frames = <<>> /\ fed.error = "too large"
    BY <2>1 DEF Failed
  <2>3. T.size = b /\ T.size <= T.widest /\ T.widest <= R.widest /\ T.widest \in Nat /\ R.widest \in Nat
    BY <1>3 DEF Reads, Beyond, Readings
  <2> HIDE DEF fed, T, R, b, N
  <2>4. R.widest + Len(chunk) > MAX_FRAME_BYTES
    BY <1>1, <1>2, <1>4, <2>3
  <2>5. fed.error # "none"
    BY <2>2
  <2> QED
    BY <2>2, <2>4, <2>5
<1>5. CASE ~(N > MAX_FRAME_BYTES)
  <2>1. fed = Fed(buf, end)
    BY <1>5 DEF Feed
  <2>2. CASE end.error # "none"
    <3>1. fed = Failed(end.error)
      BY <2>1, <2>2 DEF Fed
    <3> HIDE DEF fed, end
    <3>2. fed.frames = <<>> /\ fed.error # "none"
      BY <2>2, <3>1 DEF Failed
    <3>3. Contains(R.frames, <<"invalid">>)
      BY <1>1, <2>2 DEF Scanning
    <3> HIDE DEF R, T
    <3> QED
      BY <3>2, <3>3
  <2>3. CASE end.error = "none"
    <3> DEFINE q == SubSeq(buf, end.frame + 1, N)
    <3>1. /\ end.frame \in Nat /\ end.frame <= N /\ end.frames \in Seq(Bytes)
          /\ Reads(R, q) /\ end.line = end.frame + Split(q).open /\ R.frames = T.frames \o end.frames
      <4> HIDE DEF R, T, end, N, buf
      <4>1. end.frame \in 0..N /\ end.frames \in Seq(Bytes)
        BY <1>1 DEF Scans
      <4>2. end.frame \in Nat /\ end.frame <= N
        BY <1>2, <4>1
      <4>3. Scanning(buf, end, N, R, T.frames)
        BY <1>1
      <4>4. Reads(R, q) /\ end.line = end.frame + Split(q).open
        BY <4>3, Zenon DEF Scanning
      <4>5. R.frames = T.frames \o end.frames
        BY <2>3, <4>3, Zenon DEF Scanning
      <4> QED
        BY <4>1, <4>2, <4>4, <4>5
    <3>2. q \in Bytes /\ Len(q) = IF end.frame + 1 <= N THEN N - end.frame ELSE 0
      <4>1. N \in Int /\ N <= Len(buf)
        BY <1>2
      <4> HIDE DEF end, N
      <4> QED
        BY <1>1, <3>1, <4>1, Sliced
    <3>3. Split(q).open \in Nat
      BY <3>2, Halves
    <3>4. fed = [parser |-> [buffer |-> q, line_start |-> end.line - end.frame,
                             scanned |-> N - end.frame],
                 frames |-> end.frames, error |-> "none"]
      BY <2>1, <2>3 DEF Fed
    <3> HIDE DEF q, end, N, fed, R, T
    <3>5. /\ fed.parser.buffer = q /\ fed.parser.line_start = end.line - end.frame
          /\ fed.parser.scanned = N - end.frame /\ fed.frames = end.frames /\ fed.error = "none"
      BY <3>4
    <3>6. end.line - end.frame = Split(q).open /\ N - end.frame = Len(q)
      BY <1>2, <3>1, <3>2, <3>3
    <3>7. Parsing(fed.parser)
      BY <3>2, <3>5, <3>6 DEF Parsing
    <3> QED
      BY <3>1, <3>5, <3>7
  <2> QED
    BY <2>2, <2>3
<1> QED
  BY <1>4, <1>5

-----------------------------------------------------------------------------
\* What the scanner is given, wherever the bytes are cut.

\* What has come is one chunk at most; what was taken of it is bytes.
TakenInv ==
  /\ queue = <<>> \/ \E c \in Chunks : queue = <<c>>
  /\ relayed \in Bytes
  /\ Buffered => relayed = whole

\* The scanner's parser stands where a reader of what was relayed stands.
ParserInv ==
  sort = "events" /\ ~Buffered =>
    /\ seen \in Seq(Bytes)
    /\ scan.body \in {"events", "unreadable"}
    /\ scan.body = "events" =>
         /\ Parsing(scan.parser) /\ Reads(Reading(relayed), scan.parser.buffer)
         /\ seen = Frames(relayed)
    /\ scan.body = "unreadable" =>
         /\ \E more \in Seq(Bytes) : Frames(relayed) = seen \o more
         /\ \/ Contains(Frames(relayed), <<"invalid">>)
            \/ \E c \in Chunks : Reading(relayed).widest + Len(c) > MAX_FRAME_BYTES

FramesInv == TakenInv /\ ParserInv

LEMMA PrefixIs ==
  ASSUME NEW S, NEW s \in Seq(S), NEW more \in Seq(S)
  PROVE  IsPrefix(s, s \o more)
<1> DEFINE t == s \o more
           n == Len(s)
<1>1. /\ n \in Nat /\ Len(more) \in Nat /\ t \in Seq(S) /\ Len(t) = n + Len(more)
      /\ \A i \in 1..(n + Len(more)) : t[i] = IF i <= n THEN s[i] ELSE more[i - n]
  BY ConcatProperties, LenProperties
<1> HIDE DEF t
<1>2. \A i \in 1..n : i \in 1..Len(t) /\ s[i] = t[i]
  BY <1>1
<1>3. SubSeq(s, 1, n) = SubSeq(t, 1, n)
  <2>1. 1 \in Int /\ n \in Int
    BY <1>1
  <2> HIDE DEF n
  <2> QED
    BY <1>1, <1>2, <2>1, SameSlice
<1>4. n <= Len(t)
  BY <1>1
<1> QED
  BY <1>3, <1>4 DEF IsPrefix, t

LEMMA FramesFollow == FramesInv => FramesWhateverTheSplit
<1> SUFFICES ASSUME FramesInv, sort = "events", ~Buffered
             PROVE  IF scan.body = "events" THEN seen = Frames(relayed)
                    ELSE /\ IsPrefix(seen, Frames(relayed))
                         /\ \/ Contains(Frames(relayed), <<"invalid">>)
                            \/ \E c \in Chunks : Reading(relayed).widest + Len(c) > MAX_FRAME_BYTES
  BY DEF FramesWhateverTheSplit
<1>1. CASE scan.body = "events"
  BY <1>1 DEF FramesInv, ParserInv
<1>2. CASE scan.body # "events"
  <2>1. seen \in Seq(Bytes) /\ scan.body = "unreadable"
    BY <1>2 DEF FramesInv, ParserInv
  <2>2. PICK more \in Seq(Bytes) : Frames(relayed) = seen \o more
    BY <2>1 DEF FramesInv, ParserInv
  <2>3. IsPrefix(seen, Frames(relayed))
    BY <2>1, <2>2, PrefixIs
  <2> QED
    BY <1>2, <2>1, <2>3 DEF FramesInv, ParserInv
<1> QED
  BY <1>1, <1>2

LEMMA NewParserReads ==
  Parsing(NewParser) /\ Reads(Reading(<<>>), NewParser.buffer) /\ Frames(<<>>) = <<>>
<1>1. NewParser.buffer = <<>> /\ NewParser.line_start = 0 /\ NewParser.scanned = 0
  BY DEF NewParser
<1>2. Parsing(NewParser)
  BY <1>1, NoBytes, SplitNone DEF Parsing, NoLines
<1>3. Reads(Unread, <<>>) /\ Unread.frames = <<>>
  BY ReadsNone DEF Unread
<1> QED
  BY <1>1, <1>2, <1>3, ReadNone DEF Frames

LEMMA FramesInit == Init => FramesInv
<1> SUFFICES ASSUME Init PROVE FramesInv
  OBVIOUS
<1>1. queue = <<>> /\ relayed = <<>> /\ whole = <<>> /\ seen = <<>> /\ scan = NewScan(sort = "events")
  BY DEF Init
<1>2. TakenInv
  BY <1>1, NoBytes DEF TakenInv
<1>3. ASSUME sort = "events" PROVE ParserInv
  <2>1. scan.body = "events" /\ scan.parser = NewParser
    BY <1>1, <1>3 DEF NewScan, Scanner
  <2>2. <<>> \in Seq(Bytes)
    BY EmptySeq
  <2> QED
    BY <1>1, <2>1, <2>2, NewParserReads DEF ParserInv
<1>4. ASSUME sort # "events" PROVE ParserInv
  BY <1>4 DEF ParserInv
<1> QED
  BY <1>2, <1>3, <1>4 DEF FramesInv

\* A chunk that is relayed.
LEMMA RelayFrames == ASSUME FramesInv, Relay PROVE FramesInv'
<1>1. /\ ~Buffered /\ queue # <<>> /\ queue' = <<>> /\ scan' = Scan(scan, queue[1])
      /\ relayed' = relayed \o queue[1]
      /\ seen' = (IF scan.body = "events" THEN seen \o Feed(scan.parser, queue[1]).frames ELSE seen)
      /\ UNCHANGED <<sort, asked, kind>>
  BY DEF Relay, chosen
<1>2. PICK c \in Chunks : queue = <<c>>
  BY <1>1 DEF FramesInv, TakenInv
<1>3. c \in Bytes /\ relayed \in Bytes /\ queue[1] = c
  BY <1>2, AnswerAssumption DEF Bytes, FramesInv, TakenInv
<1>4. relayed' = relayed \o c /\ relayed' \in Bytes /\ Beyond(Reading(relayed), Reading(relayed'))
  BY <1>1, <1>3, ReadsBeyond
<1>5. TakenInv' /\ (~Buffered)'
  BY <1>1, <1>4 DEF TakenInv, Buffered
<1>6. ASSUME sort = "events" PROVE ParserInv'
  <2>1. /\ seen \in Seq(Bytes) /\ scan.body \in {"events", "unreadable"}
        /\ scan.body = "events" =>
             /\ Parsing(scan.parser) /\ Reads(Reading(relayed), scan.parser.buffer)
             /\ seen = Frames(relayed)
        /\ scan.body = "unreadable" =>
             /\ \E more \in Seq(Bytes) : Frames(relayed) = seen \o more
             /\ \/ Contains(Frames(relayed), <<"invalid">>)
                \/ \E d \in Chunks : Reading(relayed).widest + Len(d) > MAX_FRAME_BYTES
    BY <1>1, <1>6 DEF FramesInv, ParserInv
  <2> DEFINE T == Reading(relayed)
             R == Reading(relayed')
  <2>2. T \in Readings /\ R \in Readings /\ T.widest <= R.widest
        /\ T.frames \in Seq(Bytes) /\ T.widest \in Nat /\ R.widest \in Nat
    BY <1>4 DEF Beyond, Readings
  <2>3. PICK next \in Seq(Bytes) : R.frames = T.frames \o next
    BY <1>4 DEF Beyond
  <2>4. CASE scan.body = "events"
    <3> DEFINE fed == Feed(scan.parser, c)
    <3>1. /\ fed.error = "none" => /\ Parsing(fed.parser) /\ Reads(R, fed.parser.buffer)
                                   /\ fed.frames \in Seq(Bytes) /\ R.frames = T.frames \o fed.frames
          /\ fed.error # "none" => /\ fed.frames = <<>>
                                   /\ \/ Contains(R.frames, <<"invalid">>)
                                      \/ R.widest + Len(c) > MAX_FRAME_BYTES
      <4>1. /\ Parsing(scan.parser) /\ Reads(Reading(relayed), scan.parser.buffer)
            /\ relayed \in Bytes /\ c \in Bytes
        BY <1>3, <2>1, <2>4
      <4>2. R = Reading(relayed \o c)
        BY <1>4
      <4> HIDE DEF R
      <4> QED
        BY ONLY <4>1, <4>2, FeedReads
    <3>2. /\ scan'.body = (IF fed.error = "none" THEN "events" ELSE "unreadable")
          /\ scan'.parser = fed.parser /\ seen' = T.frames \o fed.frames
      BY <1>1, <1>3, <2>1, <2>4 DEF Scan, Scanner, Frames
    <3> HIDE DEF fed, T, R
    <3>3. CASE fed.error = "none"
      <4>1. seen' = R.frames /\ R.frames \in Seq(Bytes) /\ scan'.body = "events"
        BY <2>2, <3>1, <3>2, <3>3 DEF Readings
      <4> QED
        BY <3>1, <3>2, <3>3, <4>1 DEF ParserInv, Frames, R
    <3>4. CASE fed.error # "none"
      <4>1. seen' = T.frames /\ scan'.body = "unreadable"
        BY <2>2, <3>1, <3>2, <3>4, ConcatEmptySeq
      <4>2. \E more \in Seq(Bytes) : R.frames = seen' \o more
        BY <2>3, <4>1
      <4>3. Contains(R.frames, <<"invalid">>) \/ \E d \in Chunks : R.widest + Len(d) > MAX_FRAME_BYTES
        BY <3>1, <3>4
      <4> QED
        BY <2>2, <4>1, <4>2, <4>3 DEF ParserInv, Frames, R
    <3> QED
      BY <3>3, <3>4
  <2>5. CASE scan.body = "unreadable"
    <3>1. scan' = scan /\ seen' = seen
      BY <1>1, <2>5 DEF Scan
    <3> HIDE DEF T, R
    <3>2. PICK more \in Seq(Bytes) : T.frames = seen \o more
      BY <2>1, <2>5 DEF T, Frames
    <3>3. R.frames = seen \o (more \o next) /\ more \o next \in Seq(Bytes)
      <4> DEFINE u == R.frames
                 w == T.frames
      <4>1. /\ seen \in Seq(Bytes) /\ more \in Seq(Bytes) /\ next \in Seq(Bytes)
            /\ u = w \o next /\ w = seen \o more
        BY <2>1, <2>3, <3>2
      <4> HIDE DEF u, w
      <4>2. (seen \o more) \o next = seen \o (more \o next) /\ more \o next \in Seq(Bytes)
        BY ONLY <4>1, ConcatAssociative, ConcatProperties
      <4>3. u = seen \o (more \o next) /\ more \o next \in Seq(Bytes)
        BY ONLY <4>1, <4>2
      <4> QED
        BY <4>3 DEF u
    <3>4. Contains(R.frames, <<"invalid">>) \/ \E d \in Chunks : R.widest + Len(d) > MAX_FRAME_BYTES
      <4>1. CASE Contains(T.frames, <<"invalid">>)
        BY <2>2, <2>3, <4>1, ContainsConcat
      <4>2. CASE \E d \in Chunks : T.widest + Len(d) > MAX_FRAME_BYTES
        <5>1. PICK d \in Chunks : T.widest + Len(d) > MAX_FRAME_BYTES
          BY <4>2
        <5>2. Len(d) \in Nat /\ MAX_FRAME_BYTES \in Nat
          BY AnswerAssumption, SseAssumption, LenProperties
        <5>3. R.widest + Len(d) > MAX_FRAME_BYTES
          BY <2>2, <5>1, <5>2
        <5> QED
          BY <5>3
      <4> QED
        BY <2>1, <2>5, <4>1, <4>2 DEF T, Frames
    <3> QED
      BY <2>1, <2>5, <3>1, <3>3, <3>4 DEF ParserInv, Frames, R
  <2> QED
    BY <2>1, <2>4, <2>5
<1>7. ASSUME sort # "events" PROVE ParserInv'
  BY <1>1, <1>7 DEF ParserInv
<1> QED
  BY <1>5, <1>6, <1>7 DEF FramesInv

\* A chunk that is kept.
LEMMA KeepFrames == ASSUME FramesInv, Keep PROVE FramesInv'
<1>1. /\ Buffered /\ queue # <<>> /\ queue' = <<>>
      /\ \/ UNCHANGED <<whole, relayed>>
         \/ whole' = whole \o queue[1] /\ relayed' = relayed \o queue[1]
      /\ UNCHANGED <<sort, asked, kind>>
  BY DEF Keep, chosen
<1>2. PICK c \in Chunks : queue = <<c>>
  BY <1>1 DEF FramesInv, TakenInv
<1>3. c \in Bytes /\ relayed \in Bytes /\ relayed = whole /\ queue[1] = c
  BY <1>1, <1>2, AnswerAssumption DEF Bytes, FramesInv, TakenInv
<1>4. relayed \o c \in Bytes
  BY <1>3, ConcatProperties DEF Bytes
<1>5. TakenInv'
  BY <1>1, <1>3, <1>4 DEF TakenInv
<1>6. ParserInv'
  BY <1>1 DEF ParserInv, Buffered
<1> QED
  BY <1>5, <1>6 DEF FramesInv

\* An end leaves the parser where it was.
LEMMA ScannedStays == ASSUME NEW s PROVE Scanned(s).body = s.body /\ Scanned(s).parser = s.parser
BY DEF Scanned, Scanner

LEMMA EndsFrames == ASSUME FramesInv, NEW how, Ends(how) PROVE FramesInv'
<1>1. /\ scan' = (IF ~Buffered THEN Scanned(scan)
                  ELSE IF how = "complete" THEN Scanned(Scan(scan, whole)) ELSE scan)
      /\ UNCHANGED <<sort, asked, kind, queue, whole, relayed, seen>>
  BY DEF Ends, chosen
<1>2. TakenInv'
  BY <1>1 DEF FramesInv, TakenInv, Buffered
<1>3. ASSUME ~Buffered PROVE scan'.body = scan.body /\ scan'.parser = scan.parser
  BY <1>1, <1>3, ScannedStays
<1>4. ParserInv'
  BY <1>1, <1>3 DEF FramesInv, ParserInv, Buffered
<1> QED
  BY <1>2, <1>4 DEF FramesInv

LEMMA OtherFrames ==
  ASSUME FramesInv, UNCHANGED <<sort, asked, kind, whole, relayed, seen, scan>>,
         queue' = queue \/ \E c \in Chunks : queue' = <<c>>
  PROVE  FramesInv'
<1>1. TakenInv'
  BY DEF FramesInv, TakenInv, Buffered
<1>2. ParserInv'
  BY DEF FramesInv, ParserInv, Buffered
<1> QED
  BY <1>1, <1>2 DEF FramesInv

LEMMA FramesStep == FramesInv /\ [Next]_vars => FramesInv'
<1> SUFFICES ASSUME FramesInv, [Next]_vars PROVE FramesInv'
  OBVIOUS
<1>1. CASE Arrive
  BY <1>1, OtherFrames DEF Arrive, chosen
<1>2. CASE Stop
  BY <1>2, OtherFrames DEF Stop, chosen
<1>3. CASE Tick
  BY <1>3, OtherFrames DEF Tick, chosen
<1>4. CASE Relay
  BY <1>4, RelayFrames
<1>5. CASE Keep
  BY <1>5, KeepFrames
<1>6. CASE End
  BY <1>6, EndsFrames DEF End
<1>7. CASE Timeout
  BY <1>7, EndsFrames DEF Timeout
<1>8. CASE Pending
  BY <1>8, OtherFrames DEF Pending, chosen
<1>9. CASE Leave
  BY <1>9, EndsFrames DEF Leave
<1>10. CASE UNCHANGED vars
  BY <1>10, OtherFrames DEF vars, chosen
<1> QED
  BY <1>1, <1>2, <1>3, <1>4, <1>5, <1>6, <1>7, <1>8, <1>9, <1>10 DEF Next, Poll

\* A parser that is fed a body in any chunks gives the frames a reader of all of it reads,
\* and gives up only on bytes that are not text or on a frame within a chunk of the limit:
\* parser.rs:38-69.
THEOREM FramesCorrect == Spec => []FramesWhateverTheSplit
BY FramesInit, FramesStep, FramesFollow, PTL DEF Spec

-----------------------------------------------------------------------------
\* The frames but for pings.

\* The frames that are kept, one at a time.
Kept(frames, d) == IF d = <<"ping">> THEN frames ELSE Append(frames, d)

FrameLists == Seq(Bytes)

Nothing == <<>>

LEMMA NoFrames == Nothing \in FrameLists
BY EmptySeq DEF FrameLists, Nothing

LEMMA KeptType ==
  ASSUME NEW frames \in FrameLists, NEW d \in Bytes PROVE Kept(frames, d) \in FrameLists
BY AppendProperties DEF Kept, FrameLists

LEMMA UnpingedRun ==
  ASSUME NEW frames \in FrameLists
  PROVE  \E f \in [0..Len(frames) -> FrameLists] :
           /\ f[0] = Nothing /\ \A m \in 1..Len(frames) : f[m] = Kept(f[m - 1], frames[m])
           /\ Unpinged(frames) = f[Len(frames)]
<1> DEFINE n == Len(frames)
           F == [m \in 1..n |-> [R \in FrameLists |-> Kept(R, frames[m])]]
           c == CHOOSE c : c = [m \in 0..n |-> IF m = 0 THEN Nothing ELSE Kept(c[m - 1], frames[m])]
<1>1. n \in Nat /\ Nothing \in FrameLists /\ \A m \in 1..n : frames[m] \in Bytes
  BY NoFrames, ElementOfSeq, LenProperties DEF FrameLists
<1>2. F \in [1..n -> [FrameLists -> FrameLists]]
  BY <1>1, KeptType
<1>3. Unpinged(frames) = c[n]
  BY DEF Unpinged, Kept, Nothing
<1> HIDE DEF c, n
<1>4. PICK f : Runs(f, FrameLists, Nothing, n, F)
  <2> HIDE DEF F
  <2> QED
    BY <1>1, <1>2, RunExists
<1>5. \A m \in 1..n : f[m - 1] \in FrameLists /\ f[m] = Kept(f[m - 1], frames[m])
  <2> TAKE m \in 1..n
  <2>1. m - 1 \in 0..n
    BY <1>1
  <2>2. f[m - 1] \in FrameLists /\ f[m] = F[m][f[m - 1]]
    <3> HIDE DEF F
    <3> QED
      BY <1>4, <2>1 DEF Runs
  <2> QED
    BY <2>2
<1>6. f = [m \in 0..n |-> IF m = 0 THEN Nothing ELSE Kept(f[m - 1], frames[m])]
  <2>1. f[0] = Nothing /\ f = [m \in 0..n |-> f[m]]
    BY <1>4 DEF Runs
  <2>2. \A m \in 0..n : m # 0 => m \in 1..n
    BY <1>1
  <2> QED
    BY <1>5, <2>1, <2>2
<1>7. c = [m \in 0..n |-> IF m = 0 THEN Nothing ELSE Kept(c[m - 1], frames[m])]
  BY <1>6 DEF c
<1>8. c[0] = Nothing /\ \A m \in 1..n : c[m - 1] \in FrameLists => c[m] = F[m][c[m - 1]]
  <2>1. 0 \in 0..n /\ \A m \in 1..n : m \in 0..n /\ m # 0
    BY <1>1
  <2>2. c[0] = Nothing /\ \A m \in 1..n : c[m] = Kept(c[m - 1], frames[m])
    BY <1>7, <2>1
  <2> QED
    BY <2>2
<1>9. c[n] = f[n]
  <2> HIDE DEF F
  <2>1. \A m \in 0..n : c[m] = f[m]
    <3>1. Follows(c, FrameLists, Nothing, n, F)
      BY <1>8 DEF Follows
    <3> QED
      BY <1>1, <1>2, <1>4, <3>1, RunIs
  <2>2. n \in 0..n
    BY <1>1
  <2> QED
    BY <2>1, <2>2
<1>10. f \in [0..n -> FrameLists] /\ f[0] = Nothing
  BY <1>4 DEF Runs
<1> QED
  BY <1>3, <1>5, <1>9, <1>10 DEF n

LEMMA UnpingedType == ASSUME NEW frames \in FrameLists PROVE Unpinged(frames) \in FrameLists
<1>1. Len(frames) \in 0..Len(frames)
  BY LenProperties DEF FrameLists
<1> QED
  BY <1>1, UnpingedRun

LEMMA UnpingedNone == Unpinged(<<>>) = Nothing
<1>1. <<>> \in FrameLists /\ Len(<<>>) = 0
  BY EmptySeq, NoBytes DEF FrameLists
<1> QED
  BY <1>1, UnpingedRun

LEMMA UnpingedMore ==
  ASSUME NEW frames \in FrameLists, NEW d \in Bytes
  PROVE  Unpinged(Append(frames, d)) = Kept(Unpinged(frames), d)
<1> DEFINE more == Append(frames, d)
           n == Len(frames)
           F == [m \in 1..n |-> [R \in FrameLists |-> Kept(R, frames[m])]]
<1>1. more \in FrameLists /\ n \in Nat /\ Len(more) = n + 1 /\ n + 1 \in 1..(n + 1)
      /\ more[n + 1] = d
      /\ \A m \in 1..n : more[m] = frames[m] /\ m \in 1..(n + 1) /\ m - 1 \in 0..n /\ m - 1 \in 0..(n + 1)
  <2>1. n \in Nat
    BY LenProperties DEF FrameLists
  <2>2. \A m \in 1..n : m \in 1..(n + 1) /\ m - 1 \in 0..n /\ m - 1 \in 0..(n + 1)
    BY <2>1
  <2>3. /\ more \in FrameLists /\ Len(more) = n + 1 /\ more[n + 1] = d
        /\ \A m \in 1..n : more[m] = frames[m]
    BY AppendProperties DEF FrameLists
  <2> HIDE DEF more, n
  <2> QED
    BY <2>1, <2>2, <2>3
<1>2. F \in [1..n -> [FrameLists -> FrameLists]]
  <2>1. \A m \in 1..n : frames[m] \in Bytes
    BY ElementOfSeq DEF FrameLists
  <2> QED
    BY <2>1, KeptType
<1> HIDE DEF more
<1>3. PICK g \in [0..(n + 1) -> FrameLists] :
        /\ g[0] = Nothing /\ \A m \in 1..(n + 1) : g[m] = Kept(g[m - 1], more[m])
        /\ Unpinged(more) = g[n + 1]
  BY <1>1, UnpingedRun
<1>4. PICK f \in [0..n -> FrameLists] :
        /\ f[0] = Nothing /\ \A m \in 1..n : f[m] = Kept(f[m - 1], frames[m])
        /\ Unpinged(frames) = f[n]
  BY UnpingedRun
<1> HIDE DEF n
<1>5. Runs(f, FrameLists, Nothing, n, F)
  <2>1. \A m \in 1..n : f[m] = F[m][f[m - 1]]
    BY <1>1, <1>4
  <2> HIDE DEF F
  <2> QED
    BY <1>4, <2>1 DEF Runs
<1>6. \A m \in 1..n : g[m - 1] \in FrameLists => g[m] = F[m][g[m - 1]]
  <2> TAKE m \in 1..n
  <2>1. g[m - 1] \in FrameLists /\ m \in 1..(n + 1) /\ more[m] = frames[m]
    BY <1>1, <1>3
  <2>2. g[m] = Kept(g[m - 1], frames[m])
    BY <1>3, <2>1
  <2> QED
    BY <2>1, <2>2
<1>7. g[n] = f[n]
  <2> HIDE DEF F
  <2>1. n \in Nat /\ n \in 0..n /\ g[0] = Nothing
    BY <1>1, <1>3
  <2>2. \A m \in 0..n : g[m] = f[m]
    <3>1. Follows(g, FrameLists, Nothing, n, F)
      BY <1>6, <2>1 DEF Follows
    <3> QED
      BY <1>2, <1>5, NoFrames, <2>1, <3>1, RunIs
  <2> QED
    BY <2>1, <2>2
<1>8. Unpinged(more) = Kept(Unpinged(frames), d)
  <2>1. (n + 1) - 1 = n
    BY <1>1
  <2> QED
    BY <1>1, <1>3, <1>4, <1>7, <2>1
<1> QED
  BY <1>8 DEF more

\* The same is read, but for pings.
Alike(R, T) ==
  /\ R.line = T.line /\ R.data = T.data /\ R.bad = T.bad
  /\ Unpinged(R.frames) = Unpinged(T.frames)

LEMMA AlikeByte ==
  ASSUME NEW R \in Readings, NEW T \in Readings, NEW u \in Unit, Alike(R, T)
  PROVE  Alike(Byte(R, u), Byte(T, u))
<1> DEFINE A == Byte(R, u)
           B == Byte(T, u)
<1>1. /\ R.line = T.line /\ R.data = T.data /\ R.bad = T.bad /\ Unpinged(R.frames) = Unpinged(T.frames)
      /\ R.frames \in FrameLists /\ T.frames \in FrameLists /\ R.data \in Bytes
  BY DEF Alike, Readings, FrameLists
<1>2. CASE u # "lf"
  <2>1. /\ A.line = Append(R.line, u) /\ A.data = R.data /\ A.bad = R.bad /\ A.frames = R.frames
        /\ B.line = Append(T.line, u) /\ B.data = T.data /\ B.bad = T.bad /\ B.frames = T.frames
    BY <1>2, ByteOther
  <2> HIDE DEF A, B
  <2> QED
    BY <1>1, <2>1 DEF Alike, A, B
<1>3. CASE u = "lf" /\ Stripped(R.line) # <<>>
  <2> DEFINE line == Stripped(R.line)
             badR == IF Contains(line, "invalid") THEN "yes" ELSE R.bad
             badT == IF Contains(line, "invalid") THEN "yes" ELSE T.bad
  <2>1. /\ A = [line |-> <<>>, data |-> R.data \o Data(line), bad |-> badR,
                frames |-> R.frames, size |-> R.size + 1, widest |-> Wider(R)]
        /\ B = [line |-> <<>>, data |-> T.data \o Data(line), bad |-> badT,
                frames |-> T.frames, size |-> T.size + 1, widest |-> Wider(T)]
    BY <1>1, <1>3, ByteLine
  <2>2. badR = badT
    BY <1>1
  <2> HIDE DEF A, B, badR, badT, line
  <2>3. /\ A.line = B.line /\ A.data = R.data \o Data(line) /\ B.data = T.data \o Data(line)
        /\ A.bad = B.bad /\ A.frames = R.frames /\ B.frames = T.frames
    BY <2>1, <2>2
  <2> QED
    BY <1>1, <2>3 DEF Alike, A, B
<1>4. CASE u = "lf" /\ Stripped(R.line) = <<>>
  <2>1. /\ A.line = <<>> /\ A.data = <<>> /\ A.bad = "no" /\ A.frames = Given(R)
        /\ B.line = <<>> /\ B.data = <<>> /\ B.bad = "no" /\ B.frames = Given(T)
    BY <1>1, <1>4, ByteBlank
  <2>2. Unpinged(Given(R)) = Unpinged(Given(T))
    <3>1. ASSUME NEW d \in Bytes
          PROVE  Unpinged(Append(R.frames, d)) = Unpinged(Append(T.frames, d))
      BY <1>1, UnpingedMore
    <3>2. ASSUME Len(R.data) > 1 PROVE Tail(R.data) \in Bytes
      <4>1. R.data # <<>>
        BY <3>2, NoBytes
      <4> QED
        BY <1>1, <4>1, HeadTailProperties DEF Bytes
    <3>3. <<"invalid">> \in Bytes
      BY Units, OneByte
    <3> QED
      BY <1>1, <3>1, <3>2, <3>3 DEF Given
  <2> HIDE DEF A, B
  <2> QED
    BY <2>1, <2>2 DEF Alike, A, B
<1> QED
  BY <1>2, <1>3, <1>4

LEMMA AlikeMore ==
  ASSUME NEW a \in Bytes, NEW b \in Bytes, NEW chunk \in Bytes, Alike(Reading(a), Reading(b))
  PROVE  Alike(Reading(a \o chunk), Reading(b \o chunk))
<1> DEFINE s(k) == a \o SubSeq(chunk, 1, k)
           t(k) == b \o SubSeq(chunk, 1, k)
           n == Len(chunk)
           T == {k \in 0..n : s(k) \in Bytes /\ t(k) \in Bytes /\ Alike(Reading(s(k)), Reading(t(k)))}
<1>1. n \in Nat
  BY LenProperties DEF Bytes
<1>2. s(0) = a /\ t(0) = b /\ s(n) = a \o chunk /\ t(n) = b \o chunk
  <2>1. SubSeq(chunk, 1, 0) = <<>> /\ SubSeq(chunk, 1, n) = chunk
    BY SliceNone, SubSeqFull DEF Bytes
  <2> QED
    BY <2>1, ConcatEmptySeq DEF Bytes
<1> HIDE DEF n
<1>3. 0 \in T
  <2>1. 0 \in 0..n
    BY <1>1
  <2> HIDE DEF s, t
  <2> QED
    BY <1>2, <2>1
<1>4. ASSUME NEW k \in T, k < n PROVE k + 1 \in T
  <2>1. k \in 0..n /\ s(k) \in Bytes /\ t(k) \in Bytes /\ Alike(Reading(s(k)), Reading(t(k)))
    OBVIOUS
  <2> HIDE DEF T
  <2>2. k \in Nat /\ k + 1 <= n /\ k + 1 \in 0..n
    BY <1>1, <1>4, <2>1
  <2>3. /\ chunk[k + 1] \in Unit
        /\ s(k + 1) = Append(s(k), chunk[k + 1]) /\ t(k + 1) = Append(t(k), chunk[k + 1])
    BY <2>2, TextMore DEF n
  <2> HIDE DEF s, t
  <2>4. /\ s(k + 1) \in Bytes /\ Reading(s(k + 1)) = Byte(Reading(s(k)), chunk[k + 1])
        /\ t(k + 1) \in Bytes /\ Reading(t(k + 1)) = Byte(Reading(t(k)), chunk[k + 1])
    BY <2>1, <2>3, ReadMore
  <2>5. Alike(Byte(Reading(s(k)), chunk[k + 1]), Byte(Reading(t(k)), chunk[k + 1]))
    BY <2>1, <2>3, ReadingType, AlikeByte
  <2>6. Alike(Reading(s(k + 1)), Reading(t(k + 1)))
    BY <2>4, <2>5, Zenon
  <2> QED
    BY <2>2, <2>4, <2>6 DEF T
<1>5. T = 0..n
  <2> HIDE DEF T
  <2>1. T \in SUBSET (0..n)
    BY DEF T
  <2> QED
    BY <1>1, <1>3, <1>4, <2>1, UpTo
<1>6. n \in T
  <2> HIDE DEF T
  <2>1. n \in 0..n
    BY <1>1
  <2> QED
    BY <1>5, <2>1
<1> HIDE DEF s, t
<1> QED
  BY <1>2, <1>6

-----------------------------------------------------------------------------
\* A ping, and where one may fall.

LEMMA PairIs ==
  ASSUME NEW a \in Unit, NEW b \in Unit
  PROVE  Append(<<a>>, b) = <<a, b>> /\ <<a>> \o <<b>> = <<a, b>> /\ Tail(<<a, b>>) = <<b>>
<1>1. <<a>> \in Seq(Unit) /\ <<b>> \in Seq(Unit) /\ <<a, b>> \in Seq(Unit)
      /\ Len(<<a>>) = 1 /\ Len(<<b>>) = 1 /\ Len(<<a, b>>) = 2
      /\ <<a, b>>[1] = a /\ <<a, b>>[2] = b /\ <<a>>[1] = a /\ <<b>>[1] = b
  OBVIOUS
<1> DEFINE s == Append(<<a>>, b)
           t == Tail(<<a, b>>)
<1>2. s \in Seq(Unit) /\ Len(s) = 2 /\ s[1] = a /\ s[2] = b
  OBVIOUS
<1>3. t \in Seq(Unit) /\ Len(t) = 1 /\ t[1] = b
  OBVIOUS
<1>4. \A i \in 1..2 : i = 1 \/ i = 2
  OBVIOUS
<1>5. s = <<a>> \o <<b>>
  BY <1>1, AppendIsConcat
<1> HIDE DEF s, t
<1>6. s = <<a, b>>
  <2> DEFINE p == <<a, b>>
  <2>1. p \in Seq(Unit) /\ Len(p) = 2 /\ p[1] = a /\ p[2] = b
    BY <1>1
  <2> HIDE DEF p
  <2>2. \A i \in 1..Len(s) : s[i] = p[i]
    BY <1>2, <1>4, <2>1
  <2>3. s = p
    BY <1>2, <2>1, <2>2, SeqEqual
  <2> QED
    BY <2>3 DEF p
<1>7. t = <<b>>
  <2> DEFINE p == <<b>>
  <2>1. p \in Seq(Unit) /\ Len(p) = 1 /\ p[1] = b
    BY <1>1
  <2> HIDE DEF p
  <2>2. \A i \in 1..Len(t) : t[i] = p[i]
    BY <1>3, <2>1
  <2>3. t = p
    BY <1>3, <2>1, <2>2, SeqEqual
  <2> QED
    BY <2>3 DEF p
<1> QED
  BY <1>5, <1>6, <1>7 DEF s, t

LEMMA AppendFour ==
  ASSUME NEW S, NEW s \in Seq(S), NEW a \in S, NEW b \in S, NEW c \in S, NEW d \in S
  PROVE  Append(Append(Append(Append(s, a), b), c), d) = s \o <<a, b, c, d>>
<1> DEFINE n == Len(s)
           s1 == Append(s, a)
           s2 == Append(s1, b)
           s3 == Append(s2, c)
           s4 == Append(s3, d)
           f == <<a, b, c, d>>
           t == s \o f
<1>1. n \in Nat
  BY LenProperties
<1>2. s1 \in Seq(S) /\ Len(s1) = n + 1 /\ s1[n + 1] = a /\ \A i \in 1..n : s1[i] = s[i]
  BY AppendProperties
<1> HIDE DEF s1, n
<1>3. s2 \in Seq(S) /\ Len(s2) = n + 2 /\ s2[n + 2] = b /\ \A i \in 1..(n + 1) : s2[i] = s1[i]
  <2>1. Len(s1) + 1 = n + 2
    BY <1>1, <1>2
  <2> QED
    BY <1>2, <2>1, AppendProperties
<1> HIDE DEF s2
<1>4. s3 \in Seq(S) /\ Len(s3) = n + 3 /\ s3[n + 3] = c /\ \A i \in 1..(n + 2) : s3[i] = s2[i]
  <2>1. Len(s2) + 1 = n + 3
    BY <1>1, <1>3
  <2> QED
    BY <1>3, <2>1, AppendProperties
<1> HIDE DEF s3
<1>5. s4 \in Seq(S) /\ Len(s4) = n + 4 /\ s4[n + 4] = d /\ \A i \in 1..(n + 3) : s4[i] = s3[i]
  <2>1. Len(s3) + 1 = n + 4
    BY <1>1, <1>4
  <2> QED
    BY <1>4, <2>1, AppendProperties
<1> HIDE DEF s4
<1>6. f \in Seq(S) /\ Len(f) = 4 /\ f[1] = a /\ f[2] = b /\ f[3] = c /\ f[4] = d
  OBVIOUS
<1> HIDE DEF f
<1>7. t \in Seq(S) /\ Len(t) = n + 4 /\ \A i \in 1..(n + 4) : t[i] = IF i <= n THEN s[i] ELSE f[i - n]
  <2>1. /\ t \in Seq(S) /\ Len(t) = Len(s) + Len(f)
        /\ \A i \in 1..(Len(s) + Len(f)) : t[i] = IF i <= Len(s) THEN s[i] ELSE f[i - Len(s)]
    BY <1>6, ConcatProperties
  <2>2. Len(s) = n /\ Len(s) + Len(f) = n + 4
    BY <1>6 DEF n
  <2> HIDE DEF t
  <2> QED
    BY <2>1, <2>2
<1> HIDE DEF t
<1>8. ASSUME NEW i \in 1..(n + 4) PROVE s4[i] = t[i]
  <2>1. i \in 1..n \/ i = n + 1 \/ i = n + 2 \/ i = n + 3 \/ i = n + 4
    BY <1>1
  <2>2. CASE i \in 1..n
    <3>1. i \in 1..(n + 1) /\ i \in 1..(n + 2) /\ i \in 1..(n + 3) /\ i <= n
      BY <1>1, <2>2
    <3> QED
      BY <1>2, <1>3, <1>4, <1>5, <1>7, <2>2, <3>1
  <2>3. CASE i = n + 1
    <3>1. i \in 1..(n + 1) /\ i \in 1..(n + 2) /\ i \in 1..(n + 3) /\ ~(i <= n) /\ i - n = 1
      BY <1>1, <2>3
    <3> QED
      BY <1>2, <1>3, <1>4, <1>5, <1>6, <1>7, <2>3, <3>1
  <2>4. CASE i = n + 2
    <3>1. i \in 1..(n + 2) /\ i \in 1..(n + 3) /\ ~(i <= n) /\ i - n = 2
      BY <1>1, <2>4
    <3> QED
      BY <1>3, <1>4, <1>5, <1>6, <1>7, <2>4, <3>1
  <2>5. CASE i = n + 3
    <3>1. i \in 1..(n + 3) /\ ~(i <= n) /\ i - n = 3
      BY <1>1, <2>5
    <3> QED
      BY <1>4, <1>5, <1>6, <1>7, <2>5, <3>1
  <2>6. CASE i = n + 4
    <3>1. ~(i <= n) /\ i - n = 4
      BY <1>1, <2>6
    <3> QED
      BY <1>5, <1>6, <1>7, <2>6, <3>1
  <2> QED
    BY <2>1, <2>2, <2>3, <2>4, <2>5, <2>6
<1>9. s4 = t
  <2>1. \A i \in 1..Len(s4) : s4[i] = t[i]
    BY <1>5, <1>8
  <2> QED
    BY <1>5, <1>7, <2>1, SeqEqual
<1> QED
  BY <1>9 DEF s4, s3, s2, s1, t, f

\* Between two events.
Between(R) == R.line = <<>> /\ R.data = <<>> /\ R.bad = "no"

\* A ping between two events is read as one, and ends between two.
LEMMA PingRead ==
  ASSUME NEW text \in Bytes, Between(Reading(text))
  PROVE  text \o Ping \in Bytes /\ Alike(Reading(text \o Ping), Reading(text))
<1> DEFINE R == Reading(text)
           t1 == Append(text, "data:")
           t2 == Append(t1, "ping")
           t3 == Append(t2, "lf")
           t4 == Append(t3, "lf")
           R1 == Reading(t1)
           R2 == Reading(t2)
           R3 == Reading(t3)
           R4 == Reading(t4)
<1>1. R \in Readings
  BY ReadingType
<1>2. t1 \in Bytes /\ R1 = Byte(R, "data:")
  BY ReadMore, Units
<1> HIDE DEF t1
<1>3. t2 \in Bytes /\ R2 = Byte(R1, "ping")
  BY <1>2, ReadMore, Units
<1> HIDE DEF t2
<1>4. t3 \in Bytes /\ R3 = Byte(R2, "lf")
  BY <1>3, ReadMore, Units
<1> HIDE DEF t3
<1>5. t4 \in Bytes /\ R4 = Byte(R3, "lf")
  BY <1>4, ReadMore, Units
<1> HIDE DEF t4
<1>6. R1 \in Readings /\ R2 \in Readings /\ R3 \in Readings
  BY <1>2, <1>3, <1>4, ReadingType
<1>7. R.line = <<>> /\ R.data = <<>> /\ R.bad = "no"
  BY DEF Between
<1> HIDE DEF R, R1, R2, R3, R4
<1>8. R1.line = <<"data:">> /\ R1.data = <<>> /\ R1.bad = "no" /\ R1.frames = R.frames
  <2>1. "data:" # "lf" /\ "data:" \in Unit /\ Append(<<>>, "data:") = <<"data:">>
    BY Units
  <2>2. Byte(R, "data:") = [line |-> Append(R.line, "data:"), data |-> R.data, bad |-> R.bad,
                            frames |-> R.frames, size |-> R.size + 1, widest |-> Wider(R)]
    BY <1>1, <2>1, ByteOther
  <2> QED
    BY <1>2, <1>7, <2>1, <2>2
<1>9. R2.line = <<"data:", "ping">> /\ R2.data = <<>> /\ R2.bad = "no" /\ R2.frames = R.frames
  <2>1. "ping" # "lf" /\ "ping" \in Unit /\ Append(<<"data:">>, "ping") = <<"data:", "ping">>
    BY Units, PairIs
  <2>2. Byte(R1, "ping") = [line |-> Append(R1.line, "ping"), data |-> R1.data, bad |-> R1.bad,
                            frames |-> R1.frames, size |-> R1.size + 1, widest |-> Wider(R1)]
    BY <1>6, <2>1, ByteOther
  <2> QED
    BY <1>3, <1>8, <2>1, <2>2
<1>10. R3.line = <<>> /\ R3.data = <<"lf", "ping">> /\ R3.bad = "no" /\ R3.frames = R.frames
  <2> DEFINE line == <<"data:", "ping">>
             bad == IF Contains(line, "invalid") THEN "yes" ELSE R2.bad
  <2>1. Len(line) = 2 /\ line[1] = "data:" /\ line[2] = "ping" /\ line # <<>>
    OBVIOUS
  <2>2. Stripped(R2.line) = line
    BY <1>9, <2>1 DEF Stripped
  <2>3. ~Contains(line, "invalid")
    <3>1. \A i \in 1..2 : line[i] # "invalid"
      BY <2>1
    <3> QED
      BY <2>1, <3>1 DEF Contains
  <2>4. Data(line) = <<"lf", "ping">>
    <3>1. Tail(line) = <<"ping">> /\ <<"lf">> \o <<"ping">> = <<"lf", "ping">>
      BY Units, PairIs
    <3> QED
      BY <2>1, <3>1 DEF Data
  <2>5. Data(line) \in Bytes /\ <<>> \o Data(line) = Data(line)
    <3>1. line \in Bytes
      BY <1>6, <1>9 DEF Readings
    <3>2. Data(line) \in Bytes
      BY <3>1, DataType
    <3> QED
      BY <3>2, ConcatEmptySeq DEF Bytes
  <2>6. Byte(R2, "lf") = [line |-> <<>>, data |-> R2.data \o Data(line), bad |-> bad,
                          frames |-> R2.frames, size |-> R2.size + 1, widest |-> Wider(R2)]
    BY <1>6, <2>1, <2>2, ByteLine
  <2>7. bad = "no"
    BY <1>9, <2>3
  <2> HIDE DEF bad, line
  <2>8. R3.line = <<>> /\ R3.data = R2.data \o Data(line) /\ R3.bad = bad /\ R3.frames = R2.frames
    BY <1>4, <2>6
  <2> QED
    BY <1>9, <2>4, <2>5, <2>7, <2>8
<1>11. R4.line = <<>> /\ R4.data = <<>> /\ R4.bad = "no" /\ R4.frames = Append(R.frames, <<"ping">>)
  <2>1. Byte(R3, "lf") = [line |-> <<>>, data |-> <<>>, bad |-> "no", frames |-> Given(R3),
                          size |-> 0, widest |-> Wider(R3)]
    BY <1>6, <1>10, StrippedNone, ByteBlank
  <2>2. Len(<<"lf", "ping">>) = 2 /\ Tail(<<"lf", "ping">>) = <<"ping">>
    BY Units, PairIs
  <2>3. Given(R3) = Append(R.frames, <<"ping">>)
    BY <1>10, <2>2 DEF Given
  <2> QED
    BY <1>5, <2>1, <2>3
<1>12. Unpinged(Append(R.frames, <<"ping">>)) = Unpinged(R.frames)
  <2>1. <<"ping">> \in Bytes /\ R.frames \in FrameLists
    BY <1>1, Units, OneByte DEF Readings, FrameLists
  <2> QED
    BY <2>1, UnpingedMore DEF Kept
<1>13. text \o Ping = t4
  BY Units, AppendFour DEF Ping, t1, t2, t3, t4, Bytes
<1>14. t4 \in Bytes /\ Alike(R4, R)
  BY <1>5, <1>7, <1>11, <1>12 DEF Alike
<1> QED
  BY <1>13, <1>14 DEF R4, R

\* The last of several bytes is read last.
LEMMA ReadLast ==
  ASSUME NEW text \in Bytes, NEW n \in Nat, Len(text) = n + 1
  PROVE  /\ SubSeq(text, 1, n) \in Bytes /\ Len(SubSeq(text, 1, n)) = n /\ text[n + 1] \in Unit
         /\ Reading(text) = Byte(Reading(SubSeq(text, 1, n)), text[n + 1])
         /\ \A i \in 1..n : SubSeq(text, 1, n)[i] = text[i]
<1> DEFINE s == SubSeq(text, 1, n)
<1>1. 0 \in Nat /\ 0 <= n /\ n + 1 <= Len(text) /\ 0 + 1 = 1 /\ n \in Int /\ n <= Len(text)
  OBVIOUS
<1>2. text[n + 1] \in Unit /\ SubSeq(text, 0 + 1, n) \in Bytes
      /\ SubSeq(text, 0 + 1, n + 1) = Append(SubSeq(text, 0 + 1, n), text[n + 1])
  BY <1>1, SliceMore
<1>3. SubSeq(text, 1, n + 1) = text
  BY SubSeqFull DEF Bytes
<1>4. s \in Bytes /\ text = Append(s, text[n + 1])
  BY <1>1, <1>2, <1>3
<1>5. Len(s) = n /\ \A i \in 1..n : s[i] = text[i]
  <2>1. \A i \in 1..n : text[i] \in Unit
    BY ElementOfSeq DEF Bytes
  <2> QED
    BY <2>1 DEF Bytes
<1> DEFINE u == text[n + 1]
<1>6. Reading(Append(s, u)) = Byte(Reading(s), u)
  <2>1. u \in Unit
    BY <1>2
  <2> HIDE DEF s, u
  <2> QED
    BY <1>4, <2>1, ReadMore
<1> QED
  BY <1>2, <1>4, <1>5, <1>6, Zenon

LEMMA LineFed == ASSUME NEW R \in Readings PROVE Byte(R, "lf").line = <<>>
<1>1. CASE Stripped(R.line) # <<>>
  <2> DEFINE bad == IF Contains(Stripped(R.line), "invalid") THEN "yes" ELSE R.bad
             data == R.data \o Data(Stripped(R.line))
  <2>1. Byte(R, "lf") = [line |-> <<>>, data |-> data, bad |-> bad,
                         frames |-> R.frames, size |-> R.size + 1, widest |-> Wider(R)]
    BY <1>1, ByteLine
  <2> HIDE DEF bad, data
  <2> QED
    BY <2>1
<1>2. CASE Stripped(R.line) = <<>>
  BY <1>2, ByteBlank
<1> QED
  BY <1>1, <1>2

LEMMA BlankFed ==
  ASSUME NEW R \in Readings, Stripped(R.line) = <<>> PROVE Between(Byte(R, "lf"))
BY ByteBlank DEF Between

\* A blank line is where an event ends.
LEMMA EndsWithBlank ==
  ASSUME NEW text \in Bytes, NEW n \in Nat,
         \/ Len(text) = n + 2 /\ text[n + 1] = "lf" /\ text[n + 2] = "lf"
         \/ Len(text) = n + 3 /\ text[n + 1] = "lf" /\ text[n + 2] = "cr" /\ text[n + 3] = "lf"
  PROVE  Between(Reading(text))
<1>1. CASE Len(text) = n + 2 /\ text[n + 1] = "lf" /\ text[n + 2] = "lf"
  <2> DEFINE s == SubSeq(text, 1, n + 1)
             r == SubSeq(s, 1, n)
  <2>1. n + 1 \in Nat /\ (n + 1) + 1 = n + 2 /\ n + 1 \in 1..(n + 1)
    OBVIOUS
  <2>2. s \in Bytes /\ Len(s) = n + 1 /\ Reading(text) = Byte(Reading(s), "lf") /\ s[n + 1] = "lf"
    BY <1>1, <2>1, ReadLast
  <2> HIDE DEF s
  <2>3. r \in Bytes /\ Reading(s) = Byte(Reading(r), "lf")
    BY <2>2, ReadLast
  <2> HIDE DEF r
  <2>4. Reading(s) \in Readings /\ Reading(s).line = <<>>
    BY <2>2, <2>3, ReadingType, LineFed
  <2>5. Stripped(Reading(s).line) = <<>>
    BY <2>4, StrippedNone
  <2> QED
    BY <2>2, <2>4, <2>5, BlankFed
<1>2. CASE Len(text) = n + 3 /\ text[n + 1] = "lf" /\ text[n + 2] = "cr" /\ text[n + 3] = "lf"
  <2> DEFINE q == SubSeq(text, 1, n + 2)
             s == SubSeq(q, 1, n + 1)
             r == SubSeq(s, 1, n)
  <2>1. /\ n + 1 \in Nat /\ (n + 1) + 1 = n + 2 /\ n + 1 \in 1..(n + 1)
        /\ n + 2 \in Nat /\ (n + 2) + 1 = n + 3 /\ n + 1 \in 1..(n + 2) /\ n + 2 \in 1..(n + 2)
    OBVIOUS
  <2>2. /\ q \in Bytes /\ Len(q) = n + 2 /\ Reading(text) = Byte(Reading(q), "lf")
        /\ q[n + 1] = "lf" /\ q[n + 2] = "cr"
    BY <1>2, <2>1, ReadLast
  <2> HIDE DEF q
  <2>3. s \in Bytes /\ Len(s) = n + 1 /\ Reading(q) = Byte(Reading(s), "cr") /\ s[n + 1] = "lf"
    BY <2>1, <2>2, ReadLast
  <2> HIDE DEF s
  <2>4. r \in Bytes /\ Reading(s) = Byte(Reading(r), "lf")
    BY <2>3, ReadLast
  <2> HIDE DEF r
  <2>5. Reading(s) \in Readings /\ Reading(s).line = <<>> /\ Reading(q) \in Readings
    BY <2>2, <2>3, <2>4, ReadingType, LineFed
  <2>6. Reading(q).line = <<"cr">>
    <3>1. "cr" # "lf" /\ "cr" \in Unit /\ Append(<<>>, "cr") = <<"cr">>
      BY Units
    <3> QED
      BY <2>3, <2>5, <3>1, ByteOther
  <2>7. Stripped(<<"cr">>) = <<>>
    <3>1. Len(<<"cr">>) = 1 /\ <<"cr">>[1] = "cr" /\ <<"cr">> # <<>> /\ 1 - 1 = 0
      OBVIOUS
    <3>2. SubSeq(<<"cr">>, 1, 0) = <<>>
      BY SubSeqEmpty
    <3> QED
      BY <3>1, <3>2 DEF Stripped, Front
  <2> QED
    BY <2>2, <2>5, <2>6, <2>7, BlankFed
<1> QED
  BY <1>1, <1>2

\* What the last bytes are, from the first of them.
LEMMA SuffixIs ==
  ASSUME NEW S, NEW s \in Seq(S), NEW t \in Seq(S), IsSuffix(s, t)
  PROVE  Len(s) <= Len(t) /\ \A i \in 1..Len(s) : t[(Len(t) - Len(s)) + i] = s[i]
<1> DEFINE m == Len(s)
           n == Len(t)
           a == Reverse(s)
           b == Reverse(t)
<1>1. m \in Nat /\ n \in Nat /\ (\A i \in 1..m : s[i] \in S) /\ (\A i \in 1..n : t[i] \in S)
  BY LenProperties, ElementOfSeq
<1> HIDE DEF m, n
<1>2. /\ a \in Seq(S) /\ Len(a) = m /\ \A i \in 1..m : a[i] = s[(m - i) + 1]
      /\ b \in Seq(S) /\ Len(b) = n /\ \A i \in 1..n : b[i] = t[(n - i) + 1]
  <2>1. (\A i \in 1..m : (m - i) + 1 \in 1..m) /\ (\A i \in 1..n : (n - i) + 1 \in 1..n)
    BY <1>1
  <2>2. a = [i \in 1..m |-> s[(m - i) + 1]] /\ b = [i \in 1..n |-> t[(n - i) + 1]]
    BY DEF Reverse, m, n
  <2> HIDE DEF a, b
  <2> QED
    BY <1>1, <2>1, <2>2
<1>3. Len(a) <= Len(b) /\ SubSeq(a, 1, Len(a)) = SubSeq(b, 1, Len(a))
  BY DEF IsSuffix, IsPrefix
<1> HIDE DEF a, b
<1>4. ASSUME NEW i \in 1..m PROVE a[i] = b[i]
  <2> DEFINE c == SubSeq(a, 1, m)
             d == SubSeq(b, 1, m)
  <2>1. m <= n /\ c = d /\ i \in Nat /\ i <= m /\ 1 <= i
    BY <1>1, <1>2, <1>3
  <2>2. /\ \A j \in 1..m : a[j] \in S
        /\ \A j \in 1..m : b[j] \in S
    <3>1. \A j \in 1..m : j \in 1..n
      BY <1>1, <2>1
    <3> QED
      BY <1>2, <3>1, ElementOfSeq
  <2>3. c[i] = a[i] /\ d[i] = b[i]
    BY <1>1, <1>2, <2>1, <2>2
  <2> HIDE DEF c, d
  <2> QED
    BY <2>1, <2>3
<1>5. m <= n
  BY <1>2, <1>3
<1>6. ASSUME NEW i \in 1..m PROVE t[(n - m) + i] = s[i]
  <2>1. (m - i) + 1 \in 1..m /\ (m - i) + 1 \in 1..n
    BY <1>1, <1>5
  <2>2. /\ a[(m - i) + 1] = s[(m - ((m - i) + 1)) + 1]
        /\ b[(m - i) + 1] = t[(n - ((m - i) + 1)) + 1]
    BY <1>2, <2>1
  <2>3. (m - ((m - i) + 1)) + 1 = i /\ (n - ((m - i) + 1)) + 1 = (n - m) + i
    BY <1>1
  <2> QED
    BY <1>4, <2>1, <2>2, <2>3
<1> QED
  BY <1>5, <1>6 DEF m, n

\* The last bytes of what was relayed, of which there are some if anything was.
Tails(text, end) ==
  /\ end \in Bytes /\ \E before \in Bytes : text = before \o end
  /\ end = <<>> => text = <<>>

\* at_boundary: the last bytes tell that an event has ended.
LEMMA BoundaryRead ==
  ASSUME NEW text \in Bytes, Tails(text, tail), AtBoundary
  PROVE  Between(Reading(text))
<1>1. PICK before \in Bytes : text = before \o tail
  BY DEF Tails
<1>2. tail \in Bytes /\ (tail = <<>> => text = <<>>)
  BY DEF Tails
<1> DEFINE m == Len(before)
           n == Len(tail)
<1>3. m \in Nat /\ n \in Nat /\ Len(text) = m + n
      /\ \A i \in 1..(m + n) : text[i] = IF i <= m THEN before[i] ELSE tail[i - m]
  BY <1>1, <1>2, ConcatProperties, LenProperties DEF Bytes
<1> HIDE DEF m, n
<1>4. ASSUME NEW i \in 1..n PROVE text[m + i] = tail[i]
  <2>1. m + i \in 1..(m + n) /\ ~(m + i <= m) /\ (m + i) - m = i
    BY <1>3
  <2> QED
    BY <1>3, <2>1
<1>5. CASE tail = <<>>
  <2>1. Reading(text) = Unread
    BY <1>2, <1>5, ReadNone
  <2> QED
    BY <2>1 DEF Between, Unread
<1>6. CASE IsSuffix(<<"lf", "lf">>, tail)
  <2> DEFINE s == <<"lf", "lf">>
  <2>1. s \in Bytes /\ Len(s) = 2 /\ s[1] = "lf" /\ s[2] = "lf"
    BY Units DEF Bytes
  <2>2. IsSuffix(s, tail)
    BY <1>6
  <2> HIDE DEF s
  <2>3. Len(s) <= n /\ \A i \in 1..Len(s) : tail[(n - Len(s)) + i] = s[i]
    BY <1>2, <2>1, <2>2, SuffixIs DEF Bytes, n
  <2>4. 2 <= n /\ tail[(n - 2) + 1] = "lf" /\ tail[(n - 2) + 2] = "lf"
    <3>1. 1 \in 1..2 /\ 2 \in 1..2
      OBVIOUS
    <3> QED
      BY <2>1, <2>3, <3>1
  <2> DEFINE k == m + (n - 2)
  <2>5. /\ k \in Nat /\ Len(text) = k + 2 /\ (n - 2) + 1 \in 1..n /\ (n - 2) + 2 \in 1..n
        /\ m + ((n - 2) + 1) = k + 1 /\ m + ((n - 2) + 2) = k + 2
    BY <1>3, <2>4
  <2>6. text[k + 1] = "lf" /\ text[k + 2] = "lf"
    BY <1>4, <2>4, <2>5
  <2> HIDE DEF k
  <2> QED
    BY <2>5, <2>6, EndsWithBlank
<1>7. CASE IsSuffix(<<"cr", "lf", "cr", "lf">>, tail)
  <2> DEFINE s == <<"cr", "lf", "cr", "lf">>
  <2>1. s \in Bytes /\ Len(s) = 4 /\ s[1] = "cr" /\ s[2] = "lf" /\ s[3] = "cr" /\ s[4] = "lf"
    BY Units DEF Bytes
  <2>2. IsSuffix(s, tail)
    BY <1>7
  <2> HIDE DEF s
  <2>3. Len(s) <= n /\ \A i \in 1..Len(s) : tail[(n - Len(s)) + i] = s[i]
    BY <1>2, <2>1, <2>2, SuffixIs DEF Bytes, n
  <2>4. /\ 4 <= n /\ tail[(n - 4) + 2] = "lf" /\ tail[(n - 4) + 3] = "cr"
        /\ tail[(n - 4) + 4] = "lf"
    <3>1. 2 \in 1..4 /\ 3 \in 1..4 /\ 4 \in 1..4
      OBVIOUS
    <3> QED
      BY <2>1, <2>3, <3>1
  <2> DEFINE k == m + (n - 3)
  <2>5. /\ k \in Nat /\ Len(text) = k + 3
        /\ (n - 4) + 2 \in 1..n /\ (n - 4) + 3 \in 1..n /\ (n - 4) + 4 \in 1..n
        /\ m + ((n - 4) + 2) = k + 1 /\ m + ((n - 4) + 3) = k + 2 /\ m + ((n - 4) + 4) = k + 3
    BY <1>3, <2>4
  <2>6. text[k + 1] = "lf" /\ text[k + 2] = "cr" /\ text[k + 3] = "lf"
    BY <1>4, <2>4, <2>5
  <2> HIDE DEF k
  <2> QED
    BY <2>5, <2>6, EndsWithBlank
<1> QED
  BY <1>5, <1>6, <1>7 DEF AtBoundary

\* Pings::observe: four bytes at most are kept.
LEMMA LastFourTails ==
  ASSUME NEW text \in Bytes, NEW end, Tails(text, end), NEW chunk \in Bytes
  PROVE  Tails(text \o chunk, LastFour(end \o chunk))
<1>1. PICK before \in Bytes : text = before \o end
  BY DEF Tails
<1>2. end \in Bytes /\ (end = <<>> => text = <<>>)
  BY DEF Tails
<1> DEFINE t == end \o chunk
           n == Len(t)
           k == n - (IF n > 4 THEN 3 ELSE n - 1)
           l == SubSeq(t, k, n)
<1>3. t \in Bytes /\ n \in Nat
  BY <1>2, ConcatProperties, LenProperties DEF Bytes
<1>4. text \o chunk = before \o t
  BY <1>1, <1>2, ConcatAssociative DEF Bytes
<1> HIDE DEF t
<1>5. n \in Nat /\ k \in 1..(n + 1) /\ (n = 0 => k = 1) /\ (n > 0 => k <= n)
  BY <1>3
<1> HIDE DEF n, k
<1>6. l \in Bytes /\ Len(l) = (n - k) + 1
  <2>1. k - 1 \in Nat /\ (k - 1) + 1 = k /\ n \in Int /\ n <= n
        /\ (IF (k - 1) + 1 <= n THEN n - (k - 1) ELSE 0) = (n - k) + 1
    BY <1>5
  <2> QED
    BY <1>3, <2>1, Sliced DEF n
<1> DEFINE b == SubSeq(t, 1, k - 1)
<1>7. b \in Bytes /\ b \o l = t
  <2>1. 1 \in 1..(n + 1) /\ k - 1 \in (1 - 1)..n /\ n \in (k - 1)..n /\ (k - 1) + 1 = k
    BY <1>5
  <2>2. SubSeq(t, 1, k - 1) \o SubSeq(t, (k - 1) + 1, n) = SubSeq(t, 1, n)
    BY <1>3, <2>1, ConcatAdjacentSubSeq DEF Bytes, n
  <2>3. SubSeq(t, 1, n) = t
    BY <1>3, SubSeqFull DEF Bytes, n
  <2>4. b \in Bytes
    <3>1. 0 \in Nat /\ 0 + 1 = 1 /\ k - 1 \in Int /\ k - 1 <= n
      BY <1>5
    <3>2. SubSeq(t, 0 + 1, k - 1) \in Bytes
      BY <1>3, <3>1, Sliced DEF n
    <3> QED
      BY <3>1, <3>2
  <2> QED
    BY <2>1, <2>2, <2>3, <2>4
<1> HIDE DEF b
<1>8. text \o chunk = (before \o b) \o l /\ before \o b \in Bytes
  <2> HIDE DEF l
  <2>1. before \in Seq(Unit) /\ b \in Seq(Unit) /\ l \in Seq(Unit)
    BY <1>6, <1>7 DEF Bytes
  <2>2. (before \o b) \o l = before \o (b \o l)
    BY <2>1, ConcatAssociative
  <2> QED
    BY <1>4, <1>7, <2>1, <2>2, ConcatProperties DEF Bytes
<1>9. ASSUME l = <<>> PROVE text \o chunk = <<>>
  <2>1. n = 0
    <3>1. Len(l) = 0
      BY <1>9, NoBytes
    <3> HIDE DEF l
    <3> QED
      BY <1>5, <1>6, <3>1
  <2>2. Len(end) + Len(chunk) = 0 /\ Len(end) \in Nat /\ Len(chunk) \in Nat
    BY <1>2, <2>1, ConcatProperties, LenProperties DEF Bytes, n, t
  <2>3. end = <<>> /\ chunk = <<>>
    <3>1. Len(end) = 0 /\ Len(chunk) = 0
      BY <2>2
    <3> QED
      BY <1>2, <3>1, EmptySeq DEF Bytes
  <2>4. text = <<>>
    BY <1>2, <2>3
  <2>5. <<>> \o <<>> = <<>>
    BY ConcatEmptySeq, EmptySeq
  <2> QED
    BY <2>3, <2>4, <2>5
<1>10. LastFour(t) = l
  BY DEF LastFour, l, k, n
<1> HIDE DEF l
<1>11. Tails(text \o chunk, l)
  BY <1>6, <1>8, <1>9 DEF Tails
<1> QED
  BY <1>10, <1>11 DEF t

\* What the client has been given is what was relayed, but for pings; a body read whole
\* is given when it is complete.
PingInv ==
  /\ out \in Bytes
  /\ ~Buffered => Alike(Reading(out), Reading(relayed))
  /\ Buffered => out = IF ended = "complete" THEN relayed ELSE <<>>
  /\ Pinged => Tails(relayed, tail)

LEMMA PingsFollow == TakenInv /\ PingInv => PingsBetweenEvents
<1> SUFFICES ASSUME TakenInv, PingInv PROVE PingsBetweenEvents
  OBVIOUS
<1>1. CASE Buffered
  <2>1. out = IF ended = "complete" THEN relayed ELSE <<>>
    BY <1>1 DEF PingInv
  <2>2. Unpinged(Frames(<<>>)) = <<>>
    BY ReadNone, UnpingedNone DEF Frames, Unread, Nothing
  <2> QED
    BY <1>1, <2>1, <2>2 DEF PingsBetweenEvents
<1>2. CASE ~Buffered
  <2>1. Alike(Reading(out), Reading(relayed))
    BY <1>2 DEF PingInv
  <2> QED
    BY <1>2, <2>1 DEF PingsBetweenEvents, Alike, Frames
<1> QED
  BY <1>1, <1>2

LEMMA AlikeSame == ASSUME NEW R PROVE Alike(R, R)
BY DEF Alike

LEMMA PingInit == Init => PingInv
<1> SUFFICES ASSUME Init PROVE PingInv
  OBVIOUS
<1>1. out = <<>> /\ relayed = <<>> /\ tail = <<>> /\ ended = "no"
  BY DEF Init
<1>2. Tails(<<>>, <<>>)
  <2>1. <<>> \o <<>> = <<>>
    BY ConcatEmptySeq, EmptySeq
  <2> QED
    BY <2>1, NoBytes DEF Tails
<1> QED
  BY <1>1, <1>2, NoBytes, AlikeSame DEF PingInv

LEMMA RelayPings == ASSUME TakenInv, PingInv, Relay PROVE PingInv'
<1>1. /\ ended = "no" /\ ~Buffered /\ queue # <<>>
      /\ tail' = (IF Pinged THEN LastFour(tail \o queue[1]) ELSE tail)
      /\ relayed' = relayed \o queue[1] /\ out' = out \o queue[1]
      /\ UNCHANGED <<sort, asked, kind, ended>>
  BY DEF Relay, chosen
<1>2. PICK c \in Chunks : queue = <<c>>
  BY <1>1 DEF TakenInv
<1>3. c \in Bytes /\ relayed \in Bytes /\ out \in Bytes /\ queue[1] = c
  BY <1>2, AnswerAssumption DEF Bytes, TakenInv, PingInv
<1>4. out \o c \in Bytes
  BY <1>3, ConcatProperties DEF Bytes
<1>5. Alike(Reading(out \o c), Reading(relayed \o c))
  BY <1>1, <1>3, AlikeMore DEF PingInv
<1>6. ASSUME Pinged PROVE Tails(relayed \o c, LastFour(tail \o c))
  BY <1>3, <1>6, LastFourTails DEF PingInv
<1>7. (~Buffered)' /\ (Pinged' => Pinged)
  BY <1>1 DEF Buffered, Pinged
<1> QED
  BY <1>1, <1>3, <1>4, <1>5, <1>6, <1>7 DEF PingInv

LEMMA KeepPings == ASSUME PingInv, Keep PROVE PingInv'
<1>1. /\ ended = "no" /\ Buffered /\ ended' \in {"no", "too large"}
      /\ UNCHANGED <<sort, asked, kind, out, tail>>
  BY DEF Keep, chosen
<1>2. Buffered' /\ ~Pinged'
  BY <1>1 DEF Buffered, Pinged
<1>3. out = <<>>
  BY <1>1 DEF PingInv
<1> QED
  BY <1>1, <1>2, <1>3, NoBytes DEF PingInv

LEMMA PendingPings == ASSUME TakenInv, PingInv, Pending PROVE PingInv'
<1>1. /\ out' = (IF (Pinged /\ quiet = 0) /\ AtBoundary THEN out \o Ping ELSE out)
      /\ UNCHANGED <<sort, asked, kind, relayed, tail, ended>>
  BY DEF Pending, chosen
<1>2. CASE Pinged /\ quiet = 0 /\ AtBoundary
  <2>1. ~Buffered /\ out' = out \o Ping
    BY <1>1, <1>2 DEF Pinged, Buffered
  <2>2. Between(Reading(relayed))
    BY <1>2, BoundaryRead DEF TakenInv, PingInv
  <2>3. out \in Bytes /\ Alike(Reading(out), Reading(relayed))
    BY <2>1 DEF PingInv
  <2>4. Between(Reading(out))
    BY <2>2, <2>3 DEF Between, Alike
  <2>5. out \o Ping \in Bytes /\ Alike(Reading(out \o Ping), Reading(out))
    BY <2>3, <2>4, PingRead
  <2>6. Alike(Reading(out \o Ping), Reading(relayed))
    BY <2>3, <2>5 DEF Alike
  <2> QED
    BY <1>1, <2>1, <2>5, <2>6 DEF PingInv, Buffered, Pinged
<1>3. CASE ~(Pinged /\ quiet = 0 /\ AtBoundary)
  BY <1>1, <1>3 DEF PingInv, Buffered, Pinged
<1> QED
  BY <1>2, <1>3

LEMMA EndsPings == ASSUME TakenInv, PingInv, ended = "no", NEW how, Ends(how) PROVE PingInv'
<1>1. /\ ended' = how /\ out' = (IF Buffered /\ how = "complete" THEN whole ELSE out)
      /\ UNCHANGED <<sort, asked, kind, relayed, tail>>
  BY DEF Ends, chosen
<1>2. relayed \in Bytes /\ (Buffered => relayed = whole)
  BY DEF TakenInv
<1> QED
  BY <1>1, <1>2 DEF PingInv, Buffered, Pinged

LEMMA OtherPings ==
  ASSUME PingInv, UNCHANGED <<sort, asked, kind, relayed, tail, ended, out>> PROVE PingInv'
BY DEF PingInv, Buffered, Pinged

LEMMA PingStep == TakenInv /\ PingInv /\ [Next]_vars => PingInv'
<1> SUFFICES ASSUME TakenInv, PingInv, [Next]_vars PROVE PingInv'
  OBVIOUS
<1>1. CASE Arrive
  BY <1>1, OtherPings DEF Arrive, chosen
<1>2. CASE Stop
  BY <1>2, OtherPings DEF Stop, chosen
<1>3. CASE Tick
  BY <1>3, OtherPings DEF Tick, chosen
<1>4. CASE Relay
  BY <1>4, RelayPings
<1>5. CASE Keep
  BY <1>5, KeepPings
<1>6. CASE End
  BY <1>6, EndsPings DEF End
<1>7. CASE Timeout
  BY <1>7, EndsPings DEF Timeout
<1>8. CASE Pending
  BY <1>8, PendingPings
<1>9. CASE Leave
  BY <1>9, EndsPings DEF Leave
<1>10. CASE UNCHANGED vars
  BY <1>10, OtherPings DEF vars, chosen
<1> QED
  BY <1>1, <1>2, <1>3, <1>4, <1>5, <1>6, <1>7, <1>8, <1>9, <1>10 DEF Next, Poll

\* The last four bytes tell where an event ends, so that a ping falls between two events
\* and the client reads what the backend sent: ping.rs:45-54.
THEOREM PingsCorrect == Spec => []PingsBetweenEvents
<1>1. FramesInv => TakenInv
  BY DEF FramesInv
<1> QED
  BY <1>1, FramesInit, FramesStep, PingInit, PingStep, PingsFollow, PTL DEF Spec

-----------------------------------------------------------------------------
\* What the frames say of usage.

\* What a scanner may say, by the counts and the reasons there are.
Figures == {0} \cup {Counts(Says[u].usage)[f] : u \in DOMAIN Says, f \in Counted}
Reasons == {None} \cup {Says[u].stop : u \in DOMAIN Says}
Saids ==
  [told : {"no", "yes"}, usage : [Counted -> Figures], cache_reported : {"no", "yes"},
   stop : Reasons, error : {"no", "said"}]

LEMMA SaidType ==
  ASSUME NEW told \in {"no", "yes"}, NEW usage \in [Counted -> Figures],
         NEW cache \in {"no", "yes"}, NEW stop \in Reasons, NEW error \in {"no", "said"}
  PROVE  LET s == Said(told, usage, cache, stop, error)
         IN /\ s \in Saids /\ s.told = told /\ s.usage = usage /\ s.cache_reported = cache
            /\ s.stop = stop /\ s.error = error
BY DEF Said, Saids

LEMMA WithUsageType ==
  ASSUME NEW s \in Saids, NEW u \in DOMAIN Says
  PROVE  LET usage == Says[u].usage
             t == WithUsage(s, usage)
         IN /\ t \in Saids
            /\ t.told = IF usage = None THEN s.told ELSE "yes"
            /\ t.usage = IF usage = None THEN s.usage ELSE Overlay(s.usage, usage)
<1> DEFINE usage == Says[u].usage
           over == Overlay(s.usage, usage)
           cache == IF Cached(usage) THEN "yes" ELSE s.cache_reported
           t == WithUsage(s, usage)
<1>1. /\ s.told \in {"no", "yes"} /\ s.usage \in [Counted -> Figures]
      /\ s.cache_reported \in {"no", "yes"} /\ s.stop \in Reasons /\ s.error \in {"no", "said"}
  BY DEF Saids
<1>2. over \in [Counted -> Figures]
  <2>1. ASSUME NEW f \in Counted
        PROVE  (IF f \in DOMAIN Counts(usage) THEN Counts(usage)[f] ELSE s.usage[f]) \in Figures
    <3>1. Counts(usage)[f] \in Figures
      BY DEF Figures
    <3>2. s.usage[f] \in Figures
      BY <1>1
    <3> QED
      BY <3>1, <3>2
  <2> QED
    BY <2>1 DEF Overlay
<1>3. cache \in {"no", "yes"}
  BY <1>1
<1>4. CASE usage = None
  BY <1>4 DEF WithUsage
<1>5. CASE usage # None
  <2>1. t = Said("yes", over, cache, s.stop, s.error)
    BY <1>5 DEF WithUsage
  <2>2. "yes" \in {"no", "yes"}
    OBVIOUS
  <2> HIDE DEF over, cache, t, usage
  <2>3. t \in Saids /\ t.told = "yes" /\ t.usage = over
    BY <1>1, <1>2, <1>3, <2>1, <2>2, SaidType
  <2> QED
    BY <1>5, <2>3 DEF t, over, usage
<1> QED
  BY <1>4, <1>5

\* What a frame says of usage is laid over what was said, and nothing else is.
LEMMA EventSays ==
  ASSUME NEW s \in Saids, NEW d
  PROVE  LET t == Event(s, d)
         IN /\ t \in Saids
            /\ t.told = "no" => s.told = "no" /\ UsageIn(d) = <<>>
            /\ (t.usage = s.usage /\ UsageIn(d) = <<>>) \/ t.usage = Overlay(s.usage, UsageIn(d))
<1> DEFINE t == Event(s, d)
           e == Says[d[1]]
           w == WithUsage(s, e.usage)
<1>1. /\ s.told \in {"no", "yes"} /\ s.usage \in [Counted -> Figures]
      /\ s.cache_reported \in {"no", "yes"} /\ s.stop \in Reasons /\ s.error \in {"no", "said"}
  BY DEF Saids
<1>2. CASE ~Readable(d)
  <2>1. t = s /\ UsageIn(d) = <<>>
    BY <1>2 DEF Event, UsageIn
  <2> HIDE DEF t
  <2>2. t \in Saids /\ (t.told = "no" => s.told = "no" /\ UsageIn(d) = <<>>)
        /\ t.usage = s.usage /\ UsageIn(d) = <<>>
    BY <2>1
  <2> QED
    BY <2>2 DEF t
<1>3. CASE Readable(d)
  <2>1. d[1] \in DOMAIN Says
    BY <1>3 DEF Readable
  <2>2. /\ w \in Saids
        /\ w.told = IF e.usage = None THEN s.told ELSE "yes"
        /\ w.usage = IF e.usage = None THEN s.usage ELSE Overlay(s.usage, e.usage)
    BY <2>1, WithUsageType
  <2>3. e.stop \in Reasons
    BY <2>1 DEF Reasons
  <2>4. UsageIn(d) = IF e.type \in {"message_start", "message_delta"} /\ e.usage # None
                     THEN e.usage ELSE <<>>
    BY <1>3 DEF UsageIn
  <2>5. t = CASE e.type = "message_start" -> w
              [] e.type = "message_delta" -> Stopped(w, e.stop)
              [] e.type = "error" -> Erred(s)
              [] OTHER -> s
    BY <1>3 DEF Event
  <2> HIDE DEF t, w, e
  <2>6. ASSUME e.type \in {"message_start", "message_delta"},
               NEW r, r \in Saids, r.told = w.told, r.usage = w.usage
        PROVE  /\ r.told = "no" => s.told = "no" /\ UsageIn(d) = <<>>
               /\ (r.usage = s.usage /\ UsageIn(d) = <<>>) \/ r.usage = Overlay(s.usage, UsageIn(d))
    <3>1. CASE e.usage = None
      BY <2>2, <2>4, <2>6, <3>1
    <3>2. CASE e.usage # None
      BY <2>2, <2>4, <2>6, <3>2
    <3> QED
      BY <3>1, <3>2
  <2>7. CASE e.type = "message_start"
    <3>1. t = w
      BY <2>5, <2>7
    <3> QED
      BY <2>2, <2>6, <2>7, <3>1 DEF t
  <2>8. CASE e.type = "message_delta"
    <3>1. t = Stopped(w, e.stop)
      BY <2>5, <2>8
    <3>2. t \in Saids /\ t.told = w.told /\ t.usage = w.usage
      <4>1. CASE e.stop = None
        BY <2>2, <3>1, <4>1 DEF Stopped
      <4>2. CASE e.stop # None
        <5>1. t = Said(w.told, w.usage, w.cache_reported, e.stop, w.error)
          BY <3>1, <4>2 DEF Stopped
        <5>2. /\ w.told \in {"no", "yes"} /\ w.usage \in [Counted -> Figures]
              /\ w.cache_reported \in {"no", "yes"} /\ w.error \in {"no", "said"}
          BY <2>2 DEF Saids
        <5> QED
          BY <2>3, <5>1, <5>2, SaidType
      <4> QED
        BY <4>1, <4>2
    <3> QED
      BY <2>6, <2>8, <3>2 DEF t
  <2>9. CASE e.type \notin {"message_start", "message_delta"}
    <3>1. UsageIn(d) = <<>>
      BY <2>4, <2>9
    <3>2. t \in Saids /\ t.told = s.told /\ t.usage = s.usage
      <4>1. CASE e.type = "error"
        <5>1. t = Said(s.told, s.usage, s.cache_reported, s.stop, "said")
          BY <2>5, <4>1 DEF Erred
        <5>2. "said" \in {"no", "said"}
          OBVIOUS
        <5> QED
          BY <1>1, <5>1, <5>2, SaidType
      <4>2. CASE e.type # "error"
        <5>1. t = s
          BY <2>5, <2>9, <4>2
        <5> QED
          BY <5>1
      <4> QED
        BY <4>1, <4>2
    <3> QED
      BY <3>1, <3>2 DEF t
  <2> QED
    BY <2>7, <2>8, <2>9
<1> QED
  BY <1>2, <1>3

LEMMA EventType == ASSUME NEW s \in Saids, NEW d \in Bytes PROVE Event(s, d) \in Saids
BY EventSays

LEMMA EventsRun ==
  ASSUME NEW frames \in FrameLists, NEW s \in Saids
  PROVE  \E f \in [0..Len(frames) -> Saids] :
           /\ f[0] = s /\ \A m \in 1..Len(frames) : f[m] = Event(f[m - 1], frames[m])
           /\ Events(s, frames) = f[Len(frames)]
<1> DEFINE n == Len(frames)
           F == [m \in 1..n |-> [R \in Saids |-> Event(R, frames[m])]]
           c == CHOOSE c : c = [m \in 0..n |-> IF m = 0 THEN s ELSE Event(c[m - 1], frames[m])]
<1>1. n \in Nat /\ s \in Saids /\ \A m \in 1..n : frames[m] \in Bytes
  BY EventType, ElementOfSeq, LenProperties DEF FrameLists
<1>2. F \in [1..n -> [Saids -> Saids]]
  BY <1>1, EventType
<1>3. Events(s, frames) = c[n]
  BY DEF Events
<1> HIDE DEF c, n
<1>4. PICK f : Runs(f, Saids, s, n, F)
  <2> HIDE DEF F
  <2> QED
    BY <1>1, <1>2, RunExists
<1>5. \A m \in 1..n : f[m - 1] \in Saids /\ f[m] = Event(f[m - 1], frames[m])
  <2> TAKE m \in 1..n
  <2>1. m - 1 \in 0..n
    BY <1>1
  <2>2. f[m - 1] \in Saids /\ f[m] = F[m][f[m - 1]]
    <3> HIDE DEF F
    <3> QED
      BY <1>4, <2>1 DEF Runs
  <2> QED
    BY <2>2
<1>6. f = [m \in 0..n |-> IF m = 0 THEN s ELSE Event(f[m - 1], frames[m])]
  <2>1. f[0] = s /\ f = [m \in 0..n |-> f[m]]
    BY <1>4 DEF Runs
  <2>2. \A m \in 0..n : m # 0 => m \in 1..n
    BY <1>1
  <2> QED
    BY <1>5, <2>1, <2>2
<1>7. c = [m \in 0..n |-> IF m = 0 THEN s ELSE Event(c[m - 1], frames[m])]
  BY <1>6 DEF c
<1>8. c[0] = s /\ \A m \in 1..n : c[m - 1] \in Saids => c[m] = F[m][c[m - 1]]
  <2>1. 0 \in 0..n /\ \A m \in 1..n : m \in 0..n /\ m # 0
    BY <1>1
  <2>2. c[0] = s /\ \A m \in 1..n : c[m] = Event(c[m - 1], frames[m])
    BY <1>7, <2>1
  <2> QED
    BY <2>2
<1>9. c[n] = f[n]
  <2> HIDE DEF F
  <2>1. \A m \in 0..n : c[m] = f[m]
    <3>1. Follows(c, Saids, s, n, F)
      BY <1>8 DEF Follows
    <3> QED
      BY <1>1, <1>2, <1>4, <3>1, RunIs
  <2>2. n \in 0..n
    BY <1>1
  <2> QED
    BY <2>1, <2>2
<1>10. f \in [0..n -> Saids] /\ f[0] = s
  BY <1>4 DEF Runs
<1> QED
  BY <1>3, <1>5, <1>9, <1>10 DEF n

LEMMA EventsType == ASSUME NEW frames \in FrameLists, NEW s \in Saids PROVE Events(s, frames) \in Saids
<1>1. Len(frames) \in 0..Len(frames)
  BY LenProperties DEF FrameLists
<1> QED
  BY <1>1, EventsRun

LEMMA EventsNone == 
  ASSUME NEW s \in Saids PROVE Events(s, <<>>) = s
<1>1. <<>> \in FrameLists /\ Len(<<>>) = 0
  BY EmptySeq, NoBytes DEF FrameLists
<1> QED
  BY <1>1, EventsRun

LEMMA EventsMore ==
  ASSUME NEW frames \in FrameLists, NEW d \in Bytes, NEW s \in Saids
  PROVE  Events(s, Append(frames, d)) = Event(Events(s, frames), d)
<1> DEFINE more == Append(frames, d)
           n == Len(frames)
           F == [m \in 1..n |-> [R \in Saids |-> Event(R, frames[m])]]
<1>1. more \in FrameLists /\ n \in Nat /\ Len(more) = n + 1 /\ n + 1 \in 1..(n + 1)
      /\ more[n + 1] = d
      /\ \A m \in 1..n : more[m] = frames[m] /\ m \in 1..(n + 1) /\ m - 1 \in 0..n /\ m - 1 \in 0..(n + 1)
  <2>1. n \in Nat
    BY LenProperties DEF FrameLists
  <2>2. \A m \in 1..n : m \in 1..(n + 1) /\ m - 1 \in 0..n /\ m - 1 \in 0..(n + 1)
    BY <2>1
  <2>3. /\ more \in FrameLists /\ Len(more) = n + 1 /\ more[n + 1] = d
        /\ \A m \in 1..n : more[m] = frames[m]
    BY AppendProperties DEF FrameLists
  <2> HIDE DEF more, n
  <2> QED
    BY <2>1, <2>2, <2>3
<1>2. F \in [1..n -> [Saids -> Saids]]
  <2>1. \A m \in 1..n : frames[m] \in Bytes
    BY ElementOfSeq DEF FrameLists
  <2> QED
    BY <2>1, EventType
<1> HIDE DEF more
<1>3. PICK g \in [0..(n + 1) -> Saids] :
        /\ g[0] = s /\ \A m \in 1..(n + 1) : g[m] = Event(g[m - 1], more[m])
        /\ Events(s, more) = g[n + 1]
  <2>1. \E g \in [0..Len(more) -> Saids] :
          /\ g[0] = s /\ \A m \in 1..Len(more) : g[m] = Event(g[m - 1], more[m])
          /\ Events(s, more) = g[Len(more)]
    BY <1>1, EventsRun
  <2> QED
    BY <1>1, <2>1
<1>4. PICK f \in [0..n -> Saids] :
        /\ f[0] = s /\ \A m \in 1..n : f[m] = Event(f[m - 1], frames[m])
        /\ Events(s, frames) = f[n]
  BY EventsRun
<1> HIDE DEF n
<1>5. Runs(f, Saids, s, n, F)
  <2>1. \A m \in 1..n : f[m] = F[m][f[m - 1]]
    BY <1>1, <1>4
  <2> HIDE DEF F
  <2> QED
    BY <1>4, <2>1 DEF Runs
<1>6. \A m \in 1..n : g[m - 1] \in Saids => g[m] = F[m][g[m - 1]]
  <2> TAKE m \in 1..n
  <2>1. g[m - 1] \in Saids /\ m \in 1..(n + 1) /\ more[m] = frames[m]
    BY <1>1, <1>3
  <2>2. g[m] = Event(g[m - 1], frames[m])
    BY <1>3, <2>1
  <2> QED
    BY <2>1, <2>2
<1>7. g[n] = f[n]
  <2> HIDE DEF F
  <2>1. n \in Nat /\ n \in 0..n /\ g[0] = s
    BY <1>1, <1>3
  <2>2. \A m \in 0..n : g[m] = f[m]
    <3>1. Follows(g, Saids, s, n, F)
      BY <1>6, <2>1 DEF Follows
    <3> QED
      BY <1>2, <1>5, <2>1, <3>1, RunIs
  <2> QED
    BY <2>1, <2>2
<1>8. Events(s, more) = Event(Events(s, frames), d)
  <2>1. (n + 1) - 1 = n
    BY <1>1
  <2> QED
    BY <1>1, <1>3, <1>4, <1>7, <2>1
<1> QED
  BY <1>8 DEF more

LEMMA MaxIs ==
  ASSUME NEW n \in Nat, NEW T \in SUBSET (1..n), T # {}
  PROVE  Max(T) \in T /\ \A i \in T : i <= Max(T)
<1> DEFINE L == {n - i : i \in T}
<1>0. \A i \in T : i \in Nat /\ i <= n /\ n - i \in Nat
  <2>1. \A i \in T : i \in 1..n
    OBVIOUS
  <2> QED
    BY <2>1
<1>1. L \in SUBSET Nat /\ L # {}
  BY <1>0
<1>2. PICK x \in L : \A y \in L : x <= y
  <2> HIDE DEF L
  <2> QED
    BY <1>1, LeastNumber
<1>3. PICK m \in T : x = n - m
  BY <1>2
<1>4. \A i \in T : i <= m
  <2> TAKE i \in T
  <2>1. n - m <= n - i
    BY <1>2, <1>3
  <2>2. i \in Nat /\ m \in Nat
    BY <1>0
  <2> QED
    BY <2>1, <2>2
<1>5. m \in T /\ \A i \in T : m >= i
  <2>1. \A i \in T : i \in Nat /\ m \in Nat
    BY <1>0
  <2> QED
    BY <1>4, <2>1
<1>6. Max(T) \in T /\ \A i \in T : Max(T) >= i
  BY <1>5 DEF Max
<1> QED
  BY <1>6

LEMMA NoneCounted == DOMAIN Counts(<<>>) = {}
<1>1. DOMAIN <<>> = {}
  <2>1. Len(<<>>) = 0 /\ DOMAIN <<>> = 1..Len(<<>>)
    BY NoBytes, LenProperties DEF Bytes
  <2> QED
    BY <2>1
<1> QED
  BY <1>1 DEF Counts

\* What a field was last said to be, with one frame more.
LEMMA LastSaidMore ==
  ASSUME NEW frames \in FrameLists, NEW d \in Bytes, NEW f
  PROVE  LastSaid(Append(frames, d), f) =
           IF f \in DOMAIN Counts(UsageIn(d)) THEN Counts(UsageIn(d))[f] ELSE LastSaid(frames, f)
<1> DEFINE n == Len(frames)
           more == Append(frames, d)
           S == {i \in DOMAIN frames : f \in DOMAIN Counts(UsageIn(frames[i]))}
           T == {i \in DOMAIN more : f \in DOMAIN Counts(UsageIn(more[i]))}
<1>1. /\ n \in Nat /\ DOMAIN frames = 1..n /\ DOMAIN more = 1..(n + 1) /\ more[n + 1] = d
      /\ \A i \in 1..n : more[i] = frames[i]
  BY AppendProperties, LenProperties DEF FrameLists
<1>2. LastSaid(frames, f) = IF S = {} THEN 0 ELSE Counts(UsageIn(frames[Max(S)]))[f]
  BY DEF LastSaid
<1>3. LastSaid(more, f) = IF T = {} THEN 0 ELSE Counts(UsageIn(more[Max(T)]))[f]
  BY DEF LastSaid
<1> HIDE DEF more, n
<1>4. S \in SUBSET (1..n) /\ T \in SUBSET (1..(n + 1)) /\ n + 1 \in Nat
  BY <1>1
<1>5. CASE f \in DOMAIN Counts(UsageIn(d))
  <2>1. n + 1 \in T
    BY <1>1, <1>5
  <2> HIDE DEF T
  <2>2. Max(T) \in T /\ n + 1 <= Max(T)
    BY <1>4, <2>1, MaxIs
  <2>3. Max(T) = n + 1
    <3>1. Max(T) \in 1..(n + 1)
      BY <1>4, <2>2
    <3> QED
      BY <1>4, <2>2, <3>1
  <2> QED
    BY <1>1, <1>3, <1>5, <2>1, <2>3 DEF more
<1>6. CASE f \notin DOMAIN Counts(UsageIn(d))
  <2>1. T = S
    <3>1. ASSUME NEW i \in T PROVE i \in S
      <4>1. i \in 1..(n + 1) /\ i # n + 1
        BY <1>1, <1>6
      <4>2. i \in 1..n
        BY <1>1, <4>1
      <4> QED
        BY <1>1, <4>2
    <3>2. ASSUME NEW i \in S PROVE i \in T
      <4>1. i \in 1..n /\ i \in 1..(n + 1)
        BY <1>1
      <4> QED
        BY <1>1, <4>1
    <3> QED
      BY <3>1, <3>2
  <2> HIDE DEF S, T
  <2>2. S # {} => Max(S) \in 1..n
    BY <1>1, <1>4, MaxIs
  <2> QED
    BY <1>1, <1>2, <1>3, <1>6, <2>1, <2>2 DEF more
<1> QED
  BY <1>5, <1>6

\* What has been said of usage is what these frames said last.
UsageTold(s, frames) ==
  /\ s \in Saids
  /\ s.told = "no" => \A i \in DOMAIN frames : UsageIn(frames[i]) = <<>>
  /\ \A f \in Counted : s.usage[f] = LastSaid(frames, f)

LEMMA ToldNone ==
  ASSUME NEW s \in Saids, s.usage = [f \in Counted |-> 0] PROVE UsageTold(s, <<>>)
<1>1. DOMAIN <<>> = {}
  <2>1. Len(<<>>) = 0 /\ DOMAIN <<>> = 1..Len(<<>>)
    BY NoBytes, LenProperties DEF Bytes
  <2> QED
    BY <2>1
<1>2. \A f \in Counted : LastSaid(<<>>, f) = 0
  BY <1>1 DEF LastSaid
<1> QED
  BY <1>1, <1>2 DEF UsageTold

LEMMA ToldQuiet ==
  ASSUME NEW s, NEW frames \in FrameLists, UsageTold(s, frames),
         NEW d \in Bytes, UsageIn(d) = <<>>
  PROVE  UsageTold(s, Append(frames, d))
<1> DEFINE n == Len(frames)
           more == Append(frames, d)
<1>1. /\ n \in Nat /\ DOMAIN frames = 1..n /\ DOMAIN more = 1..(n + 1) /\ more[n + 1] = d
      /\ \A i \in 1..n : more[i] = frames[i]
  BY AppendProperties, LenProperties DEF FrameLists
<1>2. \A f \in Counted : LastSaid(more, f) = LastSaid(frames, f)
  BY LastSaidMore, NoneCounted
<1> HIDE DEF more, n
<1>3. ASSUME s.told = "no", NEW i \in DOMAIN more PROVE UsageIn(more[i]) = <<>>
  <2>1. i \in 1..n \/ i = n + 1
    BY <1>1
  <2> QED
    BY <1>1, <1>3, <2>1 DEF UsageTold
<1>4. UsageTold(s, more)
  BY <1>2, <1>3 DEF UsageTold
<1> QED
  BY <1>4 DEF more

LEMMA ToldMore ==
  ASSUME NEW s, NEW frames \in FrameLists, UsageTold(s, frames), NEW d \in Bytes
  PROVE  UsageTold(Event(s, d), Append(frames, d))
<1> DEFINE n == Len(frames)
           more == Append(frames, d)
           t == Event(s, d)
<1>1. s \in Saids
  BY DEF UsageTold
<1>2. /\ t \in Saids
      /\ t.told = "no" => s.told = "no" /\ UsageIn(d) = <<>>
      /\ (t.usage = s.usage /\ UsageIn(d) = <<>>) \/ t.usage = Overlay(s.usage, UsageIn(d))
  BY <1>1, EventSays
<1>3. /\ n \in Nat /\ DOMAIN frames = 1..n /\ DOMAIN more = 1..(n + 1) /\ more[n + 1] = d
      /\ \A i \in 1..n : more[i] = frames[i]
  BY AppendProperties, LenProperties DEF FrameLists
<1>4. ASSUME NEW f \in Counted PROVE t.usage[f] = LastSaid(more, f)
  <2>1. LastSaid(more, f) =
          IF f \in DOMAIN Counts(UsageIn(d)) THEN Counts(UsageIn(d))[f] ELSE s.usage[f]
    BY LastSaidMore DEF UsageTold
  <2> HIDE DEF t, more
  <2>2. CASE t.usage = s.usage /\ UsageIn(d) = <<>>
    BY <2>1, <2>2, NoneCounted
  <2>3. CASE t.usage = Overlay(s.usage, UsageIn(d))
    BY <2>1, <2>3 DEF Overlay
  <2> QED
    BY <1>2, <2>2, <2>3
<1> HIDE DEF more, n, t
<1>5. ASSUME t.told = "no", NEW i \in DOMAIN more PROVE UsageIn(more[i]) = <<>>
  <2>1. i \in 1..n \/ i = n + 1
    BY <1>3
  <2> QED
    BY <1>2, <1>3, <1>5, <2>1 DEF UsageTold
<1>6. UsageTold(t, more)
  BY <1>2, <1>4, <1>5 DEF UsageTold
<1> QED
  BY <1>6 DEF more, t

LEMMA ToldFurther ==
  ASSUME NEW s, NEW frames \in FrameLists, UsageTold(s, frames), NEW next \in FrameLists
  PROVE  UsageTold(Events(s, next), frames \o next)
<1> DEFINE p(k) == SubSeq(next, 1, k)
           q(k) == frames \o p(k)
           n == Len(next)
           T == {k \in 0..n : p(k) \in FrameLists /\ q(k) \in FrameLists /\ UsageTold(Events(s, p(k)), q(k))}
<1>1. n \in Nat /\ s \in Saids
  BY LenProperties DEF FrameLists, UsageTold
<1>2. p(0) = <<>> /\ p(n) = next /\ q(0) = frames /\ q(n) = frames \o next
  <2>1. SubSeq(next, 1, 0) = <<>> /\ SubSeq(next, 1, n) = next
    BY SliceNone, SubSeqFull DEF FrameLists
  <2> QED
    BY <2>1, ConcatEmptySeq DEF FrameLists
<1> HIDE DEF n
<1>3. 0 \in T
  <2>1. 0 \in 0..n /\ <<>> \in FrameLists
    BY <1>1, NoFrames DEF Nothing
  <2>2. Events(s, <<>>) = s
    BY <1>1, EventsNone
  <2> HIDE DEF p, q
  <2> QED
    BY <1>2, <2>1, <2>2
<1>4. ASSUME NEW k \in T, k < n PROVE k + 1 \in T
  <2>1. k \in 0..n /\ p(k) \in FrameLists /\ q(k) \in FrameLists /\ UsageTold(Events(s, p(k)), q(k))
    OBVIOUS
  <2> HIDE DEF T
  <2>2. k \in Nat /\ k + 1 <= n /\ k + 1 \in 0..n /\ k + 1 \in 1..n /\ k + 1 \in 1..(k + 1)
        /\ (k + 1) - 1 = k /\ 1 \in 1..n
    BY <1>1, <1>4, <2>1
  <2> DEFINE d == next[k + 1]
  <2>3. d \in Bytes /\ p(k + 1) = p(k) \o <<d>>
    <3>1. next \in Seq(Bytes)
      BY DEF FrameLists
    <3>2. d \in Bytes
      BY <2>2, <3>1, ElementOfSeq DEF n
    <3>3. SubSeq(next, 1, k + 1) = SubSeq(next, 1, (k + 1) - 1) \o <<next[k + 1]>>
      <4>1. 1 \in 1..Len(next) /\ k + 1 \in 1..Len(next)
        BY <2>2 DEF n
      <4> HIDE DEF d
      <4> QED
        BY <3>1, <4>1, SubSeqRecursiveSecond
    <3> QED
      BY <2>2, <3>2, <3>3
  <2> HIDE DEF d, p
  <2>4. p(k + 1) = Append(p(k), d) /\ q(k + 1) = Append(q(k), d)
    <3>1. p(k) \o <<d>> = Append(p(k), d)
      BY <2>1, <2>3, AppendIsConcat DEF FrameLists
    <3>2. q(k) \o <<d>> = Append(q(k), d)
      <4> HIDE DEF q
      <4> QED
        BY <2>1, <2>3, AppendIsConcat DEF FrameLists
    <3>3. (frames \o p(k)) \o <<d>> = frames \o (p(k) \o <<d>>)
      <4> DEFINE a == p(k)
                 b == <<d>>
      <4>1. frames \in Seq(Bytes) /\ a \in Seq(Bytes) /\ b \in Seq(Bytes)
        BY <2>1, <2>3 DEF FrameLists
      <4> HIDE DEF a, b
      <4>2. (frames \o a) \o b = frames \o (a \o b)
        BY <4>1, ConcatAssociative
      <4> QED
        BY <4>2 DEF a, b
    <3> QED
      BY <2>3, <3>1, <3>2, <3>3
  <2> HIDE DEF q
  <2>5. Events(s, p(k + 1)) = Event(Events(s, p(k)), d)
    BY <1>1, <2>1, <2>3, <2>4, EventsMore
  <2>6. UsageTold(Event(Events(s, p(k)), d), Append(q(k), d))
    BY <2>1, <2>3, ToldMore
  <2>7. p(k + 1) \in FrameLists /\ q(k + 1) \in FrameLists
    <3> DEFINE a == p(k)
               b == q(k)
    <3>1. a \in Seq(Bytes) /\ b \in Seq(Bytes)
      BY <2>1 DEF FrameLists
    <3> HIDE DEF a, b
    <3>2. Append(a, d) \in Seq(Bytes) /\ Append(b, d) \in Seq(Bytes)
      BY <2>3, <3>1, AppendProperties
    <3> QED
      BY <2>4, <3>2 DEF a, b, FrameLists
  <2>8. UsageTold(Events(s, p(k + 1)), q(k + 1))
    BY <2>4, <2>5, <2>6, Zenon
  <2> QED
    BY <2>2, <2>7, <2>8 DEF T
<1>5. n \in T
  <2> HIDE DEF T
  <2>1. T \in SUBSET (0..n) /\ n \in 0..n
    BY <1>1 DEF T
  <2>2. T = 0..n
    BY <1>1, <1>3, <1>4, <2>1, UpTo
  <2> QED
    BY <2>1, <2>2
<1> HIDE DEF p, q
<1> QED
  BY <1>2, <1>5

LEMMA BlankAdded ==
  ASSUME NEW text \in Bytes
  PROVE  /\ Append(text, "lf") \in Bytes
         /\ text \o <<"lf", "lf">> = Append(Append(text, "lf"), "lf")
<1> DEFINE l == <<"lf">>
           t == Append(text, "lf")
<1>1. l \in Seq(Unit) /\ text \in Seq(Unit) /\ "lf" \in Unit /\ l \o l = <<"lf", "lf">>
  BY Units, OneByte, PairIs DEF Bytes
<1>2. t = text \o l /\ t \in Seq(Unit)
  BY <1>1, AppendIsConcat, AppendProperties
<1>3. Append(t, "lf") = t \o l
  <2> HIDE DEF t
  <2> QED
    BY <1>1, <1>2, AppendIsConcat
<1>4. (text \o l) \o l = text \o (l \o l)
  <2>1. text \in Seq(Unit) /\ l \in Seq(Unit)
    BY <1>1
  <2> HIDE DEF l
  <2>2. (text \o l) \o l = text \o (l \o l)
    BY <2>1, ConcatAssociative
  <2> QED
    BY <2>2
<1> QED
  BY <1>1, <1>2, <1>3, <1>4 DEF Bytes

\* The last line of a frame adds to its data as its line feed would.
LEMMA ParseIs ==
  ASSUME NEW q \in Bytes, NEW R \in Readings, Reads(R, q)
  PROVE  /\ Line(q, Split(q).open, Len(q) + 1) = Stripped(R.line)
         /\ LET data == R.data \o Data(Stripped(R.line))
            IN ParseFrame(q) = IF Len(data) > 1 THEN <<Tail(data)>> ELSE <<>>
<1>1. Len(q) \in Nat /\ (Len(q) + 1) - 1 = Len(q)
  BY LenProperties DEF Bytes
<1>2. Line(q, Split(q).open, Len(q) + 1) = Stripped(R.line)
  BY <1>1 DEF Line, Reads
<1>3. R.data = Split(q).data
  BY DEF Reads
<1> QED
  BY <1>2, <1>3 DEF ParseFrame

LEMMA SameEnded ==
  ASSUME NEW a, NEW b, Invalid(a) <=> Invalid(b), ParseFrame(a) = ParseFrame(b)
  PROVE  Ended(a) = Ended(b)
BY DEF Ended

\* Read to the end: what is pending is ended too.
LEMMA ReadsEnd ==
  ASSUME NEW text \in Bytes, NEW q \in Bytes, Reads(Reading(text), q)
  PROVE  ReadToEnd(text) = Frames(text) \o Ended(q)
<1> DEFINE R == Reading(text)
           t1 == Append(text, "lf")
           R1 == Byte(R, "lf")
           R2 == Byte(R1, "lf")
           o == Split(q).open
           line == Stripped(R.line)
<1>1. R \in Readings /\ t1 \in Bytes /\ Reading(t1) = R1
  BY ReadingType, ReadMore, Units
<1>2. R1 \in Readings /\ R1.line = <<>> /\ Stripped(R1.line) = <<>>
  BY <1>1, ByteType, LineFed, StrippedNone, Units
<1>3. text \o <<"lf", "lf">> = Append(t1, "lf")
  BY BlankAdded
<1>4. Reading(Append(t1, "lf")) = Byte(Reading(t1), "lf")
  <2> HIDE DEF t1, R1
  <2> QED
    BY <1>1, ReadMore, Units
<1>5. ReadToEnd(text) = R2.frames
  BY <1>1, <1>3, <1>4 DEF ReadToEnd, Frames
<1>6. Reads(R, q)
  OBVIOUS
<1>7. R.data \in Bytes /\ R.line \in Bytes /\ line \in Bytes
  BY <1>1, StrippedType DEF Readings
<1> HIDE DEF R, t1
<1>8. CASE line # <<>>
  <2> DEFINE r == Append(q, "lf")
  <2>1. r \in Bytes /\ Len(r) = Len(q) + 1
    BY AppendProperties, Units DEF Bytes
  <2>2. Reads(R1, r) /\ R1.frames = R.frames /\ Split(r).open = Len(q) + 1
    BY <1>1, <1>6, <1>8, ReadsLine
  <2>3. Contains(r, "invalid") <=> Contains(q, "invalid")
    <3>1. Contains(r, "invalid") <=> Contains(q, "invalid") \/ "lf" = "invalid"
      BY Units, ContainsAppend DEF Bytes
    <3> QED
      BY <3>1
  <2>4. R1.data = R.data \o Data(line)
    <3> DEFINE bad == IF Contains(line, "invalid") THEN "yes" ELSE R.bad
               data == R.data \o Data(line)
    <3>1. R1 = [line |-> <<>>, data |-> data, bad |-> bad,
                frames |-> R.frames, size |-> R.size + 1, widest |-> Wider(R)]
      BY <1>1, <1>8, ByteLine
    <3> HIDE DEF R1, bad, data
    <3>2. R1.data = data
      BY <3>1
    <3> QED
      BY <3>2 DEF data
  <2> HIDE DEF r, R1
  <2>5. R2.frames = R1.frames \o Ended(SubSeq(r, 1, Split(r).open))
    BY <1>2, <2>1, <2>2, ReadsBlank
  <2>6. SubSeq(r, 1, Split(r).open) = r
    BY <2>1, <2>2, SubSeqFull DEF Bytes
  <2>7. ParseFrame(r) = ParseFrame(q)
    <3>1. ParseFrame(q) = LET data == R.data \o Data(line)
                          IN IF Len(data) > 1 THEN <<Tail(data)>> ELSE <<>>
      BY <1>1, <1>6, ParseIs
    <3>2. ParseFrame(r) = LET data == R1.data \o Data(Stripped(R1.line))
                          IN IF Len(data) > 1 THEN <<Tail(data)>> ELSE <<>>
      BY <1>2, <2>1, <2>2, ParseIs
    <3>3. R1.data \o Data(Stripped(R1.line)) = R1.data
      <4>1. R1.data \in Bytes
        BY <1>2 DEF Readings
      <4>2. Data(Stripped(R1.line)) = <<>>
        BY <1>2, DataNone
      <4> QED
        BY <4>1, <4>2, ConcatEmptySeq DEF Bytes
    <3> QED
      BY <2>4, <3>1, <3>2, <3>3
  <2>8. Ended(r) = Ended(q)
    BY <2>3, <2>7, SameEnded DEF Invalid
  <2> QED
    BY <1>5, <2>2, <2>5, <2>6, <2>8 DEF Frames, R
<1>9. CASE line = <<>>
  <2> DEFINE raw == SubSeq(q, 1, o)
             last == SubSeq(q, o + 1, Len(q))
  <2>1. R1.line = <<>> /\ R1.data = <<>> /\ R1.bad = "no"
    BY <1>1, <1>9, ByteBlank
  <2>2. R1.frames = R.frames \o Ended(raw)
    BY <1>1, <1>6, <1>9, ReadsBlank
  <2> HIDE DEF R1
  <2>3. R2.frames = R1.frames
    <3>1. R2.frames = Given(R1)
      BY <1>2, ByteBlank
    <3>2. ~(Len(R1.data) > 1)
      BY <2>1, NoBytes
    <3> QED
      BY <2>1, <3>1, <3>2 DEF Given
  <2>4. raw \in Bytes /\ last \in Bytes /\ raw \o last = q /\ last = R.line
    BY <1>6, Halves DEF Reads
  <2>5. ~Contains(last, "invalid")
    BY <1>7, <1>9, <2>4, StrippedContains, ContainsNone
  <2> HIDE DEF raw, last
  <2>6. Contains(q, "invalid") <=> Contains(raw, "invalid")
    <3>1. Contains(raw \o last, "invalid") <=> Contains(raw, "invalid") \/ Contains(last, "invalid")
      BY <2>4, ContainsConcat DEF Bytes
    <3> QED
      BY <2>4, <2>5, <3>1
  <2>7. ParseFrame(q) = ParseFrame(raw)
    <3>1. ParseFrame(q) = LET data == R.data \o Data(line)
                          IN IF Len(data) > 1 THEN <<Tail(data)>> ELSE <<>>
      BY <1>1, <1>6, ParseIs
    <3>2. R.data \o Data(line) = R.data
      <4>1. Data(line) = <<>>
        BY <1>9 DEF Data
      <4> QED
        BY <1>7, <4>1, ConcatEmptySeq DEF Bytes
    <3>3. ParseFrame(raw) = IF Len(R.data) > 1 THEN <<Tail(R.data)>> ELSE <<>>
      BY <1>6, ParseWhole DEF raw, Reads
    <3> QED
      BY <3>1, <3>2, <3>3
  <2>8. Ended(raw) = Ended(q)
    BY <2>6, <2>7, SameEnded DEF Invalid
  <2> QED
    BY <1>5, <2>2, <2>3, <2>8 DEF Frames, R
<1> QED
  BY <1>8, <1>9

\* The counts of what is told so far: of the frames that are whole while it goes on, of
\* all there is when it has ended.  A body read whole is scanned when it is complete.
UsageInv ==
  /\ sort = "events" /\ ~Buffered /\ scan.body = "events" =>
       UsageTold(scan.said, IF ended = "no" THEN Frames(relayed) ELSE ReadToEnd(relayed))
  /\ Buffered /\ ended # "complete" => scan = NewScan(sort = "events")
  /\ Buffered /\ ended = "complete" /\ sort = "events" /\ scan.body = "events" =>
       UsageTold(scan.said, ReadToEnd(relayed))

LEMMA UsageFollow == UsageInv => UsageIsLastSaid
<1> SUFFICES ASSUME UsageInv, sort = "events", scan.body = "events",
                    ended \in (IF Buffered THEN {"complete"} ELSE Endings)
             PROVE  LET frames == ReadToEnd(relayed)
                    IN /\ scan.said.told = "no" => \A i \in DOMAIN frames : UsageIn(frames[i]) = <<>>
                       /\ \A f \in Counted : scan.said.usage[f] = LastSaid(frames, f)
  BY DEF UsageIsLastSaid
<1>1. UsageTold(scan.said, ReadToEnd(relayed))
  <2>1. CASE Buffered
    BY <2>1 DEF UsageInv
  <2>2. CASE ~Buffered
    <3>1. ended # "no"
      BY <2>2 DEF Endings
    <3> QED
      BY <2>2, <3>1 DEF UsageInv
  <2> QED
    BY <2>1, <2>2
<1> QED
  BY <1>1 DEF UsageTold

Silence == Said("no", [f \in Counted |-> 0], "no", None, "no")

LEMMA NewScanIs ==
  /\ sort = "events" => NewScan(sort = "events").body = "events"
  /\ NewScan(sort = "events").parser = NewParser
  /\ NewScan(sort = "events").said = Silence
  /\ Silence \in Saids /\ UsageTold(Silence, <<>>)
<1>1. [f \in Counted |-> 0] \in [Counted -> Figures] /\ None \in Reasons
  BY DEF Figures, Reasons
<1>2. Silence \in Saids /\ Silence.usage = [f \in Counted |-> 0]
  BY <1>1 DEF Silence, Said, Saids
<1>3. UsageTold(Silence, <<>>)
  BY <1>2, ToldNone
<1> QED
  BY <1>2, <1>3 DEF NewScan, Scanner, Silence

LEMMA UsageInit == Init => UsageInv
<1> SUFFICES ASSUME Init PROVE UsageInv
  OBVIOUS
<1>1. relayed = <<>> /\ ended = "no" /\ scan = NewScan(sort = "events")
  BY DEF Init
<1>2. UsageTold(scan.said, Frames(relayed))
  BY <1>1, NewScanIs, NewParserReads
<1> QED
  BY <1>1, <1>2 DEF UsageInv

\* A chunk read on: what its frames say is laid over what was said.
LEMMA ChunkTold ==
  ASSUME NEW p, Parsing(p), NEW text \in Bytes, NEW chunk \in Bytes,
         Reads(Reading(text), p.buffer), NEW s, UsageTold(s, Frames(text)),
         Feed(p, chunk).error = "none"
  PROVE  LET fed == Feed(p, chunk)
         IN /\ text \o chunk \in Bytes
            /\ Parsing(fed.parser) /\ Reads(Reading(text \o chunk), fed.parser.buffer)
            /\ UsageTold(Events(s, fed.frames), Frames(text \o chunk))
<1> DEFINE fed == Feed(p, chunk)
           T == Reading(text)
           R == Reading(text \o chunk)
<1>1. /\ Parsing(fed.parser) /\ Reads(R, fed.parser.buffer)
      /\ fed.frames \in Seq(Bytes) /\ R.frames = T.frames \o fed.frames
  BY FeedReads
<1>2. text \o chunk \in Bytes /\ T.frames \in FrameLists /\ fed.frames \in FrameLists
  BY <1>1, ReadsBeyond, ReadingType DEF Readings, FrameLists
<1>3. UsageTold(s, T.frames)
  BY DEF Frames
<1> HIDE DEF fed, T, R
<1>4. UsageTold(Events(s, fed.frames), T.frames \o fed.frames)
  BY <1>2, <1>3, ToldFurther
<1> QED
  BY <1>1, <1>2, <1>4 DEF Frames, fed, R

\* The end of it: the last frame need not be ended.
LEMMA EndTold ==
  ASSUME NEW p, Parsing(p), NEW text \in Bytes, Reads(Reading(text), p.buffer),
         NEW s, UsageTold(s, Frames(text))
  PROVE  UsageTold(Events(s, Finish(p)), ReadToEnd(text))
<1> DEFINE q == p.buffer
           F == Frames(text)
<1>1. q \in Bytes
  BY DEF Parsing
<1>2. ReadToEnd(text) = F \o Ended(q)
  BY <1>1, ReadsEnd
<1>3. F \in FrameLists /\ s \in Saids
  BY ReadingType DEF Readings, FrameLists, Frames, UsageTold
<1>4. CASE Invalid(q)
  <2>1. Finish(p) = <<>> /\ Ended(q) = << <<"invalid">> >>
    BY <1>4 DEF Finish, Ended
  <2>2. Events(s, Finish(p)) = s
    BY <1>3, <2>1, EventsNone
  <2>3. <<"invalid">> \in Bytes /\ UsageIn(<<"invalid">>) = <<>>
    <3>1. ~Readable(<<"invalid">>)
      BY AnswerAssumption DEF Readable
    <3> QED
      BY <3>1, Units, OneByte DEF UsageIn
  <2> HIDE DEF q, F
  <2>4. UsageTold(s, F)
    BY DEF F
  <2>5. UsageTold(s, Append(F, <<"invalid">>))
    BY <1>3, <2>3, <2>4, ToldQuiet
  <2>6. Append(F, <<"invalid">>) = F \o Ended(q)
    BY <1>3, <2>1, <2>3, AppendIsConcat DEF FrameLists
  <2> QED
    BY <1>2, <2>2, <2>5, <2>6
<1>5. CASE ~Invalid(q)
  <2>1. Finish(p) = Ended(q)
    BY <1>5 DEF Finish, Ended
  <2>2. Ended(q) \in FrameLists
    BY <1>1, ParseType DEF FrameLists
  <2> HIDE DEF q, F
  <2>3. UsageTold(s, F)
    BY DEF F
  <2>4. UsageTold(Events(s, Ended(q)), F \o Ended(q))
    BY <1>3, <2>2, <2>3, ToldFurther
  <2> QED
    BY <1>2, <2>1, <2>4
<1> QED
  BY <1>4, <1>5

LEMMA RelayUsage == ASSUME FramesInv, UsageInv, Relay PROVE UsageInv'
<1>1. /\ ended = "no" /\ ~Buffered /\ queue # <<>> /\ scan' = Scan(scan, queue[1])
      /\ relayed' = relayed \o queue[1]
      /\ UNCHANGED <<sort, asked, kind, ended>>
  BY DEF Relay, chosen
<1>2. PICK c \in Chunks : queue = <<c>>
  BY <1>1 DEF FramesInv, TakenInv
<1>3. c \in Bytes /\ relayed \in Bytes /\ queue[1] = c
  BY <1>2, AnswerAssumption DEF Bytes, FramesInv, TakenInv
<1>4. (~Buffered)'
  BY <1>1 DEF Buffered
<1>5. ASSUME sort = "events", scan'.body = "events"
      PROVE  UsageTold(scan'.said, Frames(relayed'))
  <2>1. /\ scan.body \in {"events", "unreadable"}
        /\ scan.body = "events" =>
             Parsing(scan.parser) /\ Reads(Reading(relayed), scan.parser.buffer)
    BY <1>1, <1>5 DEF FramesInv, ParserInv
  <2>2. scan.body = "events"
    <3>1. ASSUME scan.body = "unreadable" PROVE FALSE
      <4>1. scan' = scan
        BY <1>1, <3>1 DEF Scan
      <4> QED
        BY <1>5, <3>1, <4>1
    <3> QED
      BY <2>1, <3>1
  <2> DEFINE fed == Feed(scan.parser, c)
  <2>3. /\ scan'.body = (IF fed.error = "none" THEN "events" ELSE "unreadable")
        /\ scan'.said = Events(scan.said, fed.frames)
    BY <1>1, <1>3, <2>2 DEF Scan, Scanner
  <2>4. fed.error = "none"
    BY <1>5, <2>3
  <2>5. UsageTold(scan.said, Frames(relayed))
    BY <1>1, <1>5, <2>2 DEF UsageInv
  <2>6. UsageTold(Events(scan.said, fed.frames), Frames(relayed \o c))
    BY <1>3, <2>1, <2>2, <2>4, <2>5, ChunkTold
  <2> QED
    BY <1>1, <1>3, <2>3, <2>6
<1> QED
  BY <1>1, <1>4, <1>5 DEF UsageInv

LEMMA EndsUsage ==
  ASSUME FramesInv, UsageInv, ended = "no", NEW how \in Endings, Ends(how) PROVE UsageInv'
<1>1. /\ ended' = how /\ how # "no"
      /\ scan' = (IF ~Buffered THEN Scanned(scan)
                  ELSE IF how = "complete" THEN Scanned(Scan(scan, whole)) ELSE scan)
      /\ UNCHANGED <<sort, asked, kind, relayed>>
  BY DEF Ends, chosen, Endings
<1>2. relayed \in Bytes /\ (Buffered => relayed = whole)
  BY DEF FramesInv, TakenInv
<1>3. Buffered' <=> Buffered
  BY <1>1 DEF Buffered
<1>4. ASSUME sort = "events", ~Buffered, scan'.body = "events"
      PROVE  UsageTold(scan'.said, ReadToEnd(relayed))
  <2>1. scan.body = "events" /\ scan' = Scanned(scan)
    BY <1>1, <1>4, ScannedStays
  <2>2. Parsing(scan.parser) /\ Reads(Reading(relayed), scan.parser.buffer)
    BY <1>4, <2>1 DEF FramesInv, ParserInv
  <2>3. scan'.said = Events(scan.said, Finish(scan.parser))
    BY <2>1 DEF Scanned, Scanner
  <2>4. UsageTold(scan.said, Frames(relayed))
    BY <1>4, <2>1 DEF UsageInv
  <2> QED
    BY <1>2, <2>2, <2>3, <2>4, EndTold
<1>5. ASSUME sort = "events", Buffered, how = "complete", scan'.body = "events"
      PROVE  UsageTold(scan'.said, ReadToEnd(relayed))
  <2> DEFINE fed == Feed(NewParser, whole)
             mid == Scan(scan, whole)
  <2>1. scan = NewScan(sort = "events") /\ scan' = Scanned(mid) /\ whole = relayed
    BY <1>1, <1>2, <1>5 DEF UsageInv
  <2>2. scan.body = "events" /\ scan.parser = NewParser /\ scan.said = Silence
    BY <1>5, <2>1, NewScanIs
  <2>3. /\ mid.body = (IF fed.error = "none" THEN "events" ELSE "unreadable")
        /\ mid.parser = fed.parser /\ mid.said = Events(Silence, fed.frames)
    BY <2>2 DEF Scan, Scanner
  <2> HIDE DEF mid
  <2>4. mid.body = "events"
    BY <1>5, <2>1, ScannedStays
  <2>5. fed.error = "none"
    BY <2>3, <2>4
  <2>6. UsageTold(Silence, Frames(<<>>))
    BY NewScanIs, NewParserReads
  <2>7. /\ Parsing(fed.parser) /\ Reads(Reading(<<>> \o whole), fed.parser.buffer)
        /\ UsageTold(Events(Silence, fed.frames), Frames(<<>> \o whole))
    BY <1>2, <2>1, <2>5, <2>6, NoBytes, NewParserReads, ChunkTold
  <2>8. <<>> \o whole = relayed
    BY <1>2, <2>1, ConcatEmptySeq DEF Bytes
  <2>9. scan'.said = Events(mid.said, Finish(mid.parser))
    BY <2>1, <2>4 DEF Scanned, Scanner
  <2> HIDE DEF fed
  <2>10. UsageTold(Events(Events(Silence, fed.frames), Finish(fed.parser)), ReadToEnd(relayed))
    BY <1>2, <2>7, <2>8, EndTold
  <2> QED
    BY <2>3, <2>9, <2>10
<1>6. ASSUME Buffered, how # "complete" PROVE scan' = NewScan(sort = "events")
  BY <1>1, <1>6 DEF UsageInv
<1> QED
  BY <1>1, <1>3, <1>4, <1>5, <1>6 DEF UsageInv

LEMMA KeepUsage == ASSUME UsageInv, Keep PROVE UsageInv'
<1>1. /\ ended = "no" /\ Buffered /\ ended' \in {"no", "too large"}
      /\ UNCHANGED <<sort, asked, kind, scan>>
  BY DEF Keep, chosen
<1>2. Buffered'
  BY <1>1 DEF Buffered
<1> QED
  BY <1>1, <1>2 DEF UsageInv

LEMMA OtherUsage ==
  ASSUME UsageInv, UNCHANGED <<sort, asked, kind, relayed, ended, scan>> PROVE UsageInv'
BY DEF UsageInv, Buffered

LEMMA UsageStep == FramesInv /\ UsageInv /\ [Next]_vars => UsageInv'
<1> SUFFICES ASSUME FramesInv, UsageInv, [Next]_vars PROVE UsageInv'
  OBVIOUS
<1>1. CASE Arrive
  BY <1>1, OtherUsage DEF Arrive, chosen
<1>2. CASE Stop
  BY <1>2, OtherUsage DEF Stop, chosen
<1>3. CASE Tick
  BY <1>3, OtherUsage DEF Tick, chosen
<1>4. CASE Relay
  BY <1>4, RelayUsage
<1>5. CASE Keep
  BY <1>5, KeepUsage
<1>6. CASE End
  BY <1>6, EndsUsage DEF End, Endings
<1>7. CASE Timeout
  BY <1>7, EndsUsage DEF Timeout, Endings
<1>8. CASE Pending
  BY <1>8, OtherUsage DEF Pending, chosen
<1>9. CASE Leave
  BY <1>9, EndsUsage DEF Leave, Endings
<1>10. CASE UNCHANGED vars
  BY <1>10, OtherUsage DEF vars, chosen
<1> QED
  BY <1>1, <1>2, <1>3, <1>4, <1>5, <1>6, <1>7, <1>8, <1>9, <1>10 DEF Next, Poll

\* The counts told of an answer are, field by field, the last its frames said, however it
\* was cut, however it ended, relayed or read whole: usage.rs:168-205.
THEOREM UsageCorrect == Spec => []UsageIsLastSaid
BY FramesInit, FramesStep, UsageInit, UsageStep, UsageFollow, PTL DEF Spec
=============================================================================
