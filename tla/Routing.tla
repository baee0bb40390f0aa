------------------------------- MODULE Routing -------------------------------
(***************************************************************************)
(* Where a request goes (src/server/handlers/proxy.rs, route table in      *)
(* src/routing/registry.rs) and the live model lists it may ask on the way *)
(* (src/routing/live.rs).  A configured name is routed at once; any other  *)
(* walks the live backends in order, and each answers from its cached list *)
(* or from one it pulls.  The lock of a list is held across the pull.  A   *)
(* request for the list of models walks them all.                          *)
(***************************************************************************)
EXTENDS Integers, Sequences

CONSTANTS
  Callers,      \* request handlers
  Names,        \* model names a client may ask for
  Configured,   \* those an id or alias of the table occupies
  Default,      \* "yes" when routing.default_model is set
  Lives,        \* number of live backends, in the order of their names
  Forwarding,   \* those that pull with the client's own Authorization
  Forcing,      \* those with forced headers read from the client's
  Auths,        \* values of the client's Authorization
  Asks,         \* what requests ask for
  Own,          \* stands for a backend's own credential
  Offers,       \* lists a backend may answer
  TTL,
  PullTimeout,  \* PULL_TIMEOUT
  MaxNow,       \* bound on the clock
  All,          \* what a request for the list of models asks for
  None

Backends == 1..Lives
AskRec == [name : Names \cup {All}, auth : Auths, complete : {"yes", "no"}]
Entries == [at : Nat, auth : Auths \cup {Own}, complete : {"yes", "no"}, models : SUBSET Names]

ASSUME RoutingAssumption ==
  /\ Lives \in Nat /\ TTL \in Nat \ {0} /\ PullTimeout \in Nat /\ MaxNow \in Nat
  /\ Configured \subseteq Names /\ Offers \subseteq SUBSET Names
  /\ Asks \subseteq AskRec /\ Default \in {"yes", "no"}
  /\ All \notin Names /\ Own \notin Auths
  /\ None \notin AskRec /\ None \notin Entries

VARIABLES
  now,
  entry,     \* the list each backend's cache holds
  queue,     \* its lock: the head holds it, the others wait in order
  pc,        \* where each caller is
  ask,       \* what it asks for
  at,        \* the live backend it asks
  since,     \* when its pull began
  answer     \* where it was routed

\* History, read by the properties only.
VARIABLES
  began,     \* when the latest pull of each backend that ended began,
  ended,     \* and when it ended
  lacking,   \* the backends whose list did not have what a caller asked for
  sharing    \* callers that waited on a backend when a pull of use to them ended

cache == <<entry, queue>>
history == <<began, ended, lacking, sharing>>
vars == <<now, cache, pc, ask, at, since, answer, history>>

TypeOK ==
  /\ now \in Nat
  /\ entry \in [Backends -> Entries \cup {None}]
  /\ queue \in [Backends -> Seq(Callers)]
  /\ pc \in [Callers -> {"away", "waiting", "pulling", "routed"}]
  /\ ask \in [Callers -> Asks \cup {None}]
  /\ at \in [Callers -> Nat]
  /\ since \in [Callers -> Nat]
  /\ answer \in [Callers -> {"none", "config", "live", "default", "unknown", "listed"}]
  /\ began \in [Backends -> Nat] /\ ended \in [Backends -> Nat]
  /\ lacking \in [Callers -> SUBSET Backends]
  /\ sharing \in [Backends -> SUBSET Callers]

Init ==
  /\ now = 0
  /\ entry = [b \in Backends |-> None]
  /\ queue = [b \in Backends |-> <<>>]
  /\ pc = [c \in Callers |-> "away"]
  /\ ask = [c \in Callers |-> None]
  /\ at = [c \in Callers |-> 0]
  /\ since = [c \in Callers |-> 0]
  /\ answer = [c \in Callers |-> "none"]
  /\ began = [b \in Backends |-> 0] /\ ended = [b \in Backends |-> 0]
  /\ lacking = [c \in Callers |-> {}]
  /\ sharing = [b \in Backends |-> {}]

-----------------------------------------------------------------------------
(* The list of one backend.                                                *)

\* The key a list is kept under.
KeyFor(b, a) == IF b \in Forwarding THEN a.auth ELSE Own

\* Whether a request gives every forced header of a backend a value.
FilledBy(b, a) == IF b \in Forcing THEN a.complete ELSE "yes"

\* Faulty: what was pulled without a forced header serves everyone.
FitsAnyone(b, a, e) == e.auth = KeyFor(b, a)

Fits(b, a, e) ==
  /\ e.auth = KeyFor(b, a)
  /\ e.complete = "yes" \/ FilledBy(b, a) = "no"

Usable(b, a) ==
  /\ entry[b] # None
  /\ Fits(b, a, entry[b])
  /\ now - entry[b].at < TTL

Holds(c, b) == queue[b] # <<>> /\ queue[b][1] = c

\* Faulty: a dropped caller keeps its place, and the lock with it.
KeepPlace(c, b) == UNCHANGED queue

\* A waiter that is dropped leaves the queue; the others keep order.
Leave(c, b) ==
  \E i \in 1..Len(queue[b]) :
    /\ queue[b][i] = c
    /\ queue' = [queue EXCEPT ![b] = [j \in 1..(Len(@) - 1) |-> IF j < i THEN @[j] ELSE @[j + 1]]]

-----------------------------------------------------------------------------
(* The walk.                                                               *)

\* Faulty: the last list that has the name wins.
FoundLast(c, b, models) == b = Lives /\ ask[c].name \in models

Found(c, b, models) == ask[c].name \in models

\* Where a name goes that no list has.
Unlisted(a) ==
  IF a.name = All THEN "listed" ELSE IF Default = "yes" THEN "default" ELSE "unknown"

\* c, at the head of b's queue, has b's list and lets go of the lock.
Walks(c, b, models) ==
  /\ Holds(c, b)
  /\ \/ /\ Found(c, b, models)
        /\ queue' = [queue EXCEPT ![b] = Tail(@)]
        /\ pc' = [pc EXCEPT ![c] = "routed"]
        /\ answer' = [answer EXCEPT ![c] = "live"]
        /\ UNCHANGED <<at, lacking>>
     \/ /\ ~Found(c, b, models) /\ b < Lives
        /\ queue' = [queue EXCEPT ![b] = Tail(@), ![b + 1] = Append(@, c)]
        /\ pc' = [pc EXCEPT ![c] = "waiting"]
        /\ at' = [at EXCEPT ![c] = b + 1]
        /\ lacking' = [lacking EXCEPT ![c] = IF ask[c].name \in models THEN @ ELSE @ \cup {b}]
        /\ UNCHANGED answer
     \/ /\ ~Found(c, b, models) /\ b = Lives
        /\ queue' = [queue EXCEPT ![b] = Tail(@)]
        /\ pc' = [pc EXCEPT ![c] = "routed"]
        /\ answer' = [answer EXCEPT ![c] = Unlisted(ask[c])]
        /\ lacking' = [lacking EXCEPT ![c] = IF ask[c].name \in models THEN @ ELSE @ \cup {b}]
        /\ UNCHANGED at

Arrive(c, a) ==
  /\ pc[c] \in {"away", "routed"}
  /\ ask' = [ask EXCEPT ![c] = a]
  /\ lacking' = [lacking EXCEPT ![c] = {}]
  /\ \/ /\ a.name \in Configured
        /\ pc' = [pc EXCEPT ![c] = "routed"]
        /\ answer' = [answer EXCEPT ![c] = "config"]
        /\ at' = [at EXCEPT ![c] = 0]
        /\ UNCHANGED queue
     \/ /\ a.name \notin Configured /\ Lives = 0
        /\ pc' = [pc EXCEPT ![c] = "routed"]
        /\ answer' = [answer EXCEPT ![c] = Unlisted(a)]
        /\ at' = [at EXCEPT ![c] = 0]
        /\ UNCHANGED queue
     \/ /\ a.name \notin Configured /\ Lives > 0
        /\ pc' = [pc EXCEPT ![c] = "waiting"]
        /\ answer' = [answer EXCEPT ![c] = "none"]
        /\ at' = [at EXCEPT ![c] = 1]
        /\ queue' = [queue EXCEPT ![1] = Append(@, c)]
  /\ UNCHANGED <<now, entry, since, began, ended, sharing>>

Serve(c, b) ==
  /\ pc[c] = "waiting" /\ at[c] = b
  /\ Usable(b, ask[c])
  /\ Walks(c, b, entry[b].models)
  /\ sharing' = [sharing EXCEPT ![b] = @ \ {c}]
  /\ UNCHANGED <<now, entry, ask, since, began, ended>>

StartPull(c, b) ==
  /\ pc[c] = "waiting" /\ at[c] = b /\ Holds(c, b)
  /\ ~Usable(b, ask[c])
  /\ pc' = [pc EXCEPT ![c] = "pulling"]
  /\ since' = [since EXCEPT ![c] = now]
  /\ UNCHANGED <<now, entry, queue, ask, at, answer, history>>

Ended(c, b) ==
  /\ began' = [began EXCEPT ![b] = since[c]]
  /\ ended' = [ended EXCEPT ![b] = now]

\* Faulty: the age of a list counts from the start of its pull.
EndPullAged(c, b, models) ==
  LET e == [at |-> since[c], auth |-> KeyFor(b, ask[c]), complete |-> FilledBy(b, ask[c]),
            models |-> models]
  IN
  /\ pc[c] = "pulling" /\ at[c] = b
  /\ entry' = [entry EXCEPT ![b] = e]
  /\ Walks(c, b, models)
  /\ Ended(c, b)
  /\ since' = [since EXCEPT ![c] = 0]
  /\ sharing' = [sharing EXCEPT ![b] =
       {d \in Callers : d # c /\ pc[d] = "waiting" /\ at[d] = b /\ Fits(b, ask[d], e)}]
  /\ UNCHANGED <<now, ask>>

\* The pull ends with the backend's list, or with none: a status that is no
\* success, an error, a document that is no list, the deadline.
EndPull(c, b, models) ==
  LET e == [at |-> now, auth |-> KeyFor(b, ask[c]), complete |-> FilledBy(b, ask[c]),
            models |-> models]
  IN
  /\ pc[c] = "pulling" /\ at[c] = b
  /\ entry' = [entry EXCEPT ![b] = e]
  /\ Walks(c, b, models)
  /\ Ended(c, b)
  /\ since' = [since EXCEPT ![c] = 0]
  /\ sharing' = [sharing EXCEPT ![b] =
       {d \in Callers : d # c /\ pc[d] = "waiting" /\ at[d] = b /\ Fits(b, ask[d], e)}]
  /\ UNCHANGED <<now, ask>>

PullFails(c, b) == EndPull(c, b, {})

PullAnswers(c, b) == \E models \in Offers : EndPull(c, b, models)

\* The client goes away; the pull it was in is given up and nothing is kept.
Cancel(c, b) ==
  /\ pc[c] \in {"waiting", "pulling"} /\ at[c] = b
  /\ Leave(c, b)
  /\ pc' = [pc EXCEPT ![c] = "away"]
  /\ ask' = [ask EXCEPT ![c] = None]
  /\ at' = [at EXCEPT ![c] = 0]
  /\ since' = [since EXCEPT ![c] = 0]
  /\ lacking' = [lacking EXCEPT ![c] = {}]
  /\ sharing' = [sharing EXCEPT ![b] = @ \ {c}]
  /\ UNCHANGED <<now, entry, answer, began, ended>>

\* The deadline of a pull is not passed over.
Tick ==
  /\ now < MaxNow
  /\ \A c \in Callers : pc[c] = "pulling" => now - since[c] < PullTimeout
  /\ now' = now + 1
  /\ UNCHANGED <<cache, pc, ask, at, since, answer, history>>

Next ==
  \/ Tick
  \/ \E c \in Callers, a \in Asks : Arrive(c, a)
  \/ \E c \in Callers, b \in Backends :
       Serve(c, b) \/ StartPull(c, b) \/ PullFails(c, b) \/ PullAnswers(c, b) \/ Cancel(c, b)

Spec == Init /\ [][Next]_vars

\* tokio's mutex is fair and hands itself on; a pull ends by its deadline.
Fairness ==
  \A c \in Callers, b \in Backends :
    WF_vars(Serve(c, b) \/ StartPull(c, b) \/ PullFails(c, b))
FairSpec == Spec /\ Fairness

-----------------------------------------------------------------------------
(* Properties.                                                             *)

\* c has just been given b's list.
Given(c, b) ==
  pc[c] \in {"waiting", "pulling"} /\ at[c] = b /\ pc'[c] # "away" /\ (pc'[c] = "routed" \/ at'[c] # b)

\* A request is given a list pulled with its own Authorization, never what the
\* backend told a request that lacked a forced header when it has them all, and
\* never one older than the deadline of a pull and the time a list is kept.
\* docs/adr/0019: "a refusal earned by one request is not served to another".
GivenOwnList ==
  [][\A c \in Callers, b \in Backends :
       Given(c, b) =>
         /\ entry'[b] # None
         /\ entry'[b].auth = KeyFor(b, ask[c])
         /\ FilledBy(b, ask[c]) = "yes" => entry'[b].complete = "yes"
         /\ now - began'[b] < TTL + PullTimeout]_vars

\* Requests that wait while a list is pulled share what the pull gave them, a
\* failure too: none of them pulls again while it is kept, unless another's list
\* took its place.  docs/configuration.md: "concurrent misses share one fetch".
MissesShareOnePull ==
  [][\A c \in Callers, b \in Backends :
       /\ pc[c] = "waiting" /\ pc'[c] = "pulling" /\ c \in sharing[b]
       => now - ended[b] >= TTL]_vars

\* A configured name goes where the table says; any other to the first live
\* backend that lists it, and to the default only when none does.
\* docs/adr/0017: "the first in backend-name order wins after configured ids".
RoutedInOrder ==
  \A c \in Callers :
    /\ answer[c] = "config" => ask[c].name \in Configured
    /\ answer[c] = "live" /\ pc[c] = "routed" =>
         /\ ask[c].name \notin Configured
         /\ lacking[c] = 1..(at[c] - 1)
    /\ answer[c] \in {"default", "unknown"} /\ pc[c] = "routed" =>
         ask[c].name \notin Configured /\ lacking[c] = Backends

\* A request ends, however backends answer and whoever else asks.
LookupsEnd == \A c \in Callers : (pc[c] = "waiting") ~> (pc[c] # "waiting" /\ pc[c] # "pulling")
=============================================================================
