# anthroxy: TLA+ verification

anthroxy is an HTTP router between clients that speak the Anthropic Messages API and
several backends, of which some speak Messages (`anthropic`, and `passthrough`, which is
relayed as it is) and some Chat Completions (`openai`, translated). This directory holds
TLA+ models of the router, TLC configurations that check them on small instances, and
proofs, checked by TLAPS, for every value of the constants. `PROJECT.json` maps every
definition to its lines of the source and lists the components, the runs, the mutants, the
hazards, the findings and the theorems.

    tlc -workers 2 -config Credential.cfg MCCredential     # one run
    tlapm RecordsProofs.tla                                # one set of proofs

## 1. The system

| Component | State | Operations | What makes it hard | What makes it correct |
|---|---|---|---|---|
| Command credential (`credential/command.rs`, `exec.rs`) | `Slot` (cached value, failure stamp, reproduced value) under a fair async mutex; `Observed` (what status shows) under another | `credential()`, `invalidate()`, `status()` | callers queue across a run of the helper, are dropped anywhere in it, hand back values that have been replaced meanwhile; three clocks | only the latest run's value is served and only while its deadlines allow; a rejected value is not served again; the helper is not run in storms; status shows what is served |
| Upstream send (`upstream/client.rs`, `retry.rs`) | one loop per request: failures so far, whether the credential was re-acquired | `send()` | status retries, connection retries and the uncounted credential re-send act on the same answer, over a cache other requests use | attempts bounded; a 401 reaches a client only for a reason of its own; every request ends |
| Exchange lifecycle (`activity/`, `server/relay.rs`, `buffered.rs`, `shutdown.rs`, `handlers/`) | the console's lists of requests in flight and recent; the view of each; its recorder; the statistics | arrival, forwarding, streaming, the ends of each, drops | handler, body, relay and recorder are different objects dropped in different orders by a client that left or a stop | each request is listed once, counted once, recorded once, and all of them agree on how it ended |
| Reload (`server/state.rs`, `cli/serve.rs`) | the snapshot in force, the history of reloads, the wish to restart | SIGHUP, `POST /api/reload`, `POST /api/restart` | concurrent reloads; the file changes under them; the restart gate looks at the snapshot after its reload let go of the lock | never an older file after a newer one; the history tells what is in force; a restart goes ahead only past its gate; a signal is not lost |
| Accept loop and stop (`server/accept.rs`, `server/mod.rs`, `cli/serve.rs`) | slots, connections, the drain, the signal, the restart | accept, close, stop, cut, exit or start again | grace deadline, drain, wait for the records and a second signal race | nothing recorded is lost; slots are conserved; a stop ends |
| Queued writes (`private_fs.rs`) | a count and a notification | `begin`, drop, `settled()` | count and notification are separate steps on any thread | the last write wakes the waiter |
| Body log (`observability/body_log.rs`) | the recorder, the chain of writes, one directory per request | record, chunk, finish; console deletion; pruning | writes are tasks, and may fail; deletions run against them on the same directory | an entry holds a prefix of the response, and the whole of it once its meta.json is final; what was deleted stays gone |
| Routing and live lists (`routing/`) | the table of models (immutable), a cached list per backend | `lookup`, `resolve`, `fetch` | concurrent misses, an expiry, a failure cached | precedence of names; whose list a request is given and how old; one pull for all that miss at once |
| Lists of models (`translate/catalog.rs`, `openai/models.rs`, `anthropic/models.rs`, `handlers/models.rs`) | none | decode a list, `GET /v1/models`, `GET /v1/models/{id}` | lists of several shapes; the list, one model and the route of a request are three pieces of code | what is offered is what a request is routed by |
| Configuration (`config/`) | none | `validate()`, what is made of a file | rules on patterns, paths and origins that depend on each other | a file that passes yields what its lines say |
| Header crossing (`upstream/headers.rs`, `config/drop_headers.rs`) | none | which headers cross either way; the record of both | what is recorded is computed apart from what is sent | every header is accounted for, no secret crosses or is recorded |
| Request decoding and rewriting (`anthropic/decode.rs`, `request.rs`, `openai/request.rs`, `body_field.rs`) | none | a conversation for another backend, again with every message | ids, unsigned thinking, deferred tools, system messages mid-way | nothing of the conversation is lost, results find their calls, what was sent once stays as it was |
| Turn summary (`anthropic/summary.rs`) | none | what a request asks, from its messages alone | notices, commands, tool results and queued messages come in one role | the lists show what the user typed for the turn |
| Errors and answers (`server/error.rs`, `anthropic/error.rs`, `openai/error.rs`, `response.rs`, `common.rs`, `activity/hints.rs`) | none | a failure, a redirect, an answer asked for whole | status, names and words that disagree; counts told twice | a failure keeps its meaning, an overflow is worded as clients know it |
| Framing, usage, clocks, pings, buffering (`sse/parser.rs`, `anthropic/usage.rs`, `upstream/timeout.rs`, `server/ping.rs`, `buffered.rs`) | the unfinished frame; the counts so far; timers; the last bytes out | a body, polled | bytes cut anywhere, a slow client, a silent backend | what is read does not depend on the cuts; a ping goes between events; an answer is given up for silence only, and then in the end |
| Translated streams (`openai/chunk.rs`, `anthropic/stream.rs`, `translate/stream.rs`) | decoder of chunks, encoder of events | chunk in, events out, end | interleaved tool calls, late names, an end without `[DONE]`, limits | the client reads a message that grows block by block and ends once |
| Statistics (`stats/`) | a file per day | append, read, prune, report | reading while appending and deleting; counts that saturate | what is kept is in a report once; a report's parts agree |
| Authentication and routes (`server/auth.rs`, `routes.rs`, `request_id.rs`) | none | who is let in, where | | a request is refused for the first thing wrong with it |
| Console views, probe, service, command line, logging | none of their own | read-only views, one-shot commands | | |

How they interact. A request passes authentication, the routing table (and the live lists)
and the rewriting; its handler owns an *exchange* (what the console lists) and a
*recorder* (what the body log keeps), calls *send*, which takes its credential from the
*cache* shared by all requests to a backend, and answers either a buffered body or a
streaming one that the *relay* feeds to client, recorder and usage scanner. Every handler
and body is wrapped so that a *stop* can cut it. What it leaves behind is queued as
*writes*, which the stop waits for. All of it runs on the snapshot a request took when it
came; a *reload* swaps the snapshot for the requests after it.

## 2. Modules

Concurrent parts, one action per critical section or per poll of a future between two
awaits:

| Module | Models | Abstractions |
|---|---|---|
| `Credential` | `credential/command.rs`, the outcomes of `exec.rs` | a value is a model value; the helper's run ends in any secret and any reported lifetime of a set, or fails; time is a counter, the refresh interval, the margin and the retry delay constants in its ticks |
| `UpstreamSend` (extends `Credential`) | `UpstreamClient::send`, `RetryPolicy` | the backend accepts one secret at a time, a *rotation* replaces it; the answer to an attempt is any the accepted secret allows; a backoff has no length |
| `Exchange` | `Exchange`, `Activity`, `Relay`, `Recorder`'s end, `Tracked`, `Translator`'s end, `cut_on_stop`, the handlers that call them | statuses are "the backend's good one", "the backend's refusal", "the router's" and "503, stopping"; bytes are left out |
| `Reload` | `AppState`'s reload, history, gate; the SIGHUP task; the two console handlers | a configuration is its version, whether it loads and where it listens |
| `Settle` | `PendingWrite`, `settled()` | one step per atomic operation |
| `Stop` (extends `Settle`) | the accept loop, `Server::serve`, `run()`'s choice between exit and start again | a connection carries one request; queued writes are the records of those requests |
| `BodyLog` | `Recorder`, the chain, the writes on disk and their failures, `remove_dir_all`, deletions | one entry; bytes are numbered; a deletion unlinks file by file |
| `Routing` | `Registry::resolve`, `LiveCatalog`, the handlers that walk the lists | a list is a set of names; an Authorization is a model value; a pull ends in a list, in none, or with its client |
| `Statistics` (extends `StatsReport`) | `StatsLog`'s appends, sweep and reads, each listing a directory and then going file by file; the console's question | a request is one of a set of records; days are two ticks |

Streams, polled one step at a time:

| Module | Models | Abstractions |
|---|---|---|
| `SseParser` | `feed()`, `finish()` with their buffer, line start and scanned mark | bytes are units: line feed, carriage return, `data:`, invalid UTF-8, any other |
| `UsageScan` (extends `SseParser`) | `UsageScanner` and what it accumulates | what a frame says is a table of units |
| `AnswerStream` (extends `UsageScan`) | `TimedBody`, `Tracked`, `Pings`, the buffered read | timers count down; a chunk is a few units |
| `ChunkDecoder` | `openai/chunk.rs`: calls and their indexes, arguments held for a name, the finish, the ends | a payload is a delta of one kind; arguments are sequences of numbered units |
| `StreamEncoder` | `anthropic/stream.rs`: blocks, frames, the stop reason, the ends | a frame is what it makes of the message a client has read so far (`Garbled`, if it is out of place) |
| `Translation` (extends both) | `translate/stream.rs`, and `ir/message.rs`' fold of the same events into one document | the backend numbers its calls, gives them one after the other, or does anything |
| `MessageStream` | *abstract*: what a client is promised of a stream | a message of blocks that grows at its end |

Data from one form to another, as operators, and one module of actions over them:

| Module | Models | Abstractions |
|---|---|---|
| `HeaderGlob` | what an entry of `drop_headers` compiles to, `matches()`, and beside it what a star stands for | a name is a sequence of words |
| `RouterConfig` (extends `HeaderGlob`) | `validate()`, and the routes, proxies and templates made of a file | TOML, secrets' sources and wording left out |
| `ModelLists` (extends `RouterConfig`) | lists by the kind of their backend, `GET /v1/models`, one model, and the route of a name | dates and efforts left out |
| `Forwarding` (extends `RouterConfig`) | headers sent, dropped and recorded; fields dropped, renamed and set | a value is a sequence of tokens; a body is its leaves by path |
| `Answers` (extends `Forwarding`) | the router's errors, a backend's, completed answers, headers back, hints | a text is a sequence of words |
| `ChatRequest` (extends `Forwarding`) | a conversation as Chat Completions, or made fit for an Anthropic backend | a text is a sequence of items |
| `TurnSummary` | `summarize()` | a text is a sequence of stretches of a known sort |
| `StatsReport` | the figures over the records of a range | |
| `Requests` (extends `Answers`, `ModelLists`, `ChatRequest`) | a conversation that grows: refused, handled, recorded, sent, sent again, answered; the lists of models | see the modules it is made of |

`MC*` modules give constants their values; `*Proofs` modules hold the theorems. State
variables carry the source's field names where there is one (`current`, `reloads`,
`reloading`, `restart` of `AppState`; `inFlight`, `recent` of `Activity`; `arrived`,
`response`, `flushed` of the recorder; `buffer`, `line_start`, `scanned` of the parser).
Variables below the comment `History` record the past for properties and are read by no
action. A lock held across a step is a variable (`queue` of `Credential`, `reloading` of
`Reload`), a lock taken and given back within a step is none, and where a handler takes
two locks one after the other there are two actions (`Remove`, `List` of `Exchange`).

Operators whose name or comment says *faulty* or *a mutant* are plausible mistakes in the
definition after them. They are used nowhere in a specification: each property of each
run is checked to fail when the mistake takes the definition's place, so that no property
holds whatever the code does.

## 3. Runs

| Run | Instance | What it shows |
|---|---|---|
| `credential` | two callers, two secrets, lifetimes none/0/4, refresh 1, margin 1, retry delay 2, three ticks | what is served and shown, rejections, sharing of a failure |
| `send` | two requests, one rotation, one retry, one tick, a helper that trails the backend or not, a 401/403 that is retried or not | helper runs bounded by rotations, no spurious 401, every request ends |
| `exchange` | two requests, one of them counted, the other with a client that reads on; a recent list of one | lists, recordings and statistics agree; a lookup misses only in one gap; a cut ends everything but a body whose client has stopped reading |
| `reload` | two console calls and SIGHUPs, two saves (one moves the listener, one does not load), a history of two | history, gate, no lost signal |
| `stop` | three clients, two slots | what is recorded when `serve()` returns, and that a stop ends by its timers alone |
| `body_log` | four bytes of which three are kept, flushed by two; failing writes; two deletions | what an entry holds at every moment; deleted entries |
| `translation` | streams of up to five payloads, three indexes, two calls and one unit held | the stream *implements* `MessageStream` (`ReadAsMessage`), every call arrives whole, both response paths give one document, what is held is bounded |
| `answer` | up to three chunks, some empty, cut inside lines, line ends and blank lines; events or a document, streamed or buffered; idle limit of two ticks, pings every tick; frame and document limits that are reached | frames whatever the split, pings between events, usage is what was last said, timeouts for silence only, an answer ends unless chunks keep coming |
| `routing` | two requests, again and again; a backend keyed by the client's Authorization before one with a forced header; lists kept for two ticks, pulls of up to one | precedence of names, whose list and how old a request is given, sharing of a pull, every lookup ends |
| `request` | conversations of up to four messages (five with a plain backend, where an id is used twice) over thirteen writes; files with an Anthropic backend that forces, one that translates with each placement, a passthrough one, two with live lists; 32 files that break one rule each; thirty-odd answers, some past the limits of a message (four words raw, six in all) | headers, bodies, conversations, answers, errors, hints, lists and summaries; see below |
| `stats` | four ticks of two-tick days, retention of two, one aligned range and one that keeps everything, counts up to 7 | a report misses nothing kept, and its figures agree |
| `header_glob` | as `request` | *violated*: see findings |

The run `request` checks, at every step of every conversation: `HeadersAccountedFor` (each
of the client's headers is sent as it was, listed as dropped or replaced, and no credential
crosses or is written down), `SentAsConfigured` (proxy, model name, set, dropped and kept
fields), `ConversationKept` (every call with its input, every result with its text and its
failure, every other text and every image, in order; results right after their calls under
ids the backend takes; tools sent once named and spelled once), `PrefixKept` (what was sent of a
conversation stays as it was), `SummaryTellsTheTurn` (the lists name a request by what the
user typed for its turn, and count every result it returns under the name of its call), and
`AnswersTell` (a failure keeps its
status and meaning, an answer has the shape and headers its client reads, tokens add up,
a hint can be followed, and the list of models is what requests are routed by).

Why the bounds are enough. Two callers are enough to have one hold the mutex while
another waits, or hand back what the other has replaced; two secrets to tell an old value
from a new one; three ticks to cross every deadline (refresh, expiry less margin, retry
delay). Three clients over two slots make one wait for a slot. A recent list of one and
two requests make the list evict. A history of two and three events make it evict. A cap
of three with four bytes and a flush size of two reach: nothing queued, part queued, cap
met exactly, cap passed. Five payloads over three indexes hold a call begun, one out of
reach of the limit, a late name, an interleaving and a finish with arguments after it; a
limit of two calls and one held unit is passed by the third. Three chunks of up to four
units cut a frame in each of its lines and once more, and pass the frame limit of nine.
Two live backends are one to pass over and one to find; two Authorizations take each
other's list; three ticks outlive a list of two. Four messages are a prompt, a call, its
result and what comes after; `MaxRejectedFields = 2` is passed by the answer that rejects
three. Of the answers past `MAX_RAW_MESSAGE` and `MAX_MESSAGE_CHARS`, one names an overflow
behind the cut of a body that is no document, one before it, and one behind the cut of a
document's message. A retention of two over four ticks deletes a day while a later one is written.
Where a theorem states the property, the bound does not matter.

Fairness. `UpstreamSend` assumes that a spawned task is polled until it waits, that
tokio's mutex is handed to its next waiter (it is fair), and that a run of the helper or
an attempt ends by itself or at its timeout; nothing makes a request come or go. `Exchange`
assumes that after a cut every handler is polled (the cut wakes it), that a drop runs
through, and that a body is polled while its client reads: `Cut::poll_next` is the only
place a body learns of the cut, and hyper does not call it for a client that has stopped
reading. `Readers` are the requests whose clients go on; of the others' bodies nothing is
assumed and `CutEndsAll` claims nothing. `Reload` assumes that the signal task and the
callers keep running. `Stop` assumes that its timers run out (the grace period, AFTER_CUT
twice, the pause after a failed accept), that the signal's task is polled and that `run()`
goes on; nothing makes a client read or close, a request end or a write finish, so that a
stop is shown to end by its timers alone. `select!` polls its branches in random order, so
a shutdown that stays ready beside failing accepts is taken in the end: strong fairness of
`Break`. `AnswerStream` assumes that time passes and that a body whose poll would give
something is polled in the end, where the client reads; nothing of the backend, which may
be silent for ever. Each chunk of a stream starts the idle clock again and a stream has no
clock over all of it, so a backend that keeps sending is not ended by the code; `AnswersEnd`
excepts it, for `MaxChunks`, which ends every answer's arrivals, is the model's and not the
code's. `Routing` assumes that a list's lock is handed on
and that a pull ends by its deadline, as a failure if not otherwise; none that a client
stays. The other modules have no liveness property.

Deadlock is checked for `Credential`, `Reload` and `Routing`, which go on while there is a
caller or a save left; the others stop when their requests, streams or reports are done,
so their configurations say `CHECK_DEADLOCK FALSE`.

Refinement. `Translation` is shown to implement `MessageStream` under the mapping
`over <- input = "ended" /\ events = <<>>`, with the message a client assembles from the
frames: every step is a step of the promised message or leaves it alone.
`UpstreamSend` is proved to implement `Credential` (`CredentialKept`).

## 4. Proofs

| Module | Theorems | Argument |
|---|---|---|
| `UpstreamSendProofs`, of the cache alone | types, `Inv`, `StatusShowsServed`, `WaitersShareFailure`, `RejectedTogetherRefreshOnce`, `RejectedNotServed`, `ServedInTime`, `RunsAreSpaced` | `Inv` of `Credential` is inductive: the queue is a mutex (`QueueInv`), the cached value is the latest run's under the deadlines it gave (`CacheInv`), the failure stamp is the latest run's end (`FailedInv`), rejections stand in a fixed relation to the shield of a reproduced value (`RejectedInv`, `ClearedInv`), status follows the slot (`ShownInv`). None of the properties is inductive alone: `ServedInTime` needs to know whose deadlines `Slot` holds, which needs the mutex |
| ... and of requests over it | `CredentialKept` (every step of the composition is a step of `Credential` or leaves it alone), types, `AttemptsBounded`, `NoSpuriousRejection`, `RunsBoundedByRotations` | the first makes every theorem about the cache hold under the send loop. What is spent, by stage, is bounded. Secrets are numbered by rotation, so that what the helper printed, what is cached, rejected and accepted are ordered (`WorldInv`); while the helper never trailed the backend, what a request sends after its re-acquisition is at least what was accepted when it came (`FreshInv`). Before time passes a run starts only with an empty cache, and what emptied it was a rejection (`RunsInv`) |
| `ExchangeProofs` | types, `ListedOnce`, `CutIsNotTheClient`, `RecordingFollowsExchange`, `CountedOnce`, `StatusIsAnswered`, `FindMissesOnlyInTheGap` | `PlaceInv` says what view, recording and answer are at every place a request can be; the lists follow from their shape under `Without` and `Push`. A lookup that did not find a request in flight that had begun finds it moving, listed, or pushed out of the list: it has left the first list for good (`LookInv`) |
| ... and of the body log | types, `DeletedStaysGone`, `EntriesAreWhole` | only the first write creates the directory, it is queued once and first. What the recorder has flushed is laid on the disk by the queue of writes, one after the other, from what the file holds to what the recorder no longer does (`Laid`, in `WholeInv`), and the complete meta.json is the last of them |
| `ConfigurationProofs`, of reloads | types, `NeverOlder`, `HistoryTellsCurrent`, `RestartGated` | who is past `Lock` holds the mutex; what it loaded is at least what is in force; the last applied event is the one in force unless its holder is between the swap and the record |
| ... and of what a configuration means for requests | `HeadersAccountedFor`, `SentAsConfigured`, `ConversationKept`, `PrefixKept`, `SummaryTellsTheTurn` | see below |
| `AnswersProofs` | `AnswersTell` | see below |
| `RecordsProofs`, of the stop | types, `StoppedMeansRecorded`, `SlotsConserved`, `NoLostWakeup` | the drain phase implies no open connection, the settled phase no queued write; the waiter is registered before it reads the count |
| ... and of the statistics | `ReportMissesNothingKept` | a line is in the file of the day it arrived, in one place (`FilesInv`), and a sweep, however late its deletions, takes only days the retention has passed (`Swept`). A report being read has every record it is to have once, or it is in a file still to be read, or was deleted (`ReadSoFar`). What a file's filter keeps is shown by induction on its length, the least number that fails being one too many |
| ... and of their figures | `FiguresAgree` | a row is over a set of places in the records; a sum of counts is the number of their units, each told apart by whose it is, so that parts that share no place add up to the whole (`SumOfParts`) and counts none of which is larger come to no more (`SumWithin`). The points of a series part the records up to the bucket of the time asked in (`BucketsPart`), for any width and any start of the range, aligned or not. Of two ranks of one set of samples the higher one's least sample is a candidate of the lower one's |
| `RoutingProofs` | types, `RoutedInOrder`, `GivenOwnList`, `MissesShareOnePull` | a caller on its way has been told no by every list before the one it is at; a pull lasts at most its deadline and an entry is as old as the pull that ended last; a caller that shares a pull still fits the entry it left |
| `TranslationProofs` | `ReadAsMessage` (refinement of `MessageStream`), `CallsArriveWhole`, `SameDocument`, `HeldIsBounded` | see below |
| `AnswerStreamProofs` | `TimedOutForSilence` | a timer that is set has been set no earlier than the last chunk was taken, so that what is left of it and the silence since make up the limit (`ClockInv`) |
| ... of its frames, pings and counts | `FramesWhateverTheSplit`, `PingsBetweenEvents`, `UsageIsLastSaid` | see below |

The proofs of `TranslationProofs` hold for streams of any length, any number of indexes and
any limits, and go along these invariants.

- `EncoderInv`: the client's message is as the encoder's state says. At most one block is
  open, it is the last, and it is the one `open` names; blocks are as many as `next_index`;
  each call's block is a tool's and no other call's.
- `FoldInv`: the document has the blocks of the message, kind for kind and text for text, and
  accepts deltas exactly while a block is open. `MessageInv` puts both and the types together;
  each event keeps it, one lemma per kind of event. `SameDocument` follows.
- `ClosedAtLast`: once the input has ended, a message that is not over has its end on the
  way. With it every step is a step of `MessageStream` or leaves the message alone.
- `HeldInv`: `pending`, the count kept by hand, is at least the units held and at most the
  limit. A name frees the units its call held and is charged with those only.
- `CallsInv`: while calls are followed, what the backend gave a call is what its block has,
  then what is on its way, then what is held for it (`Followed`); when an end is on the way
  with no error before it, nothing is held and every call has a block (`Complete`). `Orderly`
  says how the events of a payload may follow each other: a call's name directly before its
  arguments, text, a finish and the end last. For calls without numbers, `InSequence` says
  that those begun are the first ones and the latest is the last.

The proofs of `AnswerStreamProofs` hold for answers of any number of chunks of any length.
Parser, reader, scanner and ping window are folds over bytes or frames, written as recursive
functions. Each is shown to be a run of steps (`Runs`): a sequence of states, each the step
of the one before, so that two runs over the same input agree (the first place they differ
is a least number), a run over a longer input extends the one over its prefix (`UpTo`), and
what each step keeps the run keeps. On that rest:

- frames: the parser's pending bytes split where the reader of the whole body stands
  (`Reads`): each byte moves both alike, whether it is the last of a chunk or not. The scan
  of a chunk for line ends and the reading of its lines go together from the first byte of
  the chunk (`Scanning`, `Parsing`). Each read moves what the parser holds by one byte.
- pings: what the client has read and what the backend has sent leave their readers in the
  same state but for the frames that are pings (`Alike`), and the last four bytes are the end
  of what was relayed (`Tails`). An end of an event there means that the reader is between
  two events (`Between`), and a ping read from there is one frame more and nothing else.
- counts: those the scanner holds are the last said of each field by the frames it took,
  one event after the other (`UsageTold`), and an end of the body tells what was left
  (`ReadsEnd`, `EndTold`).

The proofs about `Requests` in `ConfigurationProofs` hold for every file that is accepted and
can be written at all (`FileType`: backends, templates, models of any number), every
client's headers and fields, and every conversation. They go along these steps.

- `Stands`: what is served is an accepted file; a request under way and its record are
  functions of the session and the messages, which stay as they are until it is answered; the
  wire is one attempt with one of the secrets. Each step keeps it, and the two properties are
  then about operators alone.
- what the headers sent are, name by name: what crosses (`UpstreamCorrect`) from what is
  dropped, forced (`ForcedCorrect`) and merged (`MergedCorrect`, `OnceCorrect`), and the
  credential and framing put over it (`FramedCorrect`). What is sent and what is recorded are
  framed alike from the same headers, so `HeadersAgree` has them differ only where the record
  is redacted.
- a route goes to a backend of the file in force (`RouteBackend`), whether by its table, a
  live list or the default; an accepted file has one proxy for an origin (`OwnProxy`), fields
  none of which is at, over or under another or the model's (`FieldsApart`, `ModelApart`). On
  that rests what a body has at each path (`SetCorrect`, `RelayedCorrect`, `TranslatedCorrect`).
- words: what a header or field sent can hold (`UpstreamWords`, `BodyWordsCorrect`), from
  which `SecretsStay` follows. A template of an accepted file reads no credential
  (`RenderWords`).

- conversations: what was made of an earlier request was made of a beginning of the messages
  there are now (`Behind`). Lists of lists that begin alike flatten to lists that begin alike
  (`FlattenGrows`), so it is enough that a message is translated the same whatever comes after
  it: a tool that a result names is known in the shorter conversation if it is in the longer
  (`DecodedSame`), for the name that has it sent is in both, and what is spelled before a
  block depends on what is before it alone. Only `"merge"` lets later messages move what is in
  front (`EncodeGrows`).
- conversations whole: five readings (calls, results, definitions, other words, images) are
  made of a chat message (`ReadIn`), of a part of a message before it is encoded
  (`PartReads`) and of a block of the conversation (`BlockReads`). A reading of lists put one
  after the other is the readings one after the other (`CatConcat`, `CatFlatten`, by
  induction along the list), so that it is enough to read what becomes of one part
  (`EncodeRead`), one block (`EveryPart`) and one message (`NextRead`); `ChatRead` puts them
  together. What an encoding moves stays in order within its reading, which is why the
  property reads five times and not once. Definitions are in addition followed from list to
  list with the names spelled before (`SpelledOnce`, `OnceConcat`).
- summaries: the newest of the messages that open a turn is the one the user is in
  (`TurnAt`, carried from message to message), and the summary in a record is that of the
  messages there are while the request is in hand (`Recounted`). The results of a message are
  as many as their ids (`IdsCounted`, an induction along its blocks); naming them one after
  the other adds one to the sum of the counts each time, whether the name is new or there
  already (`NameAdds`, `CountedMore`), and the steps of such a run exist and stay among lists
  of names (`StepsExist`, `StepsStay`). The newest call under an id lies in the message
  before, for it answers that one (`Paired`) and what comes later has none (`CallIs`).
- results after their calls: a client answers the calls of a message in the next one and
  only there (`Paired`, an invariant of the conversation). Each message becomes results
  first, then at most one message with its calls, last (`EncodedAnswers`); so the results of
  one find the calls of the one before at the end of what went out (`AnswersGrow`). For an
  Anthropic backend a message with a call or a result is never emptied by what is taken out
  (`SignedIds`), and ids are made what they become in both places (`AcceptedIsIds`).

The proof of `AnswersTell`, in `AnswersProofs`, holds for every accepted file, whatever
lists its live backends tell, and every answer whose body is a document of the depth
an error has, or no document. It goes along these steps.

- `Settled`, the invariant beside `Stands`: what was answered is a refusal of the request as
  it stands, the models asked for, the router's word that it gave up, or `Answer` of what the
  backend gave; and the hints are those made of it. Each of the five conjuncts of the property
  is then about one of these four, and a client can tell which by `by` (`WhoAnswers`).
- failures: what a document says and the names in it have their types (`DocumentType`), so
  that the kind read from a status, or from the first name that tells one, is as the API means
  it (`DecodeMeans`), and what is cut, before it is looked at or after, is still of words
  (`FirstType`, `AbridgedType`); rewording puts the words a client compacts on in front of the message
  and touches nothing else (`RewordMeans`). `FailureMeans` puts them together by backend.
- headers: what comes back under each name (`KeptHeaders`, `AnswerUnder`), and that no word
  of a file that is accepted or of the router is one a header cannot carry (`FitTokens`): this
  needs the rules of `validate()` on ids and names.
- tokens: the largest of the counts under a name is among them (`LargestIs`), and less is
  taken off the prompt than there is, or the backend counts more in its cache than in all
  (`UsageTallies`); a document gives its usage once (`EventsTally`), also when it is replayed
  as a stream (`EventsFrom`).
- lists: a row that was shown is read back as the model it showed, by a reader that does not
  know of this router (`EncodeBack`, `ReadBack`). In the list the first model of a name is the
  one a request of that name gets (`Leads`): of a live backend's when the table has no such
  name (`LiveLeads`, `LiveRouted`), else the table's (`TableLeads`, `TableRouted`), for an
  accepted file has no name twice (`NothingTwice`). Lists put one after the other lead with
  the first that has the name (`LeadsFlattened`). One model asked for is found by the same
  rule (`CalledGoes`), and if none is, no route but the default is (`NoneServes`).
- hints: a file with the fields hinted at dropped is accepted again (`AcceptedStill`): none
  of them is the model's, or one the file sets; it has the same routes (`RoutedStill`), and
  what it sends has none of them (`DroppedGone`).

The attempt changed the property in these places. A failure is said to come out with the type
it went in with where that is one of the API's own types and no `code` stands beside it: the
router goes by a code where status and type say nothing specific. The text given for an OpenAI
backend's failure is what was said, or that after the words of an overflow, where the property
only had it end so; and not all that was said: a body that is no error document is cut to
`MAX_RAW_MESSAGE` before an overflow is looked for, and every message to `MAX_MESSAGE_CHARS`
after. Every header but those the router sets itself comes back as it was, where
`content-type` was left out of every answer before, and no header holds a name that a header
cannot carry, which was not stated. The list is read back whole if no model of the file is
shown by an empty name (see findings).

Three conjuncts of the other properties were restated, too, for what TLC had found was true
of its instance and not of every file. A dropped header that is sent all the same can have the
client's own value, if a forced template renders to it; the record then names the backend as
its source, which is what is stated. A secret "does not occur" in what is sent only if it is
not also a word the file or the client puts there on purpose: `Apart` says so, and every state
of the run meets it. A forced `host` whose template cannot be filled is the HTTP client's own
and shown as such. Orders that do not matter are no longer in the definitions: forced headers
and set fields are sets there, for an accepted file names none twice.

Assumptions are those the modules name (`CredentialAssumption`, ...): numbers are
naturals, the stand-in `None` is none of the values it stands beside, sets that are counted
are finite. What sessions, writes and answers are is stated as what the code can be given:
a header's value is not empty, paths of a body's fields do not lie under one another (they are
leaves), a document's counts are naturals, what a backend says in a header can be in one. TLC
evaluates each of them. `RunsBoundedByRotations` has one hypothesis of its
own, that no reported lifetime is within the expiry margin (`Lasting`): the code serves no
value that close to its expiry and runs the helper again, for every request, and the run
`send` has a lifetime that lasts, as well. `SummaryCorrect` has one, too: that a message,
read by itself, opens a turn if the user meant it to and says what was typed
(`ReadAsMeant`). How a text is told apart from a notice by its wording is not modelled, so
which messages these are is the client's to say; what is proved is what the conversation
makes of them. `MCRequests` assumes it of its thirteen messages, so TLC evaluates it there.
The other half, `TellsItsResults`, is proved without it (`ResultsCorrect`). A property or type invariant a theorem states
for every instance, and that no run lists, was checked by TLC before it was proved; the runs
keep those that fail under a mutant of their own.

Only model-checked:

- everything temporal (`RequestsEnd`, `CutEndsAll`, `SignalTakesEffect`, `StopEnds`,
  `LookupsEnd`, `AnswersEnd`), for liveness under fairness is out of the prover's reach;
- that the definitions are the code's, which mutants of them probe.

Every safety invariant and every action property a run checks is stated by a theorem. What a
recursive definition computes is proved by a least number, or along a set of sequences, where
it is needed (folds in `AnswerStream`, `Once`, `ReportMissesNothingKept`, lists that are
flattened in `ConversationKept` and `AnswersTell`): the library's induction theorems take an
operator as a parameter, which the provers cannot instantiate.

## 5. Findings

A disagreement between the code and what it says of itself, with a run whose trace shows it:

- `header_glob`: an entry of `drop_headers` misses a name its star stands for when a part
  of it comes twice: `*-id` does not drop `x-id-kind-id`, for `matches()` takes the first
  `-id` it finds, and drop_headers.rs:29 says a star stands for any run of characters.

Seen while modelling, and not a run:

- `Activity::find` looks at two lists under two locks and can miss a request that is being
  moved from one to the other (`FindMissesOnlyInTheGap` says that is the only way).
- After a failed run of the helper, status shows a time of the next run that may lie past
  the end of the cached value's use (command.rs:208), though `refresh_at` is documented as
  the moment serving stops (credential/mod.rs:142).
- A request cut while its answer is buffered is answered 503 and listed with the backend's
  status (exchange.rs:257).
- A deletion that meets a write can leave an entry with a meta.json and no request
  (body_log.rs:449): what was deleted stays gone, but not always all of it.
- A write of a recording that fails is logged and the chain goes on (body_log.rs:414), so a
  final meta.json may stand beside a response that lacks a part; `EntriesAreWhole` says that
  of recordings whose writes succeeded.
- A restart refused for its address has reloaded all the same, as docs/console.md:24 says
  and restart.rs:19 does not; `record_now` of `body_log.rs` is never reached; a SIGTERM
  that comes while a restart drains can lose to it (serve.rs:77), where docs/console.md:26
  says the signal wins.
- A stop reason of `max_tokens` or `refusal` is kept though a tool block went out, where
  docs/translation.md:104 says the reason follows the blocks.
- A live list is one entry per backend, replaced when another Authorization asks, where
  docs/adr/0016:31 says it is cached per client `Authorization`. Two live backends that
  publish one id give the list of models two rows of it; a request goes to the first. Of a
  list of mixed rows from a passthrough backend, those without a display name are left out.
- A client's header under the name of the backend's credential is overwritten
  (client.rs:243) and not among the dropped headers of the record; a beta value that is no
  ASCII vanishes in the merge; `drop_fields` may drop `stream` though `set_fields` may not
  set it.
- A report's total may count records newer than its `now`, which no point of its series has.
- docs/http-api.md:40 says an error's type follows from the status, the code takes a
  backend's own names where the status is unspecific; http-api.md:17 says proxied answers
  carry `x-anthroxy-*`, those of a passthrough backend do not (proxy.rs:303).
- An error document under status 200 from a translated backend, to a client that asked for
  no stream, becomes a 502 of the router (handlers/openai.rs:91-102), so an overflow told
  that way is not worded as one, where docs/translation.md says whatever the status.
  `encode_error` puts "prompt is too long: " before a message that already starts so.
- A model whose `display_name` is empty passes `validate()` and is offered under that name; a
  router that has this one for its backend leaves it out (anthropic/models.rs:132).
- An overflow is that kind "named anywhere in the body", says openai/error.rs:12; of a body
  that is no error document only the first 200 characters are looked at (error.rs:28), and
  of a document its names and its message.
- The hint on a context window (hints.rs:230) knows fewer wordings than `CONTEXT_EXCEEDED`.

## 6. Not modelled

Console views, probe and test requests (they read state modelled elsewhere, or go through
the modelled path), construction of the HTTP client, the service commands and the command
line, logging: no state of the router's own, or one-shot. Within the modelled parts: TOML
and JSON as text, wording, limits on a text in characters (they count words, so no cut falls
inside one), what the helper does before it ends (`process.rs`), the delays
between retries, HTTP/1.1 as hyper does it, keepalive. The HTTP client, hyper and tokio's
scheduler are taken as documented. Which entries a prune of the body log picks by their
names, and the bounded tally of unknown names, are left out.

## 7. Plan

1. Done: the credential cache and the send loop over it, the exchange, reload, stop, the
   body log, routing, translated streams with the message they implement, framing, usage,
   clocks and pings, statistics, and the path of a request from the file it is served by to
   the answer; safety proofs of the concurrent parts.
2. Done: proofs of every safety property of the concurrent parts, of translated streams,
   of answers under clocks, pings and a usage scanner, and of the path of a request from the
   file to the answer, and two refinements.
3. Small additions: a prune of the body log over several entries; process.rs' two readers
   and its kill.
