----------------------------- MODULE StatsReport -----------------------------
(***************************************************************************)
(* The figures over the records of a range (src/stats/aggregate.rs).       *)
(* Times are whole numbers of the clock; a record has the fields of        *)
(* StatsRecord that a figure is made of.                                   *)
(***************************************************************************)
EXTENDS Integers, SequencesExt, FiniteSets

CONSTANTS
  None,
  Ranges,      \* range -> [days, bucket]: its days, None for all; the width of a point
  DAY,         \* a day, in times of the clock
  MAX          \* the largest count, u64::MAX

Since(range, now) ==
  IF Ranges[range].days = None THEN None ELSE now - Ranges[range].days * DAY

Day(at) == at \div DAY
Floor(at, range) == (at \div Ranges[range].bucket) * Ranges[range].bucket

SaturatingAdd(a, b) == IF a + b > MAX THEN MAX ELSE a + b

TokenUsage ==
  [input : 0..MAX, output : 0..MAX, cache_read : 0..MAX, cache_creation : 0..MAX,
   cache_reported : {"yes", "no"}]
CacheKnown(u) == u.cache_reported = "yes" \/ u.cache_read > 0 \/ u.cache_creation > 0
Prompt(u) == SaturatingAdd(SaturatingAdd(u.input, u.cache_read), u.cache_creation)

-----------------------------------------------------------------------------
\* Groups.

Failed(r) == (r.status # None /\ r.status >= 400) \/ r.outcome = "error"
Succeeded(r) == ~Failed(r) /\ r.outcome = "complete"
Resent(r) == IF r.credential_refreshed = "yes" THEN 1 ELSE 0

Retried(r) == r.attempts # None /\ r.attempts > 1 + Resent(r)

\* generation: tokens and the time they took, of a complete stream.
Generated(r) ==
  IF r.stream = "yes" /\ Succeeded(r) /\ r.ttfb # None /\ r.duration # None
       /\ r.usage # None /\ r.duration > r.ttfb /\ r.usage.output > 0
  THEN [tokens |-> r.usage.output, millis |-> r.duration - r.ttfb]
  ELSE [tokens |-> 0, millis |-> 0]

\* What the counts add up to: their units, told apart by whose they are.
Sum(count) == Cardinality(UNION {{i} \X (1..count[i]) : i \in DOMAIN count})

\* Saturating additions, one after the other, come to no more than MAX.
Total(count) == IF Sum(count) > MAX THEN MAX ELSE Sum(count)

\* Nearest rank: the least sample with that many up to it.
Percentile(sample, p) ==
  LET rank == (p * Cardinality(DOMAIN sample) + 99) \div 100
      ranked == {sample[i] : i \in {j \in DOMAIN sample :
                   Cardinality({k \in DOMAIN sample : sample[k] <= sample[j]}) >= rank}}
  IN IF DOMAIN sample = {} THEN None ELSE Min(ranked)
Percentiles(sample) == <<Percentile(sample, 50), Percentile(sample, 95)>>

\* Group: the row over `those`, places in `records`; a rate is what is divided by what.
Row(records, those) ==
  LET used == {i \in those : records[i].usage # None}
      known == {i \in used : CacheKnown(records[i].usage)}
      named == {i \in those : records[i].backend # None}
      timed == {i \in those : Succeeded(records[i])}
  IN [requests |-> Cardinality(those),
      backend |-> IF named = {} THEN None ELSE records[Min(named)].backend,
      errors |-> Cardinality({i \in those : Failed(records[i])}),
      disconnects |-> Cardinality({i \in those : records[i].outcome = "client disconnected"}),
      retried |-> Cardinality({i \in those : Retried(records[i])}),
      credential_refreshed |-> Cardinality({i \in those : Resent(records[i]) = 1}),
      defaulted |-> Cardinality({i \in those : records[i].matched = "default"}),
      input |-> Total([i \in used |-> records[i].usage.input]),
      output |-> Total([i \in used |-> records[i].usage.output]),
      cache_read |-> Total([i \in used |-> records[i].usage.cache_read]),
      cache_creation |-> Total([i \in used |-> records[i].usage.cache_creation]),
      cache_prompt |-> Total([i \in known |-> Prompt(records[i].usage)]),
      cache_silent |-> Cardinality(used \ known),
      ttfb |-> Percentiles([i \in {j \in timed : records[j].ttfb # None} |-> records[i].ttfb]),
      duration |->
        Percentiles([i \in {j \in timed : records[j].duration # None} |-> records[i].duration]),
      generated |-> Total([i \in those |-> Generated(records[i]).tokens]),
      generating |-> Total([i \in those |-> Generated(records[i]).millis])]

-----------------------------------------------------------------------------
\* The report.

ModelOf(r) == IF r.model = None THEN "(unrouted)" ELSE r.model

\* A name no route has as id or alias, with the default that served it.
Unserved(r) == r.requested # None /\ (r.model = None \/ r.matched = "default")
Fallbacks(records) ==
  LET Key(i) == <<records[i].requested, records[i].model>>
      those == {i \in DOMAIN records : Unserved(records[i])}
  IN [key \in {Key(i) : i \in those} |->
        [requests |-> Cardinality({i \in those : Key(i) = key}),
         last_seen |-> Max({records[i].ts : i \in {j \in those : Key(j) = key}})]]

\* The points of every series, in order: from where the range starts to where now is.
BucketsFromSince(records, range, now) ==     \* a mutant: the first is not aligned
  LET start == Since(range, now)
      width == Ranges[range].bucket
  IN IF start = None THEN <<>>
     ELSE [i \in 1..(now - start) \div width + 1 |-> start + (i - 1) * width]
Buckets(records, range, now) ==
  LET floors == {Floor(r.ts, range) : r \in ToSet(records)}
      start == IF Since(range, now) # None THEN Floor(Since(range, now), range)
               ELSE IF floors = {} THEN None
               ELSE Min(floors)
      width == Ranges[range].bucket
  IN IF start = None THEN <<>>
     ELSE [i \in 1..(Floor(now, range) - start) \div width + 1 |-> start + (i - 1) * width]

Series(records, those, starts, range) ==
  [k \in DOMAIN starts |->
     Row(records, {i \in those : Floor(records[i].ts, range) = starts[k]})]

OfModel(records, model) == {i \in DOMAIN records : ModelOf(records[i]) = model}
OfDay(records, day) == {i \in DOMAIN records : Day(records[i].ts) = day}

Report(records, range, now) ==
  LET starts == Buckets(records, range, now)
      models == {ModelOf(r) : r \in ToSet(records)}
  IN [starts |-> starts,
      total |-> Row(records, DOMAIN records),
      models |-> [m \in models |-> Row(records, OfModel(records, m))],
      days |-> [d \in {Day(r.ts) : r \in ToSet(records)} |-> Row(records, OfDay(records, d))],
      fallbacks |-> Fallbacks(records),
      series |-> Series(records, DOMAIN records, starts, range),
      model_series |-> [m \in models |-> Series(records, OfModel(records, m), starts, range)]]
=============================================================================
