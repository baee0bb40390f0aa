------------------------------ MODULE Statistics ------------------------------
(***************************************************************************)
(* The statistics: a line appended for each request that ended, to the     *)
(* file of the day it arrived (src/stats/log.rs); a sweep that deletes old *)
(* files; and a report read from the files while both go on                *)
(* (src/server/handlers/console/stats.rs).  Appends, sweeps and reads run  *)
(* on threads of their own: each lists the directory before it goes        *)
(* through the files one at a time.                                        *)
(***************************************************************************)
EXTENDS StatsReport

CONSTANTS
  Requests,     \* id -> its record, without ts
  Retention,    \* in times of the clock, None for ever
  MaxClock      \* bound

ASSUME StatisticsAssumption ==
  /\ DAY \in Nat \ {0} /\ MAX \in Nat /\ MaxClock \in Nat
  /\ Retention = None \/ Retention \in Nat \ {0}
  /\ \A range \in DOMAIN Ranges :
       Ranges[range].days \in Nat \cup {None} /\ Ranges[range].bucket \in Nat \ {0}
  /\ \A id \in DOMAIN Requests :
       LET r == Requests[id]
       IN /\ {"id", "ttfb", "duration", "usage"} \subseteq DOMAIN r /\ r.id = id
          /\ {r.ttfb, r.duration} \subseteq Nat \cup {None}
          /\ r.usage \in TokenUsage \cup {None}
  /\ None \notin Int

VARIABLES
  clock,
  arrived,      \* id -> when it came, None before
  line,         \* id -> none, queued for a thread, or written
  files,        \* day -> ids, of the files there are
  sweep,        \* the files a sweep listed and is to delete
  reading,      \* None, or [stage, range, now, left, records] of a report being read
  report,       \* None, or [range, now, records, figures]
  listed        \* the ids on disk when it listed the directory (history)

vars == <<clock, arrived, line, files, sweep, reading, report, listed>>

Init ==
  /\ clock = 0
  /\ arrived = [id \in DOMAIN Requests |-> None]
  /\ line = [id \in DOMAIN Requests |-> "none"]
  /\ files = <<>> /\ sweep = {} /\ reading = None /\ report = None /\ listed = {}

Record(id) ==
  [f \in DOMAIN Requests[id] \cup {"ts"} |-> IF f = "ts" THEN arrived[id] ELSE Requests[id][f]]

Tick ==
  /\ clock < MaxClock /\ clock' = clock + 1
  /\ UNCHANGED <<arrived, line, files, sweep, reading, report, listed>>

Arrive(id) ==
  /\ arrived[id] = None
  /\ arrived' = [arrived EXCEPT ![id] = clock]
  /\ UNCHANGED <<clock, line, files, sweep, reading, report, listed>>

Finish(id) ==
  /\ arrived[id] # None /\ line[id] = "none"
  /\ line' = [line EXCEPT ![id] = "queued"]
  /\ UNCHANGED <<clock, arrived, files, sweep, reading, report, listed>>

Lines(d) == IF d \in DOMAIN files THEN files[d] ELSE <<>>

\* append_blocking: under the mutex, in whatever order the threads come to it, to the
\* file of the day it arrived, anew where a sweep deleted it.
AppendLine(id) ==
  LET day == Day(arrived[id])
  IN /\ line[id] = "queued"
     /\ line' = [line EXCEPT ![id] = "written"]
     /\ files' = [d \in DOMAIN files \cup {day} |->
                    IF d = day THEN Append(Lines(d), id) ELSE files[d]]
     /\ UNCHANGED <<clock, arrived, sweep, reading, report, listed>>

-----------------------------------------------------------------------------

OldInclusive(day, cutoff) == day <= cutoff    \* a mutant: not only whole days
Old(day, cutoff) == day < cutoff

\* prune: the files whose whole day is older than the retention.
Sweep ==
  /\ sweep = {} /\ Retention # None
  /\ sweep' = {d \in DOMAIN files : Old(d, Day(clock - Retention))}
  /\ sweep' # {}
  /\ UNCHANGED <<clock, arrived, line, files, reading, report, listed>>

Delete(d) ==
  /\ d \in sweep
  /\ files' = Restrict(files, DOMAIN files \ {d})
  /\ sweep' = sweep \ {d}
  /\ UNCHANGED <<clock, arrived, line, reading, report, listed>>

-----------------------------------------------------------------------------

Reading(stage, range, now, left, records) ==
  [stage |-> stage, range |-> range, now |-> now, left |-> left, records |-> records]

\* The handler takes the time and leaves the rest to a thread.
Ask(range) ==
  /\ reading = None
  /\ reading' = Reading("asked", range, clock, {}, <<>>)
  /\ UNCHANGED <<clock, arrived, line, files, sweep, report, listed>>

\* read: the files a record since then can be in.
List ==
  LET since == Since(reading.range, reading.now)
  IN /\ reading # None /\ reading.stage = "asked"
     /\ reading' = Reading("listed", reading.range, reading.now,
                           {d \in DOMAIN files : since = None \/ d >= Day(since)}, <<>>)
     /\ listed' = UNION {ToSet(files[d]) : d \in DOMAIN files}
     /\ UNCHANGED <<clock, arrived, line, files, sweep, report>>

InRange(id, since) == since = None \/ arrived[id] >= since

\* The records of a file's lines that are in the range, in their order.
Kept(ids, since) ==
  LET kept[n \in 0..Len(ids)] ==
        IF n = 0 THEN <<>>
        ELSE IF InRange(ids[n], since) THEN Append(kept[n - 1], Record(ids[n]))
        ELSE kept[n - 1]
  IN kept[Len(ids)]

Oldest(days) == CHOOSE d \in days : \A e \in days : d <= e

\* The oldest of them; one that has gone is passed over.
ReadFile ==
  LET d == Oldest(reading.left)
      since == Since(reading.range, reading.now)
  IN /\ reading # None /\ reading.left # {}
     /\ reading' = Reading("listed", reading.range, reading.now, reading.left \ {d},
                           reading.records \o Kept(Lines(d), since))
     /\ UNCHANGED <<clock, arrived, line, files, sweep, report, listed>>

Answer ==
  /\ reading # None /\ reading.stage = "listed" /\ reading.left = {}
  /\ report' = [range |-> reading.range, now |-> reading.now, records |-> reading.records,
                figures |-> Report(reading.records, reading.range, reading.now)]
  /\ UNCHANGED <<clock, arrived, line, files, sweep, reading, listed>>

\* One report to a behaviour.
Next ==
  /\ report = None
  /\ \/ Tick
     \/ \E id \in DOMAIN Requests : Arrive(id) \/ Finish(id) \/ AppendLine(id)
     \/ Sweep \/ \E d \in sweep : Delete(d)
     \/ \E range \in DOMAIN Ranges : Ask(range)
     \/ List \/ ReadFile \/ Answer

Spec == Init /\ [][Next]_vars

-----------------------------------------------------------------------------

\* What was on disk when the directory was listed is in a report that covers it, unless
\* it has grown older than the retention meanwhile, and nothing earlier than the range
\* is, whatever is appended and swept during the read; log.rs:76-128.
ReportMissesNothingKept ==
  report # None =>
    LET since == Since(report.range, report.now)
    IN /\ \A id \in listed :
            /\ since = None \/ arrived[id] >= since
            /\ Retention = None \/ arrived[id] >= clock - Retention
            => Cardinality({i \in DOMAIN report.records : report.records[i].id = id}) = 1
       /\ \A r \in ToSet(report.records) : since = None \/ r.ts >= since

\* The parts of a report agree: its models, its days and its points add up to its total,
\* two models' points stand on one axis, and all a series lacks is what arrived in a
\* later bucket than the one the report was asked in; aggregate.rs:164-236.
SeriesAddUp ==
  report # None =>
    LET f == report.figures
        records == report.records
        late == {i \in DOMAIN records :
                   Floor(records[i].ts, report.range) > Floor(report.now, report.range)}
        InAll(rows) == Sum([key \in DOMAIN rows |-> rows[key].requests])
    IN /\ f.total.requests = InAll(f.models)
       /\ f.total.requests = InAll(f.days)
       /\ f.total.requests = InAll(f.series) + Cardinality(late)
       /\ \A m \in DOMAIN f.models : DOMAIN f.model_series[m] = DOMAIN f.series
       /\ \A i \in DOMAIN f.series : \A count \in {"requests", "errors", "retried", "defaulted"} :
            f.series[i][count] = Sum([m \in DOMAIN f.models |-> f.model_series[m][i][count]])
       /\ InAll(f.fallbacks) = Cardinality({i \in DOMAIN records : Unserved(records[i])})

\* A count at its limit stays there: no part is more than the whole, a hit rate is a
\* share, a speed has a time to be over; aggregate.rs:346-386.
PartsWithinTheWhole ==
  report # None =>
    LET f == report.figures
        rows == ToSet(f.series) \cup {f.days[d] : d \in DOMAIN f.days}
                  \cup {f.models[m] : m \in DOMAIN f.models} \cup {f.total}
    IN \A row \in rows :
         /\ \A count \in {"input", "output", "cache_read", "cache_prompt", "generated"} :
              row[count] <= f.total[count]
         /\ row.cache_read <= row.cache_prompt
         /\ row.generated > 0 <=> row.generating > 0
         /\ row.ttfb[1] # None => row.ttfb[1] <= row.ttfb[2]

\* The figures of a report agree with each other, at the limits of its counts too.
FiguresAgree == SeriesAddUp /\ PartsWithinTheWhole
=============================================================================
