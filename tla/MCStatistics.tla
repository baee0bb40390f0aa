----------------------------- MODULE MCStatistics -----------------------------
\* Three requests over three days; reports of a day and of all there is.
EXTENDS Statistics

Plain ==
  [model |-> "a", matched |-> "exact", requested |-> "a", backend |-> "one", status |-> 200,
   outcome |-> "complete", attempts |-> 1, credential_refreshed |-> "no", stream |-> "yes",
   ttfb |-> 1, duration |-> 3, usage |-> None]
Usage(input, output, cache_read, reported) ==
  [input |-> input, output |-> output, cache_read |-> cache_read, cache_creation |-> 0,
   cache_reported |-> reported]

MCRequests ==
  [r1 |-> [id |-> "r1", usage |-> Usage(1, 5, 4, "yes")] @@ Plain,
   r2 |-> [id |-> "r2", model |-> "b", matched |-> "default", requested |-> "x", attempts |-> 2,
           credential_refreshed |-> "yes", ttfb |-> 2, usage |-> Usage(2, 4, 5, "yes")] @@ Plain,
   r3 |-> [id |-> "r3", model |-> None, matched |-> None, requested |-> "y", status |-> 404,
           outcome |-> "error", usage |-> Usage(5, 0, 0, "no")] @@ Plain]

MCRanges == ("1d" :> [days |-> 1, bucket |-> 2]) @@ ("all" :> [days |-> None, bucket |-> 2])
=============================================================================
