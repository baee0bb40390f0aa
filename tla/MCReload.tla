------------------------------ MODULE MCReload ------------------------------
\* Two console calls beside the SIGHUP task, over a file saved up to twice:
\* the first save moves the router, the second does not load.
EXTENDS Reload

CONSTANTS c1, c2, hangup, none, a1, a2

TwoCalls == {c1, c2}
TwoAddrs == {a1, a2}
Moved == [v \in Versions |-> IF v \in {1} THEN a2 ELSE a1]
Loading == Versions \ {2}
=============================================================================
