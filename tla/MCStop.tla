------------------------------- MODULE MCStop -------------------------------
\* Three clients over two slots.
EXTENDS Stop

CONSTANTS k1, k2, k3

Clients3 == {k1, k2, k3}
Clients2 == {k1, k2}
=============================================================================
