------------------------------ MODULE MCRouting ------------------------------
\* Two requests, a passthrough backend and one with a forced header.
EXTENDS Routing

CONSTANTS c1, c2, x, y, a1, a2

TwoCallers == {c1, c2}
TwoNames == {x, y}
OneName == {x}
First == {1}
Second == {2}
TwoAuths == {a1, a2}
SomeAsks ==
  {[name |-> x, auth |-> a1, complete |-> "yes"],
   [name |-> y, auth |-> a1, complete |-> "yes"],
   [name |-> y, auth |-> a2, complete |-> "no"],
   [name |-> All, auth |-> a2, complete |-> "yes"]}
OneOffer == {{x, y}}
=============================================================================
