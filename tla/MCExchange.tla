------------------------------ MODULE MCExchange ------------------------------
(* Instances of Exchange for TLC.                                          *)
EXTENDS Exchange, TLC

CONSTANTS r1, r2

TwoRequests == {r1, r2}
OneCounted == {r1}
OneReader == {r2}
=============================================================================
