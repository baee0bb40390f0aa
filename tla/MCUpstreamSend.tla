---------------------------- MODULE MCUpstreamSend ----------------------------
(* Instances of UpstreamSend for TLC. *)
EXTENDS UpstreamSend

CONSTANTS c1, c2

TwoClients == {c1, c2}
OneRotation == 0..1
SomeLifetimes == {None, 3}
=============================================================================
