----------------------------- MODULE MCCredential -----------------------------
(* Instances of Credential for TLC. *)
EXTENDS Credential, TLC

CONSTANTS c1, c2, v1, v2

TwoClients == {c1, c2}
TwoSecrets == {v1, v2}
SomeLifetimes == {None, 0, 4}

Alike == Permutations(Clients) \cup Permutations(Secrets)
=============================================================================
