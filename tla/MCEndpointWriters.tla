------------------------- MODULE MCEndpointWriters --------------------------
(* EndpointWriters with two clients, and secrets for three rotations.      *)
EXTENDS EndpointWriters, TLC

CONSTANTS c1, c2, w1, k1, k2, k3, k4

TwoClients == {c1, c2}
OneSender == {w1}
FourSecrets == {k1, k2, k3, k4}
TwoOverlaps == {0, 2}

\* Clients are interchangeable, and so are the secrets that are still unused.
Interchangeable == Permutations(Clients) \cup Permutations(Secrets \ {FirstSecret})
=============================================================================
