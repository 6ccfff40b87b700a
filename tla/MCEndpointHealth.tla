-------------------------- MODULE MCEndpointHealth --------------------------
(* EndpointHealth on small instances: the configurations choose the number *)
(* of workers, the threshold and the locking of the database.              *)
EXTENDS EndpointHealth, TLC

CONSTANTS w1, w2, w3

TwoWorkers == {w1, w2}
ThreeWorkers == {w1, w2, w3}

\* Workers are interchangeable, and the runs that use this check no liveness.
Interchangeable == Permutations(Workers)
=============================================================================
