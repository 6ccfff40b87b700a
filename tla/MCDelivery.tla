----------------------------- MODULE MCDelivery -----------------------------
(* Delivery with two workers and one or two deliveries to one endpoint.    *)
EXTENDS Delivery, TLC

CONSTANTS w1, w2, d1, d2

TwoWorkers == {w1, w2}
OneDelivery == {d1}
TwoDeliveries == {d1, d2}
OnlyTheSecond == {d2}
NoDelivery == {}

\* Workers are interchangeable, and so are deliveries while the format of each
\* is published.  The runs that use this check no liveness.
Interchangeable == Permutations(Workers) \cup Permutations(Deliveries)
=============================================================================
