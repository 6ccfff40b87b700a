---------------------------- MODULE MCInnerRetry ----------------------------
(* InnerRetry under three leases: one that cannot hold a request and the   *)
(* margin, one that holds little more, and one with room for several.      *)
EXTENDS InnerRetry

LeasesInTicks == {5, 7, 20}

\* One status of each kind the classification tells apart.
OneOfEachKind == {204, 302, 410, 408, 429, 500, 503}
=============================================================================
