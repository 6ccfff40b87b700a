----------------------------- MODULE MCTransport ----------------------------
(* Transport under three leases: one that cannot hold a request and the    *)
(* margin, one that holds little more, and one with room for several.      *)
EXTENDS Transport

CONSTANTS name, public, loopback, metadata, shared

LeasesInTicks == {3, 5, 9}

\* One status of each kind the classification tells apart.
OneOfEachKind == {204, 410, 408, 503}

OneName == {name}
FourAddresses == {public, loopback, metadata, shared}
FourKinds ==
    [a \in FourAddresses |->
        CASE a = public -> {}
          [] a = loopback -> {"private", "loopback", "reserved"}
          [] a = metadata -> {"private", "link-local"}
          [] a = shared -> {"carrier-grade NAT"}]
=============================================================================
