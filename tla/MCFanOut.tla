------------------------------ MODULE MCFanOut ------------------------------
(* FanOut with two endpoints and two tenants, one ordinary and one internal *)
(* event name, and two processes, which may restart with another source or  *)
(* with none, and in which an operator publishes a second version of        *)
(* CloudEvents or tries to take over the first.                             *)
EXTENDS FanOut, TLC

CONSTANTS n1, n2, c1, e1, t1, t2, p1, p2, ordinary, failing, shop, mall, custom

TwoEndpoints == {n1, n2}
OneContext == {c1}
OneEvent == {e1}
TwoTenants == {t1, t2}
BothNames == {ordinary, failing}
OrdinaryOrBoth == {{ordinary}, BothNames}
HealthEvents == {failing}
TwoProcesses == {p1, p2}
TwoSources == {shop, mall}

\* Two objects of the operator's.
TwoOfTheirOwn ==
    {[id |-> [name |-> CloudEvents, version |-> v], by |-> custom] : v \in {1, 2}}

TheLatest == {[name |-> CloudEvents, version |-> Unstated]}

\* None of these sets is told apart by what its members are.
Interchangeable ==
    Permutations(Endpoints) \cup Permutations(Tenants) \cup Permutations(Processes)
=============================================================================
