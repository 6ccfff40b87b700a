-------------------------- MODULE IncidentContract --------------------------
(***************************************************************************)
(* What the package promises a host about the health of one endpoint, one  *)
(* atomic step per thing that can happen to it.  An incident runs while    *)
(* the count is positive; EndpointFailing is heard when it starts,         *)
(* EndpointRecovered when a delivery ends it, EndpointDisabled when it     *)
(* costs the endpoint its place.  EndpointHealth refines this module on a  *)
(* database whose UPDATE locks every row it looks at.                      *)
(***************************************************************************)
EXTENDS Naturals

CONSTANTS Threshold, Never

VARIABLES present, row, told

cvars == <<present, row, told>>

Init ==
    /\ present = TRUE
    /\ row = [count |-> 0, active |-> TRUE, stamped |-> FALSE]
    /\ told = [failing |-> 0, recovered |-> 0, disabled |-> 0, open |-> 0]

\* This death is the one that costs the endpoint its place.
Fatal == Threshold # Never /\ row.active /\ row.count + 1 >= Threshold

Plus(n, b) == IF b THEN n + 1 ELSE n

\* One more consecutive dead delivery.
Dies ==
    /\ present
    /\ row' = [count |-> row.count + 1,
               active |-> row.active /\ ~Fatal,
               stamped |-> row.stamped \/ Fatal]
    /\ told' = [failing |-> Plus(told.failing, row.count = 0),
                recovered |-> 0,
                disabled |-> Plus(told.disabled, Fatal),
                open |-> Plus(told.open, row.count = 0)]
    /\ UNCHANGED present

\* A delivery lands on an endpoint that was failing.
Recovers ==
    /\ present
    /\ row.count > 0
    /\ row' = [row EXCEPT !.count = 0]
    /\ told' = [failing |-> 0,
                recovered |-> told.recovered + 1,
                disabled |-> told.disabled,
                open |-> 0]
    /\ UNCHANGED present

\* Somebody puts the endpoint back, which is not evidence that it answers.
PutBack ==
    /\ present
    /\ row' = [count |-> 0, active |-> TRUE, stamped |-> FALSE]
    /\ told' = [told EXCEPT !.failing = 0, !.disabled = 0]
    /\ UNCHANGED present

\* Somebody switches it off by hand.
TurnedOff ==
    /\ present
    /\ row.active
    /\ row' = [row EXCEPT !.active = FALSE]
    /\ UNCHANGED <<present, told>>

Removed ==
    /\ present
    /\ present' = FALSE
    /\ UNCHANGED <<row, told>>

Next == Dies \/ Recovers \/ PutBack \/ TurnedOff \/ Removed

Spec == Init /\ [][Next]_cvars
=============================================================================
