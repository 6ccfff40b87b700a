-------------------------- MODULE DeliveryPromise ---------------------------
(***************************************************************************)
(* What the package promises of each delivery it owes: it is settled once, *)
(* and eventually, and it is never called delivered without the endpoint   *)
(* having answered 2xx, nor dropped unless its destination was gone or     *)
(* switched off at some point.                                             *)
(***************************************************************************)
CONSTANTS Deliveries

VARIABLES
    fate,      \* of each delivery: owed, delivered, dropped or dead
    answered,  \* deliveries the endpoint has answered 2xx to
    wasOff     \* the endpoint has been gone or switched off

pvars == <<fate, answered, wasOff>>

Init ==
    /\ fate = [d \in Deliveries |-> "owed"]
    /\ answered = {}
    /\ wasOff = FALSE

\* The endpoint answers 2xx, once or again: delivery is at least once.
Answers(d) ==
    /\ answered' = answered \cup {d}
    /\ UNCHANGED <<fate, wasOff>>

GoesOff ==
    /\ wasOff' = TRUE
    /\ UNCHANGED <<fate, answered>>

Settles(d) ==
    /\ fate[d] = "owed"
    /\ \E f \in {"delivered", "dropped", "dead"} :
          /\ f = "delivered" => d \in answered
          /\ f = "dropped" => wasOff
          /\ fate' = [fate EXCEPT ![d] = f]
    /\ UNCHANGED <<answered, wasOff>>

Next == GoesOff \/ \E d \in Deliveries : Answers(d) \/ Settles(d)

Spec == Init /\ [][Next]_pvars /\ \A d \in Deliveries : WF_pvars(Settles(d))

SafeSpec == Init /\ [][Next]_pvars
=============================================================================
