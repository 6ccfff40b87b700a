-------------------------- MODULE TransportProofs ---------------------------
(***************************************************************************)
(* The hop-by-hop layer for every resolver, policy and redirect: it is the *)
(* inner retry loop (Layer), so what InnerRetryProofs shows of that loop   *)
(* holds of it; it dials only what the policy passes (Dialled), because an *)
(* address is pinned only after the whole answer was checked (Pinned); and *)
(* a raise is the one way an outcome is lost (Kept).                       *)
(***************************************************************************)
EXTENDS Transport, InnerRetryProofs

USE TransportAssumption

\* A request in flight is at an attempt, and within its redirect budget.
InFlight ==
    /\ hop \in {"none", "pin", "dial"}
    /\ hop # "none" => pc = "attempt"
    /\ hop = "none" => followed = 0
    /\ followed \in Hops
    /\ hatch \in BOOLEAN

\* A host about to be dialled is an address the policy passes.
Pinned == hop = "dial" => host \in Addresses /\ ~Unsafe(host)

Dialled == \A a \in dialled : a \in Addresses /\ ~Unsafe(a)

\* Only a redirected request is behind history, and by itself alone.
Kept ==
    /\ posts \in Nat /\ requests \in Nat /\ refusals \in Nat
    /\ followed = 0 /\ pc # "raised" => posts <= requests
    /\ posts <= requests + 1

\* The only unsafe hop is the one that raised, and a lease with no room is
\* refused before the first.
Caused ==
    /\ pc # "raised" => refusals = 0
    /\ pc = "raised" => refusals = 1
    /\ pc \in {"attempt", "waiting", "done", "raised"} => Deadline > 0
    /\ pc = "refused" => Deadline <= 0
    /\ lease \in Nat
    /\ pc \in {"policy", "attempt", "waiting", "done", "refused", "raised"}

TransportInv == InFlight /\ Pinned /\ Dialled /\ Kept /\ Caused

-----------------------------------------------------------------------------
(* The layer *)

\* A request that comes back is an attempt of the loop.
LEMMA ComesBackIsAttempt ==
    ASSUME NEW s \in Statuses \cup {NoAnswer}, NEW named \in BOOLEAN, NEW d,
           InFlight, ComesBack(Outcome(s, named), d)
    PROVE  Next
BY DEF ComesBack, InFlight, Next, Loop

\* Every step of the layer is a step of the loop or none of its business.
LEMMA LayerStep ==
    InFlight /\ [TransportNext]_transportVars => [Next]_vars
<1> SUFFICES ASSUME InFlight, [TransportNext]_transportVars
             PROVE  [Next]_vars
  OBVIOUS
<1>1. CASE Post
  BY <1>1 DEF Post
<1>2. ASSUME NEW all \in Resolutions, RefuseHop(all)
      PROVE  Next
  BY <1>2 DEF RefuseHop, InFlight, Next, Loop
<1>3. ASSUME NEW all \in Resolutions, NEW a \in Addresses, Pin(all, a)
      PROVE  UNCHANGED vars
  BY <1>3 DEF Pin
<1>4. CASE Unresolved
  BY <1>4, ComesBackIsAttempt DEF Unresolved
<1>5. ASSUME NEW d \in 0 .. Timeout, NEW s \in Statuses \cup {NoAnswer},
             NEW named \in BOOLEAN, Answer(s, named, d)
      PROVE  Next
  BY <1>5, ComesBackIsAttempt DEF Answer
<1>6. ASSUME NEW d \in 0 .. Timeout, NEW to \in Hosts, Redirect(to, d)
      PROVE  UNCHANGED vars
  BY <1>6 DEF Redirect
<1>7. ASSUME NEW d \in 0 .. Timeout, TooManyRedirects(d)
      PROVE  Next
  BY <1>7, ComesBackIsAttempt DEF TooManyRedirects
<1>8. CASE Between
  BY <1>8 DEF Between, Next, Loop
<1>9. CASE Drift
  BY <1>9 DEF Next
<1>10. CASE UNCHANGED transportVars
  BY <1>10 DEF transportVars
<1> QED BY <1>1, <1>2, <1>3, <1>4, <1>5, <1>6, <1>7, <1>8, <1>9, <1>10
        DEF TransportNext, Hop

-----------------------------------------------------------------------------
(* The invariant *)

\* No request in flight, nothing dialled and nothing lost at the start.
LEMMA TransportInitInv == TransportInit => TransportInv
<1> SUFFICES ASSUME TransportInit PROVE TransportInv
  OBVIOUS
<1> QED BY RetryAssumption
        DEF TransportInit, Init, TransportInv, InFlight, Pinned, Dialled, Kept, Caused, Hops

\* A step of the loop between two requests keeps it.
LEMMA LoopKeeps ==
    ASSUME TransportInv, Refuse \/ Begin \/ GiveUp \/ Sleep \/ Drift,
           UNCHANGED <<hatch, request, wire>>
    PROVE  TransportInv'
BY DEF TransportInv, InFlight, Pinned, Dialled, Kept, Caused, Unsafe, Deadline, Hops,
       Refuse, Begin, GiveUp, Sleep, Drift, request, wire

\* What a step has dialled, if it dialled at all, was pinned.
LEMMA DialsKeep ==
    ASSUME TransportInv, Dials, hatch' = hatch
    PROVE  Dialled'
BY DEF TransportInv, InFlight, Pinned, Dialled, Dials, Unsafe

\* A request that comes back leaves nothing behind.
LEMMA ComesBackKeeps ==
    ASSUME NEW o, NEW d, TransportInv, ComesBack(o, d), Dialled', hop # "none",
           refusals' = refusals,
           posts' = posts \/ (followed = 0 /\ posts' = posts + 1)
    PROVE  TransportInv'
<1>1. /\ pc = "attempt" /\ pc' \in {"waiting", "done"}
      /\ requests' = requests + 1 /\ lease' = lease
      /\ hop' = "none" /\ followed' = 0 /\ hatch' = hatch
  BY DEF ComesBack, Attempt, Over
<1>2. InFlight' /\ Pinned' /\ Caused'
  BY <1>1, RetryAssumption DEF TransportInv, InFlight, Pinned, Caused, Deadline, Hops
<1>3. Kept'
  BY <1>1 DEF TransportInv, Kept
<1> QED BY <1>2, <1>3 DEF TransportInv

\* Every step of the layer keeps the invariant.
LEMMA TransportStep ==
    TransportInv /\ [TransportNext]_transportVars => TransportInv'
<1> SUFFICES ASSUME TransportInv, [TransportNext]_transportVars
             PROVE  TransportInv'
  OBVIOUS
<1>1. CASE Post
  BY <1>1 DEF Post, vars, wire, TransportInv, InFlight, Pinned, Dialled, Kept, Caused,
              Unsafe, Deadline
<1>2. ASSUME NEW all \in Resolutions, RefuseHop(all)
      PROVE  TransportInv'
  <2>1. /\ pc = "attempt" /\ pc' = "raised"
        /\ requests' = requests /\ posts' = posts /\ dialled' = dialled
        /\ hop' = "none" /\ followed' = 0 /\ hatch' = hatch
        /\ refusals' = refusals + 1 /\ lease' = lease
    BY <1>2 DEF RefuseHop, Raise, Over
  <2> QED BY <2>1, RetryAssumption
          DEF TransportInv, InFlight, Pinned, Dialled, Kept, Caused, Unsafe, Deadline, Hops
<1>3. ASSUME NEW all \in Resolutions, NEW a \in Addresses, Pin(all, a)
      PROVE  TransportInv'
  BY <1>3 DEF Pin, vars, wire, TransportInv, InFlight, Pinned, Dialled, Kept, Caused,
              Unsafe, Deadline
<1>4. CASE Unresolved
  <2>1. Dialled' /\ hop # "none" /\ refusals' = refusals /\ posts' = posts
    BY <1>4 DEF Unresolved, wire, ComesBack, Over, TransportInv, Dialled, Unsafe
  <2> QED BY <1>4, <2>1, ComesBackKeeps DEF Unresolved
<1>5. ASSUME NEW o, NEW d, Dials, ComesBack(o, d)
      PROVE  TransportInv'
  <2>1. Dialled' /\ hop # "none" /\ refusals' = refusals
    BY <1>5, DialsKeep DEF Dials, ComesBack, Over
  <2>2. posts' = posts \/ (followed = 0 /\ posts' = posts + 1)
    BY <1>5 DEF Dials, TransportInv, Kept
  <2> QED BY <1>5, <2>1, <2>2, ComesBackKeeps
<1>6. ASSUME NEW d \in 0 .. Timeout, NEW to \in Hosts, Redirect(to, d)
      PROVE  TransportInv'
  <2>1. /\ hop = "dial" /\ hop' = "pin" /\ followed' = followed + 1
        /\ followed < MaxRedirects /\ UNCHANGED <<vars, hatch, refusals>>
        /\ posts' = posts + IF followed = 0 THEN 1 ELSE 0
    BY <1>6 DEF Redirect, Dials
  <2>2. Dialled'
    BY <1>6, <2>1, DialsKeep DEF Redirect
  <2>3. InFlight' /\ Pinned' /\ Caused'
    BY <2>1, RetryAssumption
       DEF vars, TransportInv, InFlight, Pinned, Caused, Deadline, Hops
  <2>4. Kept'
    BY <2>1, RetryAssumption DEF vars, TransportInv, Kept, InFlight, Hops
  <2> QED BY <2>2, <2>3, <2>4 DEF TransportInv
<1>7. CASE Between
  BY <1>7, LoopKeeps DEF Between
<1>8. CASE Drift /\ UNCHANGED <<hatch, request, wire>>
  BY <1>8, LoopKeeps
<1>9. CASE UNCHANGED transportVars
  BY <1>9 DEF transportVars, vars, request, wire, TransportInv, InFlight, Pinned,
              Dialled, Kept, Caused, Unsafe, Deadline
<1> QED BY <1>1, <1>2, <1>3, <1>4, <1>5, <1>6, <1>7, <1>8, <1>9
        DEF TransportNext, Hop, Answer, TooManyRedirects

\* The invariant holds in every behaviour.
LEMMA TransportInductive == TransportSpec => []TransportInv
BY TransportInitInv, TransportStep, PTL DEF TransportSpec

-----------------------------------------------------------------------------
(* The theorems *)

\* Hop by hop, one outer attempt is the loop InnerRetry accounts for.
THEOREM ImplementsInnerRetry == TransportSpec => IsTheInnerRetry
<1>1. TransportInit => Init
  BY DEF TransportInit
<1>2. TransportInv => InFlight
  BY DEF TransportInv
<1> QED BY <1>1, <1>2, LayerStep, TransportInductive, PTL
        DEF TransportSpec, IsTheInnerRetry

\* So it ends inside the lease and one timeout for each redirect, too.
THEOREM HopsInsideTheLease == TransportSpec => []FinishesInsideLease
<1>1. IndInv => FinishesInsideLease
  BY InsideIsHome
<1> QED BY <1>1, IndInit, IndStep, ImplementsInnerRetry, PTL DEF IsTheInnerRetry

\* What a request has taken is within a timeout for each hop behind it, and
\* what is dialled is an address.
Hopping ==
    /\ host \in IF hop = "dial" THEN Addresses ELSE Hosts
    /\ spent \in Nat /\ spent <= Timeout * followed

\* Every step of the layer keeps a request's time.
LEMMA HoppingStep ==
    TransportInv /\ Hopping /\ [TransportNext]_transportVars => Hopping'
<1> SUFFICES ASSUME TransportInv, Hopping, [TransportNext]_transportVars
             PROVE  Hopping'
  OBVIOUS
<1>1. CASE Over
  BY <1>1, TransportAssumption, RetryAssumption DEF Over, Hopping, Hosts
<1>2. CASE UNCHANGED request
  BY <1>2 DEF request, Hopping
<1>3. CASE Post
  BY <1>3 DEF Post, Hopping, TransportInv, InFlight, Hosts
<1>4. ASSUME NEW all \in Resolutions, NEW a \in Addresses, Pin(all, a)
      PROVE  Hopping'
  BY <1>4 DEF Pin, Hopping
<1>5. ASSUME NEW d \in 0 .. Timeout, NEW to \in Hosts, Redirect(to, d)
      PROVE  Hopping'
  <2>1. /\ followed \in Nat /\ followed' = followed + 1 /\ spent' = spent + d
        /\ host' = to /\ hop' = "pin"
    BY <1>5, RetryAssumption DEF Redirect, TransportInv, InFlight, Hops
  <2>2. Timeout \in Nat /\ d \in Nat /\ d <= Timeout
    BY RetryAssumption
  <2>3. Timeout * (followed + 1) = Timeout * followed + Timeout
    BY <2>1, <2>2
  <2> QED BY <2>1, <2>2, <2>3 DEF Hopping
<1> QED BY <1>1, <1>2, <1>3, <1>4, <1>5
        DEF TransportNext, Hop, RefuseHop, Unresolved, Answer, TooManyRedirects, ComesBack,
            Between, transportVars

\* Every variable keeps to its type: the redirect budget and the time of a
\* request are kept to.
THEOREM TransportTypes == TransportSpec => []TransportTypeOK
<1>1. TransportInit => Hopping
  BY TransportAssumption, RetryAssumption DEF TransportInit, Hopping, Hosts
<1>2. IndInv /\ TransportInv /\ Hopping => TransportTypeOK
  <2> SUFFICES ASSUME IndInv, TransportInv, Hopping PROVE TransportTypeOK
    OBVIOUS
  <2>1. TypeOK
    BY DEF IndInv
  <2>2. /\ hop \in {"none", "pin", "dial"} /\ hatch \in BOOLEAN
        /\ followed \in 0 .. MaxRedirects /\ posts \in Nat /\ refusals \in Nat
        /\ dialled \subseteq Addresses
    BY DEF TransportInv, InFlight, Kept, Dialled, Hops
  <2>3. spent \in 0 .. Timeout * followed
    BY <2>2, RetryAssumption DEF Hopping
  <2> QED BY <2>1, <2>2, <2>3 DEF Hopping, TransportTypeOK
<1>3. TransportSpec => []Hopping
  BY <1>1, HoppingStep, TransportInductive, PTL DEF TransportSpec
<1> QED BY <1>2, <1>3, IndInit, IndStep, ImplementsInnerRetry, TransportInductive, PTL
        DEF IsTheInnerRetry

\* Whatever a resolver answers and wherever a redirect leads, no connection
\* is made to an address the policy refuses.
THEOREM OnlySafeIsDialled == TransportSpec => []DialsOnlySafe
<1>1. TransportInv => DialsOnlySafe
  <2> SUFFICES ASSUME TransportInv, NEW a \in dialled
               PROVE  Kinds[a] = {} \/ (hatch /\ Kinds[a] \cap Never = {})
    BY DEF DialsOnlySafe
  <2>1. a \in Addresses /\ ~Unsafe(a) /\ hatch \in BOOLEAN
    BY DEF TransportInv, Dialled, InFlight
  <2>2. Kinds[a] \subseteq Never \cup Local
    BY <2>1 DEF TransportAssumption
  <2>3. CASE hatch
    BY <2>1, <2>3 DEF Unsafe
  <2>4. CASE ~hatch
    BY <2>1, <2>2, <2>4 DEF Unsafe
  <2> QED BY <2>3, <2>4
<1> QED BY <1>1, TransportInductive, PTL

\* The outer attempt raises exactly when the lease has no room or a hop was
\* refused, and no request follows the refusal.
THEOREM RaisedForCause == TransportSpec => []RaisesForCause
<1>1. TransportInv => RaisesForCause
  BY RetryAssumption
     DEF TransportInv, Caused, RaisesForCause, Deadline
<1> QED BY <1>1, TransportInductive, PTL

\* A refused redirect is the only way the outcome of a request is lost.
THEOREM HistoryKept == TransportSpec => []HistoryIsWhole
<1>1. TransportInv => HistoryIsWhole
  BY DEF TransportInv, Kept, InFlight, HistoryIsWhole
<1> QED BY <1>1, TransportInductive, PTL

-----------------------------------------------------------------------------
(* That an outer attempt comes to an end, hop by hop *)

\* The loop's invariants hold of the layer.
LEMMA LayerKeepsTheLoop == TransportSpec => [](TypeOK /\ Slept)
<1>1. Init => Slept
  BY DEF Init, Slept
<1>2. IndInv => TypeOK
  BY DEF IndInv
<1> QED BY <1>1, <1>2, SleptStep, IndInit, IndStep, ImplementsInnerRetry, PTL
        DEF IsTheInnerRetry

\* What is left of the request in flight: a pin and a dial for each redirect
\* that may still come, or the whole of the next request.
HopsLeft ==
    IF hop = "none" THEN 2 * MaxRedirects + 3
    ELSE 2 * (MaxRedirects - followed) + IF hop = "pin" THEN 2 ELSE 1

\* No request is longer than this.
PerRequest == 2 * MaxRedirects + 4

\* The product of two numbers is a number.
LEMMA ProductIsNat ==
    ASSUME NEW p \in Nat, NEW q \in Nat
    PROVE  p * q \in Nat /\ \A r \in Nat : p * q + r \in Nat
OBVIOUS

\* A step of the loop leaves less, whatever it does to the request.
LEMMA StepsShrink ==
    ASSUME NEW p \in Nat, NEW old \in Nat, NEW new \in Nat, new < old,
           NEW b \in Nat, NEW c \in Nat, c < p
    PROVE  p * new + c < p * old + b
<1>1. PICK k \in Nat : old = new + k + 1
  <2>1. old - new - 1 \in Nat /\ old = new + (old - new - 1) + 1
    OBVIOUS
  <2> QED BY <2>1
<1>2. p * old = p * new + p * k + p
  BY <1>1
<1>3. p * new \in Nat /\ p * k \in Nat
  BY <1>1
<1> QED BY <1>2, <1>3

\* Every step of a request, and every step between two, brings the outer
\* attempt nearer to its end: no redirect loop, no resolver and no sequence of
\* answers keeps it going.  (That the worker keeps stepping is fairness.)
THEOREM NearerTheEndHopByHop ==
    TransportSpec =>
        [][Hop \/ Between =>
              /\ (PerRequest * Left + HopsLeft)' \in Nat
              /\ (PerRequest * Left + HopsLeft)' < PerRequest * Left + HopsLeft]_transportVars
<1> DEFINE Nearer == /\ (PerRequest * Left + HopsLeft)' \in Nat
                     /\ (PerRequest * Left + HopsLeft)' < PerRequest * Left + HopsLeft
<1>1. ASSUME TypeOK, Slept, TransportInv, Hop \/ Between
      PROVE  Nearer
  <2>1. /\ PerRequest \in Nat /\ MaxRedirects \in Nat /\ followed \in Nat
        /\ followed <= MaxRedirects
        /\ hop \in {"none", "pin", "dial"} /\ (hop # "none" => pc = "attempt")
        /\ Left \in Nat /\ HopsLeft \in Nat
    BY <1>1, LeftIsNat, RetryAssumption
       DEF PerRequest, HopsLeft, TransportInv, InFlight, Hops
  <2>2. PerRequest' = PerRequest
    BY DEF PerRequest
  <2> HIDE DEF PerRequest
  <2>3. ASSUME Loop, hop' = "none" PROVE Nearer
    <3>1. Left' \in Nat /\ Left' < Left
      BY <1>1, <2>3, LessIsLeft
    <3>2. HopsLeft' \in Nat /\ HopsLeft' < PerRequest
      BY <2>1, <2>3 DEF HopsLeft, PerRequest
    <3>3. PerRequest * Left' + HopsLeft' < PerRequest * Left + HopsLeft
      BY <2>1, <3>1, <3>2, StepsShrink
    <3>4. PerRequest * Left' + HopsLeft' \in Nat
      BY <2>1, <3>1, <3>2, ProductIsNat
    <3> QED BY <2>2, <3>3, <3>4
  <2>4. ASSUME UNCHANGED vars, HopsLeft' \in Nat, HopsLeft' < HopsLeft PROVE Nearer
    <3>1. Left' = Left
      BY <2>4 DEF vars, Left
    <3>2. PerRequest' * Left' + HopsLeft' = PerRequest * Left + HopsLeft'
      BY <2>2, <3>1
    <3>3. PerRequest * Left \in Nat
      BY <2>1, ProductIsNat
    <3>4. /\ PerRequest * Left + HopsLeft' \in Nat
          /\ PerRequest * Left + HopsLeft' < PerRequest * Left + HopsLeft
      <4>1. \A x, y, z \in Nat : z < y => x + z \in Nat /\ x + z < x + y
        OBVIOUS
      <4> QED BY <2>1, <2>4, <3>3, <4>1, Zenon
    <3> QED BY <3>2, <3>4
  <2>5. CASE Post
    BY <1>1, <2>1, <2>4, <2>5 DEF Post, HopsLeft, TransportInv, InFlight
  <2>6. ASSUME NEW all \in Resolutions, RefuseHop(all) PROVE Nearer
    BY <2>1, <2>3, <2>6 DEF RefuseHop, Over, Loop, Hops
  <2>7. ASSUME NEW all \in Resolutions, NEW a \in Addresses, Pin(all, a)
        PROVE  Nearer
    BY <2>1, <2>4, <2>7 DEF Pin, HopsLeft
  <2>8. ASSUME NEW s \in Statuses \cup {NoAnswer}, NEW named \in BOOLEAN, NEW d,
               ComesBack(Outcome(s, named), d)
        PROVE  Nearer
    BY <2>1, <2>3, <2>8 DEF ComesBack, Over, Loop, Hops
  <2>9. ASSUME NEW d \in 0 .. Timeout, NEW to \in Hosts, Redirect(to, d)
        PROVE  Nearer
    BY <2>1, <2>4, <2>9 DEF Redirect, Dials, HopsLeft
  <2>10. CASE Between
    <3>1. Loop /\ hop' = "none"
      BY <2>10 DEF Between, Loop, request
    <3> QED BY <2>3, <3>1
  <2> QED BY <1>1, <2>5, <2>6, <2>7, <2>8, <2>9, <2>10
          DEF Hop, Unresolved, Answer, TooManyRedirects
<1> HIDE DEF Nearer
<1>2. TypeOK /\ Slept /\ TransportInv /\ [TransportNext]_transportVars
          => [Hop \/ Between => Nearer]_transportVars
  BY <1>1
<1>3. TransportSpec => [][Hop \/ Between => Nearer]_transportVars
  BY <1>2, LayerKeepsTheLoop, TransportInductive, PTL DEF TransportSpec
<1> QED BY <1>3 DEF Nearer
=============================================================================
