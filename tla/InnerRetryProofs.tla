-------------------------- MODULE InnerRetryProofs --------------------------
(***************************************************************************)
(* The lease arithmetic for every lease, timeout, margin and backoff base, *)
(* every number of redirects and every sequence of answers and durations.  *)
(* No attempt starts at or past the deadline, give or take the drift so    *)
(* far (Early), because the drift accounts for all the time the loop's own *)
(* clock does not see (Unseen); so an attempt comes back less than a       *)
(* timeout past it for each of its hops (Home).                            *)
(***************************************************************************)
EXTENDS InnerRetry, TLAPS

USE RetryAssumption

Unseen ==
    /\ begun <= drift
    /\ pc = "policy" => clock <= drift
    /\ pc = "waiting" => clock - ended + begun <= drift

Early == pc = "attempt" => clock < Deadline + drift

Home ==
    pc \in {"waiting", "done", "raised"}
        => clock < lease - Margin + drift + Timeout * hops

IndInv == TypeOK /\ Unseen /\ Early /\ Home

\* Whatever an endpoint answers is one of the four outcomes.
LEMMA OutcomeType ==
    ASSUME NEW status, NEW named \in BOOLEAN
    PROVE  Outcome(status, named) \in Outcomes
BY DEF Outcome, Outcomes

\* An attempt that has not begun satisfies the inductive invariant.
LEMMA IndInit == Init => IndInv
BY DEF Init, IndInv, TypeOK, Unseen, Early, Home, RetryAssumption, Outcomes, Hops

\* Every step of the loop, and every tick of drift, keeps it.
LEMMA IndStep == IndInv /\ [Next]_vars => IndInv'
<1> SUFFICES ASSUME IndInv, [Next]_vars PROVE IndInv'
  OBVIOUS
<1>1. /\ TypeOK
      /\ lease \in Nat /\ Margin \in Nat /\ Timeout \in Nat
      /\ Deadline \in Int /\ Deadline = lease - Timeout - Margin
  BY DEF IndInv, TypeOK, RetryAssumption, Deadline
<1> USE DEF IndInv, TypeOK, Unseen, Early, Home, RetryAssumption, Hops
<1>2. CASE Refuse
  BY <1>1, <1>2 DEF Refuse, Deadline
<1>3. CASE Begin
  BY <1>1, <1>3 DEF Begin, Deadline
<1>4. ASSUME NEW o \in Outcomes, NEW h \in Hops, Attempt(o, h)
      PROVE  IndInv'
  <2>1. PICK d \in 0 .. Timeout * (h + 1) : clock' = clock + d
    BY <1>4 DEF Attempt
  <2>2. d \in Nat /\ h \in Nat /\ Timeout * h \in Nat /\ d <= Timeout * h + Timeout
    BY <1>1, <2>1
  <2>3. TypeOK'
    BY <1>1, <1>4, <2>1, <2>2 DEF Attempt
  <2>4. Unseen' /\ Early'
    BY <1>1, <1>4, <2>1, <2>2 DEF Attempt
  <2>5. Home'
    BY <1>1, <1>4, <2>1, <2>2 DEF Attempt
  <2> QED BY <2>3, <2>4, <2>5
<1>5. ASSUME NEW h \in Hops, Raise(h)
      PROVE  IndInv'
  <2>1. PICK d \in 0 .. Timeout * h : clock' = clock + d
    BY <1>5 DEF Raise
  <2>2. d \in Nat /\ Timeout * h \in Nat /\ d <= Timeout * h
    BY <1>1, <2>1
  <2> QED BY <1>1, <1>5, <2>1, <2>2 DEF Raise, Deadline
<1>6. CASE GiveUp
  BY <1>1, <1>6 DEF GiveUp, Deadline
<1>7. CASE Sleep
  <2>1. ended - begun + wait < Deadline
    BY <1>1, <1>7 DEF Sleep, OutOfTime
  <2> QED BY <1>1, <1>7, <2>1 DEF Sleep, Deadline
<1>8. CASE Drift
  BY <1>1, <1>8 DEF Drift, Deadline
<1>9. CASE UNCHANGED vars
  BY <1>1, <1>9 DEF vars, Deadline
<1> QED BY <1>2, <1>3, <1>4, <1>5, <1>6, <1>7, <1>8, <1>9, OutcomeType DEF Next, Loop

\* Types, and the invariant the lease arithmetic rests on.
THEOREM Inductive == Spec => []IndInv
BY IndInit, IndStep, PTL DEF Spec

\* Every variable of the loop keeps to its type.
THEOREM LoopTypes == Spec => []TypeOK
<1>1. IndInv => TypeOK
  BY DEF IndInv
<1> QED BY <1>1, Inductive, PTL

\* Home, with the drift inside the margin, is inside the lease.
LEMMA InsideIsHome == IndInv => FinishesInsideLease
<1> SUFFICES ASSUME IndInv PROVE FinishesInsideLease
  OBVIOUS
<1>1. Timeout * hops \in Nat
  BY DEF IndInv, TypeOK, RetryAssumption, Hops
<1> QED BY <1>1 DEF IndInv, TypeOK, Home, FinishesInsideLease, RetryAssumption

\* The inner tier ends inside the lease and one timeout for each redirect of
\* its last request, whatever the endpoint answers and however long it takes,
\* if the drift stays inside the margin.
THEOREM InsideTheLease == Spec => []FinishesInsideLease
BY InsideIsHome, Inductive, PTL

\* Without a redirect in it, the last request ends inside the lease: a
\* followed redirect is the only way a loop whose drift stays inside the
\* margin outlives its lease.
THEOREM OnlyRedirectsOutlive == Spec => [](hops = 0 => NeverOutlivesTheLease)
<1>1. FinishesInsideLease /\ TypeOK => (hops = 0 => NeverOutlivesTheLease)
  BY RetryAssumption DEF FinishesInsideLease, NeverOutlivesTheLease, TypeOK
<1>2. IndInv => TypeOK
  BY DEF IndInv
<1> QED BY <1>1, <1>2, InsideTheLease, Inductive, PTL

-----------------------------------------------------------------------------
(* How many requests, and that the loop comes to an end *)

\* The time the loop's clock has seen is at least all the sleeps so far,
\* which add up to one base less than the next; and no attempt is entered
\* whose sleeps have used the deadline up.
Slept ==
    /\ pc = "policy" => wait = Base
    /\ pc = "attempt" => clock - begun >= wait - Base /\ wait < Deadline + Base
    /\ pc = "waiting" => /\ ended - begun >= wait - Base
                         /\ clock >= ended
                         /\ wait < Deadline + Base

\* Every step keeps the account of the sleeps.
LEMMA SleptStep ==
    ASSUME TypeOK, Slept, [Next]_vars
    PROVE  Slept'
<1>1. /\ lease \in Nat /\ Deadline \in Int /\ Base \in Nat \ {0}
      /\ clock \in Nat /\ begun \in Nat /\ ended \in Nat /\ wait \in Nat \ {0}
  BY RetryAssumption DEF TypeOK, Deadline
<1>2. lease' = lease => Deadline' = Deadline
  BY DEF Deadline
<1> USE DEF Slept
<1>3. CASE Refuse
  BY <1>3 DEF Refuse
<1>4. CASE Begin
  BY <1>1, <1>2, <1>4 DEF Begin
<1>5. ASSUME NEW o, NEW h \in Hops, Attempt(o, h) PROVE Slept'
  <2>1. clock' \in Nat /\ clock' >= clock
    BY <1>1, <1>5, RetryAssumption DEF Attempt, Hops
  <2> QED BY <1>1, <1>2, <1>5, <2>1 DEF Attempt
<1>6. ASSUME NEW h \in Hops, Raise(h) PROVE Slept'
  BY <1>6 DEF Raise
<1>7. CASE GiveUp
  BY <1>7 DEF GiveUp
<1>8. CASE Sleep
  BY <1>1, <1>2, <1>8 DEF Sleep, OutOfTime
<1>9. CASE Drift
  BY <1>1, <1>2, <1>9 DEF Drift
<1>10. CASE UNCHANGED vars
  BY <1>10 DEF vars, Deadline
<1> QED BY <1>3, <1>4, <1>5, <1>6, <1>7, <1>8, <1>9, <1>10 DEF Next, Loop

\* The account holds in every behaviour.
LEMMA SleptHolds == Spec => [](TypeOK /\ Slept)
<1>1. Init => Slept
  BY DEF Init, Slept
<1>2. IndInv => TypeOK
  BY DEF IndInv
<1> QED BY <1>1, <1>2, SleptStep, Inductive, PTL DEF Spec

\* pow is a table of the powers of two.
Doubles(pow) ==
    /\ pow[0] = 1
    /\ \A n \in Nat : pow[n] \in Nat /\ pow[n + 1] = 2 * pow[n]

\* The next sleep is the base doubled once for each request that was retried,
\* and the request before that had room for its sleep.
Doubled(pow) ==
    /\ pc \in {"policy", "attempt"} => wait = Base * pow[requests]
    /\ pc = "waiting" => requests > 0 /\ wait = Base * pow[requests - 1]
    /\ requests > 0 => Base * pow[requests - 1] < Deadline + Base

\* Every step keeps it.
LEMMA DoubledStep ==
    ASSUME NEW pow, Doubles(pow), TypeOK, Slept, Doubled(pow), [Next]_vars
    PROVE  Doubled(pow)'
<1>1. requests \in Nat /\ wait \in Nat /\ Base \in Nat \ {0}
  BY RetryAssumption DEF TypeOK
<1>2. lease' = lease => Deadline' = Deadline
  BY DEF Deadline
<1> USE DEF Doubled
<1>3. CASE Refuse
  BY <1>2, <1>3 DEF Refuse
<1>4. CASE Begin
  BY <1>2, <1>4 DEF Begin
<1>5. ASSUME NEW o, NEW h, Attempt(o, h) PROVE Doubled(pow)'
  <2>1. /\ wait = Base * pow[requests] /\ wait < Deadline + Base
        /\ wait' = wait /\ requests' = requests + 1 /\ Deadline' = Deadline
        /\ pc' \in {"waiting", "done"}
    BY <1>2, <1>5 DEF Attempt, Slept
  <2>2. requests' > 0 /\ requests' - 1 = requests
    BY <1>1, <2>1
  <2> QED BY <2>1, <2>2
<1>6. ASSUME NEW h, Raise(h) PROVE Doubled(pow)'
  BY <1>2, <1>6 DEF Raise
<1>7. CASE GiveUp
  BY <1>2, <1>7 DEF GiveUp
<1>8. CASE Sleep
  <2>1. /\ wait = Base * pow[requests - 1] /\ requests > 0
        /\ wait' = 2 * wait /\ requests' = requests /\ Deadline' = Deadline
        /\ pc' = "attempt"
    BY <1>2, <1>8 DEF Sleep
  <2>2. requests - 1 \in Nat /\ (requests - 1) + 1 = requests
    BY <1>1, <2>1
  <2>3. pow[requests - 1] \in Nat /\ pow[requests] = 2 * pow[requests - 1]
    BY <2>2 DEF Doubles
  <2>4. 2 * (Base * pow[requests - 1]) = Base * (2 * pow[requests - 1])
    BY <1>1, <2>3
  <2> QED BY <2>1, <2>3, <2>4
<1>9. CASE Drift
  BY <1>2, <1>9 DEF Drift
<1>10. CASE UNCHANGED vars
  BY <1>10 DEF vars, Deadline
<1> QED BY <1>3, <1>4, <1>5, <1>6, <1>7, <1>8, <1>9, <1>10 DEF Next, Loop

\* One outer attempt makes no more requests than doubling sleeps fit into the
\* lease: after n of them, base * (2^(n - 1) - 1) ticks of sleep lie behind it
\* and those are fewer than the deadline, however fast the endpoint answers.
THEOREM RequestsAreFew ==
    ASSUME NEW pow, Doubles(pow)
    PROVE  Spec => []SleepsFit(pow)
<1>1. Init => Doubled(pow)
  BY RetryAssumption DEF Init, Doubled, Doubles
<1>2. TypeOK /\ Slept /\ Doubled(pow) /\ [Next]_vars => Doubled(pow)'
  BY DoubledStep
<1>3. TypeOK /\ Doubled(pow) => SleepsFit(pow)
  <2> SUFFICES ASSUME TypeOK, Doubled(pow), requests > 0
               PROVE  Base * (pow[requests - 1] - 1) < Deadline
    BY DEF SleepsFit
  <2>1. requests - 1 \in Nat /\ Base \in Nat /\ Deadline \in Int
    BY RetryAssumption DEF TypeOK, Deadline
  <2>2. pow[requests - 1] \in Nat
    BY <2>1 DEF Doubles
  <2>3. Base * (pow[requests - 1] - 1) = Base * pow[requests - 1] - Base
    BY <2>1, <2>2
  <2>4. Base * pow[requests - 1] \in Nat
    BY <2>1, <2>2
  <2> QED BY <2>1, <2>3, <2>4 DEF Doubled
<1> QED BY <1>1, <1>2, <1>3, SleptHolds, PTL DEF Spec

\* What is left of the loop: two steps for each sleep that may still fit,
\* and those on the way to the next.
StepsTo == [policy |-> 3, attempt |-> 2, waiting |-> 1]
Left ==
    IF pc \in {"done", "refused", "raised"} THEN 0
    ELSE 2 * (lease + Base - wait) + StepsTo[pc]

\* What is left is a number, and not zero before the end.
LEMMA LeftIsNat ==
    ASSUME TypeOK, Slept
    PROVE  Left \in Nat /\ (Left = 0 => pc \in {"done", "refused", "raised"})
BY RetryAssumption DEF TypeOK, Slept, Deadline, Left, StepsTo

\* Every step of the loop leaves less.
LEMMA LessIsLeft ==
    ASSUME TypeOK, Slept, Loop
    PROVE  Left' \in Nat /\ Left' < Left
<1>1. /\ lease \in Nat /\ Base \in Nat \ {0} /\ wait \in Nat \ {0}
      /\ begun \in Nat /\ ended \in Nat
      /\ Deadline \in Int /\ Deadline <= lease
  BY RetryAssumption DEF TypeOK, Deadline
<1>2. Left \in Nat
  BY LeftIsNat
<1> USE DEF Left, StepsTo, Slept
<1>3. CASE Refuse
  BY <1>1, <1>2, <1>3 DEF Refuse
<1>4. CASE Begin
  BY <1>1, <1>2, <1>4 DEF Begin
<1>5. ASSUME NEW o, NEW h, Attempt(o, h) PROVE Left' \in Nat /\ Left' < Left
  BY <1>1, <1>2, <1>5 DEF Attempt
<1>6. ASSUME NEW h, Raise(h) PROVE Left' \in Nat /\ Left' < Left
  BY <1>1, <1>2, <1>6 DEF Raise
<1>7. CASE GiveUp
  BY <1>1, <1>2, <1>7 DEF GiveUp
<1>8. CASE Sleep
  <2>1. 2 * wait < Deadline + Base
    BY <1>1, <1>8 DEF Sleep, OutOfTime
  <2> QED BY <1>1, <1>2, <1>8, <2>1 DEF Sleep
<1> QED BY <1>3, <1>4, <1>5, <1>6, <1>7, <1>8 DEF Loop

\* Every step of the loop brings it nearer to its end, by a measure that is
\* fixed when the attempt begins, whatever the endpoint answers and however
\* long it takes.  (That the loop keeps stepping is fairness.)
THEOREM NearerTheEnd == Spec => [][Loop => Left' \in Nat /\ Left' < Left]_vars
<1>1. TypeOK /\ Slept /\ [Next]_vars => [Loop => Left' \in Nat /\ Left' < Left]_vars
  BY LessIsLeft
<1> QED BY <1>1, SleptHolds, PTL DEF Spec

-----------------------------------------------------------------------------
(* What the loop retries *)

\* The loop is at a request only on the way in or after a retryable outcome.
Turns ==
    /\ pc = "policy" => last = "none"
    /\ pc = "attempt" => last \in {"none", "retry"}
    /\ pc = "waiting" => last = "retry"

\* Every step keeps the loop's turns.
LEMMA TurnsStep == Turns /\ [Next]_vars => Turns'
<1> SUFFICES ASSUME Turns, [Next]_vars PROVE Turns'
  OBVIOUS
<1> USE DEF Turns
<1>1. CASE Refuse \/ Begin
  BY <1>1 DEF Refuse, Begin
<1>2. ASSUME NEW o \in Outcomes, NEW h \in Hops, Attempt(o, h)
      PROVE  Turns'
  BY <1>2 DEF Attempt
<1>3. CASE GiveUp \/ Sleep \/ \E h \in Hops : Raise(h)
  BY <1>3 DEF GiveUp, Sleep, Raise
<1>4. CASE Drift
  BY <1>4 DEF Drift
<1>5. CASE UNCHANGED vars
  BY <1>5 DEF vars
<1> QED BY <1>1, <1>2, <1>3, <1>4, <1>5, OutcomeType DEF Next, Loop

\* The turns hold in every behaviour.
LEMMA TurnsHold == Spec => []Turns
<1>1. Init => Turns
  BY DEF Init, Turns
<1> QED BY <1>1, TurnsStep, PTL DEF Spec

\* No request follows an outcome the inner tier may not retry.
THEOREM AnswersAreFinal == Spec => NothingFollowsAnAnswer
<1>1. TypeOK /\ Turns /\ [Next]_vars
          => [requests' > requests => last \in {"none", "retry"}]_vars
  <2> SUFFICES ASSUME TypeOK, Turns, Next, requests' > requests
               PROVE  last \in {"none", "retry"}
    BY DEF vars
  <2>1. requests' # requests
    BY DEF TypeOK
  <2>2. pc = "attempt"
    BY <2>1 DEF Next, Loop, Refuse, Begin, Attempt, Raise, GiveUp, Sleep,
                  Drift
  <2> QED BY <2>2 DEF Turns
<1>2. IndInv => TypeOK
  BY DEF IndInv
<1> QED BY <1>1, <1>2, Inductive, TurnsHold, PTL DEF Spec, NothingFollowsAnAnswer
=============================================================================
