----------------------------- MODULE InnerRetry -----------------------------
(***************************************************************************)
(* The inner retry tier: the requests one worker makes for one outer       *)
(* attempt of one delivery, in the time its lease on the row allows.       *)
(* Time is counted in ticks from the moment the lease was taken.  Drift is *)
(* the time that passes outside the requests and the sleeps: rendering,    *)
(* scheduling, clock skew, the substrate's bookkeeping.                    *)
(***************************************************************************)
EXTENDS Integers

CONSTANTS
    Leases,     \* the values DELIVERY_LEASE_SECONDS may have
    Timeout,    \* TIMEOUT_SECONDS
    Margin,     \* LEASE_MARGIN_SECONDS
    Base,       \* INNER_BACKOFF_BASE_SECONDS
    Statuses,   \* the statuses an endpoint may answer
    NoAnswer,   \* a transport error
    MaxRedirects,  \* MAX_REDIRECTS
    MaxDrift       \* bound: ticks of drift in one outer attempt

ASSUME RetryAssumption ==
    /\ Leases \subseteq Nat
    /\ Timeout \in Nat /\ Margin \in Nat
    /\ Base \in Nat \ {0}
    /\ Statuses \subseteq Nat /\ NoAnswer \notin Nat
    /\ MaxRedirects \in Nat /\ MaxDrift \in Nat

VARIABLES
    lease,      \* the lease this attempt runs under
    pc,
    clock,      \* ticks since the lease was taken
    begun,      \* the tick at which the retry loop began
    ended,      \* the tick at which the last outcome came back
    wait,       \* the sleep wait_exponential would ask for next
    requests,   \* requests made, the length of history
    last,       \* the last outcome
    hops,       \* redirects the client followed on the way to it
    drift

vars == <<lease, pc, clock, begun, ended, wait, requests, last, hops, drift>>

\* What one attempt can come back as.  "later" is an answer that names a time
\* in Retry-After; "retry" every other retryable answer and transport error.
Outcomes == {"succeeded", "permanent", "retry", "later"}

\* classify_response: a status, or a transport error, that means "later".
Retryable(status) == status = NoAnswer \/ status \in {408, 429} \cup 500 .. 599

\* What send_once makes of a status, and of a Retry-After that can be read,
\* which is honoured on two statuses only.
Outcome(status, named) ==
    CASE Retryable(status) ->
            IF named /\ status \in {429, 503} THEN "later" ELSE "retry"
      [] ~Retryable(status) ->
            IF status \in 200 .. 299 THEN "succeeded" ELSE "permanent"

\* The client follows so many redirects and calls more of them an error.
Hops == 0 .. MaxRedirects

\* A mutant: the request after the last sleep is forgotten.
DeadlineWithoutTimeout == lease - Margin

\* lease_deadline: the elapsed time after which no attempt may start.
Deadline == lease - Timeout - Margin

Init ==
    /\ lease \in Leases
    /\ pc = "policy"
    /\ clock = 0
    /\ begun = 0
    /\ ended = 0
    /\ wait = Base
    /\ requests = 0
    /\ last = "none"
    /\ hops = 0
    /\ drift = 0

\* lease_deadline refuses a lease that cannot hold one request and the margin.
Refuse ==
    /\ pc = "policy"
    /\ Deadline <= 0
    /\ pc' = "refused"
    /\ UNCHANGED <<lease, clock, begun, ended, wait, requests, last, hops, drift>>

Begin ==
    /\ pc = "policy"
    /\ Deadline > 0
    /\ begun' = clock
    /\ pc' = "attempt"
    /\ UNCHANGED <<lease, clock, ended, wait, requests, last, hops, drift>>

\* A mutant: an endpoint that named its own time is retried all the same.
AttemptAnyRetry(o, h) ==
    /\ pc = "attempt"
    /\ \E d \in 0 .. Timeout * (h + 1) : clock' = clock + d
    /\ ended' = clock'
    /\ requests' = requests + 1
    /\ last' = o
    /\ hops' = h
    /\ pc' = IF o \in {"retry", "later"} THEN "waiting" ELSE "done"
    /\ UNCHANGED <<lease, begun, wait, drift>>

\* A mutant: history is kept for the retry loop, and an answer ends it first.
AttemptForgetsAnswers(o, h) ==
    /\ pc = "attempt"
    /\ \E d \in 0 .. Timeout * (h + 1) : clock' = clock + d
    /\ ended' = clock'
    /\ requests' = IF o = "retry" THEN requests + 1 ELSE requests
    /\ last' = o
    /\ hops' = h
    /\ pc' = IF o = "retry" THEN "waiting" ELSE "done"
    /\ UNCHANGED <<lease, begun, wait, drift>>

\* send_once comes back as o after h redirects.  Each hop is a request of its
\* own through the same transport and may last a whole timeout.  Only an
\* outcome that is retryable and names no time of its own goes round again.
Attempt(o, h) ==
    /\ pc = "attempt"
    /\ \E d \in 0 .. Timeout * (h + 1) : clock' = clock + d
    /\ ended' = clock'
    /\ requests' = requests + 1
    /\ last' = o
    /\ hops' = h
    /\ pc' = IF o = "retry" THEN "waiting" ELSE "done"
    /\ UNCHANGED <<lease, begun, wait, drift>>

\* send_once raises what is not a transport error (an unsafe destination, at
\* the first hop or after h redirects), and tenacity lets it through.
Raise(h) ==
    /\ pc = "attempt"
    /\ \E d \in 0 .. Timeout * h : clock' = clock + d
    /\ hops' = h
    /\ pc' = "raised"
    /\ UNCHANGED <<lease, begun, ended, wait, requests, last, drift>>

\* stop_before_delay, which reads the time of the last outcome: the next
\* sleep would end at the deadline or after it.
OutOfTime == ended - begun + wait >= Deadline

GiveUp ==
    /\ pc = "waiting"
    /\ OutOfTime
    /\ pc' = "done"
    /\ UNCHANGED <<lease, clock, begun, ended, wait, requests, last, hops, drift>>

\* A mutant: every sleep is as long as the first (wait_fixed).
SleepEvenly ==
    /\ pc = "waiting"
    /\ ~OutOfTime
    /\ clock' = clock + wait
    /\ pc' = "attempt"
    /\ UNCHANGED <<lease, begun, ended, wait, requests, last, hops, drift>>

Sleep ==
    /\ pc = "waiting"
    /\ ~OutOfTime
    /\ clock' = clock + wait
    /\ wait' = 2 * wait
    /\ pc' = "attempt"
    /\ UNCHANGED <<lease, begun, ended, requests, last, hops, drift>>

Drift ==
    /\ pc \notin {"done", "refused", "raised"}
    /\ drift < MaxDrift
    /\ drift' = drift + 1
    /\ clock' = clock + 1
    /\ UNCHANGED <<lease, pc, begun, ended, wait, requests, last, hops>>

Loop ==
    \/ Refuse
    \/ Begin
    \/ \E s \in Statuses \cup {NoAnswer}, named \in BOOLEAN, h \in Hops :
          Attempt(Outcome(s, named), h)
    \/ \E h \in Hops : Raise(h)
    \/ GiveUp
    \/ Sleep

Next == Loop \/ Drift

\* The worker keeps running; how long anything takes is not its choice.
Spec == Init /\ [][Next]_vars /\ WF_vars(Loop)

-----------------------------------------------------------------------------
(* Properties *)

\* Every variable keeps to its type.
TypeOK ==
    /\ lease \in Leases
    /\ pc \in {"policy", "attempt", "waiting", "done", "refused", "raised"}
    /\ clock \in Nat /\ begun \in Nat /\ ended \in Nat
    /\ wait \in Nat \ {0}
    /\ requests \in Nat
    /\ last \in Outcomes \cup {"none"}
    /\ hops \in Hops
    /\ drift \in 0 .. MaxDrift

\* The whole loop, its last request included, ends inside the lease and one
\* timeout for each redirect of that request, if the drift stays inside the
\* margin: the arithmetic of lease_deadline with stop_before_delay, over every
\* sequence of answers, durations and earlier redirects.
FinishesInsideLease ==
    pc \in {"waiting", "done", "raised"} /\ drift <= Margin
        => clock <= lease + Timeout * hops

\* What lease_deadline says of the loop: with the drift inside the margin no
\* request runs past the lease.
NeverOutlivesTheLease ==
    pc \in {"waiting", "done", "raised"} /\ drift <= Margin => clock <= lease

\* A request follows only an outcome the inner tier may retry: a success, a
\* permanent refusal and a named Retry-After each end the outer attempt.
NothingFollowsAnAnswer ==
    [][requests' > requests => last \in {"none", "retry"}]_vars

\* The sleeps before the last request, Base doubled pow times over, are short
\* of the deadline.
SleepsFit(pow) == requests > 0 => Base * (pow[requests - 1] - 1) < Deadline

\* One outer attempt makes no more requests than doubling sleeps fit into its
\* lease, however fast the endpoint refuses: what the inner tier may cost a
\* customer each time the outer one tries, with no other limit on it ("doubles
\* from there, capped by the deadline", settings.py, and the two numbers of
\* DeliveryAttempt that multiply).
RequestsFitTheLease == SleepsFit([n \in 0 .. requests |-> 2 ^ n])

\* The loop ends, whatever the endpoint answers.
Ends == <>(pc \in {"done", "refused", "raised"})
=============================================================================
