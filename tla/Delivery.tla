------------------------------ MODULE Delivery ------------------------------
(***************************************************************************)
(* The outer tier: workers that claim the delivery rows owed to one        *)
(* endpoint, run deliver_due on them inside the transaction that carries   *)
(* the acknowledgement, and run the failure hook after it was rolled back. *)
(* The relay, its rows, leases and attempt budget belong to the substrate  *)
(* (django_domain_events) and are modelled from how this package uses it.  *)
(*                                                                         *)
(* sent, landed, lost, noted and dropped are history that only properties  *)
(* read.  The endpoint's health moves by the steps of IncidentContract,    *)
(* whose statements EndpointHealth spells out.                             *)
(***************************************************************************)
EXTENDS Naturals, FiniteSets

CONSTANTS
    Workers, Deliveries, Nobody,
    Threshold, Never,
    Budget,        \* outer attempts before the substrate gives up
    MaxRequests,   \* bound: requests inside one outer attempt
    Unrenderable,  \* deliveries whose frozen format this process lacks
    Refusals,      \* may a request be refused before it is made, or redirected
    MaxStalls,     \* bound: leases that run out under a live worker
    MaxCrashes,    \* bound: workers that die
    MaxActs        \* bound: operator actions

ASSUME DeliveryAssumption ==
    /\ IsFiniteSet(Workers)
    /\ Nobody \notin Workers \cup Deliveries
    /\ Never \notin Nat
    /\ Threshold \in (Nat \ {0}) \cup {Never}
    /\ Budget \in Nat \ {0}
    /\ MaxRequests \in Nat \ {0}
    /\ Unrenderable \subseteq Deliveries
    /\ Refusals \in BOOLEAN
    /\ MaxStalls \in Nat /\ MaxCrashes \in Nat /\ MaxActs \in Nat

VARIABLES
    status, tries, holder,      \* the substrate's delivery rows
    present, row, told,         \* the endpoint, as in IncidentContract
    pc, job,                    \* each worker's place and delivery
    pending,                    \* its pending_attempts context variable
    ending,                     \* the status its failure hook is handed
    logged,                     \* DeliveryAttempt rows of each delivery
    sent, landed, lost, noted, dropped, wasOff,
    stalls, crashes, acts

rows == <<status, tries, holder>>
endpoint == <<present, row, told, wasOff>>
workers == <<pc, job, pending, ending>>
history == <<sent, landed, lost, noted, dropped>>
bounds == <<stalls, crashes, acts>>

vars == <<rows, endpoint, workers, logged, history, bounds>>

\* Where a worker is: in deliver_due, at its end, or in the failure hook.
Places == {"idle", "load", "prepare", "send", "quiet", "record", "raised", "hook", "note"}

\* The stash of one worker: whose attempts they are, and how many so far.
Stashes == [of : Deliveries \cup {Nobody}, requests : 0 .. MaxRequests]

NoPending == [of |-> Nobody, requests |-> 0]

Health == INSTANCE IncidentContract

\* The endpoint is there and switched on.
On == present /\ row.active

Init ==
    /\ status = [d \in Deliveries |-> "owed"]
    /\ tries = [d \in Deliveries |-> 0]
    /\ holder = [d \in Deliveries |-> Nobody]
    /\ Health!Init
    /\ pc = [w \in Workers |-> "idle"]
    /\ job = [w \in Workers |-> Nobody]
    /\ pending = [w \in Workers |-> NoPending]
    /\ ending = [w \in Workers |-> "none"]
    /\ logged = [d \in Deliveries |-> 0]
    /\ sent = [d \in Deliveries |-> 0]
    /\ landed = [d \in Deliveries |-> 0]
    /\ lost = [d \in Deliveries |-> 0]
    /\ noted = [d \in Deliveries |-> 0]
    /\ dropped = {}
    /\ wasOff = FALSE
    /\ stalls = 0
    /\ crashes = 0
    /\ acts = 0

Goes(w, step) == pc' = [pc EXCEPT ![w] = step]

\* The worker is done with its delivery and waits for another.
Rests(w) ==
    /\ Goes(w, "idle")
    /\ job' = [job EXCEPT ![w] = Nobody]
    /\ ending' = [ending EXCEPT ![w] = "none"]

\* f with n more at d, where d may be Nobody.
Add(f, d, n) == [x \in DOMAIN f |-> IF x = d THEN f[x] + n ELSE f[x]]

Clears(w) == pending' = [pending EXCEPT ![w] = NoPending]

\* Requests in a worker's stash that no log row stands for yet.
Unwritten(w) == IF pc[w] = "note" THEN 0 ELSE pending[w].requests

\* The attempts in w's stash are gone for good.
Forgets(w) == lost' = Add(lost, pending[w].of, Unwritten(w))

-----------------------------------------------------------------------------
(* The substrate's relay *)

Claim(w, d) ==
    /\ pc[w] = "idle"
    /\ status[d] = "owed"
    /\ holder[d] = Nobody
    /\ holder' = [holder EXCEPT ![d] = w]
    /\ job' = [job EXCEPT ![w] = d]
    /\ Goes(w, "load")
    /\ UNCHANGED <<status, tries, endpoint, pending, ending, logged, history,
                   bounds>>

\* The lease of a dead worker runs out.
LeaseRunsOut(d) ==
    /\ holder[d] # Nobody
    /\ job[holder[d]] # d
    /\ holder' = [holder EXCEPT ![d] = Nobody]
    /\ UNCHANGED <<status, tries, endpoint, workers, logged, history, bounds>>

\* A lease runs out under a live worker that was too slow, which goes on.
Stall(d) ==
    /\ holder[d] # Nobody
    /\ job[holder[d]] = d
    /\ stalls < MaxStalls
    /\ stalls' = stalls + 1
    /\ holder' = [holder EXCEPT ![d] = Nobody]
    /\ UNCHANGED <<status, tries, endpoint, workers, logged, history, crashes, acts>>

\* A process dies.  Its transaction is rolled back, its memory is gone, and
\* the lease it held runs on.
Crash(w) ==
    /\ pc[w] # "idle"
    /\ crashes < MaxCrashes
    /\ crashes' = crashes + 1
    /\ Forgets(w)
    /\ Clears(w)
    /\ Rests(w)
    /\ UNCHANGED <<rows, endpoint, logged, sent, landed, noted, dropped, stalls,
                   acts>>

-----------------------------------------------------------------------------
(* deliver_due *)

\* Reads the endpoint, and returns quietly when nothing is owed any more.
\* The stash is not touched on that path.
Load(w) ==
    /\ pc[w] = "load"
    /\ Goes(w, IF On THEN "prepare" ELSE "quiet")
    /\ UNCHANGED <<rows, endpoint, job, pending, ending, logged, history, bounds>>

\* A mutant: a format nobody registered puts the delivery off.
CannotRenderYet(w) ==
    /\ pc[w] = "prepare"
    /\ job[w] \in Unrenderable
    /\ holder' = [holder EXCEPT ![job[w]] = Nobody]
    /\ Rests(w)
    /\ UNCHANGED <<status, tries, endpoint, pending, logged, history, bounds>>

\* The frozen format is not registered here: raise, with the stash as it was.
CannotRender(w) ==
    /\ pc[w] = "prepare"
    /\ job[w] \in Unrenderable
    /\ Goes(w, "raised")
    /\ UNCHANGED <<rows, endpoint, job, pending, ending, logged, history, bounds>>

\* Renders the body and sets the stash, over whatever was in it.
Prepare(w) ==
    /\ pc[w] = "prepare"
    /\ job[w] \notin Unrenderable
    /\ Forgets(w)
    /\ pending' = [pending EXCEPT ![w] = [of |-> job[w], requests |-> 0]]
    /\ Goes(w, "send")
    /\ UNCHANGED <<rows, endpoint, job, ending, logged, sent, landed, noted,
                   dropped, bounds>>

\* An unsafe destination, or a secret, body or lease that cannot be used: raised
\* out of send_webhook, past the stash.  A request may have been made before,
\* and redirected to what is refused.
Refuse(w, requests) ==
    /\ Refusals
    /\ pc[w] = "send"
    /\ sent' = Add(sent, job[w], requests)
    /\ lost' = Add(lost, job[w], requests)
    /\ Goes(w, "raised")
    /\ UNCHANGED <<rows, endpoint, job, pending, ending, logged, landed, noted, dropped,
                   bounds>>

\* A request and its answer, after which the receiver goes on to one of steps.
Answered(w, answer, steps) ==
    /\ pc[w] = "send"
    /\ sent' = Add(sent, job[w], 1)
    /\ pending' = [pending EXCEPT ![w].requests = @ + 1]
    /\ landed' = Add(landed, job[w], IF answer = "succeeded" THEN 1 ELSE 0)
    /\ \E step \in steps : Goes(w, step)
    /\ UNCHANGED <<rows, endpoint, job, ending, logged, lost, noted, dropped,
                   bounds>>

\* Mutants of Request: a permanent refusal taken for a success, and one that
\* quietly ends the delivery.
RequestLandsOnRefusal(w, answer) ==
    Answered(w, answer,
             IF answer \in {"succeeded", "permanent"} THEN {"record"} ELSE {"raised"})
RequestDropsOnRefusal(w, answer) ==
    Answered(w, answer, CASE answer = "succeeded" -> {"record"}
                          [] answer = "permanent" -> {"quiet"}
                          [] OTHER -> {"raised"})

\* A mutant: a success goes round the loop again.
RequestGoesOnAfterSuccess(w, answer) ==
    Answered(w, answer, IF answer # "succeeded" THEN {"raised"}
                        ELSE IF pending[w].requests + 1 < MaxRequests THEN {"send"}
                        ELSE {"record"})

\* One request.  A retryable answer is retried while the lease has room for
\* another request; a permanent one or a Retry-After ends the outer attempt.
Request(w, answer) ==
    Answered(w, answer,
             CASE answer = "succeeded" -> {"record"}
               [] answer = "retry" /\ pending[w].requests + 1 < MaxRequests
                     -> {"send", "raised"}
               [] OTHER -> {"raised"})

-----------------------------------------------------------------------------
(* The end of the receiver's transaction *)

\* The receiver returned quietly, and the acknowledgement commits.
SettleQuietly(w) ==
    /\ pc[w] = "quiet"
    /\ holder[job[w]] = w
    /\ status' = [status EXCEPT ![job[w]] = "succeeded"]
    /\ holder' = [holder EXCEPT ![job[w]] = Nobody]
    /\ dropped' = dropped \cup {job[w]}
    /\ Rests(w)
    /\ UNCHANGED <<tries, endpoint, pending, logged, sent, landed, lost, noted,
                   bounds>>

\* A mutant: the stash is not emptied.
SettleDeliveredKeepsStash(w) ==
    /\ pc[w] = "record"
    /\ holder[job[w]] = w
    /\ present
    /\ status' = [status EXCEPT ![job[w]] = "succeeded"]
    /\ holder' = [holder EXCEPT ![job[w]] = Nobody]
    /\ logged' = Add(logged, pending[w].of, pending[w].requests)
    /\ IF row.count > 0 THEN Health!Recovers ELSE UNCHANGED <<present, row, told>>
    /\ Rests(w)
    /\ UNCHANGED <<tries, pending, sent, landed, lost, noted, dropped, wasOff,
                   bounds>>

\* It delivered: record_attempts, note_successful_delivery and the
\* acknowledgement commit together.
SettleDelivered(w) ==
    /\ pc[w] = "record"
    /\ holder[job[w]] = w
    /\ present
    /\ status' = [status EXCEPT ![job[w]] = "succeeded"]
    /\ holder' = [holder EXCEPT ![job[w]] = Nobody]
    /\ logged' = Add(logged, pending[w].of, pending[w].requests)
    /\ IF row.count > 0 THEN Health!Recovers ELSE UNCHANGED <<present, row, told>>
    /\ Clears(w)
    /\ Rests(w)
    /\ UNCHANGED <<tries, sent, landed, lost, noted, dropped, wasOff, bounds>>

\* The endpoint was deleted under it: the log rows name a row that is gone,
\* the commit fails, and the stash was cleared before that.
RecordFails(w) ==
    /\ pc[w] = "record"
    /\ ~present
    /\ Forgets(w)
    /\ Clears(w)
    /\ Goes(w, "raised")
    /\ UNCHANGED <<rows, endpoint, job, ending, logged, sent, landed, noted,
                   dropped, bounds>>

\* Another worker has the row, or nobody: all of it is rolled back.  A
\* receiver that returned had cleared its stash; one that raised had not,
\* and no hook is called for a row the worker no longer holds.
LosesTheRow(w) ==
    /\ pc[w] \in {"quiet", "record", "raised"}
    /\ holder[job[w]] # w
    /\ IF pc[w] = "record"
           THEN /\ Forgets(w)
                /\ Clears(w)
           ELSE UNCHANGED <<lost, pending>>
    /\ Rests(w)
    /\ UNCHANGED <<rows, endpoint, logged, sent, landed, noted, dropped, bounds>>

\* The attempt of w is counted, and the delivery is dead if limit is reached.
Counts(w, limit) ==
    /\ pc[w] = "raised"
    /\ holder[job[w]] = w
    /\ tries' = Add(tries, job[w], 1)
    /\ LET over == tries'[job[w]] >= limit IN
          /\ status' = [status EXCEPT ![job[w]] = IF over THEN "dead" ELSE "owed"]
          /\ ending' = [ending EXCEPT ![w] = IF over THEN "dead" ELSE "failed"]
    /\ holder' = [holder EXCEPT ![job[w]] = Nobody]
    /\ Goes(w, "hook")
    /\ UNCHANGED <<endpoint, job, pending, logged, history, bounds>>

\* A mutant: one attempt more than the budget.
FailsLate(w) == Counts(w, Budget + 1)

\* It raised: the attempt is counted, and the hook is told what became of
\* the delivery.
Fails(w) == Counts(w, Budget)

-----------------------------------------------------------------------------
(* record_failed_attempts *)

\* Nothing in the stash: nothing to write, and nobody to count it against.
HookHasNothing(w) ==
    /\ pc[w] = "hook"
    /\ pending[w] = NoPending
    /\ Rests(w)
    /\ UNCHANGED <<rows, endpoint, pending, logged, history, bounds>>

\* The attempts are written in a transaction of their own, and the endpoint is
\* to be told of one of the endings in counted.
Writes(w, counted) ==
    /\ pc[w] = "hook"
    /\ pending[w] # NoPending
    /\ present \/ pending[w].requests = 0
    /\ logged' = Add(logged, pending[w].of, pending[w].requests)
    /\ IF ending[w] \in counted
           THEN Goes(w, "note") /\ UNCHANGED <<job, pending, ending>>
           ELSE Clears(w) /\ Rests(w)
    /\ UNCHANGED <<rows, endpoint, history, bounds>>

\* Mutants of HookRecords: every failed attempt counts, and none does.
HookRecordsAll(w) == Writes(w, {"failed", "dead"})
HookRecordsOnly(w) == Writes(w, {})

\* Only a delivery that died counts against the endpoint.
HookRecords(w) == Writes(w, {"dead"})

\* The rows name a deleted endpoint and are refused; the finally clause still
\* empties the stash, and the substrate swallows the exception.
HookFails(w) ==
    /\ pc[w] = "hook"
    /\ pending[w].requests > 0
    /\ ~present
    /\ Forgets(w)
    /\ Clears(w)
    /\ Rests(w)
    /\ UNCHANGED <<rows, endpoint, logged, sent, landed, noted, dropped, bounds>>

\* note_dead_delivery, for the endpoint named by the stash.
HookNotes(w) ==
    /\ pc[w] = "note"
    /\ IF present THEN Health!Dies ELSE UNCHANGED <<present, row, told>>
    /\ wasOff' = (wasOff \/ ~row'.active)
    /\ noted' = Add(noted, pending[w].of, 1)
    /\ Clears(w)
    /\ Rests(w)
    /\ UNCHANGED <<rows, logged, sent, landed, lost, dropped, bounds>>

-----------------------------------------------------------------------------
(* Operators and customers *)

OperatorActs ==
    /\ acts < MaxActs
    /\ acts' = acts + 1
    /\ Health!PutBack \/ Health!TurnedOff \/ Health!Removed
    /\ wasOff' = (wasOff \/ ~present' \/ ~row'.active)
    /\ UNCHANGED <<rows, workers, logged, history, stalls, crashes>>

-----------------------------------------------------------------------------

Answers == {"succeeded", "permanent", "later", "retry"}

\* What a worker does by itself once it has claimed a row.
Works(w) ==
    \/ Load(w)
    \/ CannotRender(w)
    \/ Prepare(w)
    \/ Refuse(w, 0) \/ Refuse(w, 1)
    \/ \E answer \in Answers : Request(w, answer)
    \/ SettleQuietly(w)
    \/ SettleDelivered(w)
    \/ RecordFails(w)
    \/ LosesTheRow(w)
    \/ Fails(w)
    \/ HookHasNothing(w)
    \/ HookRecords(w)
    \/ HookFails(w)
    \/ HookNotes(w)

Next ==
    \/ \E w \in Workers, d \in Deliveries : Claim(w, d)
    \/ \E d \in Deliveries : LeaseRunsOut(d) \/ Stall(d)
    \/ \E w \in Workers : Works(w) \/ Crash(w)
    \/ OperatorActs

\* Live workers keep working, a dead worker's lease runs out, and the relay
\* overlooks no row for ever while workers keep coming free.
Fairness ==
    /\ \A w \in Workers : WF_vars(Works(w))
    /\ \A d \in Deliveries : /\ WF_vars(LeaseRunsOut(d))
                             /\ SF_vars(\E w \in Workers : Claim(w, d))

Spec == Init /\ [][Next]_vars
FairSpec == Spec /\ Fairness

-----------------------------------------------------------------------------
(* Properties *)

\* Every variable keeps to its type.
TypeOK ==
    /\ status \in [Deliveries -> {"owed", "succeeded", "dead"}]
    /\ tries \in [Deliveries -> 0 .. Budget]
    /\ holder \in [Deliveries -> Workers \cup {Nobody}]
    /\ present \in BOOLEAN
    /\ row \in [count : Nat, active : BOOLEAN, stamped : BOOLEAN]
    /\ told \in [failing : Nat, recovered : Nat, disabled : Nat, open : Nat]
    /\ pc \in [Workers -> Places]
    /\ job \in [Workers -> Deliveries \cup {Nobody}]
    /\ pending \in [Workers -> Stashes]
    /\ ending \in [Workers -> {"none", "failed", "dead"}]
    /\ logged \in [Deliveries -> Nat] /\ sent \in [Deliveries -> Nat]
    /\ landed \in [Deliveries -> Nat] /\ lost \in [Deliveries -> Nat]
    /\ noted \in [Deliveries -> Nat]
    /\ dropped \subseteq Deliveries
    /\ wasOff \in BOOLEAN
    /\ stalls \in 0 .. MaxStalls
    /\ crashes \in 0 .. MaxCrashes
    /\ acts \in 0 .. MaxActs

\* The requests made for d that are in a stash, each as its worker and number.
Stashed(d) ==
    {r \in Workers \X (1 .. MaxRequests) : pending[r[1]].of = d /\ r[2] <= Unwritten(r[1])}

\* Every request made is in exactly one place: a log row, the stash of a
\* worker that has still to write it, or gone with a process, a row, an
\* endpoint or a raise.  The two writers of the log neither invent a request nor write
\* one twice.
RequestsAreAccountedFor ==
    \A d \in Deliveries : sent[d] = logged[d] + lost[d] + Cardinality(Stashed(d))

\* An acknowledged delivery was answered 2xx and has its log rows: the
\* acknowledgement and the evidence commit together.
DeliveredIsLogged ==
    \A d \in Deliveries :
        status[d] = "succeeded" /\ d \notin dropped => landed[d] > 0 /\ logged[d] > 0

\* The failure hook counts against the endpoint exactly deliveries that died,
\* each at most once: never a failed one, never one twice, and never the
\* delivery before it on the same worker.
OnlyDeathsAreNoted ==
    \A d \in Deliveries : noted[d] <= IF status[d] = "dead" THEN 1 ELSE 0

\* And it misses none: short of a crash or a deletion, once no worker is busy
\* with a delivery that died of its endpoint's answers, it has been counted.
DeathsAreCounted ==
    \A d \in Deliveries \ Unrenderable :
        /\ status[d] = "dead"
        /\ \A w \in Workers : job[w] # d
        /\ crashes = 0 /\ present
        => noted[d] = 1

\* The count the endpoint is judged by is earned: each death in it is a delivery
\* of its own that died and stays dead, and the endpoint is switched off on this
\* package's account only with a threshold's worth of them behind it, whatever
\* failed, was claimed again or was left in a stash on the way
\* (record_failed_attempts with note_dead_delivery).
DeathsBehindTheCount ==
    LET Dead == {d \in Deliveries : status[d] = "dead"} IN
        /\ row.count <= Cardinality(Dead)
        /\ row.stamped => Threshold # Never /\ Threshold <= Cardinality(Dead)

\* A customer who answered 2xx is asked again only after a crash or a lost
\* lease, one time for each: no retry, of either tier, follows a success.
LandsOnce == \A d \in Deliveries : landed[d] <= 1 + crashes + stalls

\* The two tiers multiply and no more: only a crash or a lost lease lets a
\* customer see more requests for one delivery than the budgets allow.
BudgetsMultiply ==
    \A d \in Deliveries : sent[d] <= MaxRequests * (Budget + crashes + stalls)

\* What has become of each delivery, and those the endpoint has answered 2xx to.
Fate == [d \in Deliveries |-> IF status[d] # "succeeded" THEN status[d]
                              ELSE IF d \in dropped THEN "dropped" ELSE "delivered"]

Answered2xx == {d \in Deliveries : landed[d] > 0}

\* The outer tier keeps the promise made of every delivery.
Promise == INSTANCE DeliveryPromise WITH fate <- Fate, answered <- Answered2xx

\* Settled once, and never wrongly: whatever is interleaved, lost or crashed.
KeepsThePromise == Promise!SafeSpec

\* And settled in the end, if workers live on and leases are kept.
KeepsItInTheEnd == Promise!Spec

\* Dead deliveries that count against the endpoint had a request made
\* (the comment in record_failed_attempts).
DeathsHadARequest == \A d \in Deliveries : noted[d] > 0 => sent[d] > 0
=============================================================================
