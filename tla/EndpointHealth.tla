--------------------------- MODULE EndpointHealth ---------------------------
(***************************************************************************)
(* The health columns of one endpoint row, at the granularity of the SQL   *)
(* statements that several workers and an operator run against it.         *)
(*                                                                         *)
(* A worker calls note_dead_delivery from the substrate's failure hook, or *)
(* note_successful_delivery inside the transaction of a delivery.  Both    *)
(* are transactions: an UPDATE takes the row's lock, what it wrote and the *)
(* events it fired stay in  tx  until the transaction commits, and a lost  *)
(* lease or a dead process rolls them back together.                       *)
(*                                                                         *)
(* An UPDATE decides its WHERE clause on the committed row.  Whether a row *)
(* it rejects stays locked depends on the database: LockOnMiss is TRUE for *)
(* one that holds every row it scanned (or, like SQLite, the whole file),  *)
(* and FALSE for read-committed PostgreSQL, where it may or may not.       *)
(***************************************************************************)
EXTENDS Naturals

CONSTANTS
    Workers,      \* processes that deliver
    Nobody,       \* the holder of a free row lock
    Threshold,    \* AUTO_DISABLE_AFTER_DEAD_DELIVERIES
    Never,        \* its value None
    LockOnMiss,   \* does an UPDATE that matches nothing keep the row locked
    MaxDeaths,    \* bound: deliveries the substrate gives up on
    MaxActs       \* bound: operator actions

ASSUME HealthAssumption ==
    /\ Nobody \notin Workers
    /\ Never \notin Nat
    /\ Threshold \in (Nat \ {0}) \cup {Never}
    /\ LockOnMiss \in BOOLEAN
    /\ MaxDeaths \in Nat
    /\ MaxActs \in Nat

VARIABLES
    present,   \* the endpoint row has not been deleted
    row,       \* its committed health columns
    lock,      \* the worker whose transaction holds the row
    pc,        \* where each worker is
    tx,        \* what each worker's transaction has written and not committed
    told,      \* committed events, as counters over the current incident
    dead,      \* dead deliveries committed since the count was last cleared
    deaths, acts

vars == <<present, row, lock, pc, tx, told, dead, deaths, acts>>

\* stamped: disabled_at is not null.
Rows == [count : Nat, active : BOOLEAN, stamped : BOOLEAN]

Events == {"EndpointFailing", "EndpointRecovered", "EndpointDisabled"}

Steps == {"idle", "edge", "count", "commit"}

Transactions == [kind : {"none", "death", "landing", "miss"},
                 row : Rows, fires : SUBSET Events]

(***************************************************************************)
(* What a listener has heard.  failing: EndpointFailing since the count    *)
(* was last cleared.  recovered: EndpointRecovered since the last death.   *)
(* disabled: EndpointDisabled since the endpoint was last switched on.     *)
(* open: EndpointFailing since the last EndpointRecovered.                 *)
(***************************************************************************)
Told == [failing : Nat, recovered : Nat, disabled : Nat, open : Nat]

FreshRow == [count |-> 0, active |-> TRUE, stamped |-> FALSE]

NoTx == [kind |-> "none", row |-> FreshRow, fires |-> {}]

Init ==
    /\ present = TRUE
    /\ row = FreshRow
    /\ lock = Nobody
    /\ pc = [w \in Workers |-> "idle"]
    /\ tx = [w \in Workers |-> NoTx]
    /\ told = [failing |-> 0, recovered |-> 0, disabled |-> 0, open |-> 0]
    /\ dead = 0
    /\ deaths = 0
    /\ acts = 0

-----------------------------------------------------------------------------
(* note_dead_delivery *)

\* Mutants of Crosses: off by one late, off by one early, and an endpoint
\* that is already off switched off again.
CrossesLate(r) == Threshold # Never /\ r.active /\ r.count > Threshold
CrossesEarly(r) == Threshold # Never /\ r.active /\ r.count + 1 >= Threshold
CrossesAgain(r) == Threshold # Never /\ r.count >= Threshold

\* The count this transaction has just written is enough to switch r off.
Crosses(r) ==
    /\ Threshold # Never
    /\ r.active
    /\ r.count >= Threshold

\* The transaction of a death that wrote the count of r, from there to its
\* end: the warning on the edge, then the switch-off and its event.
Judged(r, started) ==
    [kind |-> "death",
     row |-> IF Crosses(r)
                 THEN [count |-> r.count, active |-> FALSE, stamped |-> TRUE]
                 ELSE r,
     fires |-> {e \in Events : \/ e = "EndpointFailing" /\ started
                               \/ e = "EndpointDisabled" /\ Crosses(r)}]

Counted(r) == [r EXCEPT !.count = @ + 1]

\* A mutant: the conditional UPDATE is forgotten, and only the second is run.
DeathBeginsAtCount(w) ==
    /\ pc[w] = "idle"
    /\ deaths < MaxDeaths
    /\ pc' = [pc EXCEPT ![w] = "count"]
    /\ deaths' = deaths + 1
    /\ UNCHANGED <<present, row, lock, tx, told, dead, acts>>

\* A worker's hook calls note_dead_delivery.
DeathBegins(w) ==
    /\ pc[w] = "idle"
    /\ deaths < MaxDeaths
    /\ pc' = [pc EXCEPT ![w] = "edge"]
    /\ deaths' = deaths + 1
    /\ UNCHANGED <<present, row, lock, tx, told, dead, acts>>

\* A mutant: the first UPDATE loses its condition on the count.
EdgeHitsAnyCount(w) ==
    /\ pc[w] = "edge"
    /\ present
    /\ lock = Nobody
    /\ lock' = w
    /\ tx' = [tx EXCEPT ![w] = Judged(Counted(row), TRUE)]
    /\ pc' = [pc EXCEPT ![w] = "commit"]
    /\ UNCHANGED <<present, row, told, dead, deaths, acts>>

\* The first UPDATE, conditioned on a count of zero, matches the row.
EdgeHits(w) ==
    /\ pc[w] = "edge"
    /\ present
    /\ row.count = 0
    /\ lock = Nobody
    /\ lock' = w
    /\ tx' = [tx EXCEPT ![w] = Judged(Counted(row), TRUE)]
    /\ pc' = [pc EXCEPT ![w] = "commit"]
    /\ UNCHANGED <<present, row, told, dead, deaths, acts>>

\* Whether an UPDATE that matched nothing leaves the row locked by w.
Keeps(w) ==
    \/ /\ present
       /\ lock = Nobody
       /\ lock' = w
    \/ /\ ~present \/ ~LockOnMiss
       /\ UNCHANGED lock

\* The first UPDATE matches nothing.
EdgeMisses(w) ==
    /\ pc[w] = "edge"
    /\ ~present \/ row.count # 0
    /\ Keeps(w)
    /\ pc' = [pc EXCEPT ![w] = "count"]
    /\ UNCHANGED <<present, row, tx, told, dead, deaths, acts>>

\* A mutant: the count is read and saved, not added to under the row's lock.
CountHitsUnlocked(w) ==
    /\ pc[w] = "count"
    /\ present
    /\ UNCHANGED lock
    /\ tx' = [tx EXCEPT ![w] = Judged(Counted(row), FALSE)]
    /\ pc' = [pc EXCEPT ![w] = "commit"]
    /\ UNCHANGED <<present, row, told, dead, deaths, acts>>

\* The second UPDATE adds one in the database.
CountHits(w) ==
    /\ pc[w] = "count"
    /\ present
    /\ lock \in {Nobody, w}
    /\ lock' = w
    /\ tx' = [tx EXCEPT ![w] = Judged(Counted(row), FALSE)]
    /\ pc' = [pc EXCEPT ![w] = "commit"]
    /\ UNCHANGED <<present, row, told, dead, deaths, acts>>

\* The row is gone: return without an error.
CountMisses(w) ==
    /\ pc[w] = "count"
    /\ ~present
    /\ pc' = [pc EXCEPT ![w] = "idle"]
    /\ UNCHANGED <<present, row, lock, tx, told, dead, deaths, acts>>

-----------------------------------------------------------------------------
(* note_successful_delivery, inside the delivery's transaction *)

\* The transaction of a landing that wrote r.
Landed(w, r) ==
    /\ pc[w] = "idle"
    /\ present
    /\ lock = Nobody
    /\ lock' = w
    /\ tx' = [tx EXCEPT ![w] = [kind |-> "landing", row |-> r,
                                fires |-> {"EndpointRecovered"}]]
    /\ pc' = [pc EXCEPT ![w] = "commit"]
    /\ UNCHANGED <<present, row, told, dead, deaths, acts>>

\* Mutants of LandingHits: its condition dropped, and one taken off the count
\* where it should be cleared.
LandingHitsAnyCount(w) == Landed(w, [row EXCEPT !.count = 0])
LandingTakesOne(w) == Landed(w, [row EXCEPT !.count = @ - 1])

\* The UPDATE conditioned on a positive count matches: reset, and say so.
LandingHits(w) ==
    /\ row.count > 0
    /\ Landed(w, [row EXCEPT !.count = 0])

\* It matches nothing, and the row stays locked until the delivery commits.
\* (Where the row is not locked either, nothing happens to it at all.)
LandingMisses(w) ==
    /\ pc[w] = "idle"
    /\ present
    /\ row.count = 0
    /\ lock = Nobody
    /\ lock' = w
    /\ tx' = [tx EXCEPT ![w] = [kind |-> "miss", row |-> row, fires |-> {}]]
    /\ pc' = [pc EXCEPT ![w] = "commit"]
    /\ UNCHANGED <<present, row, told, dead, deaths, acts>>

-----------------------------------------------------------------------------
(* The end of a worker's transaction *)

One(e, t) == IF e \in t.fires THEN 1 ELSE 0

\* The listener's counters once the events of t are committed.
Hears(t) ==
    [failing |-> IF t.kind = "landing" THEN 0
                 ELSE told.failing + One("EndpointFailing", t),
     recovered |-> IF t.kind = "death" THEN 0
                   ELSE told.recovered + One("EndpointRecovered", t),
     disabled |-> told.disabled + One("EndpointDisabled", t),
     open |-> IF "EndpointRecovered" \in t.fires THEN 0
              ELSE told.open + One("EndpointFailing", t)]

Commit(w) ==
    /\ pc[w] = "commit"
    /\ row' = tx[w].row
    /\ told' = Hears(tx[w])
    /\ dead' = CASE tx[w].kind = "death" -> dead + 1
                 [] tx[w].kind = "landing" -> 0
                 [] OTHER -> dead
    /\ lock' = Nobody
    /\ tx' = [tx EXCEPT ![w] = NoTx]
    /\ pc' = [pc EXCEPT ![w] = "idle"]
    /\ UNCHANGED <<present, deaths, acts>>

\* The worker lost the delivery row, or its process died.
Rollback(w) ==
    /\ pc[w] # "idle"
    /\ lock' = IF lock = w THEN Nobody ELSE lock
    /\ tx' = [tx EXCEPT ![w] = NoTx]
    /\ pc' = [pc EXCEPT ![w] = "idle"]
    /\ UNCHANGED <<present, row, told, dead, deaths, acts>>

-----------------------------------------------------------------------------
(* Operators and customers *)

Act ==
    /\ present
    /\ lock = Nobody
    /\ acts < MaxActs
    /\ acts' = acts + 1
    /\ UNCHANGED <<lock, pc, tx, deaths>>

\* A mutant: disabled_at is forgotten.
ReactivateKeepsStamp ==
    /\ Act
    /\ row' = [FreshRow EXCEPT !.stamped = row.stamped]
    /\ told' = [told EXCEPT !.failing = 0, !.disabled = 0]
    /\ dead' = 0
    /\ UNCHANGED present

\* reactivate_endpoint: the three columns in one UPDATE, and no event.
Reactivate ==
    /\ Act
    /\ row' = FreshRow
    /\ told' = [told EXCEPT !.failing = 0, !.disabled = 0]
    /\ dead' = 0
    /\ UNCHANGED present

\* Somebody deactivates the endpoint by hand, which leaves disabled_at alone.
SwitchOff ==
    /\ Act
    /\ row.active
    /\ row' = [row EXCEPT !.active = FALSE]
    /\ UNCHANGED <<present, told, dead>>

\* The customer removes the destination.
Delete ==
    /\ Act
    /\ present' = FALSE
    /\ UNCHANGED <<row, told, dead>>

-----------------------------------------------------------------------------

WorkerStep(w) ==
    \/ DeathBegins(w)
    \/ EdgeHits(w)
    \/ EdgeMisses(w)
    \/ CountHits(w)
    \/ CountMisses(w)
    \/ LandingHits(w)
    \/ LandingMisses(w)
    \/ Commit(w)
    \/ Rollback(w)

Next ==
    \/ \E w \in Workers : WorkerStep(w)
    \/ Reactivate
    \/ SwitchOff
    \/ Delete

Spec == Init /\ [][Next]_vars

-----------------------------------------------------------------------------
(* Properties *)

\* Every variable keeps to its type.
TypeOK ==
    /\ present \in BOOLEAN
    /\ row \in Rows
    /\ lock \in Workers \cup {Nobody}
    /\ pc \in [Workers -> Steps]
    /\ tx \in [Workers -> Transactions]
    /\ told \in Told
    /\ dead \in Nat
    /\ deaths \in 0 .. MaxDeaths
    /\ acts \in 0 .. MaxActs

\* consecutive_dead_deliveries is the number of deaths whose transaction
\* committed since the count was last cleared: deliveries that die together
\* in parallel workers lose no increment and count none twice.
CountIsExact == row.count = dead

\* EndpointFailing is heard at most once between two moments at which the
\* count is zero, however many deliveries die together, and never while it
\* is zero.
WarnedAtMostOnce == told.failing <= IF row.count > 0 THEN 1 ELSE 0

\* Every incident is announced: a positive count means EndpointFailing was
\* heard for it (the zero-to-one edge of note_dead_delivery).
EveryIncidentWarned == row.count > 0 => told.failing = 1

\* Between two deaths EndpointRecovered is heard at most once, and only a
\* reset count has been announced so.
RecoveredAtMostOnce ==
    /\ told.recovered <= 1
    /\ told.recovered = 1 => row.count = 0

\* EndpointDisabled and disabled_at agree: the event was heard exactly once
\* since the endpoint was last switched on if the row is stamped, and not at
\* all if it is not, and a stamped row is off.
DisabledIsTold ==
    /\ told.disabled = IF row.stamped THEN 1 ELSE 0
    /\ row.stamped => ~row.active

\* No endpoint stays on with a count at the threshold: the death that crosses
\* it switches the endpoint off in the same transaction, and putting the
\* endpoint back clears the count with the flag.
ActiveBelowThreshold ==
    Threshold # Never /\ row.active => row.count < Threshold

\* A step switches the endpoint off on this package's account only from on,
\* with a threshold's worth of committed deaths behind it, and tells the
\* host in the same step.
DisabledOnlyWhenEarned ==
    [][row'.stamped /\ ~row.stamped =>
          /\ row.active
          /\ dead' = dead + 1
          /\ Threshold \in 1 .. dead'
          /\ told'.disabled = told.disabled + 1]_vars

\* A delivery that lands closes an incident and nothing else: it neither puts
\* back an endpoint that was switched off while it was on the wire, nor
\* clears the mark that says who switched it off.
LandingOnlyClearsTheCount ==
    [][told'.recovered > told.recovered =>
          /\ row.count > 0
          /\ row' = [row EXCEPT !.count = 0]]_vars

\* An announced incident is closed before another is announced: at most one
\* EndpointFailing stands without its EndpointRecovered.
WarningsAreClosed == told.open <= 1

\* Every step of the workers' transactions is one step of the contract, or
\* none: what was promised of a death, a landing and an operator's act holds
\* with those transactions interleaved and rolled back.
Contract == INSTANCE IncidentContract
KeepsTheContract == Contract!Spec
=============================================================================
