# A TLA+ model of django-outbound-webhooks

`django-outbound-webhooks` delivers a Django project's domain events to URLs
that customers registered. It is written on top of `django-domain-events`, which
owns the event log, the delivery rows, their leases and attempt budget, and the
relay that calls receivers; that substrate is not in this repository and is
modelled here from how this package uses it. Line numbers below are those of the
files under `src/django_outbound_webhooks/`.

The modules model-check with TLC (`tlc -config X.cfg M`) and the `*Proofs`
modules check with TLAPS (`tlapm M.tla`). `PROJECT.json` lists the runs, the
mutated definitions that show each property can fail, the lines each definition
stands for, the hazards and the findings.

## 1. The system

| component | state | operations |
|---|---|---|
| endpoint registry (`models/`, `endpoints/`) | `Endpoint`, `Subscription` rows: url, tenant, pin, secrets, health | `register_endpoint`, `endpoints_for`; the host switches, re-pins and deletes |
| fan-out (`delivery/delivery_targets.py`) | none; reads the registry and `replay_target` | called by the substrate when an event is fired or replayed, in that transaction |
| outer delivery (`delivery/deliver_due.py`, `record_*`) | the context variable `pending_attempts`; `DeliveryAttempt` rows | `deliver_due` in the transaction of the acknowledgement; `record_failed_attempts` after its rollback |
| inner retry (`retry_policy`, `lease_deadline`, `send_webhook`, `send_once`, `classify_response`, `retry_after_seconds`) | the clock of one outer attempt | requests, sleeps, stop |
| endpoint health (`operations/note_*`, `reactivate_endpoint`) | `consecutive_dead_deliveries`, `is_active`, `disabled_at`; events `EndpointFailing/Recovered/Disabled` | counted deaths, landings, putting back |
| secrets (`operations/rotate_secret`, `signing/signing_secrets`) | `secret`, `previous_secret`, `previous_secret_expires_at` | rotation with an overlap; the secrets to sign with |
| replay (`operations/replay_delivery`, `delivery/replay_target`) | the context variable `replay_target` | one logged delivery again |
| admin (`admin/`) | instances loaded by a request | endpoint form, reactivate action, replay action |
| address policy (`check_address`, `resolve_destination`, `pinning_transport`) | none; asks the resolver at each hop | refuses or pins each hop |
| formats (`formats/`) | the registry of one process | publish, get, latest, render |
| signing (`signing/`) | none | encodes, signs, validates a secret |
| wiring (`apps.py`, `settings.py`, `checks.py`) | none | registers the receiver, its hook, its `targets=` and the built-in formats |

How they meet. `fire()` in the host calls `delivery_targets`, which freezes one
recipe (endpoint, pin, message id) per subscribed endpoint into a delivery row.
A relay worker claims a row under a lease and calls `deliver_due`, which reads
the endpoint, renders, sets `pending_attempts` and hands over to the inner
retry, which posts through a transport that resolves, checks and pins each hop,
and appends the outcome of each request to the stash. On success the log rows, the reset of the count and the acknowledgement commit together; on
failure everything is rolled back and the substrate calls the failure hook,
which writes the log rows from the stash and, if the delivery died, counts it
against the endpoint. Operators and customers write the same endpoint row, from
instances that may be older than it.

What is hard here: several workers that die or land on one endpoint at once;
two UPDATEs that decide one edge; a worker that is slow, loses its lease and
goes on; the process dying between the rollback and the hook; a context variable
as the only channel between two callbacks; two tiers of retry that multiply; a
lease measured in time with requests that redirect; names that resolve to
something else at the next hop; processes that publish different formats; rows
saved from stale instances; check-then-act in a replay, and refusals in the
middle of several; and a tenant boundary through all of it.

What makes each component correct:

- *health*: no increment is lost; an incident is announced once, closed once,
  and costs the endpoint its place once, at the threshold, with the host told;
- *inner retry*: ends inside the lease, stops on a final answer, keeps the
  outcome of every request;
- *address policy*: what is dialled was checked, whatever the resolver says next;
  a refusal is raised and not retried, a resolver that is down is retried;
- *outer delivery*: a delivery is settled once, rightly, and in the end; every
  request made is in the log or its loss has a cause; only a delivery that died counts, and it does;
- *secrets*: a spent secret stays spent unless a stale save writes it back, an
  overlap is kept, and a delivery signs with nothing spent before it;
- *formats*: one delivery carries the same bytes each time it is tried, whichever
  process tries it;
- *fan-out and replay*: no payload crosses tenants, no health event reaches a
  customer, a replay is narrow, new and written, and one that is refused stops
  none of the others.

## 2. The modules

| module | models | composes |
|---|---|---|
| `IncidentContract` | the promise about one endpoint's health, a step per event | |
| `EndpointHealth` | the SQL statements behind it, with transactions and row locks | refines `IncidentContract` |
| `InnerRetry` | one outer attempt in ticks of time | |
| `Transport` | the same attempt hop by hop: resolution, policy, pins, redirects | extends and refines `InnerRetry` |
| `DeliveryPromise` | what is promised of each delivery | |
| `Delivery` | workers, rows, leases, the stash, the hook, the log | `IncidentContract` (as the endpoint's health); refines `DeliveryPromise` |
| `EndpointWriters` | secrets and every writer of the row that holds an instance | `IncidentContract` (as the delivery path) |
| `FormatRegistry` | one process's registry of formats, as operators | |
| `FanOut` | registrations, processes, matching, frozen recipes, replays | extends `FormatRegistry` |
| `*Proofs` | the theorems of `EndpointHealth`, `InnerRetry`, `Transport`, `Delivery`, `EndpointWriters` and `FanOut` | `TransportProofs` builds on `InnerRetryProofs` |
| `MC*` | instances of these for TLC | |

The composition is through the abstract module: `Delivery` and
`EndpointWriters` take a death, a landing and a reactivation as the one-step
actions of `IncidentContract`, and `EndpointHealth` shows (and its proof module
proves) that the statements implement those steps where a rejected UPDATE keeps
its lock. `Transport` and `InnerRetry` are two views of one loop: a step
of `Transport` either leaves `InnerRetry`'s variables alone or is one of its
actions, so what is shown of the time in the small module holds in the large one
(`ImplementsInnerRetry`, which is proved and not a property of a run).

### EndpointHealth

One endpoint row. `row` holds its committed health columns, `lock` the worker
whose transaction holds it, `tx` what a transaction wrote and the events it
fired, which become visible together at `Commit` and vanish together at
`Rollback` (a lost lease, a dead process). `EdgeHits`/`EdgeMisses` are the
conditional UPDATE at note_dead_delivery.py:59, `CountHits`/`CountMisses` the
increment at :66; what follows in the function runs under the row's lock and is
part of the same action (`Judged`). `LandingHits`/`LandingMisses` are the UPDATE
of note_successful_delivery.py:38. `Reactivate`, `SwitchOff` and `Delete` are
single statements. `told` and `dead` are history.

`LockOnMiss` is the one assumption about the database: whether an UPDATE whose
WHERE clause rejects the row keeps it locked until the transaction ends. It does
on SQLite (which the tests use: one writer at a time) and on databases that lock
what they scan; read-committed PostgreSQL does not.

### InnerRetry

Time in ticks since the lease was taken. `Begin` is the entry into tenacity's
loop; `Attempt` a `send_once`, whose duration is anything up to a timeout per
hop; `OutOfTime` is `stop_before_delay`, which reads the time of the last
outcome; `Sleep` doubles the wait; `Raise` is what `send_once` lets through
(an unsafe destination). `Drift` is time outside the requests and sleeps.
Statuses go through `Outcome` (classify_response and the two statuses on which
Retry-After is honoured).

### Transport

`hop` says whether a request is in flight and whether its host is pinned, `host`
what its URL names now, `followed` and `spent` its redirects and its time so far.
`Post` starts a request. `Pin` and `RefuseHop` are `resolve_destination` inside
`PinningTransport.handle_request`: any answer of the resolver, all of it checked
by `Unsafe` (check_address, with its two tiers of categories and the hatch
`ALLOW_PRIVATE_ADDRESSES`), then one address of it for the connection.
`Unresolved` is the resolver that is down. `Answer`, `Redirect` and
`TooManyRedirects` end the hop. What the `ipaddress` module says of an address is
a constant (`Kinds`). `dialled`, `posts` and `refusals` are history.

The repository says two things in two places here, and the model follows the
code. settings.py:65-67 and the docstring of check_address keep reserved
addresses refused with the hatch open; the code, and the comment beside it,
relaxes them. classify_response.py:21-24 takes a redirect budget that ran out for a
permanent 3xx; the client raises `TooManyRedirects`, which `send_once` turns into
a transport error that is retried.

### Delivery

`pending` is each worker's context variable, `pc` its place in `deliver_due` or
the hook. `Claim`, `LeaseRunsOut`, `Stall`, `Crash`, `LosesTheRow` and `Fails`
are the substrate. `Load` decides on a quiet return, `CannotRender` raises
before the stash is set, `Prepare` sets it, `Refuse` raises out of
`send_webhook`, `Request` is one request with its answer (the time that bounds
them is `InnerRetry`'s; here a bound, `MaxRequests`). `SettleDelivered` commits
log, reset and acknowledgement; `HookRecords`, `HookFails` and `HookNotes` are
the failure hook, its two transactions apart.

Assumed of the substrate, and what would change if it were otherwise: a failure
hook is called for a row the worker still holds, after the attempt was counted
(if it were also called for a lost row, the stash would be emptied there); a
commit that fails is reported like a raise; one worker runs one delivery at a
time. The dead worker's lease runs out (`LeaseRunsOut`); a live but slow one's
may too (`Stall`), and that worker goes on until it finds out.

### EndpointWriters

`held` is the instance each client has loaded, `keys` and `row` the committed
columns. `Rotate` writes the three secret columns computed from the instance
(rotate_secret.py:47-52), `Reactivate` three constants, `FormSave` everything
the instance holds. `Load` and the save are two steps and nothing is locked
between them: `rotate_secret` takes an instance the caller loaded whenever it
pleased, and the admin's change form reads the row and saves all its columns
without a `select_for_update`, so whatever committed in between is in the row and
not in the instance. A sender reads the row and works out its secrets once, then
signs with those for as long as the outer attempt takes.

Rotations and the form can therefore undo what others wrote, and history variables
say when they did, so that the properties name these and hold of everything else:
`revived` has the secrets that a rotation or a form wrote back from columns older
than the row's (`WritesKeys`), `last` is forgotten when a form undoes a rotation,
and `forced` says that the endpoint was saved as on by the form with the stamp of
an auto-disable.

### FormatRegistry and FanOut

A format object is the identity it is published as and what decides its bytes
besides the event: the package, a `CLOUDEVENTS_SOURCE`, or the operator's class.
`published` is the registry of each process: `Boot` starts one with the built-in
formats, under a source or without one, `Publish` is the operator's own code, and
an identity that names another object is refused (`RegisterFormat`). `Register`
pins what is the latest in the process it runs in (`Pinned`); `DeliverDue` renders
with what another process publishes under that pin (`Get`), or raises
(`DeliverNothing`). One outer attempt is one step here.

`narrow` is each context's `replay_target`; `rows` are the delivery rows with
their frozen recipe, `log` what the attempt rows say, with the object that
rendered each. A message id is the call that minted it and the endpoint it is
for, which is all that uuid4 is used for; a row's `pk` says which row it is, by
how many calls had written before (`written`), so that two rows under one id are
told apart.

`Select` is the replay action of the log: `todo` are the deliveries it has still
to replay, one after the other. Each `replay_delivery` is three steps, because
its checks and its call run in different transactions: `ReplayReads` (:51-76, one
query), `ReplaySets` or a refusal (`ReplayRefuses`, `EventIsGone`; :78-105) and
`ReplayFires` or `ReplayRaises` (:106-112). A refusal is caught by the action;
what the substrate raises is not. The refusal of an event whose class is no
longer declared is taken together with that of an event that is gone.

## 3. The runs

Passing runs:

| run | instance | shows |
|---|---|---|
| `health_read_committed` | 3 workers, 4 deaths, 2 operator acts, threshold 2, no lock on a miss | `CountIsExact`, `WarnedAtMostOnce`, `RecoveredAtMostOnce`, `DisabledIsTold`, `ActiveBelowThreshold`, `DisabledOnlyWhenEarned` |
| `health_scan_locks` | the same, lock on a miss | `EveryIncidentWarned`; refinement of `IncidentContract` |
| `retry_inside_lease` | 3 leases, timeout 2, margin 1, up to 2 redirects, drift up to 2, 1 name, 4 addresses | `FinishesInsideLease`, `DialsOnlySafe`, `HistoryIsWhole`, `NothingFollowsAnAnswer`, `RequestsFitTheLease`; the loop `Ends` |
| `delivery_safety` | 2 workers, 2 deliveries, budget 2, 2 requests, a stall, a crash, an act | `OnlyDeathsAreNoted`, `DeathsAreCounted`, `BudgetsMultiply`, `RequestsAreAccountedFor`, `DeliveredIsLogged`, `DeathsBehindTheCount`, `LandsOnce`; refinement of `DeliveryPromise!SafeSpec` |
| `delivery_liveness` | 2 deliveries, one unrenderable, refusals, a crash, an act | every delivery is settled in the end (`DeliveryPromise!Spec`) |
| `secrets_fresh` | 2 clients, 4 secrets, overlaps 0 and 2, 4 ticks, 3 writes, 1 death, the form | `SpentStaysSpent`, `OverlapOfTheLast`, `SignsWithNothingSpent`, `OnMeansNotDisabled` |
| `fan_out_and_replay` | 2 endpoints, 2 tenants, 1 event, 2 processes, 2 sources, 2 formats of the operator's, 3 mints, 1 change, 2 selected | `TenantBoundary`, `InternalStaysInside`, `OneBodyPerDelivery`, `IdsAreFresh`, `ReplayIsNarrow`, `ReplayIsOwed`, `WholeReplayIsWhole`, `RefusalsStopNothing` |

All but `delivery_liveness` and `health_scan_locks` also check the type invariant
of their module. Each run has `CHECK_DEADLOCK FALSE`: work is bounded (deaths,
acts, ticks, mints), so the instances run out of it, as the program does when
nothing is owed.

Why the bounds are enough. Two dying workers and one landing are the smallest
instance in which the edge between two UPDATEs can be lost or taken twice; four
deaths cross a threshold of two and start a second incident. The three leases are
one that has no room for a request, one with room for little more than one, and
one with room for several; with a drift of one tick more than the margin. Of the
four addresses one is public, one is in the categories the hatch relaxes, one in
both tiers and one in the tier it never relaxes; two redirects are a hop in the
middle and a last one. Two workers and two deliveries let a stash outlive its
delivery and be met by another; a budget of two separates a failed attempt from a
dead delivery. With the threshold of one in `delivery_safety` a single
attempt miscounted as a death already switches the endpoint off. Three rotations are one more than a window can hold; three
writes are also a rotation, a save of what it replaced and another rotation or
reactivation after that; and an overlap of two ticks has an inside, an edge and an outside. Three mints are a
first delivery, a replay of it and a replay of the whole event, or a delivery to
each endpoint and the replay of one of them after the refusal of the other;
contexts do not share `replay_target`, so one is as good as two, and the
narrowing names one event. Of the operator's formats one is a second version of
CloudEvents and one tries to take the first over.

Symmetry is declared where nothing tells the members of a set apart: workers,
deliveries whose format is published, clients, unused secrets, endpoints,
tenants, processes. The runs that check liveness (`retry_inside_lease`,
`delivery_liveness`) declare none.

Violation runs. Each checks one statement of a comment, document or test of the
repository, quoted in `PROJECT.json`, and TLC shows what the code does instead:

| run | statement | what the code does |
|---|---|---|
| `health_unannounced` | the count going from zero to one fires `EndpointFailing` | a landing commits between the two UPDATEs (read-committed) and nobody fires it |
| `health_unclosed` | an announced incident is also closed | `reactivate_endpoint` clears the count silently, and the next landing finds it clear |
| `retry_redirects` | no request runs past the lease | each redirect has a timeout of its own, and one is subtracted |
| `death_without_request` | counted only when a request was made | the stash is set, empty, before the first request |
| `form_loses_deaths` | health columns are written by the delivery path | the form saves them too, from the instance it loaded |

What the models also show, and no run is kept for:

- A redirect to a refused address raises out of `send_once` after a request was
  made, and takes the outcome of that request with it: the exception in
  `HistoryIsWhole`, and what `Refuse(w, 1)` counts in `lost` in `Delivery`.
- A `CLOUDEVENTS_SOURCE` changed between two attempts of a delivery changes the
  bytes under its message id, against what `send_once` says of its body: the
  exception in `OneBodyPerDelivery`, and the only one (no other format drifts). A version does not freeze what a format takes
  from a setting.
- The log rows of a delivery whose endpoint is deleted while the request is on
  the wire are refused by both writers (`RecordFails`, `HookFails`); those
  requests are counted in `lost` by `RequestsAreAccountedFor`.
- The form can switch an auto-disabled endpoint on and leave its stamp and its
  count (`FormSave`), against the comment on `disabled_at`; `OnMeansNotDisabled`
  says that nothing else does.
- A second rotation inside an overlap ends that overlap (there is one
  `previous_secret`), which is why `OverlapOfTheLast` speaks of the last one.
- A rotation from an instance older than the row, or a form loaded before a
  rotation, brings back a secret that was rotated away, one that leaked and was
  given no overlap included (rotate_secret.py:29-30 says what that is for): the
  exception in `SpentStaysSpent`. It is the only one: a reactivation names its
  columns, and would be another if it did not (`ReactivateSavesAll`).
- An event pruned between the checks of `replay_delivery` and its call leaves an
  id that was returned and is owed to nobody: the second disjunct of
  `ReplayIsOwed`.
- A delivery that raises before it sets the stash, on a worker whose last
  delivery raised after it had lost its row, hands that stash to the failure
  hook, if the substrate calls no hook for a lost row (`LosesTheRow`).
  `OnlyDeathsAreNoted` is therefore checked with formats that are published in
  every process. `OnlyALeftoverMiscounts` proves that this is the only way a
  death is miscounted (`RaisesOverALeftover`), and `NoLeftoverIsMet` when it
  cannot happen.

### Fairness

`Transport` (and `InnerRetry`): weak fairness of the loop, because a worker that
has begun an outer attempt keeps running, and each sleep and each hop is bounded.
Nothing is assumed of the resolver, of the answers or of how long anything takes;
the doubling wait and the redirect budget end it.

`Delivery`: weak fairness of each worker's steps (a live process goes on; the
one that dies is `Crash`, bounded), weak fairness of the expiry of a dead
worker's lease (time passes), and strong fairness of claiming each row, because
a worker is free only now and then and the relay, which polls in order, does not
pass over a row for ever. No fairness is assumed of answers, operators or
crashes.

## 4. The proofs

`EndpointHealthProofs`, from `HealthAssumption` only, for any number of workers,
any threshold and all bounds. The inductive invariant has four parts: types;
`LockInv`, who holds the row (a transaction from its matching UPDATE on, and
where a rejected UPDATE locks, from that one on); `TxInv`, that what is about to
be committed was computed from the row *as it stands* — this is what a lost
update would break, and it holds because of the lock; and `Heard`, the safety
invariants. None of the safety invariants is inductive alone: a commit says
nothing about the row unless `TxInv` ties them. From it:

- `TypeCorrect`, the five invariants of `Heard`, each by its own name, on both
  kinds of database;
- `DisablingIsEarned`, `LandingIsNarrow`: action properties.

`EveryIncidentWarned`, the refinement and `WarningsAreClosed` fail as they stand
(`health_unannounced`, `health_unclosed`), and what is proved of them is the one
cause of each failure. `EdgeInv` says that a death between its two UPDATEs is not
the first of its incident, and that one that is the first carries the warning to
its commit; a `Race` is a landing or a reactivation that clears the count while a
death stands between them. Where no step is a `Race`, every incident
is announced (`OnlyARaceHidesAnIncident`) and the statements implement the
contract (`OnlyARaceBreaksTheContract`), on either kind of database; where a
rejected UPDATE keeps its lock none is (`LockedRowsNeverRace`), from which
`IncidentsAreAnnounced` and `RefinesTheContract` follow. Where nobody puts the
endpoint back in the middle of an incident, every announced one is closed
(`OnlyPuttingBackLeavesAWarning`).

`InnerRetryProofs`, from `RetryAssumption` only, for every lease, timeout,
margin, backoff base and number of redirects. `Unseen`: the drift accounts for
all the time that the loop's own clock does not see. `Early`: no attempt starts
at or past the deadline plus the drift so far. `Home`: so an attempt that was
not redirected comes back inside the lease less the margin plus the drift. From
these `InsideTheLease`, and `OnlyRedirectsOutlive`: without redirects nothing runs
past the lease, so they are the whole cause of `retry_redirects`. From `Turns`,
what the last outcome was at each place of the loop, `AnswersAreFinal`;
`LoopTypes` are its types.

Of the loop's end two parts that need no fairness are proved. `NearerTheEnd`: each
step lowers a natural number (`Left`: two for each sleep that may still fit, and
those on the way to the next), so no behaviour loops for ever; `NearerTheEndHopByHop` says so of the
hops too. `RequestsAreFew`: what was slept is at least what a doubling wait adds
up to (`Slept`, `Doubled`), so the waits before the last request are short of the
deadline (`SleepsFit`), and their number is logarithmic in it. The powers of two
are a table that the theorem is given (`Doubles`), since neither a recursive
definition nor an exponent can be reasoned about here; any such table will do, and
`RequestsFitTheLease`, which the runs check, is this with `2^n`.

`TransportProofs`, from `TransportAssumption` besides, for every policy, resolver
and redirect. `ImplementsInnerRetry` is the refinement, so the two results above
carry over (`HopsInsideTheLease`). `TransportInv`: a request in flight is at an
attempt (`InFlight`); a host about to be dialled passed the policy (`Pinned`),
because the whole answer was checked, so what was dialled did (`Dialled`,
`OnlySafeIsDialled`); at most one request is behind the history (`Kept`,
`HistoryKept`); a raise has its refusal (`Caused`, `RaisedForCause`).
`TransportTypes` needs `Hopping`: what a request has taken is within a timeout
for each hop behind it.

`DeliveryProofs`, from `DeliveryAssumption`, for any number of workers and
deliveries and any budgets. `DeliveryTypes` is common ground: types, delivery rows
that agree with their holders, and a stash that is its worker's own delivery's
from when it is set until it is written. On it stand four arguments:

- *evidence*: a worker that is about to acknowledge has a 2xx in its stash
  (`Landed`), and one that drops its delivery has seen the endpoint off
  (`OffIsSeen`). So `AcknowledgedWithEvidence`, and `ImplementsThePromise`, the
  refinement of `DeliveryPromise!SafeSpec`.
- *deaths*: the hook finds the stash of its own delivery or none (`HookStash`),
  only one worker is told of a death (`OneHook`), and a death was counted or is
  about to be (`Counted`). The endpoint's count is then within the set of
  deliveries that died and were counted, and a stamp has a threshold of them
  behind it (`Tally`, over cardinalities). All of it holds where no receiver
  raises over a stash that outlived its delivery (`OnlyALeftoverMiscounts`),
  and none does where every format is published or no lease runs out under a
  live worker (`NoLeftovers`, `NoLeftoverIsMet`): so `OnlyDeathsCount`,
  `EveryDeathCounts`, `TheDeadStandBehindTheCount`. What was noted was sent
  unless a receiver raised before its first request (`OnlyRefusalsCountUnsent`,
  the whole cause of `death_without_request`).
- *requests*: where each request is. What is stashed is a set of places, worker
  by worker; a step moves what one worker holds and leaves the rest
  (`HeldSplit`), and what leaves the stash is logged or lost (`Balance`). So
  `NoRequestIsLostOrInvented`.
- *budgets*: what was sent, and what the open attempts may still send (`Room`),
  is within the attempts that were charged to the budget, a crash or a stall
  (`WithinCharges`). So `BudgetsMultiplyOnly`. In the same way what landed, and
  the open attempts that may still land, are within one and the crashes and
  stalls (`LandsWithin`): `ASuccessIsFinal`.

`EndpointWritersProofs`, from `WritersAssumption`, whatever was written between a
load and a save. `Windows`: but for what was brought back, the current secret was
never rotated away and the previous one has the window its rotation gave it;
`Loaded`: so what a sender holds can only have been spent since. From these
`SpentForGood`, `OverlapIsKept` and `SignedFresh`; `StampMeansOff` and
`WriterTypes` stand alone. What does harm is a save of an old *column*: without a
save of secrets that were replaced since they were loaded nothing is brought
back, and the same bounds hold without an exception (`OnlyOldKeysHarmSecrets`);
without a form whose count is old every death is counted
(`OnlyOldFormsLoseDeaths`, the whole cause of `form_loses_deaths`), so
`CountsAreExact` where the form is not used.

`FanOutProofs`, from `FanOutAssumption` and `FormatAssumption`, for any endpoints,
contexts, events, processes and formats. `SetIsNarrow`: `replay_target` is set
exactly while its replay is at the substrate. `Boundary`: what is owed was let
through when its event was fired, and a replay goes back to a delivery that was
owed (`Traced`); so `TenantsKeptApart`, `InternalKept`, `NarrowReplays`, and
`SubscribersOnly`: nobody is owed what they did not subscribe to. A log row that
names an endpoint names one that is still there (`StillThere`), so what was sent
kept to the same bounds as what was owed (`SentToTheRight`). `Fresh`: no
id, and no row, is of a call still to come, and one call writes one row for each
endpoint; so `FreshIds`: a row's id is its own, two replays of one delivery
included. `Rendered`: each registry is the
built-in formats of a source that was set and the operator's, one object to an
identity, and the envelope is the package's in all of them; so `OneBody`, with
CloudEvents its only exception. `OnePin`: `Pinned` is one identity at most. `OwedReplays`, and the action properties `WholeReplays` and
`RefusalsAreAlone`. That every process runs the same release of the operator's
formats is an assumption on `Own`: two classes under one identity in two
processes are nothing that a registry of one process can see.

Proved and in no run: `LandingOnlyClearsTheCount`, `NothingRevived`, `RaisesForCause`,
`NeverOutlivesTheLease` without redirects, `OwedToSubscribers`,
`SentWithinBounds`, and what is proved of the statements that the violation runs
refute, each under the negation of its cause. Such a hypothesis,
`[][~Cause]_vars`, is met by every behaviour that takes no step of that kind; that
the cause is a real one is what the violation run shows.

Model-checked only: liveness under fairness (`Ends`, `KeepsItInTheEnd`), which is
out of the prover's reach, as is ENABLED.

## 5. Not modelled

- Signing and validation of secrets, rendering, parsing of Retry-After,
  truncation of logged bodies, hashing: pure functions of data that no property
  here tells apart. The validators of a URL keep no state either.
- The list views, fields and permissions of the admin; the system check W002,
  which reads and warns; the migrations.
- Settings changed under a running process, `CLOUDEVENTS_SOURCE` apart, which is
  read when a process starts: every other setting is a constant.
- The client's timeout bounds each network operation rather than a whole hop; the
  model takes it as the bound of a hop, as `lease_deadline` does. An endpoint that
  trickles its answer is outside of what is shown here.
- What the client sends after a redirect (a 303 is followed with a GET): the model
  tells an answer from another by its status.
- How long the loop may go on being useful: that it does not give up early is the
  guard of `GiveUp` and nothing more.
- The substrate itself. Its relay, leases, budget, replay and retention are in
  `Delivery` and `FanOut` as this package uses them.

## 6. Plan

Done, in the order of importance: (1) health, contract and proofs; (2) inner
retry and proofs, then the transport hop by hop and the refinement between them;
(3) outer delivery, its promise and their proofs; (4) writers of the endpoint row
and secrets, and their proofs; (5) fan-out and replay, the replay action, the
format registries of several processes, and their proofs.

What remains, should the code grow in that direction:

1. `DeathsAreCounted` across a crash, if the hook becomes part of what is
   recovered; today a process that dies before its hook leaves a death uncounted.
2. `SpentStaysSpent` and `OverlapOfTheLast` without their exceptions, if
   `rotate_secret` reads the row under a lock and the form saves only what it
   edits.
3. A bound on a whole request, if the client gets one: `FinishesInsideLease` then
   needs no redirects in its bound and `retry_redirects` becomes a passing run.
