------------------------------- MODULE FanOut -------------------------------
(***************************************************************************)
(* Which deliveries an event owes: the endpoints matched when it is fired, *)
(* the recipe frozen for each, and the replay of one logged delivery.      *)
(*                                                                         *)
(* A context is whatever has its own context variables: a thread, a task.  *)
(* delivery_targets runs in the context that fires or replays.  Firing,    *)
(* replaying, relaying and pruning belong to the substrate and are taken   *)
(* from how this package uses them; Delivery has the outer tier in detail, *)
(* and here an outer attempt is one step.  Processes publish formats, each *)
(* for itself: FormatRegistry.                                             *)
(*                                                                         *)
(* used, and the primary keys of the delivery rows, are history that only  *)
(* properties read.                                                        *)
(***************************************************************************)
EXTENDS Naturals, FiniteSets, FormatRegistry

CONSTANTS
    Endpoints, Contexts, Events, Nobody,
    Tenants, Blank,     \* customers, and the scope or column that names none
    Names, Internal,    \* event names, and those in INTERNAL_EVENTS
    Subscriptions,      \* the sets of names that endpoints subscribe to
    Processes,
    FirstSource,        \* the CLOUDEVENTS_SOURCE the deployment began with
    Wishes,             \* the formats registrations ask for
    Scoped,             \* is TENANT_SCOPE_KEY set
    MaxMints,           \* bound: message ids
    MaxSelected,        \* bound: deliveries replayed by one action
    MaxActs             \* bound: changes of endpoints and of processes

ASSUME FanOutAssumption ==
    /\ Nobody \notin Endpoints \cup Events
    /\ IsFiniteSet(Endpoints)
    /\ Blank \notin Tenants
    /\ Internal \subseteq Names /\ Subscriptions \subseteq SUBSET Names
    /\ FirstSource \in Sources \cup {NoSource}
    /\ Scoped \in BOOLEAN
    /\ MaxMints \in Nat /\ MaxActs \in Nat /\ MaxSelected \in Nat

VARIABLES
    published,  \* the format registry of each process
    used,       \* every CLOUDEVENTS_SOURCE a process was started with
    endpoint,   \* the endpoint rows, subscriptions included
    event,      \* the substrate's event rows
    rows,       \* its delivery rows for this package's receiver
    log,        \* what DeliveryAttempt rows say of each delivery
    narrow,     \* each context's replay_target
    todo,       \* the deliveries it has still to replay
    replay,     \* where it is in replay_delivery
    told,       \* ids replay_delivery returned, with the event of each
    minted,     \* message ids so far
    written,    \* delivery rows so far
    acts

formats == <<published, used>>
calls == <<narrow, todo, replay, told>>
issued == <<minted, written>>
vars == <<formats, endpoint, event, rows, log, calls, issued, acts>>

\* A message id: how many were minted before that call, and for whom.
Ids == [call : Nat, to : Endpoints]

\* The substrate's own key of a delivery row: a place in the order in which
\* rows were written.  It is no part of what this package sees.
PrimaryKeys == [nth : Nat, to : Endpoints]

Targets == [to : Endpoints, pin : FormatIds, id : Ids]

NoTarget == [event |-> Nobody]

Resting == [step |-> "idle"]

Init ==
    /\ published = [p \in Processes |-> BuiltIns(FirstSource)]
    /\ used = {FirstSource}
    /\ endpoint = [n \in Endpoints |->
                      [state |-> "absent", tenant |-> Blank, names |-> {},
                       pin |-> EnvelopeV1.id]]
    /\ event = [e \in Events |-> [state |-> "unfired", name |-> Nobody, tenant |-> Blank]]
    /\ rows = {}
    /\ log = {}
    /\ narrow = [c \in Contexts |-> NoTarget]
    /\ todo = [c \in Contexts |-> {}]
    /\ replay = [c \in Contexts |-> Resting]
    /\ told = {}
    /\ minted = 0
    /\ written = 0
    /\ acts = 0

-----------------------------------------------------------------------------
(* Processes and endpoints *)

Acts ==
    /\ acts < MaxActs
    /\ acts' = acts + 1

Releases == Acts /\ UNCHANGED <<endpoint, event, rows, log, calls, issued>>

\* A process starts again, with this CLOUDEVENTS_SOURCE: WebhooksConfig.ready.
Boot(p, source) ==
    /\ Releases
    /\ published' = [published EXCEPT ![p] = BuiltIns(source)]
    /\ used' = used \cup {source}

\* The operator's code publishes a format of its own in p.
Publish(p, o) ==
    /\ Releases
    /\ \E registry \in RegisterFormat(published[p], o) :
          published' = [published EXCEPT ![p] = registry]
    /\ UNCHANGED used

\* register_endpoint in process p: under tenancy it insists on a tenant, and
\* on at least one event; a version is pinned and written down.
Register(p, n, tenant, names, wish) ==
    /\ endpoint[n].state = "absent"
    /\ names # {}
    /\ Scoped => tenant # Blank
    /\ \E pin \in Pinned(published[p], wish) :
          endpoint' = [endpoint EXCEPT ![n] =
                          [state |-> "on", tenant |-> tenant, names |-> names, pin |-> pin]]
    /\ UNCHANGED <<formats, event, rows, log, calls, issued, acts>>

Changes(n) ==
    /\ endpoint[n].state \in {"on", "off"}
    /\ Acts
    /\ UNCHANGED <<formats, event, rows, calls, issued>>

\* Switched on or off, by somebody or by auto-disable.
Switch(n) ==
    /\ Changes(n)
    /\ endpoint' = [endpoint EXCEPT ![n].state = IF @ = "on" THEN "off" ELSE "on"]
    /\ UNCHANGED log

\* The host's own code moves the endpoint to another version.
Repin(n, pin) ==
    /\ Changes(n)
    /\ endpoint' = [endpoint EXCEPT ![n].pin = pin]
    /\ UNCHANGED log

\* Its subscriptions go with it, and its log rows stay, naming nobody.
Delete(n) ==
    /\ Changes(n)
    /\ endpoint' = [endpoint EXCEPT ![n] = [@ EXCEPT !.state = "deleted", !.names = {}]]
    /\ log' = {[l EXCEPT !.to = IF @ = n THEN Nobody ELSE @] : l \in log}

-----------------------------------------------------------------------------
(* delivery_targets *)

Subscribed(name) ==
    {n \in Endpoints : endpoint[n].state = "on" /\ name \in endpoint[n].names}

\* A mutant: an event with no tenant is not filtered.
EndpointsForUnfiltered(name, tenant) ==
    IF Scoped /\ tenant # Blank
        THEN {n \in Subscribed(name) : endpoint[n].tenant = tenant}
        ELSE Subscribed(name)

\* endpoints_for: under tenancy, an event that names no tenant matches nothing.
EndpointsFor(name, tenant) ==
    IF Scoped
        THEN {n \in Subscribed(name) : tenant # Blank /\ endpoint[n].tenant = tenant}
        ELSE Subscribed(name)

\* A mutant: the id is worked out from the event and the endpoint.
MintedForEvent(ev) ==
    {[to |-> n, pin |-> endpoint[n].pin, id |-> [call |-> 0, to |-> n]] :
        n \in EndpointsFor(ev.name, ev.tenant)}

\* A first delivery for each endpoint of event e, as ev describes it.
Minted(ev) ==
    {[to |-> n, pin |-> endpoint[n].pin, id |-> [call |-> minted, to |-> n]] :
        n \in EndpointsFor(ev.name, ev.tenant)}

\* Mutants: internal events are let through, and the narrowing is ignored.
DeliveryTargetsOpen(c, e, ev) ==
    IF narrow[c].event = e THEN {narrow[c].target} ELSE Minted(ev)
DeliveryTargetsWide(c, e, ev) ==
    IF ev.name \in Internal THEN {} ELSE Minted(ev)

\* delivery_targets for event e in context c.
DeliveryTargets(c, e, ev) ==
    CASE ev.name \in Internal -> {}
      [] ev.name \notin Internal /\ narrow[c].event = e -> {narrow[c].target}
      [] OTHER -> Minted(ev)

\* The delivery rows for those targets; again is the id a replay was asked for.
RowsFor(targets, e, again) ==
    {[pk |-> [nth |-> written, to |-> t.to], event |-> e, to |-> t.to, pin |-> t.pin,
      id |-> t.id, state |-> "owed", again |-> again] : t \in targets}

Writes(targets, e, again) ==
    /\ rows' = rows \cup RowsFor(targets, e, again)
    /\ written' = written + Cardinality(targets)

-----------------------------------------------------------------------------
(* The substrate *)

Mints(n) ==
    /\ minted + n <= MaxMints
    /\ minted' = minted + n

\* delivery_targets is asked in context c for event e, and rows are written.
Owes(c, e, ev) ==
    LET targets == DeliveryTargets(c, e, ev) IN
    /\ Mints(Cardinality(targets))
    /\ Writes(targets, e, Nobody)

\* No call of replay_delivery is under way in c, nor an action that makes it.
Free(c) == replay[c] = Resting /\ todo[c] = {}

\* The host fires e in context c.
Fire(c, e, name, tenant) ==
    /\ Free(c)
    /\ event[e].state = "unfired"
    /\ event' = [event EXCEPT ![e] = [state |-> "kept", name |-> name, tenant |-> tenant]]
    /\ Owes(c, e, event'[e])
    /\ UNCHANGED <<formats, endpoint, log, calls, acts>>

\* The host replays the whole of e.
WholeReplay(c, e) ==
    /\ Free(c)
    /\ event[e].state = "kept"
    /\ Owes(c, e, event[e])
    /\ UNCHANGED <<formats, endpoint, event, log, calls, acts>>

\* The outer attempt at r is over: the delivery is settled, or to be tried
\* again if the endpoint is still on.
Attempted(r) ==
    /\ r.state = "owed"
    /\ \E s \in {"owed", "settled"} :
          /\ s = "owed" => endpoint[r.to].state = "on"
          /\ rows' = (rows \ {r}) \cup {[r EXCEPT !.state = s]}
    /\ UNCHANGED <<formats, endpoint, event, calls, issued, acts>>

\* deliver_due on r in process p: what pin names there is rendered, requests
\* are made and logged.
Delivers(p, r, pin) ==
    /\ Attempted(r)
    /\ endpoint[r.to].state = "on"
    /\ \E f \in Get(published[p], pin) :
          log' = log \cup
              {[id |-> r.id, event |-> r.event, to |-> r.to, pin |-> pin, by |-> f.by]}

\* A mutant: the pin is read again at each attempt.
DeliverDueRepinned(p, r) == Delivers(p, r, endpoint[r.to].pin)

\* The recipe is the one frozen in the row.
DeliverDue(p, r) == Delivers(p, r, r.pin)

\* deliver_due on r without a request: the endpoint is gone or off and nothing
\* is owed, or p does not publish the format and raises.
DeliverNothing(p, r) ==
    /\ Attempted(r)
    /\ endpoint[r.to].state # "on" \/ Get(published[p], r.pin) = {}
    /\ UNCHANGED log

\* Retention drops an event with nothing left owed.
Prune(e) ==
    /\ event[e].state = "kept"
    /\ \A r \in rows : r.event = e => r.state # "owed"
    /\ event' = [event EXCEPT ![e].state = "pruned"]
    /\ UNCHANGED <<formats, endpoint, rows, log, calls, issued, acts>>

-----------------------------------------------------------------------------
(* replay_delivery, for each delivery the action of the log is given *)

\* An operator selects log rows and replays their deliveries, one after the
\* other; or the host calls replay_delivery for one of them.
Select(c, ids) ==
    /\ Free(c)
    /\ ids # {} /\ Cardinality(ids) <= MaxSelected
    /\ todo' = [todo EXCEPT ![c] = ids]
    /\ UNCHANGED <<formats, endpoint, event, rows, log, narrow, replay, told, issued, acts>>

Replayable(l) == l.to # Nobody /\ endpoint[l.to].state = "on"

\* Refused or not, the next one is taken up.
TakesUp(c, l) ==
    /\ replay[c] = Resting
    /\ l.id \in todo[c]
    /\ todo' = [todo EXCEPT ![c] = @ \ {l.id}]
    /\ UNCHANGED <<formats, endpoint, event, rows, log, narrow, told, issued, acts>>

\* It reads the log and the endpoint together.
ReplayReads(c, l) ==
    /\ TakesUp(c, l)
    /\ Replayable(l)
    /\ replay' = [replay EXCEPT ![c] =
                     [step |-> "read", of |-> l.id, event |-> l.event,
                      to |-> l.to, pin |-> endpoint[l.to].pin]]

\* The endpoint was deleted or is off: ReplayRefused.
ReplayRefuses(c, l) ==
    /\ TakesUp(c, l)
    /\ ~Replayable(l)
    /\ UNCHANGED replay

\* A mutant: the first refusal ends the action.
RefusalStops(c) ==
    /\ replay[c].step = "read"
    /\ event[replay[c].event].state # "kept"
    /\ replay' = [replay EXCEPT ![c] = Resting]
    /\ todo' = [todo EXCEPT ![c] = {}]
    /\ UNCHANGED <<formats, endpoint, event, rows, log, narrow, told, issued, acts>>

\* The event is gone from the log: ReplayRefused.
EventIsGone(c) ==
    /\ replay[c].step = "read"
    /\ event[replay[c].event].state # "kept"
    /\ replay' = [replay EXCEPT ![c] = Resting]
    /\ UNCHANGED <<formats, endpoint, event, rows, log, narrow, todo, told, issued, acts>>

\* The event is there: replay_target is set to a target with this id.
SetsTarget(c, id) ==
    /\ replay[c].step = "read"
    /\ event[replay[c].event].state = "kept"
    /\ Mints(1)
    /\ narrow' = [narrow EXCEPT ![c] =
                     [event |-> replay[c].event,
                      target |-> [to |-> replay[c].to, pin |-> replay[c].pin, id |-> id]]]
    /\ replay' = [replay EXCEPT ![c].step = "set"]
    /\ UNCHANGED <<formats, endpoint, event, rows, log, todo, told, written, acts>>

\* Mutants: the id is worked out from the old one, and is that of its event.
ReplaySetsDerivedId(c) ==
    SetsTarget(c, [call |-> MaxMints + replay[c].of.call, to |-> replay[c].to])
ReplaySetsEventId(c) == SetsTarget(c, replay[c].event)

\* A new id is minted for it.
ReplaySets(c) == SetsTarget(c, [call |-> minted, to |-> replay[c].to])

\* replay_target is reset, however the call ends.
Ends(c) ==
    /\ replay[c].step = "set"
    /\ replay' = [replay EXCEPT ![c] = Resting]
    /\ narrow' = [narrow EXCEPT ![c] = NoTarget]
    /\ UNCHANGED <<formats, endpoint, event, log, minted, acts>>

\* The substrate replays the event if it still has it, and skips it silently
\* if not; the id is returned either way.
ReplayFires(c) ==
    /\ Ends(c)
    /\ Writes(IF event[replay[c].event].state = "kept"
                  THEN DeliveryTargets(c, replay[c].event, event[replay[c].event])
                  ELSE {},
              replay[c].event, replay[c].of)
    /\ told' = told \cup {[id |-> narrow[c].target.id, event |-> replay[c].event]}
    /\ UNCHANGED todo

\* A mutant: the reset is not in a finally clause.
ReplayRaisesWithoutReset(c) ==
    /\ replay[c].step = "set"
    /\ replay' = [replay EXCEPT ![c] = Resting]
    /\ todo' = [todo EXCEPT ![c] = {}]
    /\ UNCHANGED <<formats, endpoint, event, rows, log, narrow, told, issued, acts>>

\* The substrate raises, nothing was written, and the rest is not taken up.
ReplayRaises(c) ==
    /\ Ends(c)
    /\ todo' = [todo EXCEPT ![c] = {}]
    /\ UNCHANGED <<rows, told, written>>

-----------------------------------------------------------------------------

Next ==
    \/ \E p \in Processes, source \in Sources \cup {NoSource} : Boot(p, source)
    \/ \E p \in Processes, o \in Own : Publish(p, o)
    \/ \E p \in Processes, n \in Endpoints, tenant \in Tenants \cup {Blank},
          names \in Subscriptions, wish \in Wishes : Register(p, n, tenant, names, wish)
    \/ \E n \in Endpoints : Switch(n) \/ Delete(n)
    \/ \E n \in Endpoints, pin \in FormatIds : Repin(n, pin)
    \/ \E c \in Contexts, e \in Events, name \in Names, tenant \in Tenants \cup {Blank} :
          Fire(c, e, name, tenant)
    \/ \E c \in Contexts, e \in Events : WholeReplay(c, e)
    \/ \E p \in Processes, r \in rows : DeliverDue(p, r) \/ DeliverNothing(p, r)
    \/ \E e \in Events : Prune(e)
    \/ \E c \in Contexts, ids \in SUBSET {l.id : l \in log} : Select(c, ids)
    \/ \E c \in Contexts, l \in log : ReplayReads(c, l) \/ ReplayRefuses(c, l)
    \/ \E c \in Contexts : EventIsGone(c) \/ ReplaySets(c) \/ ReplayFires(c)
                           \/ ReplayRaises(c)

Spec == Init /\ [][Next]_vars

-----------------------------------------------------------------------------
(* Properties *)

EndpointRows ==
    [state : {"absent", "on", "off", "deleted"}, tenant : Tenants \cup {Blank},
     names : SUBSET Names, pin : FormatIds]

EventRows ==
    [state : {"unfired", "kept", "pruned"}, name : Names \cup {Nobody},
     tenant : Tenants \cup {Blank}]

DeliveryRows ==
    [pk : PrimaryKeys, event : Events, to : Endpoints, pin : FormatIds, id : Ids,
     state : {"owed", "settled"}, again : Ids \cup {Nobody}]

LogRows ==
    [id : Ids, event : Events, to : Endpoints \cup {Nobody}, pin : FormatIds, by : Makers]

Replays ==
    [step : {"read", "set"}, of : Ids, event : Events, to : Endpoints, pin : FormatIds]

\* Every variable keeps to its type.
TypeOK ==
    /\ published \in [Processes -> SUBSET Objects]
    /\ used \subseteq Sources \cup {NoSource}
    /\ endpoint \in [Endpoints -> EndpointRows]
    /\ event \in [Events -> EventRows]
    /\ rows \subseteq DeliveryRows
    /\ log \subseteq LogRows
    /\ narrow \in [Contexts -> {NoTarget} \cup [event : Events, target : Targets]]
    /\ todo \in [Contexts -> SUBSET Ids]
    /\ replay \in [Contexts -> {Resting} \cup Replays]
    /\ told \subseteq [id : Ids, event : Events]
    /\ minted \in 0 .. MaxMints
    /\ written \in Nat
    /\ acts \in 0 .. MaxActs

\* Under tenancy a payload is only ever owed to an endpoint of the tenant its
\* event names, by a first delivery or by a replay, and an event that names
\* none is owed to nobody.
TenantBoundary ==
    Scoped => \A r \in rows : /\ event[r.event].tenant # Blank
                              /\ endpoint[r.to].tenant = event[r.event].tenant

\* No customer is owed one of this package's own events, whoever subscribes to
\* them and however they are replayed.
InternalStaysInside == \A r \in rows : event[r.event].name \notin Internal

\* Nobody is owed an event they never subscribed to, by a replay long after
\* either: a replay goes to what was matched when the event was fired, and a
\* subscription is not taken back but with its endpoint (endpoints_for,
\* replay_delivery).
OwedToSubscribers ==
    \A r \in rows : endpoint[r.to].state # "deleted" =>
        event[r.event].name \in endpoint[r.to].names

\* What a customer was sent kept to all of that, whatever was replayed, and
\* what the log says of a deleted endpoint was no internal event.
SentWithinBounds ==
    \A l \in log :
        /\ event[l.event].name \notin Internal
        /\ l.to # Nobody =>
              /\ event[l.event].name \in endpoint[l.to].names
              /\ Scoped => /\ event[l.event].tenant # Blank
                           /\ endpoint[l.to].tenant = event[l.event].tenant

\* Every request of one delivery carries the same bytes, whichever process
\* makes it, whatever was published, re-pinned or restarted in between: its
\* message id is never seen under two versions, nor one version from two
\* renderers, but the package's CloudEvents, and only where CLOUDEVENTS_SOURCE
\* was changed meanwhile (send_once).
OneBodyPerDelivery ==
    \A l, m \in log : l.id = m.id =>
        /\ l.pin = m.pin
        /\ l.by # m.by => l.pin = CloudEventsV1(FirstSource).id /\ used # {FirstSource}

\* No two deliveries share a message id: not two replays of one delivery, nor a
\* first delivery and the replay of its event, to the same endpoint either.  A
\* receiver that deduplicates discards none of them (replay_delivery).  Nor
\* does one delivery change its id.
IdsAreFresh == \A r, q \in rows : r.id = q.id <=> r.pk = q.pk

\* A replay of one delivery goes where the original went, and nowhere else.
ReplayIsNarrow ==
    \A r \in rows : r.again # Nobody =>
        \E o \in rows : o.id = r.again /\ o.to = r.to /\ o.event = r.event

\* An id that replay_delivery returned is owed or was, unless the event was
\* pruned.
ReplayIsOwed ==
    \A t \in told : \/ \E r \in rows : r.id = t.id
                    \/ event[t.event].state = "pruned"

\* A replay of a whole event reaches every endpoint owed it now: no earlier
\* replay of one delivery, even one that raised, narrows it.
WholeReplayIsWhole ==
    [][\A c \in Contexts, e \in Events : WholeReplay(c, e) =>
          \A n \in EndpointsFor(event[e].name, event[e].tenant) :
             event[e].name \in Internal \/ \E r \in rows' \ rows : r.event = e /\ r.to = n]_vars

\* A replay that is refused stops none of the others: a selected delivery is
\* forgotten before its turn only if the substrate raised in one before it
\* (DeliveryAttemptAdmin.replay).
RefusalsStopNothing ==
    [][\A c \in Contexts : \A id \in todo[c] \ todo'[c] :
             \/ ReplayRaises(c)
             \/ replay[c] = Resting /\ todo[c] = todo'[c] \cup {id}]_vars
=============================================================================
