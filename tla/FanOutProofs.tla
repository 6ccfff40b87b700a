---------------------------- MODULE FanOutProofs ----------------------------
(***************************************************************************)
(* What FanOut promises, for every set of endpoints, contexts, events,     *)
(* processes and formats, from FanOutInv.  TypeOK needs SetIsNarrow (a     *)
(* replay that fires has a target), and the tenant boundary that targets   *)
(* waiting in a context keep to it too (Boundary).  Ids are fresh because  *)
(* none is of a call still to come, and an id that is replayed was logged  *)
(* for its endpoint and event (Fresh, Traced).  What rendered a body is    *)
(* known by its identity where no source was changed, and but for          *)
(* CloudEvents where one was (Rendered).                                   *)
(***************************************************************************)
EXTENDS FanOut, TLAPS, FiniteSetTheorems

USE FanOutAssumption, FormatAssumption

\* replay_target is set exactly while its replay is at the substrate.
SetIsNarrow ==
    \A c \in Contexts :
        IF replay[c].step = "set"
            THEN /\ narrow[c] \in [event : {replay[c].event}, target : Targets]
                 /\ narrow[c].target.to = replay[c].to
            ELSE narrow[c] = NoTarget

-----------------------------------------------------------------------------
(* Types *)

LEMMA BuiltInsAreObjects ==
    ASSUME NEW source \in Sources \cup {NoSource}
    PROVE  BuiltIns(source) \subseteq Objects
BY DEF BuiltIns, Objects

LEMMA PinnedIsPublished ==
    ASSUME NEW registry \in SUBSET Objects, NEW wish
    PROVE  Pinned(registry, wish) \subseteq FormatIds
BY DEF Pinned, Published, FormatIds

\* A registration pins one name and version at most, the latest of its family
\* included, and its own process renders it (FormatRegistry.latest and get).
THEOREM OnePin ==
    ASSUME NEW registry \in SUBSET Objects, NEW wish,
           NEW a \in Pinned(registry, wish), NEW b \in Pinned(registry, wish)
    PROVE  /\ a.name = b.name /\ a.version = b.version
           /\ Get(registry, a) # {}
<1>1. \A o \in Objects : o.id.version \in Nat
  BY DEF Objects, EnvelopeV1, CloudEventsV1
<1>2. a.version \in Nat /\ b.version \in Nat
  BY <1>1 DEF Pinned, Published
<1>3. a.version = b.version
  BY <1>2 DEF Pinned
<1> QED
  BY <1>3 DEF Pinned, Published, Get

\* delivery_targets names endpoints, and finitely many of them.
LEMMA FewTargets ==
    ASSUME TypeOK, NEW c \in Contexts, NEW e \in Events, NEW ev \in EventRows
    PROVE  /\ DeliveryTargets(c, e, ev) \subseteq Targets
           /\ IsFiniteSet(DeliveryTargets(c, e, ev))
           /\ Cardinality(DeliveryTargets(c, e, ev)) \in Nat
           /\ DeliveryTargets(c, e, ev) # {} =>
                 Cardinality(DeliveryTargets(c, e, ev)) > 0
<1> DEFINE matched == EndpointsFor(ev.name, ev.tenant)
           target(n) == [to |-> n, pin |-> endpoint[n].pin, id |-> [call |-> minted, to |-> n]]
           f == [n \in matched |-> target(n)]
<1>1. matched \subseteq Endpoints
  BY DEF EndpointsFor, Subscribed
<1>2. IsFiniteSet(matched)
  BY <1>1, FS_Subset
<1>3. Minted(ev) \subseteq Targets
  BY <1>1 DEF Minted, TypeOK, Targets, Ids, EndpointRows
<1>4. IsFiniteSet(Minted(ev))
  <2>1. Minted(ev) = {target(n) : n \in matched}
    BY DEF Minted
  <2>2. f \in Surjection(matched, Minted(ev))
    BY <2>1 DEF Surjection
  <2> QED
    BY <1>2, <2>2, FS_Surjection
<1>5. DeliveryTargets(c, e, ev) \in {{}, {narrow[c].target}, Minted(ev)}
  BY DEF DeliveryTargets
<1>6. IsFiniteSet(DeliveryTargets(c, e, ev))
  <2>1. IsFiniteSet({}) /\ IsFiniteSet({narrow[c].target})
    BY FS_EmptySet, FS_Singleton
  <2> QED
    BY <1>4, <1>5, <2>1
<1>7. DeliveryTargets(c, e, ev) \subseteq Targets
  <2>1. CASE narrow[c] = NoTarget
    <3>1. narrow[c].event # e
      BY <2>1 DEF NoTarget
    <3> QED
      BY <3>1, <1>3 DEF DeliveryTargets
  <2>2. CASE narrow[c] \in [event : Events, target : Targets]
    BY <2>2, <1>3, <1>5
  <2> QED
    BY <2>1, <2>2 DEF TypeOK
<1> QED
  BY <1>6, <1>7, FS_CardinalityType, FS_EmptySet

\* One row settled or kept is still a row.
LEMMA AttemptedType ==
    ASSUME TypeOK, NEW r \in rows, Attempted(r)
    PROVE  rows' \subseteq DeliveryRows
BY DEF Attempted, TypeOK, DeliveryRows

LEMMA OwesType ==
    ASSUME TypeOK, NEW c \in Contexts, NEW e \in Events, NEW ev \in EventRows, Owes(c, e, ev)
    PROVE  rows' \subseteq DeliveryRows /\ minted' \in 0 .. MaxMints /\ written' \in Nat
<1> DEFINE targets == DeliveryTargets(c, e, ev)
<1>1. targets \subseteq Targets /\ Cardinality(targets) \in Nat
  BY FewTargets
<1>2. minted' \in 0 .. MaxMints
  BY <1>1 DEF Owes, Mints, TypeOK
<1>3. written' \in Nat
  BY <1>1 DEF Owes, Writes, TypeOK
<1>4. RowsFor(targets, e, Nobody) \subseteq DeliveryRows
  BY <1>1 DEF RowsFor, DeliveryRows, Targets, PrimaryKeys, TypeOK
<1> QED
  BY <1>2, <1>3, <1>4 DEF Owes, Writes, TypeOK

LEMMA TypeInit == Init => TypeOK
<1> SUFFICES ASSUME Init PROVE TypeOK
  OBVIOUS
<1>1. EnvelopeV1.id \in FormatIds
  BY DEF FormatIds, Objects
<1>2. published \in [Processes -> SUBSET Objects]
  BY BuiltInsAreObjects DEF Init
<1> QED
  BY <1>1, <1>2 DEF Init, TypeOK, EndpointRows, EventRows

LEMMA TypeStep == TypeOK /\ SetIsNarrow /\ [Next]_vars => TypeOK'
<1> SUFFICES ASSUME TypeOK, SetIsNarrow, [Next]_vars PROVE TypeOK'
  OBVIOUS
<1> USE DEF TypeOK
<1>1. ASSUME NEW p \in Processes, NEW source \in Sources \cup {NoSource}, Boot(p, source)
      PROVE  TypeOK'
  BY <1>1, BuiltInsAreObjects DEF Boot, Releases, Acts, calls, issued
<1>2. ASSUME NEW p \in Processes, NEW o \in Own, Publish(p, o)
      PROVE  TypeOK'
  BY <1>2 DEF Publish, RegisterFormat, Objects, Releases, Acts, calls, issued
<1>3. ASSUME NEW p \in Processes, NEW n \in Endpoints, NEW tenant \in Tenants \cup {Blank},
             NEW names \in Subscriptions, NEW wish \in Wishes, Register(p, n, tenant, names, wish)
      PROVE  TypeOK'
  BY <1>3, PinnedIsPublished DEF Register, EndpointRows, formats, calls, issued
<1>4. ASSUME NEW n \in Endpoints, Switch(n) \/ \E pin \in FormatIds : Repin(n, pin)
      PROVE  TypeOK'
  BY <1>4 DEF Switch, Repin, Changes, Acts, EndpointRows, formats, calls, issued
<1>5. ASSUME NEW n \in Endpoints, Delete(n)
      PROVE  TypeOK'
  <2>1. \A l \in log : [l EXCEPT !.to = IF @ = n THEN Nobody ELSE @] \in LogRows
    BY DEF LogRows
  <2>2. log' \subseteq LogRows
    BY <1>5, <2>1 DEF Delete
  <2>3. endpoint' \in [Endpoints -> EndpointRows]
    <3>1. [endpoint[n] EXCEPT !.state = "deleted", !.names = {}] \in EndpointRows
      <4>1. endpoint[n] \in EndpointRows /\ {} \in SUBSET Names
        OBVIOUS
      <4> HIDE DEF TypeOK
      <4>2. \A row \in EndpointRows : [row EXCEPT !.state = "deleted", !.names = {}] \in EndpointRows
        BY DEF EndpointRows
      <4> QED
        BY <4>1, <4>2
    <3> QED
      BY <1>5, <3>1 DEF Delete
  <2> QED
    BY <1>5, <2>2, <2>3 DEF Delete, Changes, Acts, formats, calls, issued
<1>6. ASSUME NEW c \in Contexts, NEW e \in Events, NEW name \in Names,
             NEW tenant \in Tenants \cup {Blank}, Fire(c, e, name, tenant)
      PROVE  TypeOK'
  <2>1. event'[e] \in EventRows /\ event' \in [Events -> EventRows]
    BY <1>6 DEF Fire, EventRows
  <2> QED
    BY <1>6, <2>1, OwesType DEF Fire, formats, calls, issued
<1>7. ASSUME NEW c \in Contexts, NEW e \in Events, WholeReplay(c, e)
      PROVE  TypeOK'
  BY <1>7, OwesType DEF WholeReplay, formats, calls, issued
<1>8. ASSUME NEW p \in Processes, NEW r \in rows, DeliverDue(p, r)
      PROVE  TypeOK'
  <2>1. PICK f \in published[p] : /\ f.id = r.pin
                                  /\ log' = log \cup {[id |-> r.id, event |-> r.event,
                                                 to |-> r.to, pin |-> r.pin, by |-> f.by]}
    BY <1>8 DEF DeliverDue, Delivers, Get
  <2>2. log' \subseteq LogRows
    BY <2>1 DEF Makers, LogRows, DeliveryRows
  <2> QED
    BY <1>8, <2>2, AttemptedType DEF DeliverDue, Delivers, Attempted, formats, calls, issued
<1>9. ASSUME NEW p \in Processes, NEW r \in rows, DeliverNothing(p, r)
      PROVE  TypeOK'
  BY <1>9, AttemptedType DEF DeliverNothing, Attempted, formats, calls, issued
<1>10. ASSUME NEW e \in Events, Prune(e)
       PROVE  TypeOK'
  <2>1. event' \in [Events -> EventRows]
    BY <1>10 DEF Prune, EventRows
  <2> QED
    BY <1>10, <2>1 DEF Prune, formats, calls, issued
<1>11. ASSUME NEW c \in Contexts, NEW ids \in SUBSET {l.id : l \in log}, Select(c, ids)
       PROVE  TypeOK'
  BY <1>11 DEF Select, formats, issued, LogRows
<1>12. ASSUME NEW c \in Contexts, NEW l \in log, ReplayReads(c, l) \/ ReplayRefuses(c, l)
       PROVE  TypeOK'
  <2>1. TakesUp(c, l)
    BY <1>12 DEF ReplayReads, ReplayRefuses
  <2>2. replay' \in [Contexts -> {Resting} \cup Replays]
    BY <1>12 DEF ReplayReads, ReplayRefuses, Replayable, EndpointRows, LogRows, Replays
  <2> QED
    BY <2>1, <2>2 DEF TakesUp, formats, issued
<1>13. ASSUME NEW c \in Contexts, EventIsGone(c) \/ ReplayRaises(c)
       PROVE  TypeOK'
  BY <1>13 DEF EventIsGone, ReplayRaises, Ends, formats, issued
<1>14. ASSUME NEW c \in Contexts, ReplaySets(c)
       PROVE  TypeOK'
  <2>1. replay[c] \in Replays
    BY <1>14 DEF ReplaySets, SetsTarget, Resting
  <2> QED
    BY <1>14, <2>1 DEF ReplaySets, SetsTarget, Mints, Ids, Targets, Replays, formats, issued
<1>15. ASSUME NEW c \in Contexts, ReplayFires(c)
       PROVE  TypeOK'
  <2> DEFINE e == replay[c].event
             targets == DeliveryTargets(c, e, event[e])
  <2>1. replay[c] \in Replays
    BY <1>15 DEF ReplayFires, Ends, Resting
  <2>2. targets \subseteq Targets /\ Cardinality(targets) \in Nat
    BY <2>1, FewTargets DEF Replays
  <2>3. RowsFor(targets, e, replay[c].of) \subseteq DeliveryRows
    BY <2>1, <2>2 DEF RowsFor, DeliveryRows, PrimaryKeys, Targets, Replays
  <2>4. rows' \subseteq DeliveryRows /\ written' \in Nat
    <3>1. Writes(targets, e, replay[c].of) \/ Writes({}, e, replay[c].of)
      BY <1>15 DEF ReplayFires
    <3> QED
      BY <2>2, <2>3, <3>1, FS_EmptySet DEF Writes, RowsFor
  <2>5. narrow[c].target.id \in Ids
    BY <1>15 DEF ReplayFires, Ends, SetIsNarrow, Targets
  <2> QED
    BY <1>15, <2>1, <2>4, <2>5 DEF ReplayFires, Ends, formats, issued, Replays
<1>16. CASE UNCHANGED vars
  BY <1>16 DEF vars, formats, calls, issued
<1> QED
  BY <1>1, <1>2, <1>3, <1>4, <1>5, <1>6, <1>7, <1>8, <1>9, <1>10, <1>11, <1>12, <1>13,
     <1>14, <1>15, <1>16 DEF Next

LEMMA NarrowStep == TypeOK /\ SetIsNarrow /\ [Next]_vars => SetIsNarrow'
<1> SUFFICES ASSUME TypeOK, SetIsNarrow, [Next]_vars, NEW c \in Contexts
             PROVE  IF replay'[c].step = "set"
                        THEN /\ narrow'[c] \in [event : {replay'[c].event}, target : Targets]
                             /\ narrow'[c].target.to = replay'[c].to
                        ELSE narrow'[c] = NoTarget
  BY DEF SetIsNarrow
<1> USE DEF TypeOK, SetIsNarrow, Resting
<1>1. CASE UNCHANGED <<narrow, replay>>
  BY <1>1
<1>2. ASSUME NEW d \in Contexts, NEW l \in log, ReplayReads(d, l)
      PROVE  SetIsNarrow'
  BY <1>2 DEF ReplayReads, TakesUp
<1>3. ASSUME NEW d \in Contexts, EventIsGone(d)
      PROVE  SetIsNarrow'
  BY <1>3 DEF EventIsGone
<1>4. ASSUME NEW d \in Contexts, ReplaySets(d)
      PROVE  SetIsNarrow'
  <2>1. replay[d] \in Replays
    BY <1>4 DEF ReplaySets, SetsTarget
  <2> QED
    BY <1>4, <2>1 DEF ReplaySets, SetsTarget, Targets, Ids, Replays
<1>5. ASSUME NEW d \in Contexts, ReplayFires(d) \/ ReplayRaises(d)
      PROVE  SetIsNarrow'
  BY <1>5 DEF ReplayFires, ReplayRaises, Ends
<1> QED
  BY <1>1, <1>2, <1>3, <1>4, <1>5 
     DEF Next, vars, formats, calls, Boot, Publish, Releases, Register, Switch, Repin, Delete,
         Changes, Fire, WholeReplay, DeliverDue, Delivers, DeliverNothing, Attempted, Prune,
         Select, ReplayRefuses, TakesUp

-----------------------------------------------------------------------------
(* What a step does to the delivery rows *)

\* Event e went, or may go, to endpoint n: tenant, subscription's state and
\* name were looked at when it was fired, and none of them changes back.
Passed(n, e) ==
    /\ event[e].state # "unfired"
    /\ event[e].name \notin Internal
    /\ endpoint[n].state # "absent"
    /\ Scoped => event[e].tenant # Blank /\ endpoint[n].tenant = event[e].tenant
    /\ endpoint[n].state # "deleted" => event[e].name \in endpoint[n].names

\* Two versions of one delivery row.
Same(r, q) ==
    /\ q.pk = r.pk /\ q.id = r.id /\ q.event = r.event /\ q.to = r.to
    /\ q.pin = r.pin /\ q.again = r.again

Old(q) == \E r \in rows : Same(r, q)

\* A row of a first delivery of e, and of the replay c is making.
First(e, q) ==
    /\ q.pk = [nth |-> written, to |-> q.to]
    /\ q.event = e /\ q.again = Nobody
    /\ q.id = [call |-> minted, to |-> q.to] /\ q.pin = endpoint[q.to].pin
    /\ minted < minted' /\ written < written'
    /\ UNCHANGED <<endpoint, narrow, replay, told>>

Again(c, q) ==
    /\ q.pk = [nth |-> written, to |-> q.to]
    /\ q.id = narrow[c].target.id
    /\ q.event = replay[c].event /\ q.to = replay[c].to /\ q.again = replay[c].of
    /\ q.pin = narrow[c].target.pin
    /\ written < written'

LEMMA OwesRows ==
    ASSUME TypeOK, SetIsNarrow, NEW c \in Contexts, NEW e \in Events, NEW ev \in EventRows,
           Free(c), Owes(c, e, ev), UNCHANGED <<endpoint, narrow, replay, told>>,
           NEW q \in rows', q \notin rows
    PROVE  /\ First(e, q)
           /\ ev.name \notin Internal
           /\ endpoint[q.to].state # "absent"
           /\ Scoped => ev.tenant # Blank /\ endpoint[q.to].tenant = ev.tenant
           /\ ev.name \in endpoint[q.to].names
<1> DEFINE targets == DeliveryTargets(c, e, ev)
<1>1. narrow[c].event # e
  BY DEF SetIsNarrow, Free, Resting, NoTarget
<1>2. PICK t \in targets : q = [pk |-> [nth |-> written, to |-> t.to], event |-> e,
                                to |-> t.to, pin |-> t.pin, id |-> t.id,
                                state |-> "owed", again |-> Nobody]
  BY DEF Owes, Writes, RowsFor
<1>3. ev.name \notin Internal /\ targets = Minted(ev)
  BY <1>1, <1>2 DEF DeliveryTargets
<1>4. minted < minted' /\ written < written'
  BY <1>2, FewTargets DEF Owes, Writes, Mints, TypeOK
<1> HIDE DEF targets
<1>5. PICK n \in EndpointsFor(ev.name, ev.tenant) :
          t = [to |-> n, pin |-> endpoint[n].pin, id |-> [call |-> minted, to |-> n]]
  BY <1>2, <1>3 DEF Minted
<1>6. /\ endpoint[n].state # "absent"
      /\ Scoped => ev.tenant # Blank /\ endpoint[n].tenant = ev.tenant
      /\ ev.name \in endpoint[n].names
  BY DEF EndpointsFor, Subscribed
<1> QED
  BY <1>2, <1>3, <1>4, <1>5, <1>6 DEF First

LEMMA OwesKeeps ==
    ASSUME TypeOK, NEW c \in Contexts, NEW e \in Events, NEW ev \in EventRows, Owes(c, e, ev)
    PROVE  rows \subseteq rows' /\ minted <= minted' /\ written <= written'
BY FewTargets DEF Owes, Writes, Mints, TypeOK

LEMMA AttemptedRows ==
    ASSUME TypeOK, NEW r \in rows, Attempted(r)
    PROVE  /\ \A q \in rows' : Old(q)
           /\ \A o \in rows : \E q \in rows' : Same(o, q)
<1>1. PICK s \in {"owed", "settled"} : rows' = (rows \ {r}) \cup {[r EXCEPT !.state = s]}
  BY DEF Attempted
<1>2. Same(r, [r EXCEPT !.state = s])
  BY DEF Same, TypeOK, DeliveryRows
<1>3. \A o \in rows : Same(o, o)
  BY DEF Same
<1> QED
  BY <1>1, <1>2, <1>3 DEF Old

LEMMA FiresRows ==
    ASSUME TypeOK, SetIsNarrow, NEW c \in Contexts, ReplayFires(c), NEW q \in rows', q \notin rows
    PROVE  Again(c, q)
<1> DEFINE e == replay[c].event
           targets == DeliveryTargets(c, e, event[e])
<1>1. narrow[c].event = e /\ narrow[c].target.to = replay[c].to
  BY DEF ReplayFires, Ends, SetIsNarrow
<1>2. /\ event[e].state = "kept"
      /\ \E t \in targets : q = [pk |-> [nth |-> written, to |-> t.to], event |-> e,
                                 to |-> t.to, pin |-> t.pin, id |-> t.id,
                                 state |-> "owed", again |-> replay[c].of]
  BY DEF ReplayFires, Writes, RowsFor
<1> PICK t \in targets : q = [pk |-> [nth |-> written, to |-> t.to], event |-> e,
                              to |-> t.to, pin |-> t.pin, id |-> t.id,
                              state |-> "owed", again |-> replay[c].of]
  BY <1>2
<1>3. targets \in {{}, {narrow[c].target}}
  BY <1>1 DEF DeliveryTargets
<1>4. t = narrow[c].target
  BY <1>3
<1>5. written < written'
  <2>1. Writes(targets, e, replay[c].of)
    BY <1>2 DEF ReplayFires
  <2>2. event[e] \in EventRows /\ e \in Events
    BY DEF ReplayFires, Ends, Resting, Replays, TypeOK
  <2> QED
    BY <1>2, <2>1, <2>2, FewTargets DEF Writes, TypeOK
<1> QED
  BY <1>1, <1>2, <1>4, <1>5 DEF Again

LEMMA FiresKeeps ==
    ASSUME TypeOK, NEW c \in Contexts, ReplayFires(c)
    PROVE  written <= written'
<1> DEFINE e == replay[c].event
           targets == DeliveryTargets(c, e, event[e])
<1>1. Writes(targets, e, replay[c].of) \/ Writes({}, e, replay[c].of)
  BY DEF ReplayFires
<1>2. event[e] \in EventRows /\ e \in Events
  BY DEF ReplayFires, Ends, Resting, Replays, TypeOK
<1> QED
  BY <1>1, <1>2, FewTargets, FS_EmptySet DEF Writes, TypeOK

\* Nothing that was checked when an event was fired is undone afterwards.
LEMMA PassedStays ==
    ASSUME TypeOK, [Next]_vars, NEW n \in Endpoints, NEW e \in Events, Passed(n, e)
    PROVE  Passed(n, e)'
<1> USE DEF TypeOK, Passed
<1>1. CASE UNCHANGED <<endpoint, event>>
  BY <1>1
<1>2. ASSUME NEW p \in Processes, NEW m \in Endpoints, NEW tenant \in Tenants \cup {Blank},
             NEW names \in Subscriptions, NEW wish \in Wishes, Register(p, m, tenant, names, wish)
      PROVE  Passed(n, e)'
  BY <1>2 DEF Register
<1>3. ASSUME NEW m \in Endpoints, Switch(m) \/ Delete(m) \/ \E pin \in FormatIds : Repin(m, pin)
      PROVE  Passed(n, e)'
  <2>1. CASE Delete(m)
    BY <2>1 DEF Delete, Changes, EndpointRows
  <2>2. CASE Switch(m)
    BY <2>2 DEF Switch, Changes, EndpointRows
  <2>3. CASE \E pin \in FormatIds : Repin(m, pin)
    BY <2>3 DEF Repin, Changes, EndpointRows
  <2> QED
    BY <1>3, <2>1, <2>2, <2>3
<1>4. ASSUME NEW c \in Contexts, NEW d \in Events, NEW name \in Names,
             NEW tenant \in Tenants \cup {Blank}, Fire(c, d, name, tenant)
      PROVE  Passed(n, e)'
  BY <1>4 DEF Fire
<1>5. ASSUME NEW d \in Events, Prune(d)
      PROVE  Passed(n, e)'
  BY <1>5 DEF Prune, EventRows
<1> QED
  BY <1>1, <1>2, <1>3, <1>4, <1>5
     DEF Next, vars, formats, calls, Boot, Publish, Releases, WholeReplay, DeliverDue, Delivers,
         DeliverNothing, Attempted, Select, ReplayReads, ReplayRefuses, TakesUp, EventIsGone,
         ReplaySets, SetsTarget, ReplayFires, ReplayRaises, Ends

\* A step writes no row, or the first rows of one event, or those of one replay.
LEMMA RowsStep ==
    ASSUME TypeOK, SetIsNarrow, [Next]_vars
    PROVE  /\ \A o \in rows : \E q \in rows' : Same(o, q)
           /\ minted <= minted' /\ written <= written'
           /\ \/ \A q \in rows' : Old(q)
              \/ \E e \in Events : \A q \in rows' :
                    Old(q) \/ (First(e, q) /\ Passed(q.to, e)')
              \/ \E c \in Contexts : ReplayFires(c) /\ \A q \in rows' : Old(q) \/ Again(c, q)
<1> DEFINE Goal == /\ \A o \in rows : \E q \in rows' : Same(o, q)
                   /\ minted <= minted' /\ written <= written'
                   /\ \/ \A q \in rows' : Old(q)
                      \/ \E e \in Events : \A q \in rows' :
                            Old(q) \/ (First(e, q) /\ Passed(q.to, e)')
                      \/ \E c \in Contexts :
                            ReplayFires(c) /\ \A q \in rows' : Old(q) \/ Again(c, q)
<1>0. /\ \A o : Same(o, o)
      /\ \A q \in rows : Old(q)
      /\ minted \in Nat /\ written \in Nat
  BY DEF Same, Old, TypeOK
<1>1. CASE UNCHANGED <<rows, issued>>
  BY <1>0, <1>1 DEF issued
<1>2. ASSUME NEW c \in Contexts, NEW e \in Events, NEW name \in Names,
             NEW tenant \in Tenants \cup {Blank}, Fire(c, e, name, tenant)
      PROVE  Goal
  <2> DEFINE ev == [state |-> "kept", name |-> name, tenant |-> tenant]
  <2>1. event'[e] = ev /\ ev \in EventRows
    BY <1>2 DEF Fire, TypeOK, EventRows
  <2>2. Owes(c, e, ev) /\ Free(c) /\ UNCHANGED <<endpoint, narrow, replay, told>>
    BY <1>2, <2>1 DEF Fire, calls
  <2>3. ASSUME NEW q \in rows', q \notin rows
        PROVE  First(e, q) /\ Passed(q.to, e)'
    BY <2>1, <2>2, <2>3, OwesRows DEF Passed
  <2> QED
    BY <1>0, <2>1, <2>2, <2>3, OwesKeeps
<1>3. ASSUME NEW c \in Contexts, NEW e \in Events, WholeReplay(c, e)
      PROVE  Goal
  <2> DEFINE ev == event[e]
  <2>1. /\ Owes(c, e, ev) /\ Free(c)
        /\ ev \in EventRows /\ ev.state = "kept" /\ event'[e] = ev
        /\ UNCHANGED <<endpoint, narrow, replay, told>>
    BY <1>3 DEF WholeReplay, calls, TypeOK
  <2> HIDE DEF ev
  <2>2. ASSUME NEW q \in rows', q \notin rows
        PROVE  First(e, q) /\ Passed(q.to, e)'
    BY <2>1, <2>2, OwesRows DEF Passed
  <2> QED
    BY <1>0, <2>1, <2>2, OwesKeeps
<1>4. ASSUME NEW p \in Processes, NEW r \in rows, DeliverDue(p, r) \/ DeliverNothing(p, r)
      PROVE  Goal
  <2>1. Attempted(r) /\ UNCHANGED <<minted, written>>
    BY <1>4 DEF DeliverDue, Delivers, DeliverNothing, Attempted, issued
  <2> QED
    BY <1>0, <2>1, AttemptedRows
<1>5. ASSUME NEW c \in Contexts, ReplaySets(c)
      PROVE  Goal
  BY <1>0, <1>5 DEF ReplaySets, SetsTarget, Mints
<1>6. ASSUME NEW c \in Contexts, ReplayFires(c)
      PROVE  Goal
  <2>1. rows \subseteq rows' /\ UNCHANGED minted
    BY <1>6 DEF ReplayFires, Writes, Ends
  <2>2. written <= written'
    BY <1>6, FiresKeeps
  <2> QED
    BY <1>0, <1>6, <2>1, <2>2, FiresRows
<1> QED
  BY <1>1, <1>2, <1>3, <1>4, <1>5, <1>6
     DEF Next, vars, formats, calls, issued, Boot, Publish, Releases, Register, Switch, Repin,
         Delete, Changes, Prune, Select, ReplayReads, ReplayRefuses, TakesUp, EventIsGone, ReplayRaises,
         Ends

-----------------------------------------------------------------------------
(* The inductive invariant *)

\* What is owed was let through when its event was fired.
Boundary == \A r \in rows : Passed(r.to, r.event)

LogOf(l, r) == l.id = r.id /\ l.event = r.event /\ l.pin = r.pin /\ l.to \in {Nobody, r.to}

\* The log, a replay and the row it wrote go back to a delivery that was owed.
Traced ==
    /\ \A l \in log : \E r \in rows : LogOf(l, r)
    /\ \A c \in Contexts : replay[c] # Resting =>
          \E r \in rows : /\ replay[c].of = r.id /\ replay[c].event = r.event
                          /\ replay[c].to = r.to
    /\ ReplayIsNarrow

\* A log row that names an endpoint names one that is still there.
StillThere == \A l \in log : l.to # Nobody => endpoint[l.to].state \in {"on", "off"}

\* An id names one delivery, as its primary key does, and the id a replay holds
\* names none yet.
Held(c) == replay[c].step = "set"
Fresh ==
    /\ \A r \in rows : r.id.call < minted
    /\ \A r, q \in rows : r.id = q.id => Same(r, q)
    /\ \A r \in rows : r.pk.nth < written
    /\ \A r, q \in rows : r.pk = q.pk => Same(r, q)
    /\ \A c \in Contexts : Held(c) => /\ narrow[c].target.id.call < minted
                                      /\ \A r \in rows : r.id # narrow[c].target.id
    /\ \A c, d \in Contexts : Held(c) /\ Held(d) /\ c # d =>
          narrow[c].target.id # narrow[d].target.id

LEMMA BoundaryStep ==
    TypeOK /\ SetIsNarrow /\ Boundary /\ Traced /\ [Next]_vars => Boundary'
<1> SUFFICES ASSUME TypeOK, SetIsNarrow, Boundary, Traced, [Next]_vars, NEW q \in rows'
             PROVE  Passed(q.to, q.event)'
  BY DEF Boundary
<1>1. CASE Old(q)
  <2>1. PICK r \in rows : Same(r, q)
    BY <1>1 DEF Old
  <2>2. r.to \in Endpoints /\ r.event \in Events /\ Passed(r.to, r.event)
    BY DEF Boundary, TypeOK, DeliveryRows
  <2> QED
    BY <2>1, <2>2, PassedStays DEF Same
<1>2. ASSUME NEW e \in Events, First(e, q), Passed(q.to, e)'
      PROVE  Passed(q.to, q.event)'
  BY <1>2 DEF First
<1>3. ASSUME NEW c \in Contexts, ReplayFires(c), Again(c, q)
      PROVE  Passed(q.to, q.event)'
  <2>1. PICK r \in rows : replay[c].event = r.event /\ replay[c].to = r.to
    BY <1>3 DEF Traced, ReplayFires, Ends, Resting
  <2>2. r.to \in Endpoints /\ r.event \in Events /\ Passed(r.to, r.event)
    BY DEF Boundary, TypeOK, DeliveryRows
  <2> QED
    BY <1>3, <2>1, <2>2, PassedStays DEF Again
<1> QED
  BY <1>1, <1>2, <1>3, RowsStep

LEMMA LogStep ==
    ASSUME TypeOK, SetIsNarrow, Traced, [Next]_vars, NEW l \in log'
    PROVE  \E q \in rows' : LogOf(l, q)
<1>1. ASSUME NEW m \in log, l.id = m.id, l.event = m.event, l.pin = m.pin, l.to \in {Nobody, m.to}
      PROVE  \E q \in rows' : LogOf(l, q)
  <2>1. PICK r \in rows : LogOf(m, r)
    BY DEF Traced
  <2>2. PICK q \in rows' : Same(r, q)
    BY RowsStep
  <2> QED
    BY <1>1, <2>1, <2>2 DEF LogOf, Same
<1>2. CASE UNCHANGED log
  BY <1>1, <1>2
<1>3. ASSUME NEW p \in Processes, NEW r \in rows, DeliverDue(p, r)
      PROVE  \E q \in rows' : LogOf(l, q)
  <2>1. l \in log \/ LogOf(l, r)
    BY <1>3 DEF DeliverDue, Delivers, LogOf
  <2>2. PICK q \in rows' : Same(r, q)
    BY RowsStep
  <2> QED
    BY <1>1, <2>1, <2>2 DEF LogOf, Same
<1>4. ASSUME NEW n \in Endpoints, Delete(n)
      PROVE  \E q \in rows' : LogOf(l, q)
  <2>1. PICK m \in log : l = [m EXCEPT !.to = IF @ = n THEN Nobody ELSE @]
    BY <1>4 DEF Delete
  <2>2. m \in LogRows
    BY DEF TypeOK
  <2>3. l.id = m.id /\ l.event = m.event /\ l.pin = m.pin /\ l.to \in {Nobody, m.to}
    BY <2>1, <2>2 DEF LogRows
  <2> QED
    BY <1>1, <2>3
<1> QED
  BY <1>2, <1>3, <1>4
     DEF Next, vars, formats, calls, Boot, Publish, Releases, Register, Switch, Repin,
         Fire, WholeReplay, DeliverNothing, Prune, Select, ReplayReads, ReplayRefuses, TakesUp,
         EventIsGone, ReplaySets, SetsTarget, ReplayFires, ReplayRaises, Ends

LEMMA StillThereStep == TypeOK /\ StillThere /\ [Next]_vars => StillThere'
<1> SUFFICES ASSUME TypeOK, StillThere, [Next]_vars PROVE StillThere'
  OBVIOUS
<1> USE DEF TypeOK, StillThere
<1>1. CASE UNCHANGED <<endpoint, log>>
  BY <1>1
<1>2. ASSUME NEW p \in Processes, NEW m \in Endpoints, NEW tenant \in Tenants \cup {Blank},
             NEW names \in Subscriptions, NEW wish \in Wishes, Register(p, m, tenant, names, wish)
      PROVE  StillThere'
  BY <1>2 DEF Register
<1>3. ASSUME NEW m \in Endpoints, Switch(m)
      PROVE  StillThere'
  BY <1>3 DEF Switch, Changes, EndpointRows
<1>4. ASSUME NEW m \in Endpoints, NEW pin \in FormatIds, Repin(m, pin)
      PROVE  StillThere'
  BY <1>4 DEF Repin, Changes, EndpointRows
<1>5. ASSUME NEW m \in Endpoints, Delete(m)
      PROVE  StillThere'
  <2> SUFFICES ASSUME NEW l \in log', l.to # Nobody
               PROVE  endpoint'[l.to].state \in {"on", "off"}
    OBVIOUS
  <2>1. PICK k \in log : l = [k EXCEPT !.to = IF @ = m THEN Nobody ELSE @]
    BY <1>5 DEF Delete
  <2>2. k \in LogRows
    OBVIOUS
  <2>3. l.to = k.to /\ k.to # m
    BY <2>1, <2>2 DEF LogRows
  <2> QED
    BY <1>5, <2>2, <2>3 DEF Delete, Changes, LogRows
<1>6. ASSUME NEW p \in Processes, NEW r \in rows, DeliverDue(p, r)
      PROVE  StillThere'
  BY <1>6 DEF DeliverDue, Delivers, Attempted
<1> QED
  BY <1>1, <1>2, <1>3, <1>4, <1>5, <1>6
     DEF Next, vars, formats, calls, Boot, Publish, Releases, Fire, WholeReplay, DeliverNothing,
         Attempted, Prune, Select, ReplayReads, ReplayRefuses, TakesUp, EventIsGone, ReplaySets,
         SetsTarget, ReplayFires, ReplayRaises, Ends

LEMMA TracedStep ==
    TypeOK /\ SetIsNarrow /\ Traced /\ [Next]_vars => Traced'
<1> SUFFICES ASSUME TypeOK, SetIsNarrow, Traced, [Next]_vars PROVE Traced'
  OBVIOUS
<1>1. \A l \in log' : \E q \in rows' : LogOf(l, q)
  BY LogStep
<1>2. ASSUME NEW c \in Contexts, replay'[c] # Resting
      PROVE  \E q \in rows' : /\ replay'[c].of = q.id /\ replay'[c].event = q.event
                              /\ replay'[c].to = q.to
  <2>1. ASSUME NEW r \in rows, replay'[c].of = r.id, replay'[c].event = r.event,
               replay'[c].to = r.to
        PROVE  \E q \in rows' : /\ replay'[c].of = q.id /\ replay'[c].event = q.event
                                /\ replay'[c].to = q.to
    BY <2>1, RowsStep DEF Same
  <2>2. CASE replay'[c] = replay[c]
    BY <1>2, <2>1, <2>2 DEF Traced
  <2>3. ASSUME NEW d \in Contexts, NEW l \in log, ReplayReads(d, l), c = d
        PROVE  \E r \in rows : /\ replay'[c].of = r.id /\ replay'[c].event = r.event
                               /\ replay'[c].to = r.to
    <3>1. PICK r \in rows : LogOf(l, r)
      BY DEF Traced
    <3>2. l.to = r.to
      BY <2>3, <3>1 DEF LogOf, ReplayReads, Replayable
    <3> QED
      BY <2>3, <3>1, <3>2 DEF LogOf, ReplayReads, TypeOK
  <2>4. ASSUME ReplaySets(c)
        PROVE  \E r \in rows : /\ replay'[c].of = r.id /\ replay'[c].event = r.event
                               /\ replay'[c].to = r.to
    <3>1. replay[c] \in Replays /\ replay[c] # Resting
      BY <2>4 DEF ReplaySets, SetsTarget, TypeOK, Resting
    <3>2. /\ replay'[c].of = replay[c].of /\ replay'[c].event = replay[c].event
          /\ replay'[c].to = replay[c].to
      BY <2>4, <3>1 DEF ReplaySets, SetsTarget, TypeOK, Replays
    <3> QED
      BY <3>1, <3>2 DEF Traced
  <2>5. ASSUME NEW d \in Contexts, EventIsGone(d) \/ ReplayFires(d) \/ ReplayRaises(d), c = d
        PROVE  FALSE
    BY <1>2, <2>5 DEF EventIsGone, ReplayFires, ReplayRaises, Ends, TypeOK
  <2>6. \/ replay'[c] = replay[c]
        \/ \E l \in log : ReplayReads(c, l)
        \/ ReplaySets(c)
        \/ EventIsGone(c) \/ ReplayFires(c) \/ ReplayRaises(c)
    <3>1. ASSUME NEW d \in Contexts,
                 \/ \E l \in log : ReplayReads(d, l)
                 \/ EventIsGone(d) \/ ReplaySets(d) \/ ReplayFires(d) \/ ReplayRaises(d)
          PROVE  c = d \/ replay'[c] = replay[c]
      BY <3>1 DEF TypeOK, ReplayReads, EventIsGone, ReplaySets, SetsTarget, ReplayFires,
                  ReplayRaises, Ends
    <3>2. \/ replay' = replay
          \/ \E d \in Contexts :
                \/ \E l \in log : ReplayReads(d, l)
                \/ EventIsGone(d) \/ ReplaySets(d) \/ ReplayFires(d) \/ ReplayRaises(d)
      BY DEF Next, vars, formats, calls, Boot, Publish, Releases, Register, Switch, Repin,
             Delete, Changes, Fire, WholeReplay, DeliverDue, Delivers, DeliverNothing,
             Attempted, Prune, Select, ReplayRefuses
    <3> QED
      BY <3>1, <3>2
  <2> QED
    BY <2>1, <2>2, <2>3, <2>4, <2>5, <2>6
<1>3. ReplayIsNarrow'
  <2> SUFFICES ASSUME NEW q \in rows', q.again # Nobody
               PROVE  \E o \in rows' : o.id = q.again /\ o.to = q.to /\ o.event = q.event
    BY DEF ReplayIsNarrow
  <2>1. ASSUME NEW o \in rows, o.id = q.again, o.to = q.to, o.event = q.event
        PROVE  \E p \in rows' : p.id = q.again /\ p.to = q.to /\ p.event = q.event
    BY <2>1, RowsStep DEF Same
  <2>2. CASE Old(q)
    BY <2>1, <2>2 DEF Old, Same, Traced, ReplayIsNarrow
  <2>3. ASSUME NEW c \in Contexts, ReplayFires(c), Again(c, q)
        PROVE  \E o \in rows : o.id = q.again /\ o.to = q.to /\ o.event = q.event
    BY <2>3 DEF Again, Traced, ReplayFires, Ends, Resting
  <2> QED
    BY <2>1, <2>2, <2>3, RowsStep DEF First
<1> QED
  BY <1>1, <1>2, <1>3 DEF Traced

\* A replay that holds an id held it before or has just minted it.
LEMMA HeldStep ==
    ASSUME TypeOK, [Next]_vars, NEW c \in Contexts, Held(c)'
    PROVE  \/ Held(c) /\ narrow'[c] = narrow[c] /\ ~ReplayFires(c)
           \/ ReplaySets(c)
<1> USE DEF TypeOK, Held, Resting
<1>1. CASE UNCHANGED <<narrow, replay>>
  BY <1>1 DEF ReplayFires, Ends
<1>2. ASSUME NEW d \in Contexts, NEW l \in log, ReplayReads(d, l)
      PROVE  Held(c) /\ narrow'[c] = narrow[c] /\ ~ReplayFires(c)
  BY <1>2 DEF ReplayReads, TakesUp, ReplayFires, Ends
<1>3. ASSUME NEW d \in Contexts, EventIsGone(d) \/ ReplayFires(d) \/ ReplayRaises(d)
      PROVE  Held(c) /\ narrow'[c] = narrow[c] /\ ~ReplayFires(c)
  BY <1>3 DEF EventIsGone, ReplayRaises, ReplayFires, Ends
<1>4. ASSUME NEW d \in Contexts, ReplaySets(d), d # c
      PROVE  Held(c) /\ narrow'[c] = narrow[c] /\ ~ReplayFires(c)
  BY <1>4 DEF ReplaySets, SetsTarget, ReplayFires, Ends
<1> QED
  BY <1>1, <1>2, <1>3, <1>4
     DEF Next, vars, formats, calls, Boot, Publish, Releases, Register, Switch, Repin, Delete,
         Changes, Fire, WholeReplay, DeliverDue, Delivers, DeliverNothing, Attempted, Prune,
         Select, ReplayRefuses, TakesUp

\* What ReplaySets holds is newer than every id there is.
LEMMA SetsFresh ==
    ASSUME TypeOK, NEW c \in Contexts, ReplaySets(c)
    PROVE  /\ narrow'[c].target.id.call = minted
           /\ minted' = minted + 1
           /\ UNCHANGED rows
BY DEF TypeOK, ReplaySets, SetsTarget, Mints

LEMMA FreshStep ==
    TypeOK /\ SetIsNarrow /\ Fresh /\ [Next]_vars => Fresh'
<1> SUFFICES ASSUME TypeOK, SetIsNarrow, Fresh, [Next]_vars PROVE Fresh'
  OBVIOUS
<1>0. /\ minted \in Nat /\ minted' \in Nat /\ minted <= minted'
      /\ written \in Nat /\ written' \in Nat /\ written <= written'
      /\ \A r \in rows : r.id.call \in Nat
      /\ \A c \in Contexts : Held(c) => narrow[c].target.id.call \in Nat
  BY TypeStep, RowsStep DEF TypeOK, DeliveryRows, Ids, SetIsNarrow, Targets, Held
<1>1. \A q \in rows' : q.id.call < minted'
  <2>1. \A q \in rows' : Old(q) => q.id.call < minted'
    BY <1>0 DEF Old, Same, Fresh
  <2>2. \A q \in rows', e \in Events : First(e, q) => q.id.call < minted'
    BY DEF First
  <2>3. \A q \in rows', c \in Contexts : ReplayFires(c) /\ Again(c, q) => q.id.call < minted'
    BY <1>0 DEF ReplayFires, Ends, Again, Fresh, Held
  <2> QED
    BY <2>1, <2>2, <2>3, RowsStep
<1>2. ASSUME NEW q \in rows', NEW p \in rows', q.id = p.id
      PROVE  Same(q, p)
  <2>1. ASSUME NEW r \in rows, NEW s \in rows, Same(r, q), Same(s, p)
        PROVE  Same(q, p)
    <3>1. r.id = s.id
      BY <1>2, <2>1 DEF Same
    <3>2. Same(r, s)
      BY <3>1 DEF Fresh
    <3> QED
      BY <2>1, <3>2 DEF Same
  <2>2. ASSUME NEW e \in Events, First(e, q), First(e, p)
        PROVE  Same(q, p)
    <3>1. q.id.to = q.to /\ p.id.to = p.to
      BY <2>2 DEF First
    <3> QED
      BY <1>2, <2>2, <3>1 DEF First, Same
  <2>3. ASSUME NEW e \in Events, (First(e, q) /\ Old(p)) \/ (Old(q) /\ First(e, p))
        PROVE  FALSE
    BY <1>0, <1>2, <2>3 DEF First, Old, Same, Fresh
  <2>4. ASSUME NEW c \in Contexts, Again(c, q), Again(c, p)
        PROVE  Same(q, p)
    BY <2>4 DEF Again, Same
  <2>5. ASSUME NEW c \in Contexts, ReplayFires(c), (Again(c, q) /\ Old(p)) \/ (Old(q) /\ Again(c, p))
        PROVE  FALSE
    BY <1>2, <2>5 DEF Again, Old, Same, Fresh, ReplayFires, Ends, Held
  <2> QED
    BY <2>1, <2>2, <2>3, <2>4, <2>5, RowsStep DEF Old
<1>3. ASSUME NEW c \in Contexts, Held(c)'
      PROVE  /\ narrow'[c].target.id.call < minted'
             /\ \A q \in rows' : q.id # narrow'[c].target.id
  <2>1. CASE ReplaySets(c)
    <3>1. narrow'[c].target.id.call = minted /\ minted' = minted + 1 /\ rows' = rows
      BY <2>1, SetsFresh
    <3>2. \A r \in rows : r.id.call # minted
      BY <1>0 DEF Fresh
    <3> QED
      BY <1>0, <3>1, <3>2
  <2>2. CASE Held(c) /\ narrow'[c] = narrow[c] /\ ~ReplayFires(c)
    <3>1. narrow[c].target.id.call < minted /\ \A r \in rows : r.id # narrow[c].target.id
      BY <2>2 DEF Fresh
    <3>2. \A q \in rows' : Old(q) => q.id # narrow[c].target.id
      BY <3>1 DEF Old, Same
    <3>3. \A q \in rows', e \in Events : First(e, q) => q.id # narrow[c].target.id
      BY <1>0, <2>2, <3>1 DEF First
    <3>4. ASSUME NEW q \in rows', NEW d \in Contexts, ReplayFires(d), Again(d, q)
          PROVE  q.id # narrow[c].target.id
      <4>1. Held(d) /\ d # c
        BY <2>2, <3>4 DEF ReplayFires, Ends, Held
      <4> QED
        BY <2>2, <3>4, <4>1 DEF Again, Fresh
    <3> QED
      BY <1>0, <2>2, <3>1, <3>2, <3>3, <3>4, RowsStep
  <2> QED
    BY <1>3, <2>1, <2>2, HeldStep
<1>4. ASSUME NEW c \in Contexts, NEW d \in Contexts, Held(c)', Held(d)', c # d
      PROVE  narrow'[c].target.id # narrow'[d].target.id
  <2>1. ASSUME NEW a \in Contexts, NEW b \in Contexts, a # b, ReplaySets(a), Held(b)'
        PROVE  narrow'[a].target.id # narrow'[b].target.id
    <3>1. Held(b) /\ narrow'[b] = narrow[b]
      BY <2>1 DEF ReplaySets, SetsTarget, Held, TypeOK
    <3>2. narrow'[a].target.id.call = minted
      BY <2>1, SetsFresh
    <3>3. narrow[b].target.id.call # minted
      BY <1>0, <3>1 DEF Fresh
    <3> QED
      BY <3>1, <3>2, <3>3
  <2>2. CASE Held(c) /\ narrow'[c] = narrow[c] /\ Held(d) /\ narrow'[d] = narrow[d]
    BY <1>4, <2>2 DEF Fresh
  <2> QED
    BY <1>4, <2>1, <2>2, HeldStep
<1>5. \A q \in rows' : q.pk.nth < written'
  <2>1. \A r \in rows : r.pk.nth \in Nat
    BY DEF TypeOK, DeliveryRows, PrimaryKeys
  <2>2. \A q \in rows' : Old(q) => q.pk.nth < written'
    BY <1>0, <2>1 DEF Old, Same, Fresh
  <2>3. \A q \in rows', e \in Events : First(e, q) => q.pk.nth < written'
    BY DEF First
  <2>4. \A q \in rows', c \in Contexts : Again(c, q) => q.pk.nth < written'
    BY DEF Again
  <2> QED
    BY <2>2, <2>3, <2>4, RowsStep
<1>6. ASSUME NEW q \in rows', NEW p \in rows', q.pk = p.pk
      PROVE  Same(q, p)
  <2>1. ASSUME NEW r \in rows, NEW s \in rows, Same(r, q), Same(s, p)
        PROVE  Same(q, p)
    <3>1. r.pk = s.pk
      BY <1>6, <2>1 DEF Same
    <3>2. Same(r, s)
      BY <3>1 DEF Fresh
    <3> QED
      BY <2>1, <3>2 DEF Same
  <2>2. ASSUME NEW e \in Events, First(e, q), First(e, p)
        PROVE  Same(q, p)
    <3>1. q.pk.to = q.to /\ p.pk.to = p.to
      BY <2>2 DEF First
    <3> QED
      BY <1>6, <2>2, <3>1 DEF First, Same
  <2>3. ASSUME NEW c \in Contexts, Again(c, q), Again(c, p)
        PROVE  Same(q, p)
    BY <2>3 DEF Again, Same
  <2>4. \A r \in rows : r.pk.nth \in Nat /\ r.pk.nth < written
    BY DEF TypeOK, DeliveryRows, PrimaryKeys, Fresh
  <2>5. \A x \in rows' : Old(x) => x.pk.nth # written
    BY <1>0, <2>4 DEF Old, Same
  <2>6. \A x \in rows', e \in Events : First(e, x) => x.pk.nth = written
    BY DEF First
  <2>7. \A x \in rows', c \in Contexts : Again(c, x) => x.pk.nth = written
    BY DEF Again
  <2> QED
    BY <1>6, <2>1, <2>2, <2>3, <2>5, <2>6, <2>7, RowsStep DEF Old
<1> QED
  BY <1>1, <1>2, <1>3, <1>4, <1>5, <1>6 DEF Fresh

LEMMA OwedStep ==
    TypeOK /\ SetIsNarrow /\ Boundary /\ Traced /\ ReplayIsOwed /\ [Next]_vars => ReplayIsOwed'
<1> SUFFICES ASSUME TypeOK, SetIsNarrow, Boundary, Traced, ReplayIsOwed, [Next]_vars,
                    NEW t \in told'
             PROVE  (\E r \in rows' : r.id = t.id) \/ event'[t.event].state = "pruned"
  BY DEF ReplayIsOwed
<1>1. \A e \in Events : event[e].state = "pruned" => event'[e].state = "pruned"
  <2>1. CASE UNCHANGED event
    BY <2>1
  <2>2. ASSUME NEW c \in Contexts, NEW d \in Events, NEW name \in Names,
               NEW tenant \in Tenants \cup {Blank}, Fire(c, d, name, tenant)
        PROVE  \A e \in Events : event[e].state = "pruned" => event'[e].state = "pruned"
    BY <2>2 DEF Fire, TypeOK
  <2>3. ASSUME NEW d \in Events, Prune(d)
        PROVE  \A e \in Events : event[e].state = "pruned" => event'[e].state = "pruned"
    BY <2>3 DEF Prune, TypeOK
  <2> QED
    BY <2>1, <2>2, <2>3
       DEF Next, vars, formats, calls, Boot, Publish, Releases, Register, Switch, Repin, Delete,
           Changes, WholeReplay, DeliverDue, Delivers, DeliverNothing, Attempted, Select,
           ReplayReads, ReplayRefuses, TakesUp, EventIsGone, ReplaySets, SetsTarget, ReplayFires,
           ReplayRaises, Ends
<1>2. CASE t \in told
  <2>1. t.event \in Events
    BY <1>2 DEF TypeOK
  <2> QED
    BY <1>1, <1>2, <2>1, RowsStep DEF ReplayIsOwed, Same
<1>3. ASSUME NEW c \in Contexts, ReplayFires(c), t \notin told
      PROVE  (\E r \in rows' : r.id = t.id) \/ event'[t.event].state = "pruned"
  <2> DEFINE e == replay[c].event
  <2>1. t = [id |-> narrow[c].target.id, event |-> e] /\ event' = event
    BY <1>3 DEF ReplayFires, Ends
  <2>2. PICK r \in rows : e = r.event
    BY <1>3 DEF Traced, ReplayFires, Ends, Resting
  <2>3. Passed(r.to, e) /\ e \in Events
    BY <2>2 DEF Boundary, TypeOK, DeliveryRows
  <2>4. CASE event[e].state = "kept"
    <3>1. DeliveryTargets(c, e, event[e]) = {narrow[c].target}
      BY <1>3, <2>3 DEF DeliveryTargets, Passed, SetIsNarrow, ReplayFires, Ends
    <3> DEFINE x == narrow[c].target
               row == [pk |-> [nth |-> written, to |-> x.to], event |-> e, to |-> x.to,
                       pin |-> x.pin, id |-> x.id, state |-> "owed", again |-> replay[c].of]
    <3>2. row \in RowsFor({x}, e, replay[c].of)
      BY DEF RowsFor
    <3>3. row \in rows'
      BY <1>3, <2>4, <3>1, <3>2 DEF ReplayFires, Writes
    <3> QED
      BY <2>1, <3>3
  <2>5. CASE event[e].state # "kept"
    BY <2>1, <2>3, <2>5 DEF Passed, TypeOK, EventRows
  <2> QED
    BY <2>4, <2>5
<1> QED
  BY <1>2, <1>3
     DEF Next, vars, formats, calls, Boot, Publish, Releases, Register, Switch, Repin, Delete,
         Changes, Fire, WholeReplay, DeliverDue, Delivers, DeliverNothing, Attempted, Prune,
         Select, ReplayReads, ReplayRefuses, TakesUp, EventIsGone, ReplaySets, SetsTarget,
         ReplayRaises, Ends

-----------------------------------------------------------------------------
(* Bytes *)

\* What renders while nobody changes CLOUDEVENTS_SOURCE: an identity of the
\* package's is never the operator's.
Renderers ==
    BuiltIns(FirstSource) \cup {o \in Own : o.id \notin Published(BuiltIns(FirstSource))}

\* What renders at all: the envelope is the package's in every process.
Makes == {o \in Objects : o.id = EnvelopeV1.id => o = EnvelopeV1}

\* Every registry is the built-in formats of a source that was set and formats
\* of the operator's, one object to an identity.
Rendered ==
    /\ FirstSource \in used
    /\ \A p \in Processes : \E source \in used :
          /\ BuiltIns(source) \subseteq published[p]
          /\ published[p] \subseteq BuiltIns(source) \cup Own
    /\ \A p \in Processes : \A o, q \in published[p] : o.id = q.id => o = q
    /\ used = {FirstSource} =>
          \A l \in log : \E o \in Renderers : o.id = l.pin /\ o.by = l.by
    /\ \A l \in log : \E o \in Makes : o.id = l.pin /\ o.by = l.by

LEMMA BuiltInsAreOne ==
    ASSUME NEW source, NEW o \in BuiltIns(source), NEW q \in BuiltIns(source), o.id = q.id
    PROVE  o = q
BY DEF BuiltIns, EnvelopeV1, CloudEventsV1

LEMMA RendererIsOne ==
    ASSUME NEW o \in Renderers, NEW q \in Renderers, o.id = q.id
    PROVE  o.by = q.by
BY BuiltInsAreOne DEF Renderers, Published

\* Only CloudEvents, as the package renders it, comes from more than one source.
LEMMA OnlyCloudEventsVaries ==
    ASSUME NEW o \in Makes, NEW q \in Makes, o.id = q.id, o.by # q.by
    PROVE  o.id = CloudEventsV1(FirstSource).id
<1>1. ASSUME NEW x \in Objects
      PROVE  x = EnvelopeV1 \/ x \in Own \/ x.id = CloudEventsV1(FirstSource).id
  BY <1>1 DEF Objects, CloudEventsV1
<1>2. o # EnvelopeV1 /\ q # EnvelopeV1
  BY DEF Makes
<1>3. ~(o \in Own /\ q \in Own)
  OBVIOUS
<1> QED
  BY <1>1, <1>2, <1>3 DEF Makes

LEMMA RenderedStep == TypeOK /\ Rendered /\ [Next]_vars => Rendered'
<1> SUFFICES ASSUME TypeOK, Rendered, [Next]_vars PROVE Rendered'
  OBVIOUS
<1>1. CASE UNCHANGED <<formats, log>>
  BY <1>1 DEF Rendered, formats
<1>2. ASSUME NEW p \in Processes, NEW source \in Sources \cup {NoSource}, Boot(p, source)
      PROVE  Rendered'
  <2>1. /\ published' = [published EXCEPT ![p] = BuiltIns(source)]
        /\ used' = used \cup {source} /\ log' = log
    BY <1>2 DEF Boot, Releases
  <2>2. FirstSource \in used' /\ (used' = {FirstSource} => used = {FirstSource})
    BY <2>1 DEF Rendered
  <2>3. ASSUME NEW s \in Processes
        PROVE  /\ \E x \in used' : /\ BuiltIns(x) \subseteq published'[s]
                                   /\ published'[s] \subseteq BuiltIns(x) \cup Own
               /\ \A o, q \in published'[s] : o.id = q.id => o = q
    <3>1. CASE s = p
      <4>1. published'[s] = BuiltIns(source) /\ source \in used'
        BY <2>1, <3>1 DEF TypeOK
      <4> QED
        BY <4>1, BuiltInsAreOne
    <3>2. CASE s # p
      BY <2>1, <3>2 DEF TypeOK, Rendered
    <3> QED
      BY <3>1, <3>2
  <2> QED
    BY <2>1, <2>2, <2>3 DEF Rendered
<1>3. ASSUME NEW p \in Processes, NEW o \in Own, Publish(p, o)
      PROVE  Rendered'
  <2>1. /\ published' = [published EXCEPT ![p] = @ \cup {o}]
        /\ \A q \in published[p] : q.id = o.id => q = o
        /\ UNCHANGED <<used, log>>
    BY <1>3 DEF Publish, RegisterFormat, Releases
  <2>2. ASSUME NEW s \in Processes
        PROVE  /\ \E x \in used' : /\ BuiltIns(x) \subseteq published'[s]
                                   /\ published'[s] \subseteq BuiltIns(x) \cup Own
               /\ \A a, b \in published'[s] : a.id = b.id => a = b
    <3>1. CASE s = p
      <4>1. published'[s] = published[s] \cup {o}
        BY <2>1, <3>1 DEF TypeOK
      <4> QED
        BY <2>1, <3>1, <4>1 DEF Rendered
    <3>2. CASE s # p
      BY <2>1, <3>2 DEF TypeOK, Rendered
    <3> QED
      BY <3>1, <3>2
  <2> QED
    BY <2>1, <2>2 DEF Rendered
<1>4. ASSUME NEW p \in Processes, NEW r \in rows, DeliverDue(p, r)
      PROVE  Rendered'
  <2>1. PICK f \in published[p] : /\ f.id = r.pin
                                  /\ log' = log \cup {[id |-> r.id, event |-> r.event,
                                                 to |-> r.to, pin |-> r.pin, by |-> f.by]}
    BY <1>4 DEF DeliverDue, Delivers, Get
  <2>2. UNCHANGED formats
    BY <1>4 DEF DeliverDue, Delivers, Attempted
  <2>3. ASSUME used = {FirstSource}
        PROVE  f \in Renderers
    <3>1. /\ BuiltIns(FirstSource) \subseteq published[p]
          /\ published[p] \subseteq BuiltIns(FirstSource) \cup Own
          /\ \A q \in published[p] : q.id = f.id => q = f
      BY <2>3 DEF Rendered
    <3> QED
      BY <3>1 DEF Renderers, Published
  <2>4. used = {FirstSource} =>
            \A l \in log' : \E o \in Renderers : o.id = l.pin /\ o.by = l.by
    BY <2>1, <2>3 DEF Rendered
  <2>5. f \in Makes
    <3>1. EnvelopeV1 \in published[p] /\ f \in Objects
      BY DEF Rendered, BuiltIns, TypeOK
    <3> QED
      BY <3>1 DEF Makes, Rendered
  <2>6. \A l \in log' : \E o \in Makes : o.id = l.pin /\ o.by = l.by
    BY <2>1, <2>5 DEF Rendered
  <2> QED
    BY <2>2, <2>4, <2>6 DEF Rendered, formats
<1>5. ASSUME NEW n \in Endpoints, Delete(n)
      PROVE  Rendered'
  <2>1. ASSUME NEW l \in log'
        PROVE  \E m \in log : l.pin = m.pin /\ l.by = m.by
    <3>1. PICK m \in log : l = [m EXCEPT !.to = IF @ = n THEN Nobody ELSE @]
      BY <1>5 DEF Delete
    <3>2. m \in LogRows
      BY DEF TypeOK
    <3> QED
      BY <3>1, <3>2 DEF LogRows
  <2>2. UNCHANGED formats
    BY <1>5 DEF Delete, Changes
  <2> QED
    BY <2>1, <2>2 DEF Rendered, formats
<1> QED
  BY <1>1, <1>2, <1>3, <1>4, <1>5
     DEF Next, vars, calls, Register, Switch, Repin, Changes, Fire, WholeReplay, DeliverNothing,
         Attempted, Prune, Select, ReplayReads, ReplayRefuses, TakesUp, EventIsGone, ReplaySets,
         SetsTarget, ReplayFires, ReplayRaises, Ends

-----------------------------------------------------------------------------
(* Theorems *)

FanOutInv ==
    TypeOK /\ SetIsNarrow /\ Boundary /\ Traced /\ StillThere /\ Fresh /\ ReplayIsOwed
    /\ Rendered

LEMMA FanOutInit == Init => FanOutInv
<1> SUFFICES ASSUME Init PROVE FanOutInv
  OBVIOUS
<1>1. SetIsNarrow /\ Boundary /\ Traced /\ StillThere /\ Fresh /\ ReplayIsOwed
  BY DEF Init, SetIsNarrow, Boundary, Traced, StillThere, ReplayIsNarrow, Fresh, Held, ReplayIsOwed, Resting
<1>2. Rendered
  BY BuiltInsAreOne DEF Init, Rendered
<1> QED
  BY <1>1, <1>2, TypeInit DEF FanOutInv

LEMMA FanOutInvariant == Spec => []FanOutInv
<1>1. FanOutInv /\ [Next]_vars => FanOutInv'
  BY TypeStep, NarrowStep, BoundaryStep, TracedStep, StillThereStep, FreshStep, OwedStep,
     RenderedStep
     DEF FanOutInv
<1> QED
  BY <1>1, FanOutInit, PTL DEF Spec

\* Every variable of FanOut keeps to its type.
THEOREM FanOutTypes == Spec => []TypeOK
<1>1. FanOutInv => TypeOK
  BY DEF FanOutInv
<1> QED
  BY <1>1, FanOutInvariant, PTL

\* Under tenancy a payload is owed only to an endpoint of its event's tenant.
THEOREM TenantsKeptApart == Spec => []TenantBoundary
<1>1. FanOutInv => TenantBoundary
  BY DEF FanOutInv, Boundary, Passed, TenantBoundary
<1> QED
  BY <1>1, FanOutInvariant, PTL

\* No customer is owed one of this package's own events.
THEOREM InternalKept == Spec => []InternalStaysInside
<1>1. FanOutInv => InternalStaysInside
  BY DEF FanOutInv, Boundary, Passed, InternalStaysInside
<1> QED
  BY <1>1, FanOutInvariant, PTL

\* Nobody is owed what they did not subscribe to, by a replay either.
THEOREM SubscribersOnly == Spec => []OwedToSubscribers
<1>1. FanOutInv => OwedToSubscribers
  BY DEF FanOutInv, Boundary, Passed, OwedToSubscribers
<1> QED
  BY <1>1, FanOutInvariant, PTL

\* What was sent kept to tenants, subscriptions and internal events: the log
\* holds nothing that was not owed.
THEOREM SentToTheRight == Spec => []SentWithinBounds
<1>1. FanOutInv => SentWithinBounds
  <2> SUFFICES ASSUME FanOutInv, NEW l \in log
               PROVE  /\ event[l.event].name \notin Internal
                      /\ l.to # Nobody =>
                            /\ event[l.event].name \in endpoint[l.to].names
                            /\ Scoped => /\ event[l.event].tenant # Blank
                                         /\ endpoint[l.to].tenant = event[l.event].tenant
    BY DEF SentWithinBounds
  <2>1. PICK r \in rows : LogOf(l, r)
    BY DEF FanOutInv, Traced
  <2>2. Passed(r.to, r.event)
    BY DEF FanOutInv, Boundary
  <2>3. l.to # Nobody => endpoint[l.to].state # "deleted"
    BY DEF FanOutInv, StillThere
  <2> QED
    BY <2>1, <2>2, <2>3 DEF LogOf, Passed
<1> QED
  BY <1>1, FanOutInvariant, PTL

\* No two deliveries share a message id: each row of the substrate's has one of
\* its own, replays of one delivery included.
THEOREM FreshIds == Spec => []IdsAreFresh
<1>1. FanOutInv => IdsAreFresh
  BY DEF FanOutInv, Fresh, Same, IdsAreFresh
<1> QED
  BY <1>1, FanOutInvariant, PTL

\* A replay of one delivery goes where the original went.
THEOREM NarrowReplays == Spec => []ReplayIsNarrow
<1>1. FanOutInv => ReplayIsNarrow
  BY DEF FanOutInv, Traced
<1> QED
  BY <1>1, FanOutInvariant, PTL

\* An id that replay_delivery returned is owed or was, or its event is pruned.
THEOREM OwedReplays == Spec => []ReplayIsOwed
<1>1. FanOutInv => ReplayIsOwed
  BY DEF FanOutInv
<1> QED
  BY <1>1, FanOutInvariant, PTL

\* Every request of one delivery carries the same bytes, whatever the processes
\* publish, but for CloudEvents where CLOUDEVENTS_SOURCE changes.
THEOREM OneBody == Spec => []OneBodyPerDelivery
<1>1. FanOutInv => OneBodyPerDelivery
  <2> SUFFICES ASSUME FanOutInv, NEW l \in log, NEW m \in log, l.id = m.id
               PROVE  /\ l.pin = m.pin
                      /\ l.by # m.by =>
                            l.pin = CloudEventsV1(FirstSource).id /\ used # {FirstSource}
    BY DEF OneBodyPerDelivery
  <2>1. l.pin = m.pin
    <3>1. PICK r \in rows : LogOf(l, r)
      BY DEF FanOutInv, Traced
    <3>2. PICK q \in rows : LogOf(m, q)
      BY DEF FanOutInv, Traced
    <3>3. Same(r, q)
      BY <3>1, <3>2 DEF FanOutInv, Fresh, LogOf
    <3> QED
      BY <3>1, <3>2, <3>3 DEF LogOf, Same
  <2>2. used = {FirstSource} => l.by = m.by
    BY <2>1, RendererIsOne DEF FanOutInv, Rendered
  <2>3. l.by # m.by => l.pin = CloudEventsV1(FirstSource).id
    BY <2>1, OnlyCloudEventsVaries DEF FanOutInv, Rendered
  <2> QED
    BY <2>1, <2>2, <2>3
<1> QED
  BY <1>1, FanOutInvariant, PTL

\* A replay of a whole event reaches every endpoint owed it now.
THEOREM WholeReplays == Spec => WholeReplayIsWhole
<1> DEFINE Step == \A c \in Contexts, e \in Events : WholeReplay(c, e) =>
                      \A n \in EndpointsFor(event[e].name, event[e].tenant) :
                         event[e].name \in Internal \/ \E r \in rows' \ rows : r.event = e /\ r.to = n
<1>1. FanOutInv => Step
  <2> SUFFICES ASSUME FanOutInv, NEW c \in Contexts, NEW e \in Events, WholeReplay(c, e),
                      NEW n \in EndpointsFor(event[e].name, event[e].tenant),
                      event[e].name \notin Internal
               PROVE  \E r \in rows' \ rows : r.event = e /\ r.to = n
    OBVIOUS
  <2> DEFINE t == [to |-> n, pin |-> endpoint[n].pin, id |-> [call |-> minted, to |-> n]]
             row == [pk |-> [nth |-> written, to |-> t.to], event |-> e, to |-> t.to,
                     pin |-> t.pin, id |-> t.id, state |-> "owed", again |-> Nobody]
  <2>1. narrow[c].event # e
    BY DEF WholeReplay, Free, FanOutInv, SetIsNarrow, Resting, NoTarget
  <2>2. t \in DeliveryTargets(c, e, event[e])
    BY <2>1 DEF DeliveryTargets, Minted
  <2>3. row \in rows'
    <3> HIDE DEF t
    <3> QED
      BY <2>2 DEF WholeReplay, Owes, Writes, RowsFor
  <2>4. row \notin rows
    <3>1. row.id.call = minted /\ minted \in Nat
      BY DEF FanOutInv, TypeOK
    <3>2. \A r \in rows : r.id.call < minted
      BY DEF FanOutInv, Fresh
    <3> HIDE DEF row
    <3> QED
      BY <3>1, <3>2
  <2> QED
    BY <2>3, <2>4
<1>2. FanOutInv /\ [Next]_vars => [Step]_vars
  BY <1>1
<1> QED
  BY <1>2, FanOutInvariant, PTL DEF Spec, WholeReplayIsWhole

\* A refused replay stops none of the others that were selected with it.
THEOREM RefusalsAreAlone == Spec => RefusalsStopNothing
<1> DEFINE Step == \A c \in Contexts : \A id \in todo[c] \ todo'[c] :
                      \/ ReplayRaises(c)
                      \/ replay[c] = Resting /\ todo[c] = todo'[c] \cup {id}
<1>1. FanOutInv /\ [Next]_vars => [Step]_vars
  <2> SUFFICES ASSUME FanOutInv, [Next]_vars, NEW c \in Contexts, NEW id \in todo[c],
                      id \notin todo'[c]
               PROVE  \/ ReplayRaises(c)
                      \/ replay[c] = Resting /\ todo[c] = todo'[c] \cup {id}
    OBVIOUS
  <2>1. ASSUME NEW d \in Contexts, NEW l \in log, TakesUp(d, l)
        PROVE  replay[c] = Resting /\ todo[c] = todo'[c] \cup {id}
    <3>1. c = d /\ id = l.id
      BY <2>1 DEF TakesUp, FanOutInv, TypeOK
    <3> QED
      BY <2>1, <3>1 DEF TakesUp, FanOutInv, TypeOK
  <2>2. ASSUME NEW d \in Contexts, NEW ids, Select(d, ids)
        PROVE  FALSE
    BY <2>2 DEF Select, Free, FanOutInv, TypeOK
  <2>3. ASSUME NEW d \in Contexts, ReplayRaises(d)
        PROVE  ReplayRaises(c)
    BY <2>3 DEF ReplayRaises, FanOutInv, TypeOK
  <2> QED
    BY <2>1, <2>2, <2>3
       DEF Next, vars, formats, calls, Boot, Publish, Releases, Register, Switch, Repin, Delete,
           Changes, Fire, WholeReplay, DeliverDue, Delivers, DeliverNothing, Attempted, Prune,
           ReplayReads, ReplayRefuses, EventIsGone, ReplaySets, SetsTarget, ReplayFires, Ends
<1> QED
  BY <1>1, FanOutInvariant, PTL DEF Spec, RefusalsStopNothing
=============================================================================
