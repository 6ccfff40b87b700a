--------------------------- MODULE FormatRegistry ---------------------------
(***************************************************************************)
(* The body formats a process publishes, as operators on one registry.  A  *)
(* format object is the identity it is published as and by, what decides   *)
(* its bytes besides the event: the package, a CLOUDEVENTS_SOURCE, or the  *)
(* class an operator wrote.  Objects that would render alike are one.      *)
(***************************************************************************)
EXTENDS Naturals

CONSTANTS
    Envelope, CloudEvents,  \* the families the package ships
    Package, Sources,       \* what its formats render by
    NoSource,               \* CLOUDEVENTS_SOURCE is not set
    Unstated,               \* a registration that names no version
    Own                     \* the objects of the operator

ASSUME FormatAssumption ==
    /\ Envelope # CloudEvents
    /\ NoSource \notin Sources /\ Package \notin Sources
    /\ Unstated \notin Nat
    /\ \A o \in Own : o.id.version \in Nat \ {0}
    \* Every process runs the same release of the operator's code.
    /\ \A o, q \in Own : o.id = q.id => o.by = q.by

EnvelopeV1 == [id |-> [name |-> Envelope, version |-> 1], by |-> Package]
CloudEventsV1(source) == [id |-> [name |-> CloudEvents, version |-> 1], by |-> source]

\* register_built_in_formats: no source, no CloudEvents.
BuiltIns(source) ==
    {EnvelopeV1} \cup IF source = NoSource THEN {} ELSE {CloudEventsV1(source)}

Objects == {EnvelopeV1} \cup {CloudEventsV1(source) : source \in Sources} \cup Own
FormatIds == {o.id : o \in Objects}
Makers == {o.by : o \in Objects}

\* FormatRegistry.published.
Published(registry) == {o.id : o \in registry}

\* A mutant: the later object takes the identity over.
RegisterReplaces(registry, o) == {{x \in registry : x.id # o.id} \cup {o}}

\* FormatRegistry.register, as the registries it may lead to: an identity that
\* names another object is refused.
RegisterFormat(registry, o) ==
    IF \E x \in registry : x.id = o.id /\ x # o THEN {} ELSE {registry \cup {o}}

\* FormatRegistry.latest and get as register_endpoint uses them: the identity
\* a wish is pinned to, if there is one.
Pinned(registry, wish) ==
    {id \in Published(registry) :
        /\ id.name = wish.name
        /\ IF wish.version = Unstated
               THEN \A other \in Published(registry) :
                        other.name = id.name => other.version <= id.version
               ELSE id.version = wish.version}

\* A mutant: what is not published is rendered as the latest of its family.
GetFallsBack(registry, id) ==
    IF id \in Published(registry)
        THEN {o \in registry : o.id = id}
        ELSE {o \in registry : o.id \in Pinned(registry, [id EXCEPT !.version = Unstated])}

\* FormatRegistry.get: one object or none, which is a LookupError.
Get(registry, id) == {o \in registry : o.id = id}
=============================================================================
