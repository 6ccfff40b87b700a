-------------------------- MODULE EndpointWriters ---------------------------
(***************************************************************************)
(* One endpoint row and the code that writes it through an instance it     *)
(* loaded before: rotate_secret, reactivate_endpoint and the admin's form. *)
(* The first two save the columns they are about, the form saves them all, *)
(* and nothing locks the row between the load and the save.  The delivery  *)
(* path writes the health columns beside them (the steps of                *)
(* IncidentContract), and senders read the secrets they sign with.         *)
(*                                                                         *)
(* expires, last, revived, spent, dead and forced are history that only    *)
(* properties read.                                                        *)
(***************************************************************************)
EXTENDS Naturals

CONSTANTS
    Clients,     \* callers that hold an instance: requests, commands
    Senders,     \* workers that deliver to the endpoint
    Secrets, FirstSecret,
    NoSecret,    \* a blank previous_secret
    Overlaps,    \* the values overlap_seconds is given
    Threshold, Never,
    Forms,       \* is the admin's form in use
    MaxTime,     \* bound: ticks
    MaxActs,     \* bound: writes by clients
    MaxDeaths    \* bound: dead deliveries

ASSUME WritersAssumption ==
    /\ FirstSecret \in Secrets
    /\ NoSecret \notin Secrets
    /\ Overlaps \subseteq Nat
    /\ Never \notin Nat
    /\ Threshold \in (Nat \ {0}) \cup {Never}
    /\ Forms \in BOOLEAN
    /\ MaxTime \in Nat \ {0} /\ MaxActs \in Nat /\ MaxDeaths \in Nat

VARIABLES
    present, row, told,   \* the endpoint's health, as in IncidentContract
    keys,                 \* its three secret columns
    held,                 \* the instance each client holds
    sending,              \* what each sender signs with
    clock,
    expires,   \* of each secret, from when it was first rotated away: the end
               \* of its overlap
    last,      \* the secret the last rotation replaced, if no form undid it
    revived,   \* the secrets in the columns that a save of older columns put
               \* there, or left there
    dead,      \* dead deliveries since the count was last cleared
    forced,    \* the form saved it as on, with the stamp of an auto-disable
    acts, deaths

health == <<present, row, told, dead, forced>>
bounds == <<acts, deaths>>
history == <<expires, last, revived>>
vars == <<health, keys, held, sending, clock, history, bounds>>

Health == INSTANCE IncidentContract

\* until: previous_secret_expires_at, 0 where it is null.
Keys == [secret : Secrets, previous : Secrets \cup {NoSecret}, until : Nat]

Instances == [row : [count : Nat, active : BOOLEAN, stamped : BOOLEAN], keys : Keys]

FirstKeys == [secret |-> FirstSecret, previous |-> NoSecret, until |-> 0]

Instance == [row |-> row, keys |-> keys]

\* What an attempt signs with, and the secrets that were spent before it.
Attempts ==
    [keys : Keys, with : SUBSET Secrets, spent : SUBSET Secrets,
     step : {"idle", "loaded", "signing"}]

\* Not delivering: nothing loaded, nothing signed.
Rest == [keys |-> FirstKeys, with |-> {}, spent |-> {}, step |-> "idle"]

Init ==
    /\ Health!Init
    /\ dead = 0
    /\ forced = FALSE
    /\ keys = FirstKeys
    /\ held = [c \in Clients |-> Instance]
    /\ sending = [w \in Senders |-> Rest]
    /\ clock = 1
    /\ expires = [s \in Secrets |-> 0]
    /\ last = NoSecret
    /\ revived = {}
    /\ acts = 0
    /\ deaths = 0

-----------------------------------------------------------------------------
(* signing_secrets *)

\* A mutant: the window is open one moment longer.
SigningSecretsInclusive(k, now) ==
    {k.secret} \cup {s \in {k.previous} : s # NoSecret /\ k.until >= now}

\* The secrets a delivery is signed with: the current one, and the previous
\* one while its window is open.
SigningSecrets(k, now) ==
    {k.secret} \cup {s \in {k.previous} : s # NoSecret /\ k.until > now}

\* The secrets that were rotated away and whose window has closed.
Spent == {s \in Secrets : expires[s] \in 1 .. clock}

-----------------------------------------------------------------------------
(* Clients *)

\* Loads the row, or reads it again.
Load(c) ==
    /\ present
    /\ held' = [held EXCEPT ![c] = Instance]
    /\ UNCHANGED <<health, keys, sending, clock, history, bounds>>

\* A client saves the instance it loaded, however much of the row was written
\* since.
Saves ==
    /\ acts < MaxActs
    /\ acts' = acts + 1
    /\ UNCHANGED <<sending, clock, deaths>>

\* The secrets in the columns.
Columns(k) == {k.secret, k.previous} \ {NoSecret}

\* c writes the secret columns, from an instance that may be older than they
\* are.
WritesKeys(c, k) ==
    /\ keys' = k
    /\ revived' = Columns(k) \cap
            (revived \cup IF held[c].keys = keys THEN {} ELSE Columns(held[c].keys))

\* A mutant: the two secrets are taken the wrong way round.
RotatedBackwards(k, new, overlap) ==
    [secret |-> k.previous, previous |-> new, until |-> clock + overlap]

\* A mutant: the new secret is assigned first.
RotatedTooSoon(k, new, overlap) ==
    [secret |-> new, previous |-> new, until |-> clock + overlap]

\* The instance k after rotate_secret.
Rotated(k, new, overlap) ==
    [secret |-> new, previous |-> k.secret, until |-> clock + overlap]

\* rotate_secret with a secret that was never in use: the three secret columns
\* are saved from the instance, and no other.  A save of named columns fails on
\* a deleted row.
Rotate(c, new, overlap) ==
    /\ present
    /\ Saves
    /\ new \notin Columns(keys) \cup Columns(held[c].keys) /\ expires[new] = 0
    /\ WritesKeys(c, Rotated(held[c].keys, new, overlap))
    /\ held' = [held EXCEPT ![c].keys = keys']
    /\ last' = held[c].keys.secret
    /\ expires' = [expires EXCEPT ![last'] = IF @ = 0 THEN clock + overlap ELSE @]
    /\ UNCHANGED health

\* A mutant: the stamp is left standing.
ReactivateKeepsStamp(c) ==
    /\ present
    /\ Saves
    /\ row' = [row EXCEPT !.count = 0, !.active = TRUE]
    /\ dead' = 0
    /\ forced' = FALSE
    /\ held' = [held EXCEPT ![c].row = row']
    /\ UNCHANGED <<present, told, keys, history>>

\* A mutant: the save names no columns, and so writes the secrets as well.
ReactivateSavesAll(c) ==
    /\ Saves
    /\ Health!PutBack
    /\ keys' = held[c].keys
    /\ dead' = 0
    /\ forced' = FALSE
    /\ held' = [held EXCEPT ![c].row = row']
    /\ UNCHANGED history

\* reactivate_endpoint writes three constants.
Reactivate(c) ==
    /\ Saves
    /\ Health!PutBack
    /\ dead' = 0
    /\ forced' = FALSE
    /\ held' = [held EXCEPT ![c].row = row']
    /\ UNCHANGED <<keys, history>>

\* The admin's form: the one health column it edits, over everything else the
\* instance holds, a rotation that committed since it was loaded included.  A
\* row that is gone is inserted again.
FormSave(c, active) ==
    /\ Forms
    /\ Saves
    /\ row' = [held[c].row EXCEPT !.active = active]
    /\ WritesKeys(c, held[c].keys)
    /\ present' = TRUE
    /\ held' = [held EXCEPT ![c].row = row']
    /\ forced' = (active /\ row'.stamped)
    /\ last' = IF held[c].keys = keys THEN last ELSE NoSecret
    /\ UNCHANGED <<told, dead, expires>>

-----------------------------------------------------------------------------
(* The delivery path *)

\* note_dead_delivery.
Dies ==
    /\ deaths < MaxDeaths
    /\ deaths' = deaths + 1
    /\ Health!Dies
    /\ dead' = dead + 1
    /\ forced' = (forced /\ row'.active)
    /\ UNCHANGED <<keys, held, sending, clock, history, acts>>

\* note_successful_delivery.
Lands ==
    /\ Health!Recovers
    /\ dead' = 0
    /\ UNCHANGED <<forced, keys, held, sending, clock, history, bounds>>

Delete ==
    /\ Health!Removed
    /\ UNCHANGED <<dead, forced, keys, held, sending, clock, history, bounds>>

Sends(w, to) ==
    /\ sending' = [sending EXCEPT ![w] = to]
    /\ UNCHANGED <<health, keys, held, clock, history, bounds>>

\* A mutant: a worker keeps the endpoint it loaded for its last delivery.
SenderLoadsOnce(w) ==
    /\ sending[w].step = "idle"
    /\ present /\ row.active
    /\ Sends(w, [keys |-> IF sending[w] = Rest THEN keys ELSE sending[w].keys,
                 with |-> {}, spent |-> Spent \ revived, step |-> "loaded"])

\* deliver_due loads the endpoint.
SenderLoads(w) ==
    /\ sending[w].step = "idle"
    /\ present /\ row.active
    /\ Sends(w, [keys |-> keys, with |-> {}, spent |-> Spent \ revived, step |-> "loaded"])

\* It works out the secrets once, for all the requests of this attempt.
SenderSigns(w) ==
    /\ sending[w].step = "loaded"
    /\ Sends(w, [sending[w] EXCEPT !.with = SigningSecrets(sending[w].keys, clock),
                                   !.step = "signing"])

\* The last of its requests is done.
SenderEnds(w) ==
    /\ sending[w].step = "signing"
    /\ Sends(w, [sending[w] EXCEPT !.with = {}, !.spent = {}, !.step = "idle"])

Tick ==
    /\ clock < MaxTime
    /\ clock' = clock + 1
    /\ UNCHANGED <<health, keys, held, sending, history, bounds>>

-----------------------------------------------------------------------------

Next ==
    \/ \E c \in Clients : Load(c) \/ Reactivate(c)
    \/ \E c \in Clients, new \in Secrets, overlap \in Overlaps : Rotate(c, new, overlap)
    \/ \E c \in Clients, active \in BOOLEAN : FormSave(c, active)
    \/ \E w \in Senders : SenderLoads(w) \/ SenderSigns(w) \/ SenderEnds(w)
    \/ Dies
    \/ Lands
    \/ Delete
    \/ Tick

Spec == Init /\ [][Next]_vars

-----------------------------------------------------------------------------
(* Properties *)

\* Every variable keeps to its type.
TypeOK ==
    /\ present \in BOOLEAN
    /\ Instance \in Instances
    /\ told \in [failing : Nat, recovered : Nat, disabled : Nat, open : Nat]
    /\ held \in [Clients -> Instances]
    /\ sending \in [Senders -> Attempts]
    /\ clock \in 1 .. MaxTime
    /\ expires \in [Secrets -> Nat]
    /\ last \in Secrets \cup {NoSecret}
    /\ revived \subseteq Secrets
    /\ dead \in Nat
    /\ forced \in BOOLEAN
    /\ acts \in 0 .. MaxActs
    /\ deaths \in 0 .. MaxDeaths

\* A secret whose window has closed is not offered, a leaked one that was
\* rotated away without a window included, unless a rotation or a form brought
\* it back that saved secrets older than the row's: no save of anything else
\* does, and neither does the clock.
SpentStaysSpent == Spent \cap SigningSecrets(keys, clock) \subseteq revived

\* What the last rotation replaced is offered until its window closes, unless
\* it had been brought back from an older window or a form that was loaded
\* before the rotation undid it.
OverlapOfTheLast ==
    last \notin revived \cup {NoSecret} /\ expires[last] > clock
        => last \in SigningSecrets(keys, clock)

\* A delivery signs with nothing that was spent before it loaded its endpoint,
\* and that no save had brought back, however long its requests then take.
SignsWithNothingSpent ==
    \A w \in Senders : sending[w].with \cap sending[w].spent = {}

\* An endpoint that is on does not look auto-disabled, whatever died and was
\* put back in the meantime, unless the form switched it on or kept it on over
\* the stamp it had loaded (the comment on disabled_at and
\* reactivate_endpoint).
OnMeansNotDisabled == row.active /\ row.stamped => forced

\* The count is what the delivery path made it: no other writer of the row
\* loses a death or forgives one (the F() increment of note_dead_delivery, and
\* what the admin says of the health columns).
CountIsExact == row.count = dead
=============================================================================
