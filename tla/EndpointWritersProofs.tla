----------------------- MODULE EndpointWritersProofs ------------------------
(***************************************************************************)
(* The secrets, the stamp and the count, for any number of clients,        *)
(* senders, secrets and overlaps, whatever was written between a load and  *)
(* a save.  The history of every secret agrees with the two columns but    *)
(* for those a save brought back (Windows), so what a sender loaded can    *)
(* only have been spent since (Loaded), and the stamp means what it says.  *)
(* Only a save of secrets older than the row's (SavesOldKeys) brings one   *)
(* back, and only a form with an old count (SavesOldCount) loses a death.  *)
(***************************************************************************)
EXTENDS EndpointWriters, TLAPS

USE WritersAssumption

\* A rotation or a form saves secrets that were replaced since they were read.
SavesOldKeys ==
    \E c \in Clients :
        /\ held[c].keys # keys
        /\ \/ \E new \in Secrets, overlap \in Overlaps : Rotate(c, new, overlap)
           \/ \E active \in BOOLEAN : FormSave(c, active)

\* The form saves a count that the row no longer has.
SavesOldCount ==
    \E c \in Clients, active \in BOOLEAN :
        FormSave(c, active) /\ held[c].row.count # row.count

\* But for what was brought back, the current secret was never rotated away and
\* the previous one has the window its rotation gave it.  The previous one is
\* what the last rotation replaced, if no form undid that.
Windows ==
    /\ revived \subseteq Columns(keys)
    /\ keys.secret \notin revived => expires[keys.secret] = 0
    /\ keys.previous \notin revived \cup {NoSecret} => expires[keys.previous] = keys.until
    /\ last # NoSecret => last = keys.previous

\* Of what a sender holds only the previous secret may be spent, and its
\* window has closed then.
Loaded ==
    \A w \in Senders : sending[w].step = "loaded" =>
        /\ sending[w].keys.secret \notin sending[w].spent
        /\ sending[w].keys.previous \in sending[w].spent => sending[w].keys.until <= clock

SecretsInv == TypeOK /\ Windows /\ Loaded /\ SignsWithNothingSpent

\* Nothing was brought back: no spent secret is offered, and the window of the
\* last rotation is kept whatever the secret it replaced.
NothingRevived ==
    /\ revived = {}
    /\ Spent \cap SigningSecrets(keys, clock) = {}
    /\ last # NoSecret /\ expires[last] > clock => last \in SigningSecrets(keys, clock)

-----------------------------------------------------------------------------
(* Types *)

LEMMA AttemptTypes ==
    ASSUME NEW s \in Attempts, NEW offered \in SUBSET Secrets
    PROVE  /\ [s EXCEPT !.with = offered, !.step = "signing"] \in Attempts
           /\ [s EXCEPT !.with = {}, !.spent = {}, !.step = "idle"] \in Attempts
<1>1. [s EXCEPT !.with = offered, !.step = "signing"] \in Attempts
  BY DEF Attempts
<1>2. [s EXCEPT !.with = {}, !.spent = {}, !.step = "idle"] \in Attempts
  BY DEF Attempts
<1> QED
  BY <1>1, <1>2

LEMMA ColumnsAreSecrets == ASSUME NEW k \in Keys PROVE Columns(k) \subseteq Secrets
BY DEF Columns, Keys

LEMMA WritersTypeInit == Init => TypeOK
<1> SUFFICES ASSUME Init PROVE TypeOK
  OBVIOUS
<1>1. keys \in Keys /\ FirstKeys \in Keys
  BY DEF Init, FirstKeys, Keys
<1>2. Instance \in Instances /\ Rest \in Attempts
  BY <1>1 DEF Init, Health!Init, Instance, Instances, Rest, Attempts
<1>3. held \in [Clients -> Instances] /\ sending \in [Senders -> Attempts]
  BY <1>2 DEF Init
<1>4. told \in [failing : Nat, recovered : Nat, disabled : Nat, open : Nat]
  BY DEF Init, Health!Init
<1>5. clock \in 1 .. MaxTime /\ expires \in [Secrets -> Nat] /\ last \in Secrets \cup {NoSecret}
      /\ revived \subseteq Secrets
  BY DEF Init
<1>6. present \in BOOLEAN /\ dead \in Nat /\ forced \in BOOLEAN
  BY DEF Init, Health!Init
<1>7. acts \in 0 .. MaxActs /\ deaths \in 0 .. MaxDeaths
  BY DEF Init
<1> QED
  BY <1>2, <1>3, <1>4, <1>5, <1>6, <1>7 DEF TypeOK

\* Every save, statement and delivery keeps every variable to its type.
LEMMA WritersTypeStep == TypeOK /\ [Next]_vars => TypeOK'
<1> SUFFICES ASSUME TypeOK, [Next]_vars PROVE TypeOK'
  OBVIOUS
<1> USE DEF TypeOK, Instance, Instances
<1>1. ASSUME NEW c \in Clients, Load(c)
      PROVE  TypeOK'
  BY <1>1 DEF Load, health, history, bounds
<1>2. ASSUME NEW c \in Clients, Reactivate(c)
      PROVE  TypeOK'
  <2>1. /\ row' \in [count : Nat, active : BOOLEAN, stamped : BOOLEAN]
        /\ told' \in [failing : Nat, recovered : Nat, disabled : Nat, open : Nat]
    BY <1>2 DEF Reactivate, Health!PutBack
  <2>2. held' \in [Clients -> Instances]
    <3>1. [held[c] EXCEPT !.row = row'] \in Instances
      BY <2>1
    <3> QED
      BY <1>2, <3>1 DEF Reactivate
  <2>3. acts' \in 0 .. MaxActs /\ deaths' = deaths /\ UNCHANGED <<sending, clock>>
    BY <1>2 DEF Reactivate, Saves
  <2>4. UNCHANGED <<keys, expires, last, revived, present>> /\ dead' = 0 /\ forced' = FALSE
    BY <1>2 DEF Reactivate, Health!PutBack, history
  <2> QED
    BY <2>1, <2>2, <2>3, <2>4
<1>3. ASSUME NEW c \in Clients, NEW new \in Secrets, NEW overlap \in Overlaps,
             Rotate(c, new, overlap)
      PROVE  TypeOK'
  <2>1. held[c].keys \in Keys /\ held[c].row \in [count : Nat, active : BOOLEAN, stamped : BOOLEAN]
    OBVIOUS
  <2>2. clock + overlap \in Nat
    OBVIOUS
  <2>3. keys' \in Keys /\ last' \in Secrets
    BY <1>3, <2>1, <2>2 DEF Rotate, WritesKeys, Rotated, Keys
  <2>4. held' \in [Clients -> Instances]
    BY <1>3, <2>1, <2>3 DEF Rotate
  <2>5. expires' \in [Secrets -> Nat]
    BY <1>3, <2>2, <2>3 DEF Rotate
  <2>6. revived' \subseteq Secrets
    BY <1>3, <2>3, ColumnsAreSecrets DEF Rotate, WritesKeys
  <2> QED
    BY <1>3, <2>3, <2>4, <2>5, <2>6 DEF Rotate, Saves, health
<1>4. ASSUME NEW c \in Clients, NEW active \in BOOLEAN, FormSave(c, active)
      PROVE  TypeOK'
  <2>1. row' \in [count : Nat, active : BOOLEAN, stamped : BOOLEAN] /\ keys' \in Keys
    BY <1>4 DEF FormSave, WritesKeys
  <2>2. held' \in [Clients -> Instances]
    BY <1>4, <2>1 DEF FormSave
  <2>3. revived' \subseteq Secrets
    BY <1>4, <2>1, ColumnsAreSecrets DEF FormSave, WritesKeys
  <2>4. last' \in Secrets \cup {NoSecret} /\ forced' \in BOOLEAN
    BY <1>4 DEF FormSave
  <2> QED
    BY <1>4, <2>1, <2>2, <2>3, <2>4 DEF FormSave, Saves
<1>5. ASSUME NEW w \in Senders, SenderLoads(w) \/ SenderSigns(w) \/ SenderEnds(w)
      PROVE  TypeOK'
  <2>1. Spent \subseteq Secrets /\ SigningSecrets(sending[w].keys, clock) \subseteq Secrets
    BY DEF Spent, SigningSecrets, Attempts, Keys
  <2>2. sending' \in [Senders -> Attempts]
    <3>1. CASE SenderLoads(w)
      BY <3>1, <2>1 DEF SenderLoads, Sends, Attempts
    <3>2. CASE SenderSigns(w)
      <4>1. [sending[w] EXCEPT !.with = SigningSecrets(sending[w].keys, clock),
                               !.step = "signing"] \in Attempts
        BY <2>1, AttemptTypes
      <4> QED
        BY <3>2, <4>1 DEF SenderSigns, Sends
    <3>3. CASE SenderEnds(w)
      <4>1. [sending[w] EXCEPT !.with = {}, !.spent = {}, !.step = "idle"] \in Attempts
        BY AttemptTypes
      <4> QED
        BY <3>3, <4>1 DEF SenderEnds, Sends
    <3> QED
      BY <1>5, <3>1, <3>2, <3>3
  <2> QED
    BY <1>5, <2>2 DEF SenderLoads, SenderSigns, SenderEnds, Sends, health, history, bounds
<1>6. CASE Dies
  BY <1>6 DEF Dies, Health!Dies, Health!Fatal, Health!Plus, history
<1>7. CASE Lands
  BY <1>7 DEF Lands, Health!Recovers, history, bounds
<1>8. CASE Delete
  BY <1>8 DEF Delete, Health!Removed, history, bounds
<1>9. CASE Tick
  BY <1>9 DEF Tick, health, history, bounds
<1>10. CASE UNCHANGED vars
  BY <1>10 DEF vars, health, history, bounds
<1> QED
  BY <1>1, <1>2, <1>3, <1>4, <1>5, <1>6, <1>7, <1>8, <1>9, <1>10 DEF Next

-----------------------------------------------------------------------------
(* Secrets *)

\* What is offered is not spent, or was brought back.
LEMMA OfferedIsFresh == TypeOK /\ Windows => SpentStaysSpent
<1> SUFFICES ASSUME TypeOK, Windows, NEW s \in Spent, s \in SigningSecrets(keys, clock),
                    s \notin revived
             PROVE  FALSE
  BY DEF SpentStaysSpent
<1>1. expires[s] \in 1 .. clock /\ clock \in Nat /\ keys \in Keys
  BY DEF Spent, TypeOK, Instance, Instances
<1> QED
  BY <1>1 DEF SigningSecrets, Windows, Keys

\* What the last rotation replaced stays on offer.
LEMMA LastIsOffered == TypeOK /\ Windows => OverlapOfTheLast
BY DEF Windows, OverlapOfTheLast, SigningSecrets

\* Every save keeps the windows, whatever the age of its instance.
LEMMA WindowsStep == TypeOK /\ Windows /\ [Next]_vars => Windows'
<1> SUFFICES ASSUME TypeOK, Windows, [Next]_vars PROVE Windows'
  OBVIOUS
<1>1. ASSUME NEW c \in Clients, NEW new \in Secrets, NEW overlap \in Overlaps,
             Rotate(c, new, overlap)
      PROVE  Windows'
  <2> DEFINE k == held[c].keys
  <2>1. k \in Keys /\ NoSecret \notin Secrets
    BY DEF Instances, TypeOK
  <2>2. /\ keys' = [secret |-> new, previous |-> k.secret, until |-> clock + overlap]
        /\ last' = k.secret
        /\ expires' = [expires EXCEPT ![k.secret] = IF @ = 0 THEN clock + overlap ELSE @]
        /\ expires[new] = 0 /\ new \notin Columns(keys) \cup Columns(k)
    BY <1>1 DEF Rotate, WritesKeys, Rotated
  <2>3. new # k.secret /\ k.secret \in Secrets
    BY <2>1, <2>2 DEF Columns, Keys
  <2>4. expires'[new] = 0
    BY <2>2, <2>3 DEF TypeOK
  <2>5. keys'.secret = new /\ keys'.previous = k.secret /\ keys'.until = clock + overlap
    BY <2>2
  <2>6. revived' \subseteq Columns(keys')
    BY <1>1 DEF Rotate, WritesKeys
  <2>7. k.secret \notin revived' => expires'[k.secret] = clock + overlap
    <3> SUFFICES ASSUME k.secret \notin revived' PROVE expires'[k.secret] = clock + overlap
      OBVIOUS
    <3>1. k.secret \in Columns(keys') /\ k.secret \in Columns(k)
      BY <2>1, <2>3, <2>5 DEF Columns
    <3>2. revived' = Columns(keys') \cap
                        (revived \cup IF k = keys THEN {} ELSE Columns(k))
      BY <1>1, <2>2 DEF Rotate, WritesKeys
    <3>3. k = keys /\ k.secret \notin revived
      BY <3>1, <3>2
    <3>4. expires[k.secret] = 0
      BY <3>3 DEF Windows
    <3> QED
      BY <2>2, <2>3, <3>4 DEF TypeOK
  <2> QED
    BY <2>2, <2>4, <2>5, <2>6, <2>7 DEF Windows
<1>2. ASSUME NEW c \in Clients, NEW active \in BOOLEAN, FormSave(c, active)
      PROVE  Windows'
  <2> DEFINE k == held[c].keys
  <2>1. /\ keys' = k /\ expires' = expires
        /\ revived' = Columns(k) \cap (revived \cup IF k = keys THEN {} ELSE Columns(k))
        /\ last' = IF k = keys THEN last ELSE NoSecret
    BY <1>2 DEF FormSave, WritesKeys
  <2>2. CASE k = keys
    <3>1. revived' = revived /\ last' = last
      BY <2>1, <2>2 DEF Windows
    <3> QED
      BY <2>1, <2>2, <3>1 DEF Windows
  <2>3. CASE k # keys
    <3>1. revived' = Columns(k) /\ last' = NoSecret
      BY <2>1, <2>3
    <3>2. k \in Keys /\ NoSecret \notin Secrets
      BY DEF Instance, Instances, TypeOK
    <3>3. k.secret \in Columns(k) /\ k.previous \in Columns(k) \cup {NoSecret}
      BY <3>2 DEF Columns, Keys
    <3> QED
      BY <2>1, <3>1, <3>3 DEF Windows
  <2> QED
    BY <2>2, <2>3
<1>3. CASE UNCHANGED <<keys, history>>
  BY <1>3 DEF Windows, history
<1> QED
  BY <1>1, <1>2, <1>3
     DEF Next, Load, Reactivate, SenderLoads, SenderSigns, SenderEnds, Sends, Dies, Lands,
         Delete, Tick, vars

\* A sender's secrets were not spent when it loaded them.
LEMMA SendersStep ==
    TypeOK /\ Windows /\ Loaded /\ SignsWithNothingSpent /\ [Next]_vars
        => Loaded' /\ SignsWithNothingSpent'
<1> SUFFICES ASSUME TypeOK, Windows, Loaded, SignsWithNothingSpent, [Next]_vars
             PROVE  Loaded' /\ SignsWithNothingSpent'
  OBVIOUS
<1> USE DEF Loaded, SignsWithNothingSpent
<1>1. ASSUME NEW w \in Senders, SenderLoads(w)
      PROVE  Loaded' /\ SignsWithNothingSpent'
  <2>1. keys \in Keys /\ NoSecret \notin Spent
    BY DEF Spent, TypeOK, Instance, Instances
  <2>2. /\ keys.secret \notin Spent \ revived
        /\ keys.previous \in Spent \ revived => keys.until <= clock
    BY <2>1 DEF Spent, Windows, TypeOK
  <2>3. /\ sending' = [sending EXCEPT ![w] =
                          [keys |-> keys, with |-> {}, spent |-> Spent \ revived,
                           step |-> "loaded"]]
        /\ clock' = clock
    BY <1>1 DEF SenderLoads, Sends
  <2> QED
    BY <2>1, <2>2, <2>3 DEF TypeOK
<1>2. ASSUME NEW w \in Senders, SenderSigns(w)
      PROVE  Loaded' /\ SignsWithNothingSpent'
  <2>1. sending[w] \in Attempts /\ clock \in Nat /\ clock' = clock
    BY <1>2 DEF TypeOK, SenderSigns, Sends
  <2>2. SigningSecrets(sending[w].keys, clock) \cap sending[w].spent = {}
    BY <1>2, <2>1 DEF SenderSigns, SigningSecrets, Attempts, Keys
  <2> QED
    BY <1>2, <2>1, <2>2 DEF SenderSigns, Sends, TypeOK, Attempts
<1>3. ASSUME NEW w \in Senders, SenderEnds(w)
      PROVE  Loaded' /\ SignsWithNothingSpent'
  BY <1>3 DEF SenderEnds, Sends, TypeOK, Attempts
<1>4. CASE Tick
  BY <1>4 DEF Tick, TypeOK, Attempts, Keys
<1>5. CASE UNCHANGED <<sending, clock>>
  BY <1>5
<1> QED
  BY <1>1, <1>2, <1>3, <1>4, <1>5
     DEF Next, Load, Saves, Rotate, Reactivate, FormSave, Dies, Lands, Delete, vars

\* Only the form leaves the stamp of an endpoint it switches on.
LEMMA StampStep == TypeOK /\ OnMeansNotDisabled /\ [Next]_vars => OnMeansNotDisabled'
<1> SUFFICES ASSUME TypeOK, OnMeansNotDisabled, [Next]_vars
             PROVE  OnMeansNotDisabled'
  OBVIOUS
<1> USE DEF OnMeansNotDisabled, TypeOK, Instance, Instances
<1>1. ASSUME NEW c \in Clients, Reactivate(c)
      PROVE  OnMeansNotDisabled'
  BY <1>1 DEF Reactivate, Health!PutBack
<1>2. ASSUME NEW c \in Clients, NEW active \in BOOLEAN, FormSave(c, active)
      PROVE  OnMeansNotDisabled'
  BY <1>2 DEF FormSave
<1>3. CASE Dies
  BY <1>3 DEF Dies, Health!Dies
<1>4. CASE Lands
  BY <1>4 DEF Lands, Health!Recovers
<1>5. CASE UNCHANGED <<row, forced>>
  BY <1>5
<1>6. \/ \E c \in Clients : Load(c)
      \/ \E c \in Clients, new \in Secrets, overlap \in Overlaps : Rotate(c, new, overlap)
      \/ \E w \in Senders : SenderLoads(w) \/ SenderSigns(w) \/ SenderEnds(w)
      \/ Delete \/ Tick \/ UNCHANGED vars
      => UNCHANGED <<row, forced>>
  BY DEF Load, Rotate, SenderLoads, SenderSigns, SenderEnds, Sends, Delete,
         Health!Removed, Tick, vars, health
<1> QED
  BY <1>1, <1>2, <1>3, <1>4, <1>5, <1>6 DEF Next

\* The delivery path and reactivate_endpoint count what the history counts.
LEMMA CountStep ==
    TypeOK /\ CountIsExact /\ [Next]_vars /\ ~SavesOldCount => CountIsExact'
<1> SUFFICES ASSUME TypeOK, CountIsExact, [Next]_vars, ~SavesOldCount PROVE CountIsExact'
  OBVIOUS
<1> USE DEF CountIsExact, TypeOK, Instance, Instances
<1>1. ASSUME NEW c \in Clients, Reactivate(c)
      PROVE  CountIsExact'
  BY <1>1 DEF Reactivate, Health!PutBack
<1>2. ASSUME NEW c \in Clients, NEW active \in BOOLEAN, FormSave(c, active)
      PROVE  CountIsExact'
  BY <1>2 DEF FormSave, SavesOldCount
<1>3. CASE Dies
  BY <1>3 DEF Dies, Health!Dies
<1>4. CASE Lands
  BY <1>4 DEF Lands, Health!Recovers
<1>5. CASE UNCHANGED <<row, dead>>
  BY <1>5
<1>6. \/ \E c \in Clients : Load(c)
      \/ \E c \in Clients, new \in Secrets, overlap \in Overlaps : Rotate(c, new, overlap)
      \/ \E w \in Senders : SenderLoads(w) \/ SenderSigns(w) \/ SenderEnds(w)
      \/ Delete \/ Tick \/ UNCHANGED vars
      => UNCHANGED <<row, dead>>
  BY DEF Load, Rotate, SenderLoads, SenderSigns, SenderEnds, Sends, Delete,
         Health!Removed, Tick, vars, health
<1> QED
  BY <1>1, <1>2, <1>3, <1>4, <1>5, <1>6 DEF Next

-----------------------------------------------------------------------------
(* Theorems *)

LEMMA WritersInitInv == Init => SecretsInv /\ OnMeansNotDisabled /\ CountIsExact
<1> SUFFICES ASSUME Init PROVE SecretsInv /\ OnMeansNotDisabled /\ CountIsExact
  OBVIOUS
<1>1. Windows /\ Loaded /\ SignsWithNothingSpent /\ OnMeansNotDisabled /\ CountIsExact
  BY DEF Init, Windows, Loaded, SignsWithNothingSpent, OnMeansNotDisabled, CountIsExact,
         FirstKeys, Rest, Health!Init
<1> QED
  BY <1>1, WritersTypeInit DEF SecretsInv

\* Every variable keeps to its type, of stale instances and of the form too.
THEOREM WriterTypes == Spec => []TypeOK
BY WritersTypeInit, WritersTypeStep, PTL DEF Spec

LEMMA SecretsInvariant == Spec => []SecretsInv
<1>1. SecretsInv /\ [Next]_vars => SecretsInv'
  BY WritersTypeStep, WindowsStep, SendersStep DEF SecretsInv
<1> QED BY <1>1, WritersInitInv, PTL DEF Spec

\* A secret whose window has closed is not offered, but for what a save of
\* older secrets brought back: reactivations, saves of fresh secrets, the
\* delivery path and time bring back nothing.
THEOREM SpentForGood == Spec => []SpentStaysSpent
BY SecretsInvariant, OfferedIsFresh, PTL DEF SecretsInv

\* What the last rotation replaced is offered until its window closes.
THEOREM OverlapIsKept == Spec => []OverlapOfTheLast
BY SecretsInvariant, LastIsOffered, PTL DEF SecretsInv

\* No delivery signs with a secret that was spent before it began.
THEOREM SignedFresh == Spec => []SignsWithNothingSpent
BY SecretsInvariant, PTL DEF SecretsInv

LEMMA RevivedStep == TypeOK /\ revived = {} /\ [Next]_vars /\ ~SavesOldKeys => revived' = {}
<1> SUFFICES ASSUME TypeOK, revived = {}, [Next]_vars, ~SavesOldKeys PROVE revived' = {}
  OBVIOUS
<1>1. ASSUME NEW c \in Clients, NEW new \in Secrets, NEW overlap \in Overlaps,
             Rotate(c, new, overlap)
      PROVE  revived' = {}
  BY <1>1 DEF Rotate, WritesKeys, SavesOldKeys
<1>2. ASSUME NEW c \in Clients, NEW active \in BOOLEAN, FormSave(c, active)
      PROVE  revived' = {}
  BY <1>2 DEF FormSave, WritesKeys, SavesOldKeys
<1>3. CASE UNCHANGED history
  BY <1>3 DEF history
<1> QED
  BY <1>1, <1>2, <1>3
     DEF Next, Load, Reactivate, SenderLoads, SenderSigns, SenderEnds, Sends, Dies, Lands,
         Delete, Tick, vars

\* The exceptions take a rotation or a form that saves secrets which were
\* replaced since it loaded them.  Without such a save nothing is brought back,
\* so that no spent secret is ever offered and every last window is kept,
\* however old the instances are otherwise.
THEOREM OnlyOldKeysHarmSecrets ==
    Spec /\ [][~SavesOldKeys]_vars => []NothingRevived
<1>1. TypeOK /\ revived = {} /\ [Next]_vars /\ [~SavesOldKeys]_vars
        => (revived = {})'
  BY RevivedStep DEF vars, history
<1>2. Init => revived = {}
  BY DEF Init
<1>3. SecretsInv /\ revived = {} => NothingRevived
  BY OfferedIsFresh, LastIsOffered
     DEF SecretsInv, NothingRevived, SpentStaysSpent, OverlapOfTheLast
<1> QED BY <1>1, <1>2, <1>3, SecretsInvariant, WriterTypes, PTL DEF Spec

\* An endpoint that is on carries no stamp that the form did not leave there.
THEOREM StampMeansOff == Spec => []OnMeansNotDisabled
<1>1. TypeOK /\ OnMeansNotDisabled /\ [Next]_vars => OnMeansNotDisabled'
  BY StampStep
<1> QED BY <1>1, WritersInitInv, WriterTypes, PTL DEF Spec

\* Only a form whose count is older than the row's loses or invents a death:
\* every other writer of the row leaves the count to the delivery path, however
\* old the instance it saves.
THEOREM OnlyOldFormsLoseDeaths ==
    Spec /\ [][~SavesOldCount]_vars => []CountIsExact
<1>1. TypeOK /\ CountIsExact /\ [Next]_vars /\ [~SavesOldCount]_vars => CountIsExact'
  BY CountStep DEF CountIsExact, vars, health
<1> QED BY <1>1, WritersInitInv, WriterTypes, PTL DEF Spec

\* So no death is lost where the form is not used (EndpointAdmin).
THEOREM CountsAreExact == ASSUME ~Forms PROVE Spec => []CountIsExact
<1>1. ~SavesOldCount
  BY DEF SavesOldCount, FormSave
<1> QED BY <1>1, OnlyOldFormsLoseDeaths, PTL DEF Spec
=============================================================================
