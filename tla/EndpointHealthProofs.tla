------------------------ MODULE EndpointHealthProofs ------------------------
(***************************************************************************)
(* Proofs about EndpointHealth, for every number of workers, every         *)
(* threshold, both kinds of database and every bound.  The inductive       *)
(* invariant says who holds the row (LockInv) and what a transaction that  *)
(* is about to commit has written, in terms of the row it still holds      *)
(* (TxInv); the safety invariants then follow at each commit.              *)
(***************************************************************************)
EXTENDS EndpointHealth, TLAPS

USE HealthAssumption

\* A transaction holds the row from the UPDATE that matched to its end, and
\* where a missed UPDATE locks, from the missed one on: the count it found
\* positive stays positive until it is written.
LockInv ==
    \A w \in Workers :
        /\ pc[w] = "commit" => lock = w
        /\ pc[w] \in {"idle", "edge"} => lock # w
        /\ pc[w] = "count" /\ LockOnMiss /\ present => lock = w
        /\ pc[w] = "count" /\ lock = w => row.count # 0
        /\ lock = w => present

IsDeath(t) ==
    \E started \in BOOLEAN :
        /\ t = Judged(Counted(row), started)
        /\ started => row.count = 0

IsLanding(t) ==
    /\ row.count > 0
    /\ t = [kind |-> "landing", row |-> [row EXCEPT !.count = 0],
            fires |-> {"EndpointRecovered"}]

IsMiss(t) == t = [kind |-> "miss", row |-> row, fires |-> {}]

\* What is about to be committed was computed from the row as it stands.
TxInv ==
    \A w \in Workers :
        pc[w] = "commit" => IsDeath(tx[w]) \/ IsLanding(tx[w]) \/ IsMiss(tx[w])

Heard ==
    /\ CountIsExact
    /\ WarnedAtMostOnce
    /\ RecoveredAtMostOnce
    /\ DisabledIsTold
    /\ ActiveBelowThreshold

IndInv == TypeOK /\ LockInv /\ TxInv /\ Heard

-----------------------------------------------------------------------------
(* What a transaction writes *)

\* A death's transaction writes a row and events of the right types, adds
\* exactly one to the count, and stamps exactly when it switches off.
LEMMA JudgedFacts ==
    ASSUME NEW r \in Rows, NEW started \in BOOLEAN
    PROVE  /\ Judged(Counted(r), started) \in Transactions
           /\ Judged(Counted(r), started).kind = "death"
           /\ Judged(Counted(r), started).row.count = r.count + 1
           /\ "EndpointRecovered" \notin Judged(Counted(r), started).fires
           /\ "EndpointFailing" \in Judged(Counted(r), started).fires <=> started
           /\ "EndpointDisabled" \in Judged(Counted(r), started).fires
                  <=> Crosses(Counted(r))
           /\ Judged(Counted(r), started).row.active
                  <=> r.active /\ ~Crosses(Counted(r))
           /\ Judged(Counted(r), started).row.stamped
                  <=> r.stamped \/ Crosses(Counted(r))
           /\ Crosses(Counted(r)) <=> /\ Threshold # Never
                                      /\ r.active
                                      /\ r.count + 1 >= Threshold
<1> DEFINE c == Counted(r)
           j == Judged(c, started)
<1>1. c \in Rows /\ c.count = r.count + 1 /\ c.active = r.active
          /\ c.stamped = r.stamped
  BY DEF Counted, Rows
<1>2. Crosses(c) \in BOOLEAN
  BY <1>1 DEF Crosses, Rows
<1>3. Crosses(c) <=> Threshold # Never /\ r.active /\ r.count + 1 >= Threshold
  BY <1>1 DEF Crosses
<1>4. j.kind = "death"
  BY DEF Judged
<1>5. j.fires \in SUBSET Events /\ "EndpointRecovered" \notin j.fires
          /\ ("EndpointFailing" \in j.fires <=> started)
          /\ ("EndpointDisabled" \in j.fires <=> Crosses(c))
  BY DEF Judged, Events
<1>6. /\ j.row \in Rows
      /\ j.row.count = r.count + 1
      /\ j.row.active <=> r.active /\ ~Crosses(c)
      /\ j.row.stamped <=> r.stamped \/ Crosses(c)
  <2>1. CASE Crosses(c)
    BY <1>1, <2>1 DEF Judged, Rows
  <2>2. CASE ~Crosses(c)
    BY <1>1, <2>2 DEF Judged, Rows
  <2> QED BY <1>2, <2>1, <2>2
<1>7. j \in Transactions
  BY <1>4, <1>5, <1>6 DEF Transactions, Judged
<1> QED BY <1>3, <1>4, <1>5, <1>6, <1>7

\* The listener's counters stay counters.
LEMMA HearsType ==
    ASSUME told \in Told, NEW t
    PROVE  Hears(t) \in Told
BY DEF Hears, One, Told

-----------------------------------------------------------------------------
(* Types *)

\* An operator's act stays inside its bound.
LEMMA ActType ==
    ASSUME TypeOK, Act
    PROVE  acts' \in 0 .. MaxActs
BY DEF HealthAssumption, TypeOK, Act

\* Every step keeps every variable to its type.
LEMMA TypeStep ==
    ASSUME TypeOK, [Next]_vars
    PROVE  TypeOK'
<1>1. ASSUME NEW w \in Workers, WorkerStep(w) PROVE TypeOK'
  <2> USE DEF Steps
  <2>1. CASE DeathBegins(w)
    BY <2>1 DEF DeathBegins, TypeOK, HealthAssumption
  <2>2. CASE EdgeHits(w)
    <3>1. Judged(Counted(row), TRUE) \in Transactions
      BY JudgedFacts DEF TypeOK
    <3> QED BY <2>2, <3>1 DEF EdgeHits, TypeOK
  <2>3. CASE EdgeMisses(w)
    BY <2>3 DEF EdgeMisses, Keeps, TypeOK
  <2>4. CASE CountHits(w)
    <3>1. Judged(Counted(row), FALSE) \in Transactions
      BY JudgedFacts DEF TypeOK
    <3> QED BY <2>4, <3>1 DEF CountHits, TypeOK
  <2>5. CASE CountMisses(w)
    BY <2>5 DEF CountMisses, TypeOK
  <2>6. CASE LandingHits(w)
    BY <2>6 DEF LandingHits, Landed, TypeOK, Transactions, Rows, Events
  <2>7. CASE LandingMisses(w)
    BY <2>7 DEF LandingMisses, TypeOK, Transactions, Rows, Events
  <2>8. CASE Commit(w)
    <3>1. tx[w] \in Transactions /\ NoTx \in Transactions
      BY DEF TypeOK, NoTx, FreshRow, Transactions, Rows
    <3>2. Hears(tx[w]) \in Told
      BY HearsType DEF TypeOK
    <3>3. dead' \in Nat
      BY <2>8 DEF Commit, TypeOK
    <3> QED BY <2>8, <3>1, <3>2, <3>3 DEF Commit, TypeOK, Transactions
  <2>9. CASE Rollback(w)
    BY <2>9 DEF Rollback, TypeOK, NoTx, FreshRow, Transactions, Rows
  <2> QED BY <1>1, <2>1, <2>2, <2>3, <2>4, <2>5, <2>6, <2>7, <2>8, <2>9
       DEF WorkerStep
<1>2. CASE Reactivate
  <2>1. row' \in Rows /\ told' \in Told /\ dead' \in Nat
    BY <1>2 DEF Reactivate, TypeOK, FreshRow, Rows, Told
  <2> QED BY <1>2, <2>1, ActType DEF Reactivate, Act, TypeOK
<1>3. CASE SwitchOff
  <2>1. row' \in Rows
    BY <1>3 DEF SwitchOff, TypeOK, Rows
  <2> QED BY <1>3, <2>1, ActType DEF SwitchOff, Act, TypeOK
<1>4. CASE Delete
  BY <1>4, ActType DEF Delete, Act, TypeOK
<1>5. CASE UNCHANGED vars
  BY <1>5 DEF vars, TypeOK
<1> QED BY <1>1, <1>2, <1>3, <1>4, <1>5 DEF Next

\* Every variable keeps to its type in every behaviour.
THEOREM TypeCorrect == Spec => []TypeOK
<1>1. Init => TypeOK
  BY DEF Init, TypeOK, FreshRow, NoTx, Rows, Transactions,
     Told, Steps, HealthAssumption
<1>2. TypeOK /\ [Next]_vars => TypeOK'
  BY TypeStep
<1> QED BY <1>1, <1>2, PTL DEF Spec

-----------------------------------------------------------------------------
(* Who holds the row *)

\* A transaction keeps the row it locked to its end.
LEMMA LockStep ==
    ASSUME TypeOK, LockInv, [Next]_vars
    PROVE  LockInv'
<1>1. ASSUME NEW w \in Workers, WorkerStep(w) PROVE LockInv'
  <2> USE DEF LockInv, TypeOK, Steps, HealthAssumption
  <2>1. CASE DeathBegins(w)
    BY <2>1 DEF DeathBegins
  <2>2. CASE EdgeHits(w)
    BY <2>2 DEF EdgeHits
  <2>3. CASE EdgeMisses(w)
    BY <2>3 DEF EdgeMisses, Keeps
  <2>4. CASE CountHits(w)
    BY <2>4 DEF CountHits
  <2>5. CASE CountMisses(w)
    BY <2>5 DEF CountMisses
  <2>6. CASE LandingHits(w)
    BY <2>6 DEF LandingHits, Landed
  <2>7. CASE LandingMisses(w)
    BY <2>7 DEF LandingMisses
  <2>8. CASE Commit(w)
    BY <2>8 DEF Commit
  <2>9. CASE Rollback(w)
    BY <2>9 DEF Rollback
  <2> QED BY <1>1, <2>1, <2>2, <2>3, <2>4, <2>5, <2>6, <2>7, <2>8, <2>9
       DEF WorkerStep
<1>2. CASE Reactivate
  BY <1>2 DEF Reactivate, Act, LockInv, TypeOK, HealthAssumption
<1>3. CASE SwitchOff
  BY <1>3 DEF SwitchOff, Act, LockInv, TypeOK, HealthAssumption
<1>4. CASE Delete
  BY <1>4 DEF Delete, Act, LockInv, TypeOK, HealthAssumption
<1>5. CASE UNCHANGED vars
  BY <1>5 DEF vars, LockInv
<1> QED BY <1>1, <1>2, <1>3, <1>4, <1>5 DEF Next

-----------------------------------------------------------------------------
(* What a transaction is about to commit *)

\* While a transaction holds the row nobody else writes it, so what the
\* transaction computed from the row stays computed from the row.
LEMMA TxStep ==
    ASSUME TypeOK, LockInv, TxInv, [Next]_vars
    PROVE  TxInv'
<1> USE DEF IsDeath, IsLanding, IsMiss
<1>1. ASSUME NEW w \in Workers, WorkerStep(w) PROVE TxInv'
  <2> SUFFICES ASSUME NEW v \in Workers, pc'[v] = "commit"
               PROVE  (IsDeath(tx[v]) \/ IsLanding(tx[v]) \/ IsMiss(tx[v]))'
    BY DEF TxInv
  <2> USE DEF TxInv, TypeOK
  <2>1. CASE DeathBegins(w)
    BY <2>1 DEF DeathBegins, Judged, Counted, Crosses
  <2>2. CASE EdgeHits(w)
    BY <2>2 DEF EdgeHits, Judged, Counted, Crosses
  <2>3. CASE EdgeMisses(w)
    BY <2>3 DEF EdgeMisses, Judged, Counted, Crosses
  <2>4. CASE CountHits(w)
    BY <2>4 DEF CountHits, Judged, Counted, Crosses
  <2>5. CASE CountMisses(w)
    BY <2>5 DEF CountMisses, Judged, Counted, Crosses
  <2>6. CASE LandingHits(w)
    BY <2>6 DEF LandingHits, Landed, Judged, Counted, Crosses
  <2>7. CASE LandingMisses(w)
    BY <2>7 DEF LandingMisses, Judged, Counted, Crosses
  <2>8. CASE Commit(w)
    BY <2>8 DEF Commit, LockInv
  <2>9. CASE Rollback(w)
    BY <2>9 DEF Rollback, Judged, Counted, Crosses
  <2> QED BY <1>1, <2>1, <2>2, <2>3, <2>4, <2>5, <2>6, <2>7, <2>8, <2>9
       DEF WorkerStep
<1>2. ASSUME Act PROVE TxInv'
  BY <1>2 DEF Act, TxInv, LockInv, HealthAssumption
<1>3. CASE UNCHANGED vars
  BY <1>3 DEF vars, TxInv, Judged, Counted, Crosses
<1> QED BY <1>1, <1>2, <1>3 DEF Next, Reactivate, SwitchOff, Delete

-----------------------------------------------------------------------------
(* What the listener has heard *)

\* The commit of a death, in the words of the contract.
LEMMA DeathFacts ==
    ASSUME TypeOK, NEW w \in Workers, Commit(w), IsDeath(tx[w])
    PROVE  \E started \in BOOLEAN :
               /\ started => row.count = 0
               /\ started <=> "EndpointFailing" \in tx[w].fires
               /\ dead' = dead + 1
               /\ row' = [count |-> row.count + 1,
                          active |-> row.active /\ ~Contract!Fatal,
                          stamped |-> row.stamped \/ Contract!Fatal]
               /\ told' = [failing |-> Contract!Plus(told.failing, started),
                           recovered |-> 0,
                           disabled |-> Contract!Plus(told.disabled, Contract!Fatal),
                           open |-> Contract!Plus(told.open, started)]
               /\ row'.count = row.count + 1
               /\ row'.active <=> row.active /\ ~Contract!Fatal
               /\ row'.stamped <=> row.stamped \/ Contract!Fatal
<1>1. PICK started \in BOOLEAN :
          /\ tx[w] = Judged(Counted(row), started)
          /\ started => row.count = 0
  BY DEF IsDeath
<1> DEFINE t == tx[w]
<1>2. /\ row \in Rows /\ told \in Told /\ dead \in Nat
  BY DEF TypeOK
<1>3. /\ t \in Transactions
      /\ t.kind = "death"
      /\ t.row.count = row.count + 1
      /\ "EndpointRecovered" \notin t.fires
      /\ "EndpointFailing" \in t.fires <=> started
      /\ "EndpointDisabled" \in t.fires <=> Contract!Fatal
      /\ t.row.active <=> row.active /\ ~Contract!Fatal
      /\ t.row.stamped <=> row.stamped \/ Contract!Fatal
  BY <1>1, <1>2, JudgedFacts DEF Contract!Fatal
<1>4. row' = t.row /\ told' = Hears(t) /\ dead' = dead + 1
  BY <1>3 DEF Commit
<1>7. started <=> "EndpointFailing" \in tx[w].fires
  BY <1>3
<1> HIDE DEF t
<1>5. row' = [count |-> row.count + 1,
              active |-> row.active /\ ~Contract!Fatal,
              stamped |-> row.stamped \/ Contract!Fatal]
  <2>1. t.row \in Rows
    BY <1>3 DEF Transactions
  <2>2. t.row = [count |-> t.row.count, active |-> t.row.active,
                 stamped |-> t.row.stamped]
    BY <2>1 DEF Rows
  <2> QED BY <1>2, <1>3, <1>4, <2>1, <2>2 DEF Rows, Contract!Fatal
<1>6. told' = [failing |-> Contract!Plus(told.failing, started),
               recovered |-> 0,
               disabled |-> Contract!Plus(told.disabled, Contract!Fatal),
               open |-> Contract!Plus(told.open, started)]
  BY <1>2, <1>3, <1>4 DEF Hears, One, Told, Contract!Plus
<1> QED BY <1>1, <1>3, <1>4, <1>5, <1>6, <1>7

\* A death keeps what has been heard in step with the row.
LEMMA DeathCommits ==
    ASSUME TypeOK, Heard, NEW w \in Workers, Commit(w), IsDeath(tx[w])
    PROVE  Heard'
<1>1. /\ row \in Rows /\ told \in Told /\ dead \in Nat
  BY DEF TypeOK
<1>2. PICK started \in BOOLEAN :
          /\ started => row.count = 0
          /\ dead' = dead + 1
          /\ row' = [count |-> row.count + 1,
                     active |-> row.active /\ ~Contract!Fatal,
                     stamped |-> row.stamped \/ Contract!Fatal]
          /\ told' = [failing |-> Contract!Plus(told.failing, started),
                      recovered |-> 0,
                      disabled |-> Contract!Plus(told.disabled, Contract!Fatal),
                      open |-> Contract!Plus(told.open, started)]
          /\ row'.count = row.count + 1
          /\ row'.active <=> row.active /\ ~Contract!Fatal
          /\ row'.stamped <=> row.stamped \/ Contract!Fatal
  BY DeathFacts
<1>3. CountIsExact'
  BY <1>1, <1>2 DEF CountIsExact, Heard, Rows
<1>4. WarnedAtMostOnce' /\ RecoveredAtMostOnce'
  BY <1>1, <1>2 DEF WarnedAtMostOnce, RecoveredAtMostOnce, Heard, Told, Rows,
     Contract!Plus
<1>5. DisabledIsTold'
  <2>1. told'.disabled = IF Contract!Fatal THEN told.disabled + 1
                                           ELSE told.disabled
    BY <1>2 DEF Contract!Plus
  <2>2. CASE Contract!Fatal
    <3>1. ~row.stamped /\ told.disabled = 0
      BY <1>1, <2>2 DEF Contract!Fatal, Heard, DisabledIsTold
    <3>2. row'.stamped /\ ~row'.active
      BY <1>2, <2>2
    <3>3. told'.disabled = 1
      BY <2>1, <2>2, <3>1
    <3> QED BY <3>2, <3>3, Zenon DEF DisabledIsTold
  <2>3. CASE ~Contract!Fatal
    <3>1. (row'.stamped <=> row.stamped) /\ (row'.active <=> row.active)
      BY <1>2, <2>3
    <3>2. told'.disabled = told.disabled
      BY <2>1, <2>3
    <3>3. DisabledIsTold
      BY DEF Heard
    <3> QED BY <3>1, <3>2, <3>3, Zenon DEF DisabledIsTold
  <2> QED BY <2>2, <2>3
<1>6. ActiveBelowThreshold'
  BY <1>1, <1>2 DEF ActiveBelowThreshold, Rows, Contract!Fatal, HealthAssumption
<1> QED BY <1>3, <1>4, <1>5, <1>6 DEF Heard

\* The commit of a delivery that landed on a failing endpoint.
LEMMA LandingCommits ==
    ASSUME TypeOK, Heard, NEW w \in Workers, Commit(w), IsLanding(tx[w])
    PROVE  /\ Heard'
           /\ row.count > 0
           /\ row' = [row EXCEPT !.count = 0]
           /\ told' = [failing |-> 0,
                       recovered |-> told.recovered + 1,
                       disabled |-> told.disabled,
                       open |-> 0]
<1>1. /\ row \in Rows /\ told \in Told /\ row.count > 0
      /\ row' = [row EXCEPT !.count = 0]
      /\ dead' = 0
  BY DEF TypeOK, Commit, IsLanding
<1>2. told' = [failing |-> 0, recovered |-> told.recovered + 1,
               disabled |-> told.disabled, open |-> 0]
  BY <1>1 DEF Commit, IsLanding, Hears, One, Told
<1>3. /\ row'.count = 0
      /\ row'.active = row.active
      /\ row'.stamped = row.stamped
  BY <1>1 DEF Rows
<1>4. told.recovered = 0
  BY <1>1 DEF Heard, RecoveredAtMostOnce, Told, Rows
<1>5. Heard'
  BY <1>1, <1>2, <1>3, <1>4
     DEF Heard, CountIsExact, WarnedAtMostOnce, RecoveredAtMostOnce,
         DisabledIsTold, ActiveBelowThreshold, HealthAssumption
<1> QED BY <1>1, <1>2, <1>5

\* The commit of a delivery that found nothing to reset.
LEMMA MissCommits ==
    ASSUME TypeOK, NEW w \in Workers, Commit(w), IsMiss(tx[w])
    PROVE  row' = row /\ told' = told /\ dead' = dead
<1>1. row' = row /\ dead' = dead
  BY DEF Commit, IsMiss
<1>2. told' = [failing |-> told.failing + 0, recovered |-> told.recovered + 0,
               disabled |-> told.disabled + 0, open |-> told.open + 0]
  BY DEF Commit, IsMiss, Hears, One
<1>3. told' = told
  BY <1>2 DEF TypeOK, Told
<1> QED BY <1>1, <1>3

\* What the listener heard changes only at a commit and at a reactivation.
LEMMA HeardStep ==
    ASSUME TypeOK, LockInv, TxInv, Heard, [Next]_vars
    PROVE  Heard'
<1> DEFINE Same == row' = row /\ told' = told /\ dead' = dead
<1>1. ASSUME Same PROVE Heard'
  BY <1>1 DEF Heard, CountIsExact, WarnedAtMostOnce, RecoveredAtMostOnce,
     DisabledIsTold, ActiveBelowThreshold
<1>2. ASSUME NEW w \in Workers, WorkerStep(w) PROVE Heard'
  <2>1. CASE Commit(w)
    <3>1. IsDeath(tx[w]) \/ IsLanding(tx[w]) \/ IsMiss(tx[w])
      BY <2>1 DEF Commit, TxInv
    <3> QED BY <1>1, <2>1, <3>1, DeathCommits, LandingCommits, MissCommits
  <2>2. CASE ~Commit(w)
    <3>1. Same
      BY <1>2, <2>2 DEF WorkerStep, DeathBegins, EdgeHits, EdgeMisses,
         CountHits, CountMisses, LandingHits, Landed, LandingMisses, Rollback
    <3> QED BY <1>1, <3>1
  <2> QED BY <2>1, <2>2
<1>3. CASE Reactivate
  <2>1. /\ row' = FreshRow /\ dead' = 0
        /\ told'.failing = 0 /\ told'.disabled = 0
        /\ told'.recovered = told.recovered
    BY <1>3 DEF Reactivate, TypeOK, Told
  <2> QED BY <2>1 DEF Heard, CountIsExact, WarnedAtMostOnce, FreshRow,
          RecoveredAtMostOnce, DisabledIsTold, ActiveBelowThreshold,
          HealthAssumption
<1>4. CASE SwitchOff
  <2>1. /\ row'.count = row.count /\ ~row'.active /\ row'.stamped = row.stamped
        /\ told' = told /\ dead' = dead
    BY <1>4 DEF SwitchOff, TypeOK, Rows
  <2> QED BY <2>1 DEF Heard, CountIsExact, WarnedAtMostOnce,
          RecoveredAtMostOnce, DisabledIsTold, ActiveBelowThreshold
<1>5. CASE Delete
  BY <1>1, <1>5 DEF Delete
<1>6. CASE UNCHANGED vars
  BY <1>1, <1>6 DEF vars
<1> QED BY <1>2, <1>3, <1>4, <1>5, <1>6 DEF Next

-----------------------------------------------------------------------------
(* The theorems *)

\* A fresh endpoint, with no worker busy, satisfies the inductive invariant.
LEMMA IndInit == Init => IndInv
<1> SUFFICES ASSUME Init PROVE IndInv
  OBVIOUS
<1>1. TypeOK
  BY DEF Init, TypeOK, FreshRow, NoTx, Rows, Transactions, Told, Steps,
     HealthAssumption
<1>2. LockInv /\ TxInv
  BY DEF Init, LockInv, TxInv, HealthAssumption
<1>3. Heard
  BY DEF Init, FreshRow, Heard, CountIsExact, WarnedAtMostOnce,
     RecoveredAtMostOnce, DisabledIsTold, ActiveBelowThreshold,
     HealthAssumption
<1> QED BY <1>1, <1>2, <1>3 DEF IndInv

\* Every statement, commit, rollback and operator act keeps it.
LEMMA IndStep == IndInv /\ [Next]_vars => IndInv'
BY TypeStep, LockStep, TxStep, HeardStep DEF IndInv

\* The inductive invariant holds in every behaviour.
THEOREM Inductive == Spec => []IndInv
BY IndInit, IndStep, PTL DEF Spec

LEMMA AllHeard == Spec => []Heard
<1>1. IndInv => Heard
  BY DEF IndInv
<1> QED BY <1>1, Inductive, PTL

\* Whatever the workers interleave and roll back, no death is lost or counted
\* twice.
THEOREM DeathsAreExact == Spec => []CountIsExact
<1>1. Heard => CountIsExact
  BY DEF Heard
<1> QED BY <1>1, AllHeard, PTL

\* An incident is announced to the host at most once.
THEOREM WarnedOnce == Spec => []WarnedAtMostOnce
<1>1. Heard => WarnedAtMostOnce
  BY DEF Heard
<1> QED BY <1>1, AllHeard, PTL

\* An incident is closed to the host at most once.
THEOREM RecoveredOnce == Spec => []RecoveredAtMostOnce
<1>1. Heard => RecoveredAtMostOnce
  BY DEF Heard
<1> QED BY <1>1, AllHeard, PTL

\* A row that is stamped as disabled is off, and the host was told so once.
THEOREM TellsOfDisabling == Spec => []DisabledIsTold
<1>1. Heard => DisabledIsTold
  BY DEF Heard
<1> QED BY <1>1, AllHeard, PTL

\* Nothing stays on with a threshold of dead deliveries behind it.
THEOREM OffAtThreshold == Spec => []ActiveBelowThreshold
<1>1. Heard => ActiveBelowThreshold
  BY DEF Heard
<1> QED BY <1>1, AllHeard, PTL

\* A step that is not a commit or an operator's act changes neither the row
\* nor what has been heard.
LEMMA QuietStep ==
    ASSUME NEW w \in Workers, WorkerStep(w), ~Commit(w)
    PROVE  present' = present /\ row' = row /\ told' = told /\ dead' = dead
BY DEF WorkerStep, DeathBegins, EdgeHits, EdgeMisses, CountHits, CountMisses,
   LandingHits, Landed, LandingMisses, Rollback

\* The endpoint is switched off on this package's account only from on, with
\* a threshold of committed deaths behind it, and the host is told with it.
THEOREM DisablingIsEarned == Spec => DisabledOnlyWhenEarned
<1> DEFINE A == row'.stamped /\ ~row.stamped =>
                    /\ row.active
                    /\ dead' = dead + 1
                    /\ Threshold \in 1 .. dead'
                    /\ told'.disabled = told.disabled + 1
<1>1. IndInv /\ [Next]_vars => [A]_vars
  <2> SUFFICES ASSUME IndInv, Next, row'.stamped, ~row.stamped
               PROVE  /\ row.active
                      /\ dead' = dead + 1
                      /\ Threshold \in 1 .. dead'
                      /\ told'.disabled = told.disabled + 1
    BY DEF vars
  <2> USE DEF IndInv, TypeOK
  <2>1. ASSUME NEW w \in Workers, Commit(w)
        PROVE  /\ row.active
               /\ dead' = dead + 1
               /\ Threshold \in 1 .. dead'
               /\ told'.disabled = told.disabled + 1
    <3>1. IsDeath(tx[w]) \/ IsLanding(tx[w]) \/ IsMiss(tx[w])
      BY <2>1 DEF Commit, TxInv
    <3>2. ~IsLanding(tx[w])
      BY <2>1, LandingCommits DEF Rows
    <3>3. ~IsMiss(tx[w])
      BY <2>1, MissCommits
    <3>4. PICK started \in BOOLEAN :
              /\ dead' = dead + 1
              /\ row' = [count |-> row.count + 1,
                         active |-> row.active /\ ~Contract!Fatal,
                         stamped |-> row.stamped \/ Contract!Fatal]
              /\ told' = [failing |-> Contract!Plus(told.failing, started),
                          recovered |-> 0,
                          disabled |-> Contract!Plus(told.disabled, Contract!Fatal),
                          open |-> Contract!Plus(told.open, started)]
      BY <2>1, <3>1, <3>2, <3>3, DeathFacts
    <3>5. Contract!Fatal
      BY <3>4
    <3> QED BY <3>4, <3>5 DEF Contract!Fatal, Contract!Plus, Heard,
            CountIsExact, HealthAssumption
  <2>2. ASSUME NEW w \in Workers, WorkerStep(w), ~Commit(w) PROVE FALSE
    BY <2>2, QuietStep
  <2>3. ~Reactivate /\ ~SwitchOff /\ ~Delete
    BY DEF Reactivate, SwitchOff, Delete, FreshRow, Rows
  <2> QED BY <2>1, <2>2, <2>3 DEF Next
<1> QED BY <1>1, Inductive, PTL DEF Spec, DisabledOnlyWhenEarned

\* A delivery that lands resets the count of a failing endpoint and touches
\* neither the switch nor the stamp.
THEOREM LandingIsNarrow == Spec => LandingOnlyClearsTheCount
<1> DEFINE A == told'.recovered > told.recovered =>
                    /\ row.count > 0
                    /\ row' = [row EXCEPT !.count = 0]
<1>1. IndInv /\ [Next]_vars => [A]_vars
  <2> SUFFICES ASSUME IndInv, Next, told'.recovered > told.recovered
               PROVE  row.count > 0 /\ row' = [row EXCEPT !.count = 0]
    BY DEF vars
  <2>1. TypeOK /\ TxInv /\ Heard /\ told.recovered \in Nat
    BY DEF IndInv, TypeOK, Told
  <2>2. ASSUME NEW w \in Workers, Commit(w)
        PROVE  row.count > 0 /\ row' = [row EXCEPT !.count = 0]
    <3>1. IsDeath(tx[w]) \/ IsLanding(tx[w]) \/ IsMiss(tx[w])
      BY <2>1, <2>2 DEF Commit, TxInv
    <3>2. CASE IsDeath(tx[w])
      <4>1. told'.recovered = 0
        BY <2>1, <2>2, <3>2, DeathFacts
      <4> QED BY <2>1, <4>1
    <3>3. CASE IsLanding(tx[w])
      BY <2>1, <2>2, <3>3, LandingCommits
    <3>4. CASE IsMiss(tx[w])
      BY <2>1, <2>2, <3>4, MissCommits
    <3> QED BY <3>1, <3>2, <3>3, <3>4
  <2>3. ASSUME NEW w \in Workers, WorkerStep(w), ~Commit(w) PROVE FALSE
    BY <2>1, <2>3, QuietStep
  <2>4. ~Reactivate /\ ~SwitchOff /\ ~Delete
    <3>1. Reactivate => told'.recovered = told.recovered
      BY <2>1 DEF Reactivate, TypeOK, Told
    <3>2. SwitchOff \/ Delete => told'.recovered = told.recovered
      BY DEF SwitchOff, Delete
    <3> QED BY <2>1, <3>1, <3>2
  <2> QED BY <2>2, <2>3, <2>4 DEF Next
<1> QED BY <1>1, Inductive, PTL DEF Spec, LandingOnlyClearsTheCount

-----------------------------------------------------------------------------
(* The edge, and what may be lost at it *)

\* The count is cleared - by a landing or by a reactivation - while a death
\* stands between its two UPDATEs: it found the count positive, and will add
\* to a count that is zero.
Race ==
    /\ present
    /\ row.count > 0
    /\ row'.count = 0
    /\ \E w \in Workers : pc[w] = "count"

\* A death between its UPDATEs is not the first of its incident, and one
\* that is the first carries the warning to its commit.
EdgeInv ==
    /\ \A w \in Workers : pc[w] = "count" /\ present => row.count # 0
    /\ \A w \in Workers :
           pc[w] = "commit" /\ tx[w].kind = "death" /\ row.count = 0
               => "EndpointFailing" \in tx[w].fires
    /\ EveryIncidentWarned

\* Where no step is a race, no first death goes unannounced.
LEMMA EdgeStep ==
    ASSUME IndInv, EdgeInv, [Next]_vars, [~Race]_vars
    PROVE  EdgeInv'
<1> USE DEF IndInv, TypeOK
<1> DEFINE Between == \A w \in Workers : pc[w] = "count" /\ present => row.count # 0
           Carries == \A w \in Workers :
                          pc[w] = "commit" /\ tx[w].kind = "death" /\ row.count = 0
                              => "EndpointFailing" \in tx[w].fires
<1>1. ASSUME NEW w \in Workers, WorkerStep(w), ~Commit(w) PROVE EdgeInv'
  <2>1. present' = present /\ row' = row /\ told' = told
    BY <1>1, QuietStep
  <2>2. EveryIncidentWarned'
    BY <2>1 DEF EdgeInv, EveryIncidentWarned
  <2> HIDE DEF Between, Carries
  <2>3. ASSUME UNCHANGED tx, pc'[w] # "commit", pc'[w] = "count" => EdgeMisses(w),
               \A v \in Workers \ {w} : pc'[v] = pc[v]
        PROVE  EdgeInv'
    <3>1. Between'
      BY <2>1, <2>3 DEF Between, EdgeInv, EdgeMisses
    <3>2. Carries'
      BY <2>1, <2>3 DEF Carries, EdgeInv
    <3> QED BY <2>2, <3>1, <3>2 DEF EdgeInv, Between, Carries
  <2>4. ASSUME NEW t, tx' = [tx EXCEPT ![w] = t], pc'[w] # "count",
               pc'[w] = "commit" /\ t.kind = "death" /\ row.count = 0
                   => "EndpointFailing" \in t.fires,
               \A v \in Workers \ {w} : pc'[v] = pc[v]
        PROVE  EdgeInv'
    <3>1. Between'
      BY <2>1, <2>4 DEF Between, EdgeInv
    <3>2. Carries'
      BY <2>1, <2>4 DEF Carries, EdgeInv
    <3> QED BY <2>2, <3>1, <3>2 DEF EdgeInv, Between, Carries
  <2>5. CASE DeathBegins(w)
    BY <2>3, <2>5 DEF DeathBegins
  <2>6. CASE EdgeHits(w)
    <3>1. "EndpointFailing" \in Judged(Counted(row), TRUE).fires
      BY JudgedFacts
    <3> QED BY <2>4, <2>6, <3>1 DEF EdgeHits
  <2>7. CASE EdgeMisses(w)
    BY <2>3, <2>7 DEF EdgeMisses
  <2>8. CASE CountHits(w)
    <3>1. row.count # 0
      BY <2>8 DEF CountHits, EdgeInv
    <3> QED BY <2>4, <2>8, <3>1 DEF CountHits
  <2>9. CASE CountMisses(w)
    BY <2>3, <2>9 DEF CountMisses
  <2>10. CASE LandingHits(w)
    BY <2>4, <2>10 DEF LandingHits, Landed
  <2>11. CASE LandingMisses(w)
    BY <2>4, <2>11 DEF LandingMisses
  <2>12. CASE Rollback(w)
    BY <2>4, <2>12 DEF Rollback
  <2> QED BY <1>1, <2>5, <2>6, <2>7, <2>8, <2>9, <2>10, <2>11, <2>12
       DEF WorkerStep
<1> HIDE DEF Between, Carries
<1>2. ASSUME present' => present, Next, [~Race]_vars,
             \A v \in Workers : pc'[v] \in {pc[v], "idle"}
      PROVE  Between'
  <2> SUFFICES ASSUME NEW v \in Workers, pc'[v] = "count", present'
               PROVE  row'.count # 0
    BY DEF Between
  <2>1. pc[v] = "count" /\ present /\ row.count > 0
    BY <1>2 DEF EdgeInv, Rows
  <2>2. CASE UNCHANGED vars
    BY <2>1, <2>2 DEF vars
  <2>3. CASE ~Race
    BY <2>1, <2>3 DEF Race
  <2> QED BY <1>2, <2>2, <2>3
<1>3. ASSUME NEW w \in Workers, Commit(w) PROVE EdgeInv'
  <2>1. /\ present' = present
        /\ pc[w] = "commit"
        /\ \A v \in Workers : pc'[v] = IF v = w THEN "idle" ELSE pc[v]
    BY <1>3 DEF Commit
  <2>2. Between'
    BY <1>2, <1>3, <2>1 DEF Next, WorkerStep
  <2>3. Carries'
    BY <2>1 DEF Carries, LockInv
  <2>4. IsDeath(tx[w]) \/ IsLanding(tx[w]) \/ IsMiss(tx[w])
    BY <2>1 DEF TxInv
  <2>5. CASE IsDeath(tx[w])
    <3>1. tx[w].kind = "death"
      BY <2>5, JudgedFacts DEF IsDeath
    <3>2. PICK started \in BOOLEAN :
              /\ started => row.count = 0
              /\ started <=> "EndpointFailing" \in tx[w].fires
              /\ told' = [failing |-> Contract!Plus(told.failing, started),
                          recovered |-> 0,
                          disabled |-> Contract!Plus(told.disabled, Contract!Fatal),
                          open |-> Contract!Plus(told.open, started)]
      BY <1>3, <2>5, DeathFacts
    <3>3. told'.failing = IF row.count = 0 THEN told.failing + 1 ELSE told.failing
      BY <2>1, <3>1, <3>2 DEF EdgeInv, Contract!Plus
    <3>4. told'.failing = 1
      BY <3>3 DEF EdgeInv, EveryIncidentWarned, Heard, WarnedAtMostOnce,
         Told, Rows
    <3> QED BY <2>2, <2>3, <3>4 DEF EdgeInv, EveryIncidentWarned, Between,
            Carries
  <2>6. CASE IsLanding(tx[w])
    <3>1. row'.count = 0
      BY <1>3, <2>6, LandingCommits DEF Rows
    <3> QED BY <2>2, <2>3, <3>1 DEF EdgeInv, EveryIncidentWarned, Between,
            Carries
  <2>7. CASE IsMiss(tx[w])
    <3>1. row' = row /\ told' = told
      BY <1>3, <2>7, MissCommits
    <3> QED BY <2>2, <2>3, <3>1 DEF EdgeInv, EveryIncidentWarned, Between,
            Carries
  <2> QED BY <2>4, <2>5, <2>6, <2>7
<1>4. ASSUME Act, Next, present' => present, EveryIncidentWarned'
      PROVE  EdgeInv'
  <2>1. pc' = pc /\ \A v \in Workers : pc[v] # "commit"
    BY <1>4 DEF Act, LockInv, HealthAssumption
  <2>2. Between'
    BY <1>2, <1>4, <2>1
  <2>3. Carries'
    BY <2>1 DEF Carries
  <2> QED BY <1>4, <2>2, <2>3 DEF EdgeInv, Between, Carries
<1>5. CASE Reactivate
  <2>1. EveryIncidentWarned'
    BY <1>5 DEF Reactivate, FreshRow, EveryIncidentWarned
  <2> QED BY <1>4, <1>5, <2>1 DEF Reactivate, Act, Next
<1>6. CASE SwitchOff
  <2>1. row'.count = row.count /\ told' = told
    BY <1>6 DEF SwitchOff, Rows
  <2>2. EveryIncidentWarned'
    BY <2>1 DEF EdgeInv, EveryIncidentWarned
  <2> QED BY <1>4, <1>6, <2>2 DEF SwitchOff, Act, Next
<1>7. CASE Delete
  <2>1. EveryIncidentWarned'
    BY <1>7 DEF Delete, EdgeInv, EveryIncidentWarned
  <2> QED BY <1>4, <1>7, <2>1 DEF Delete, Act, Next
<1>8. CASE UNCHANGED vars
  BY <1>8 DEF vars, EdgeInv, EveryIncidentWarned
<1> QED BY <1>1, <1>3, <1>5, <1>6, <1>7, <1>8 DEF Next

\* In a behaviour without a race the edge is never lost.
LEMMA EdgeKept == Spec /\ [][~Race]_vars => [](IndInv /\ EdgeInv)
<1>1. Init => EdgeInv
  BY DEF Init, EdgeInv, EveryIncidentWarned, FreshRow
<1>2. IndInv /\ EdgeInv /\ [Next]_vars /\ [~Race]_vars => EdgeInv'
  BY EdgeStep
<1> QED BY <1>1, <1>2, Inductive, PTL DEF Spec

\* Only a race hides an incident: on either kind of database, an incident
\* goes unannounced in no behaviour in which no count is cleared between the
\* two UPDATEs of a death.
THEOREM OnlyARaceHidesAnIncident ==
    Spec /\ [][~Race]_vars => []EveryIncidentWarned
<1>1. EdgeInv => EveryIncidentWarned
  BY DEF EdgeInv
<1> QED BY <1>1, EdgeKept, PTL

\* Where a missed UPDATE locks the row, there is no race: whoever would
\* clear the count waits for the death between its UPDATEs.
THEOREM LockedRowsNeverRace ==
    ASSUME LockOnMiss PROVE Spec => [][~Race]_vars
<1>1. IndInv /\ [Next]_vars => [~Race]_vars
  <2> SUFFICES ASSUME IndInv, Next, NEW w \in Workers, pc[w] = "count", present,
                      row.count > 0, row'.count = 0
               PROVE  FALSE
    BY DEF Race, vars
  <2>1. lock = w /\ w # Nobody
    BY DEF IndInv, LockInv, HealthAssumption
  <2>2. ASSUME NEW v \in Workers, Commit(v) PROVE FALSE
    BY <2>1, <2>2 DEF Commit, IndInv, LockInv
  <2>3. ~Act
    BY <2>1 DEF Act
  <2>4. ASSUME NEW v \in Workers, WorkerStep(v), ~Commit(v) PROVE FALSE
    <3>1. row' = row
      BY <2>4, QuietStep
    <3> QED BY <3>1
  <2> QED BY <2>2, <2>3, <2>4 DEF Next, Reactivate, SwitchOff, Delete
<1> QED BY <1>1, Inductive, PTL DEF Spec

\* Where a missed UPDATE locks the row, every incident is announced.
THEOREM IncidentsAreAnnounced ==
    ASSUME LockOnMiss PROVE Spec => []EveryIncidentWarned
BY OnlyARaceHidesAnIncident, LockedRowsNeverRace, PTL

-----------------------------------------------------------------------------
(* The contract *)

\* Only a race breaks the contract: on either kind of database, without one
\* the interleaved transactions refine the atomic contract.
THEOREM OnlyARaceBreaksTheContract ==
    Spec /\ [][~Race]_vars => KeepsTheContract
<1>1. Init => Contract!Init
  BY DEF Init, FreshRow, Contract!Init
<1>2. IndInv /\ EdgeInv /\ [Next]_vars => [Contract!Next]_(Contract!cvars)
  <2> SUFFICES ASSUME IndInv, EdgeInv, [Next]_vars
               PROVE  Contract!Next \/ UNCHANGED <<present, row, told>>
    BY DEF Contract!cvars
  <2> USE DEF Contract!Next
  <2>1. TypeOK /\ LockInv /\ TxInv /\ Heard
    BY DEF IndInv
  <2>2. ASSUME NEW w \in Workers, Commit(w)
        PROVE  Contract!Next \/ UNCHANGED <<present, row, told>>
    <3>1. IsDeath(tx[w]) \/ IsLanding(tx[w]) \/ IsMiss(tx[w])
      BY <2>1, <2>2 DEF Commit, TxInv
    <3>2. present /\ present' = present
      BY <2>1, <2>2 DEF Commit, LockInv
    <3>3. CASE IsDeath(tx[w])
      <4>1. PICK started \in BOOLEAN :
                /\ started => row.count = 0
                /\ started <=> "EndpointFailing" \in tx[w].fires
                /\ row' = [count |-> row.count + 1,
                           active |-> row.active /\ ~Contract!Fatal,
                           stamped |-> row.stamped \/ Contract!Fatal]
                /\ told' = [failing |-> Contract!Plus(told.failing, started),
                            recovered |-> 0,
                            disabled |-> Contract!Plus(told.disabled, Contract!Fatal),
                            open |-> Contract!Plus(told.open, started)]
        BY <2>1, <2>2, <3>3, DeathFacts
      <4>2. tx[w].kind = "death"
        BY <2>1, <3>3, JudgedFacts DEF IsDeath, TypeOK
      <4>3. started <=> row.count = 0
        BY <2>2, <4>1, <4>2 DEF EdgeInv, Commit
      <4>4. /\ Contract!Plus(told.failing, started)
                   = Contract!Plus(told.failing, row.count = 0)
            /\ Contract!Plus(told.open, started)
                   = Contract!Plus(told.open, row.count = 0)
        BY <4>3 DEF Contract!Plus
      <4> QED BY <3>2, <4>1, <4>4, Zenon DEF Contract!Dies
    <3>4. CASE IsLanding(tx[w])
      <4>1. told' = [failing |-> 0,
                     recovered |-> told.recovered + 1,
                     disabled |-> told.disabled,
                     open |-> 0]
        BY <2>1, <2>2, <3>4, LandingCommits
      <4>2. row.count > 0 /\ row' = [row EXCEPT !.count = 0]
        BY <2>1, <2>2, <3>4, LandingCommits
      <4> QED BY <3>2, <4>1, <4>2, Zenon DEF Contract!Recovers
    <3>5. CASE IsMiss(tx[w])
      BY <2>1, <2>2, <3>2, <3>5, MissCommits
    <3> QED BY <3>1, <3>3, <3>4, <3>5
  <2>3. ASSUME NEW w \in Workers, WorkerStep(w), ~Commit(w)
        PROVE  UNCHANGED <<present, row, told>>
    BY <2>3, QuietStep
  <2>4. CASE Reactivate
    BY <2>4 DEF Reactivate, Act, FreshRow, Contract!PutBack
  <2>5. CASE SwitchOff
    BY <2>5 DEF SwitchOff, Act, Contract!TurnedOff
  <2>6. CASE Delete
    BY <2>6 DEF Delete, Act, Contract!Removed
  <2>7. CASE UNCHANGED vars
    BY <2>7 DEF vars
  <2> QED BY <2>2, <2>3, <2>4, <2>5, <2>6, <2>7 DEF Next
<1> QED BY <1>1, <1>2, EdgeKept, PTL DEF Spec, KeepsTheContract, Contract!Spec

\* Where a missed UPDATE locks the row, the interleaved transactions refine
\* the atomic contract.
THEOREM RefinesTheContract ==
    ASSUME LockOnMiss PROVE Spec => KeepsTheContract
BY OnlyARaceBreaksTheContract, LockedRowsNeverRace, PTL

-----------------------------------------------------------------------------
(* Incidents that are announced and never closed *)

\* An operator puts the endpoint back in the middle of an incident, which
\* clears the count and says nothing.
PutsBackMidIncident == Reactivate /\ row.count > 0

\* Otherwise the warnings that stand open are those of this incident.
LEMMA OpenStep ==
    ASSUME IndInv, told.open = told.failing, [Next]_vars,
           [~PutsBackMidIncident]_vars
    PROVE  told'.open = told'.failing
<1> USE DEF IndInv, TypeOK
<1>1. ASSUME NEW w \in Workers, Commit(w) PROVE told'.open = told'.failing
  <2>1. IsDeath(tx[w]) \/ IsLanding(tx[w]) \/ IsMiss(tx[w])
    BY <1>1 DEF Commit, TxInv
  <2>2. CASE IsDeath(tx[w])
    <3>1. PICK started \in BOOLEAN :
              told' = [failing |-> Contract!Plus(told.failing, started),
                       recovered |-> 0,
                       disabled |-> Contract!Plus(told.disabled, Contract!Fatal),
                       open |-> Contract!Plus(told.open, started)]
      BY <1>1, <2>2, DeathFacts
    <3> QED BY <3>1
  <2>3. CASE IsLanding(tx[w])
    BY <1>1, <2>3, LandingCommits
  <2>4. CASE IsMiss(tx[w])
    BY <1>1, <2>4, MissCommits
  <2> QED BY <2>1, <2>2, <2>3, <2>4
<1>2. ASSUME NEW w \in Workers, WorkerStep(w), ~Commit(w) PROVE told' = told
  BY <1>2, QuietStep
<1>3. CASE Reactivate
  <2>1. ~(row.count > 0) \/ UNCHANGED vars
    BY <1>3 DEF PutsBackMidIncident
  <2>2. ~(row.count > 0) => told.failing = 0
    BY DEF Heard, WarnedAtMostOnce, Told
  <2>3. told'.open = told.open /\ told'.failing = 0
    BY <1>3 DEF Reactivate, Told
  <2> QED BY <2>1, <2>2, <2>3 DEF vars
<1>4. SwitchOff \/ Delete \/ UNCHANGED vars => told' = told
  BY DEF SwitchOff, Delete, vars
<1> QED BY <1>1, <1>2, <1>3, <1>4 DEF Next

\* Only a reactivation in the middle of an incident leaves a warning without
\* its all-clear: in a behaviour without one, at most one EndpointFailing
\* stands open, on either kind of database.
THEOREM OnlyPuttingBackLeavesAWarning ==
    Spec /\ [][~PutsBackMidIncident]_vars => []WarningsAreClosed
<1>1. Init => told.open = told.failing
  BY DEF Init
<1>2. /\ IndInv /\ told.open = told.failing
      /\ [Next]_vars /\ [~PutsBackMidIncident]_vars
      => (told.open = told.failing)'
  BY OpenStep
<1>3. IndInv /\ told.open = told.failing => WarningsAreClosed
  BY DEF IndInv, TypeOK, Told, Heard, WarnedAtMostOnce, WarningsAreClosed
<1> QED BY <1>1, <1>2, <1>3, Inductive, PTL DEF Spec
=============================================================================
