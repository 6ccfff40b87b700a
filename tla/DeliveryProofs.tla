--------------------------- MODULE DeliveryProofs ---------------------------
(***************************************************************************)
(* The outer tier, for any workers, deliveries and budgets.  DeliveryTypes *)
(* is what the rest starts from: types, rows that agree with their holders *)
(* (RowsAgree), and stashes that are their worker's own (OwnStash).  On    *)
(* top of it stand four arguments: the evidence of an acknowledgement      *)
(* (Landed), with the promise that is implemented; what is counted against *)
(* the endpoint (OneHook, Counted); where each request is (Balance); and   *)
(* what an outer attempt is charged to (WithinCharges).                    *)
(***************************************************************************)
EXTENDS Delivery, TLAPS, FiniteSetTheorems

USE DeliveryAssumption

\* Only a row that is owed is held, and one that did not die had an attempt left.
RowsAgree ==
    \A d \in Deliveries :
        /\ holder[d] # Nobody => status[d] = "owed"
        /\ status[d] # "dead" => tries[d] < Budget
        /\ d \in dropped => status[d] = "succeeded"

\* A worker that is not idle has a delivery.
Busy == \A w \in Workers : IF pc[w] = "idle" THEN job[w] = Nobody ELSE job[w] \in Deliveries

\* From when it is set until it is written a stash is that of the worker's own
\* delivery, and it has room for the request that is next.
OwnStash ==
    \A w \in Workers :
        /\ pc[w] \in {"send", "record"} => pending[w].of = job[w]
        /\ pc[w] = "send" => pending[w].requests < MaxRequests

\* A worker about to acknowledge has the 2xx in its stash.
Landed ==
    \A w \in Workers : pc[w] = "record" => landed[job[w]] > 0 /\ pending[w].requests > 0

\* A worker that drops its delivery has seen the endpoint off.
OffIsSeen == (On \/ wasOff) /\ \A w \in Workers : pc[w] = "quiet" => wasOff

RowTypes ==
    /\ status \in [Deliveries -> {"owed", "succeeded", "dead"}]
    /\ tries \in [Deliveries -> 0 .. Budget]
    /\ holder \in [Deliveries -> Workers \cup {Nobody}]
    /\ dropped \subseteq Deliveries

EndpointTypes ==
    /\ present \in BOOLEAN
    /\ row \in [count : Nat, active : BOOLEAN, stamped : BOOLEAN]
    /\ told \in [failing : Nat, recovered : Nat, disabled : Nat, open : Nat]
    /\ wasOff \in BOOLEAN

WorkerTypes ==
    /\ pc \in [Workers -> Places]
    /\ job \in [Workers -> Deliveries \cup {Nobody}]
    /\ ending \in [Workers -> {"none", "failed", "dead"}]

CountTypes ==
    /\ logged \in [Deliveries -> Nat]
    /\ sent \in [Deliveries -> Nat]
    /\ landed \in [Deliveries -> Nat]
    /\ lost \in [Deliveries -> Nat]
    /\ noted \in [Deliveries -> Nat]

StashTypes == pending \in [Workers -> Stashes]

BoundTypes == stalls \in 0 .. MaxStalls /\ crashes \in 0 .. MaxCrashes /\ acts \in 0 .. MaxActs

LEMMA TypeParts ==
    TypeOK <=> /\ RowTypes /\ EndpointTypes /\ WorkerTypes /\ CountTypes /\ StashTypes
               /\ BoundTypes
BY DEF TypeOK, RowTypes, EndpointTypes, WorkerTypes, CountTypes, StashTypes, BoundTypes

DeliveryTypes == TypeOK /\ RowsAgree /\ Busy /\ OwnStash

-----------------------------------------------------------------------------
(* Types *)

LEMMA AddTypes ==
    ASSUME NEW f \in [Deliveries -> Nat], NEW d, NEW n \in Nat
    PROVE  /\ Add(f, d, n) \in [Deliveries -> Nat]
           /\ \A x \in Deliveries : Add(f, d, n)[x] = IF x = d THEN f[x] + n ELSE f[x]
BY DEF Add

LEMMA StashIs ==
    ASSUME StashTypes, NEW w \in Workers
    PROVE  /\ pending[w].requests \in 0 .. MaxRequests
           /\ pending[w].of \in Deliveries \cup {Nobody}
           /\ Unwritten(w) \in 0 .. MaxRequests
           /\ NoPending \in Stashes
BY DEF StashTypes, Stashes, Unwritten, NoPending

LEMMA RowsStep == RowTypes /\ RowsAgree /\ Busy /\ [Next]_vars => RowTypes' /\ RowsAgree'
<1> SUFFICES ASSUME RowTypes, RowsAgree, Busy, [Next]_vars PROVE RowTypes' /\ RowsAgree'
  OBVIOUS
<1> USE DEF RowTypes, RowsAgree, Busy
<1>1. ASSUME NEW w \in Workers, NEW d \in Deliveries, Claim(w, d)
      PROVE  RowTypes' /\ RowsAgree'
  BY <1>1 DEF Claim, history
<1>2. ASSUME NEW d \in Deliveries, LeaseRunsOut(d) \/ Stall(d)
      PROVE  RowTypes' /\ RowsAgree'
  BY <1>2 DEF LeaseRunsOut, Stall, history
<1>3. ASSUME NEW w \in Workers, SettleQuietly(w)
      PROVE  RowTypes' /\ RowsAgree'
  BY <1>3 DEF SettleQuietly
<1>4. ASSUME NEW w \in Workers, SettleDelivered(w)
      PROVE  RowTypes' /\ RowsAgree'
  BY <1>4 DEF SettleDelivered
<1>5. ASSUME NEW w \in Workers, Fails(w)
      PROVE  RowTypes' /\ RowsAgree'
  <2>1. job[w] \in Deliveries /\ status[job[w]] = "owed" /\ tries[job[w]] + 1 \in 0 .. Budget
    BY <1>5 DEF Fails, Counts
  <2>2. tries' = [tries EXCEPT ![job[w]] = @ + 1]
    BY <1>5 DEF Fails, Counts, Add
  <2>3. dropped' = dropped /\ holder' = [holder EXCEPT ![job[w]] = Nobody]
    BY <1>5 DEF Fails, Counts, history
  <2>4. status' = [status EXCEPT ![job[w]] = IF tries'[job[w]] >= Budget THEN "dead" ELSE "owed"]
    BY <1>5 DEF Fails, Counts
  <2> QED
    BY <2>1, <2>2, <2>3, <2>4
<1>6. CASE UNCHANGED <<status, tries, holder, dropped>>
  BY <1>6
<1>7. ASSUME NEW w \in Workers, Works(w) \/ Crash(w)
      PROVE  \/ SettleQuietly(w) \/ SettleDelivered(w) \/ Fails(w)
             \/ UNCHANGED <<status, tries, holder, dropped>>
  BY <1>7 DEF Works, Crash, Load, CannotRender, Prepare, Refuse, Request, Answered, RecordFails,
              LosesTheRow, HookHasNothing, HookRecords, Writes, HookFails, HookNotes, rows,
              history
<1> QED
  BY <1>1, <1>2, <1>3, <1>4, <1>5, <1>6, <1>7 DEF Next, OperatorActs, vars, rows, history

LEMMA EndpointStep == EndpointTypes /\ [Next]_vars => EndpointTypes'
<1> SUFFICES ASSUME EndpointTypes, [Next]_vars PROVE EndpointTypes'
  OBVIOUS
<1> USE DEF EndpointTypes
<1>1. ASSUME Health!Dies \/ Health!Recovers \/ Health!PutBack \/ Health!TurnedOff \/ Health!Removed
      PROVE  /\ present' \in BOOLEAN
             /\ row' \in [count : Nat, active : BOOLEAN, stamped : BOOLEAN]
             /\ told' \in [failing : Nat, recovered : Nat, disabled : Nat, open : Nat]
  <2>1. CASE Health!Dies
    BY <2>1 DEF Health!Dies, Health!Fatal, Health!Plus
  <2>2. CASE Health!Recovers
    BY <2>2 DEF Health!Recovers
  <2>3. CASE Health!PutBack
    BY <2>3 DEF Health!PutBack
  <2>4. CASE Health!TurnedOff \/ Health!Removed
    BY <2>4 DEF Health!TurnedOff, Health!Removed
  <2> QED
    BY <1>1, <2>1, <2>2, <2>3, <2>4
<1>2. ASSUME NEW w \in Workers, SettleDelivered(w)
      PROVE  EndpointTypes'
  BY <1>1, <1>2 DEF SettleDelivered
<1>3. ASSUME NEW w \in Workers, HookNotes(w)
      PROVE  EndpointTypes'
  BY <1>1, <1>3 DEF HookNotes
<1>4. CASE OperatorActs
  BY <1>1, <1>4 DEF OperatorActs
<1>5. CASE UNCHANGED endpoint
  BY <1>5 DEF endpoint
<1>6. ASSUME NEW w \in Workers, Works(w) \/ Crash(w)
      PROVE  SettleDelivered(w) \/ HookNotes(w) \/ UNCHANGED endpoint
  BY <1>6 DEF Works, Crash, Load, CannotRender, Prepare, Refuse, Request, Answered, RecordFails,
              SettleQuietly, LosesTheRow, Fails, Counts, HookHasNothing, HookRecords, Writes,
              HookFails
<1> QED
  BY <1>2, <1>3, <1>4, <1>5, <1>6 DEF Next, Claim, LeaseRunsOut, Stall, vars

LEMMA WorkersStep == WorkerTypes /\ Busy /\ [Next]_vars => WorkerTypes' /\ Busy'
<1> SUFFICES ASSUME WorkerTypes, Busy, [Next]_vars PROVE WorkerTypes' /\ Busy'
  OBVIOUS
<1> USE DEF WorkerTypes, Busy
<1>1. ASSUME NEW w \in Workers, NEW d \in Deliveries, Claim(w, d)
      PROVE  WorkerTypes' /\ Busy'
  BY <1>1 DEF Claim, Goes, Places
<1>2. ASSUME NEW w \in Workers, Rests(w)
      PROVE  WorkerTypes' /\ Busy'
  BY <1>2 DEF Rests, Goes, Places
<1>3. ASSUME NEW w \in Workers, NEW step \in Places \ {"idle"}, pc[w] # "idle", Goes(w, step),
             UNCHANGED job, ending' \in [Workers -> {"none", "failed", "dead"}]
      PROVE  WorkerTypes' /\ Busy'
  BY <1>3 DEF Goes, Places
<1>4. CASE UNCHANGED workers
  BY <1>4 DEF workers
<1>5. ASSUME NEW w \in Workers, Works(w) \/ Crash(w)
      PROVE  \/ Rests(w)
             \/ /\ pc[w] # "idle" /\ UNCHANGED job
                /\ ending' \in [Workers -> {"none", "failed", "dead"}]
                /\ \E step \in Places \ {"idle"} : Goes(w, step)
  <2>1. CASE Fails(w)
    BY <2>1 DEF Fails, Counts, Places
  <2>2. CASE \E answer \in Answers : Request(w, answer)
    <3>1. PICK answer \in Answers : Request(w, answer)
      BY <2>2
    <3>2. /\ pc[w] = "send" /\ UNCHANGED <<job, ending>>
          /\ \E step \in {"record", "send", "raised"} : Goes(w, step)
      BY <3>1 DEF Request, Answered
    <3> QED
      BY <3>2 DEF Places
  <2>3. CASE HookRecords(w)
    BY <2>3 DEF HookRecords, Writes, Places
  <2>4. CASE Refuse(w, 0) \/ Refuse(w, 1)
    BY <2>4 DEF Refuse, Places
  <2> QED
    BY <1>5, <2>1, <2>2, <2>3, <2>4
       DEF Works, Crash, Load, CannotRender, Prepare, SettleQuietly, SettleDelivered,
           RecordFails, LosesTheRow, HookHasNothing, HookFails, HookNotes, Places
<1> QED
  BY <1>1, <1>2, <1>3, <1>4, <1>5 DEF Next, OperatorActs, LeaseRunsOut, Stall, vars

LEMMA StashStep ==
    StashTypes /\ Busy /\ WorkerTypes /\ OwnStash /\ [Next]_vars => StashTypes' /\ OwnStash'
<1> SUFFICES ASSUME StashTypes, Busy, WorkerTypes, OwnStash, [Next]_vars
             PROVE  StashTypes' /\ OwnStash'
  OBVIOUS
<1>1. ASSUME NEW w \in Workers, Prepare(w)
      PROVE  StashTypes' /\ OwnStash'
  BY <1>1 DEF Prepare, Goes, StashTypes, Stashes, OwnStash, Busy, WorkerTypes
<1>2. ASSUME NEW w \in Workers, NEW answer \in Answers, Request(w, answer)
      PROVE  StashTypes' /\ OwnStash'
  <2>1. /\ pc[w] = "send" /\ job' = job
        /\ pending' = [pending EXCEPT ![w].requests = @ + 1]
        /\ \E step \in {"record", "send", "raised"} :
              /\ pc' = [pc EXCEPT ![w] = step]
              /\ step = "send" => pending[w].requests + 1 < MaxRequests
    BY <1>2 DEF Request, Answered, Goes
  <2>2. /\ pending[w] \in Stashes /\ pending[w].requests < MaxRequests
        /\ pending[w].of = job[w]
    BY <2>1 DEF StashTypes, OwnStash
  <2>3. [pending[w] EXCEPT !.requests = @ + 1]
            = [of |-> pending[w].of, requests |-> pending[w].requests + 1]
    BY <2>2 DEF Stashes
  <2>4. [pending[w] EXCEPT !.requests = @ + 1] \in Stashes
    BY <2>2, <2>3 DEF Stashes
  <2>5. pending' = [pending EXCEPT ![w] =
                      [of |-> pending[w].of, requests |-> pending[w].requests + 1]]
    BY <2>1, <2>3 DEF StashTypes
  <2> QED
    BY <2>1, <2>2, <2>3, <2>4, <2>5 DEF StashTypes, OwnStash, WorkerTypes
<1>3. ASSUME NEW w \in Workers, NEW step \in Places \ {"send", "record"}, Goes(w, step),
             Clears(w) \/ UNCHANGED pending, \A v \in Workers \ {w} : job'[v] = job[v]
      PROVE  StashTypes' /\ OwnStash'
  BY <1>3 DEF Goes, Clears, StashTypes, Stashes, NoPending, OwnStash, WorkerTypes
<1>4. CASE UNCHANGED <<pc, job, pending>>
  BY <1>4 DEF StashTypes, OwnStash
<1>5. ASSUME NEW w \in Workers, Works(w) \/ Crash(w)
      PROVE  \/ Prepare(w) \/ \E answer \in Answers : Request(w, answer)
             \/ /\ Clears(w) \/ UNCHANGED pending
                /\ \A v \in Workers \ {w} : job'[v] = job[v]
                /\ \E step \in Places \ {"send", "record"} : Goes(w, step)
  <2>1. ASSUME Rests(w)
        PROVE  /\ \A v \in Workers \ {w} : job'[v] = job[v]
               /\ \E step \in Places \ {"send", "record"} : Goes(w, step)
    BY <2>1 DEF Rests, WorkerTypes, Places
  <2>2. CASE Load(w) \/ CannotRender(w) \/ Refuse(w, 0) \/ Refuse(w, 1) \/ Fails(w)
    BY <2>2 DEF Load, CannotRender, Refuse, Fails, Counts, Places
  <2>3. CASE SettleQuietly(w) \/ SettleDelivered(w) \/ LosesTheRow(w) \/ Crash(w)
    BY <2>1, <2>3 DEF SettleQuietly, SettleDelivered, LosesTheRow, Crash
  <2>4. CASE RecordFails(w)
    BY <2>4 DEF RecordFails, Places
  <2>5. CASE HookRecords(w)
    BY <2>1, <2>5 DEF HookRecords, Writes, Places
  <2>6. CASE HookHasNothing(w) \/ HookFails(w) \/ HookNotes(w)
    BY <2>1, <2>6 DEF HookHasNothing, HookFails, HookNotes
  <2> QED
    BY <1>5, <2>2, <2>3, <2>4, <2>5, <2>6 DEF Works
<1>6. ASSUME NEW w \in Workers, NEW d \in Deliveries, Claim(w, d)
      PROVE  StashTypes' /\ OwnStash'
  <2>1. Goes(w, "load") /\ UNCHANGED pending /\ \A v \in Workers \ {w} : job'[v] = job[v]
    BY <1>6 DEF Claim, WorkerTypes
  <2> QED
    BY <2>1, <1>3 DEF Places
<1> QED
  BY <1>1, <1>2, <1>3, <1>4, <1>5, <1>6
     DEF Next, OperatorActs, LeaseRunsOut, Stall, workers, vars

LEMMA CountsStep == CountTypes /\ StashTypes /\ [Next]_vars => CountTypes'
<1> SUFFICES ASSUME CountTypes, StashTypes, [Next]_vars PROVE CountTypes'
  OBVIOUS
<1> USE DEF CountTypes
<1>1. ASSUME NEW w \in Workers, Works(w) \/ Crash(w)
      PROVE  CountTypes'
  <2>1. ASSUME Forgets(w) PROVE lost' \in [Deliveries -> Nat]
    BY <2>1, StashIs, AddTypes DEF Forgets
  <2>2. CASE Crash(w) \/ Prepare(w) \/ RecordFails(w) \/ LosesTheRow(w) \/ HookFails(w)
    BY <2>1, <2>2 DEF Crash, Prepare, RecordFails, LosesTheRow, HookFails, history
  <2>3. CASE Refuse(w, 0) \/ Refuse(w, 1)
    BY <2>3, AddTypes DEF Refuse
  <2>4. CASE \E answer \in Answers : Request(w, answer)
    BY <2>4, AddTypes DEF Request, Answered
  <2>5. CASE SettleDelivered(w)
    BY <2>5, AddTypes, StashIs DEF SettleDelivered
  <2>6. CASE HookRecords(w)
    BY <2>6, AddTypes, StashIs DEF HookRecords, Writes, history
  <2>7. CASE HookNotes(w)
    BY <2>7, AddTypes DEF HookNotes
  <2>8. CASE UNCHANGED <<logged, sent, landed, lost, noted>>
    BY <2>8
  <2> QED
    BY <1>1, <2>2, <2>3, <2>4, <2>5, <2>6, <2>7, <2>8
       DEF Works, Load, CannotRender, SettleQuietly, Fails, Counts, HookHasNothing, history
<1> QED
  BY <1>1 DEF Next, Claim, LeaseRunsOut, Stall, OperatorActs, vars, history

LEMMA BoundsStep == BoundTypes /\ [Next]_vars => BoundTypes'
<1> SUFFICES ASSUME BoundTypes, [Next]_vars PROVE BoundTypes'
  OBVIOUS
<1> USE DEF BoundTypes
<1>1. ASSUME NEW w \in Workers, Works(w)
      PROVE  UNCHANGED bounds
  BY <1>1 DEF Works, Load, CannotRender, Prepare, Refuse, Request, Answered, SettleQuietly,
              SettleDelivered, RecordFails, LosesTheRow, Fails, Counts, HookHasNothing,
              HookRecords, Writes, HookFails, HookNotes
<1> QED
  BY <1>1 DEF Next, Claim, LeaseRunsOut, Stall, Crash, OperatorActs, vars, bounds

LEMMA DeliveryTypesInit == Init => DeliveryTypes
<1> SUFFICES ASSUME Init PROVE DeliveryTypes
  OBVIOUS
<1> USE DEF Init, Health!Init
<1>1. /\ RowTypes
      /\ EndpointTypes
      /\ CountTypes
      /\ BoundTypes
  <2>1. RowTypes
    BY DEF RowTypes
  <2>2. EndpointTypes
    BY DEF EndpointTypes
  <2>3. CountTypes
    BY DEF CountTypes
  <2>4. BoundTypes
    BY DEF BoundTypes
  <2> QED
    BY <2>1, <2>2, <2>3, <2>4
<1>2. WorkerTypes /\ StashTypes
  BY DEF WorkerTypes, StashTypes, Places, Stashes, NoPending
<1>3. RowsAgree /\ Busy /\ OwnStash
  BY DEF RowsAgree, Busy, OwnStash
<1> QED
  BY <1>1, <1>2, <1>3, TypeParts DEF DeliveryTypes

LEMMA DeliveryTypesStep == DeliveryTypes /\ [Next]_vars => DeliveryTypes'
BY TypeParts, RowsStep, EndpointStep, WorkersStep, StashStep, CountsStep, BoundsStep
   DEF DeliveryTypes, TypeOK, RowTypes, EndpointTypes, WorkerTypes, CountTypes, StashTypes,
       BoundTypes

LEMMA DeliveryTyped == Spec => []DeliveryTypes
BY DeliveryTypesInit, DeliveryTypesStep, PTL DEF Spec

-----------------------------------------------------------------------------
(* What a step leaves alone *)

Steps(w) == Works(w) \/ Crash(w) \/ \E d \in Deliveries : Claim(w, d)

Still(v) ==
    pc'[v] = pc[v] /\ job'[v] = job[v] /\ pending'[v] = pending[v] /\ ending'[v] = ending[v]

\* Whatever a worker does, the others stay as they are.
LEMMA OthersStay ==
    ASSUME DeliveryTypes, NEW w \in Workers, Steps(w), NEW v \in Workers \ {w}
    PROVE  Still(v)
<1> SUFFICES pc'[v] = pc[v] /\ job'[v] = job[v] /\ pending'[v] = pending[v] /\ ending'[v] = ending[v]
  BY DEF Still
<1> USE DEF DeliveryTypes, TypeOK
<1>1. ASSUME NEW step, Goes(w, step)
      PROVE  pc'[v] = pc[v]
  BY <1>1 DEF Goes
<1>2. ASSUME Rests(w)
      PROVE  pc'[v] = pc[v] /\ job'[v] = job[v] /\ ending'[v] = ending[v]
  BY <1>2 DEF Rests, Goes
<1>3. ASSUME Clears(w)
      PROVE  pending'[v] = pending[v]
  BY <1>3 DEF Clears
<1>4. CASE \/ Load(w) \/ CannotRender(w) \/ Refuse(w, 0) \/ Refuse(w, 1) \/ RecordFails(w)
           \/ \E d \in Deliveries : Claim(w, d)
  BY <1>1, <1>3, <1>4 DEF Load, CannotRender, Refuse, RecordFails, Claim
<1>5. CASE Prepare(w)
  BY <1>1, <1>5 DEF Prepare
<1>6. CASE \E answer \in Answers : Request(w, answer)
  BY <1>1, <1>6 DEF Request, Answered
<1>7. CASE Fails(w)
  BY <1>1, <1>7 DEF Fails, Counts
<1>8. CASE HookRecords(w)
  BY <1>1, <1>2, <1>3, <1>8 DEF HookRecords, Writes
<1>9. CASE \/ SettleQuietly(w) \/ SettleDelivered(w) \/ LosesTheRow(w) \/ HookHasNothing(w)
           \/ HookFails(w) \/ HookNotes(w) \/ Crash(w)
  BY <1>2, <1>3, <1>9 DEF SettleQuietly, SettleDelivered, LosesTheRow, HookHasNothing, HookFails,
                          HookNotes, Crash
<1> QED
  BY <1>4, <1>5, <1>6, <1>7, <1>8, <1>9 DEF Steps, Works

\* A worker moves by a step of its own.
LEMMA StillOrSteps ==
    ASSUME DeliveryTypes, [Next]_vars, NEW v \in Workers
    PROVE  Still(v) \/ Steps(v)
<1>1. ASSUME NEW w \in Workers, Steps(w)
      PROVE  Still(v) \/ Steps(v)
  BY <1>1, OthersStay
<1>2. CASE UNCHANGED workers
  BY <1>2 DEF workers, Still
<1> QED
  BY <1>1, <1>2 DEF Next, LeaseRunsOut, Stall, OperatorActs, vars, Steps

\* Log rows and answers are not taken back.
LEMMA CountsGrow ==
    ASSUME DeliveryTypes, [Next]_vars, NEW d \in Deliveries
    PROVE  landed'[d] >= landed[d] /\ logged'[d] >= logged[d]
<1> USE DEF DeliveryTypes, TypeOK
<1>1. ASSUME NEW f \in [Deliveries -> Nat], NEW x, NEW n \in Nat
      PROVE  Add(f, x, n)[d] >= f[d]
  BY AddTypes
<1>2. ASSUME NEW w \in Workers, NEW answer \in Answers, Request(w, answer)
      PROVE  landed'[d] >= landed[d] /\ logged'[d] >= logged[d]
  BY <1>1, <1>2 DEF Request, Answered
<1>3. ASSUME NEW w \in Workers, SettleDelivered(w) \/ HookRecords(w)
      PROVE  landed'[d] >= landed[d] /\ logged'[d] >= logged[d]
  <2>1. pending[w].requests \in Nat
    BY DEF Stashes
  <2>2. landed' = landed /\ logged' = Add(logged, pending[w].of, pending[w].requests)
    BY <1>3 DEF SettleDelivered, HookRecords, Writes, history
  <2> QED
    BY <2>1, <2>2, <1>1
<1>4. CASE UNCHANGED <<landed, logged>>
  BY <1>4
<1>5. ASSUME NEW w \in Workers, Works(w) \/ Crash(w)
      PROVE  \/ SettleDelivered(w) \/ HookRecords(w) \/ \E answer \in Answers : Request(w, answer)
             \/ UNCHANGED <<landed, logged>>
  BY <1>5 DEF Works, Crash, Load, CannotRender, Prepare, Refuse, RecordFails, SettleQuietly,
              LosesTheRow, Fails, Counts, HookHasNothing, HookFails, HookNotes, history
<1> QED
  BY <1>2, <1>3, <1>4, <1>5 DEF Next, Claim, LeaseRunsOut, Stall, OperatorActs, vars, history

-----------------------------------------------------------------------------
(* An acknowledgement comes with its evidence *)

LEMMA LandedStep == DeliveryTypes /\ Landed /\ [Next]_vars => Landed'
<1> SUFFICES ASSUME DeliveryTypes, Landed, [Next]_vars, NEW v \in Workers, pc'[v] = "record"
             PROVE  landed'[job'[v]] > 0 /\ pending'[v].requests > 0
  BY DEF Landed
<1> USE DEF DeliveryTypes, TypeOK
<1>1. CASE Still(v)
  <2>1. job[v] \in Deliveries
    BY <1>1 DEF Busy, Still
  <2>2. landed[job[v]] > 0 /\ pending[v].requests > 0
    BY <1>1 DEF Landed, Still
  <2>3. landed'[job[v]] >= landed[job[v]] /\ landed'[job[v]] \in Nat
    BY <2>1, CountsGrow, DeliveryTypesStep
  <2> QED
    BY <1>1, <2>1, <2>2, <2>3 DEF Still
<1>2. ASSUME NEW answer \in Answers, Request(v, answer)
      PROVE  landed'[job'[v]] > 0 /\ pending'[v].requests > 0
  <2>1. answer = "succeeded"
    BY <1>2 DEF Request, Answered, Goes, Answers
  <2>2. job' = job /\ job[v] \in Deliveries
    BY <1>2 DEF Request, Answered, Busy
  <2>3. landed' = Add(landed, job[v], 1) /\ pending' = [pending EXCEPT ![v].requests = @ + 1]
    BY <1>2, <2>1 DEF Request, Answered
  <2>4. landed'[job[v]] = landed[job[v]] + 1
    BY <2>2, <2>3, AddTypes
  <2>5. pending'[v].requests = pending[v].requests + 1 /\ pending[v].requests \in Nat
    BY <2>3 DEF Stashes
  <2> QED
    BY <2>2, <2>4, <2>5
<1>3. CASE Steps(v) /\ ~\E answer \in Answers : Request(v, answer)
  <2>1. ASSUME NEW step \in Places \ {"record"}, Goes(v, step)
        PROVE  FALSE
    BY <2>1 DEF Goes
  <2>2. ~Rests(v)
    BY <2>1 DEF Rests, Places
  <2>3. ~HookRecords(v)
    BY <2>1, <2>2 DEF HookRecords, Writes, Places
  <2>4. ~(Load(v) \/ CannotRender(v) \/ Prepare(v) \/ Refuse(v, 0) \/ Refuse(v, 1)
          \/ RecordFails(v) \/ Fails(v) \/ \E d \in Deliveries : Claim(v, d))
    BY <2>1 DEF Load, CannotRender, Prepare, Refuse, RecordFails, Fails, Counts, Claim, Places
  <2> QED
    BY <1>3, <2>2, <2>3, <2>4
       DEF Steps, Works, Crash, SettleQuietly, SettleDelivered, LosesTheRow, HookHasNothing,
           HookFails, HookNotes
<1> QED
  BY <1>1, <1>2, <1>3, StillOrSteps

LEMMA EvidenceStep ==
    DeliveryTypes /\ Landed /\ DeliveredIsLogged /\ [Next]_vars => DeliveredIsLogged'
<1> SUFFICES ASSUME DeliveryTypes, Landed, DeliveredIsLogged, [Next]_vars,
                    NEW d \in Deliveries, status'[d] = "succeeded", d \notin dropped'
             PROVE  landed'[d] > 0 /\ logged'[d] > 0
  BY DEF DeliveredIsLogged
<1> USE DEF DeliveryTypes, TypeOK
<1>1. CASE status[d] = "succeeded" /\ d \notin dropped
  <2>1. landed[d] > 0 /\ logged[d] > 0
    BY <1>1 DEF DeliveredIsLogged
  <2>2. landed'[d] \in Nat /\ logged'[d] \in Nat
    BY DeliveryTypesStep
  <2> QED
    BY <2>1, <2>2, CountsGrow
<1>2. ASSUME NEW w \in Workers, SettleDelivered(w), d = job[w]
      PROVE  landed'[d] > 0 /\ logged'[d] > 0
  <2>1. landed[d] > 0 /\ pending[w].requests > 0 /\ pending[w].of = d
    BY <1>2 DEF SettleDelivered, Landed, OwnStash
  <2>2. landed' = landed /\ logged' = Add(logged, d, pending[w].requests)
    BY <1>2, <2>1 DEF SettleDelivered
  <2>3. pending[w].requests \in Nat
    BY DEF Stashes
  <2> QED
    BY <2>1, <2>2, <2>3, AddTypes
<1>3. ASSUME NEW w \in Workers, Works(w) \/ Crash(w)
      PROVE  \/ status[d] = "succeeded" /\ d \notin dropped
             \/ SettleDelivered(w) /\ d = job[w]
  <2>1. CASE SettleDelivered(w)
    BY <2>1 DEF SettleDelivered
  <2>2. CASE SettleQuietly(w)
    BY <2>2 DEF SettleQuietly
  <2>3. CASE Fails(w)
    BY <2>3 DEF Fails, Counts, history
  <2>4. CASE UNCHANGED <<status, dropped>>
    BY <2>4
  <2> QED
    BY <1>3, <2>1, <2>2, <2>3, <2>4
       DEF Works, Crash, Load, CannotRender, Prepare, Refuse, Request, Answered, RecordFails,
           LosesTheRow, HookHasNothing, HookRecords, Writes, HookFails, HookNotes, rows, history
<1> QED
  BY <1>1, <1>2, <1>3 DEF Next, Claim, LeaseRunsOut, Stall, OperatorActs, vars, rows, history

-----------------------------------------------------------------------------
(* The promise *)

LEMMA OffIsSeenStep == DeliveryTypes /\ OffIsSeen /\ [Next]_vars => OffIsSeen'
<1> SUFFICES ASSUME DeliveryTypes, OffIsSeen, [Next]_vars PROVE OffIsSeen'
  OBVIOUS
<1> USE DEF DeliveryTypes, TypeOK
<1>1. wasOff => wasOff'
  <2>1. ASSUME NEW w \in Workers, Works(w) \/ Crash(w)
        PROVE  wasOff => wasOff'
    BY <2>1 DEF Works, Crash, Load, CannotRender, Prepare, Refuse, Request, Answered,
                SettleQuietly, SettleDelivered, RecordFails, LosesTheRow, Fails, Counts,
                HookHasNothing, HookRecords, Writes, HookFails, HookNotes, endpoint
  <2> QED
    BY <2>1 DEF Next, Claim, LeaseRunsOut, Stall, OperatorActs, vars, endpoint
<1>2. (On \/ wasOff)'
  <2>1. CASE OperatorActs
    BY <1>1, <2>1 DEF OperatorActs, On
  <2>2. ASSUME NEW w \in Workers, HookNotes(w)
        PROVE  (On \/ wasOff)'
    BY <1>1, <2>2 DEF HookNotes, On, OffIsSeen, Health!Dies
  <2>3. ASSUME NEW w \in Workers, SettleDelivered(w)
        PROVE  (On \/ wasOff)'
    BY <1>1, <2>3 DEF SettleDelivered, On, OffIsSeen, Health!Recovers
  <2>4. CASE UNCHANGED endpoint
    BY <1>1, <2>4 DEF On, OffIsSeen, endpoint
  <2>5. ASSUME NEW w \in Workers, Works(w) \/ Crash(w)
        PROVE  HookNotes(w) \/ SettleDelivered(w) \/ UNCHANGED endpoint
    BY <2>5 DEF Works, Crash, Load, CannotRender, Prepare, Refuse, Request, Answered, RecordFails,
                SettleQuietly, LosesTheRow, Fails, Counts, HookHasNothing, HookRecords, Writes,
                HookFails
  <2> QED
    BY <2>1, <2>2, <2>3, <2>4, <2>5 DEF Next, Claim, LeaseRunsOut, Stall, vars
<1>3. ASSUME NEW v \in Workers, pc'[v] = "quiet"
      PROVE  wasOff
  <2>1. CASE Load(v)
    BY <1>3, <2>1 DEF Load, Goes, OffIsSeen
  <2>2. CASE Steps(v) /\ ~Load(v)
    <3>1. ASSUME NEW step \in Places \ {"quiet"}, Goes(v, step)
          PROVE  FALSE
      BY <1>3, <3>1 DEF Goes
    <3>2. ~Rests(v)
      BY <3>1 DEF Rests, Places
    <3>3. ~HookRecords(v)
      BY <3>1, <3>2 DEF HookRecords, Writes, Places
    <3>4. ~(CannotRender(v) \/ Prepare(v) \/ Refuse(v, 0) \/ Refuse(v, 1)
            \/ RecordFails(v) \/ Fails(v) \/ \E d \in Deliveries : Claim(v, d))
      BY <3>1 DEF CannotRender, Prepare, Refuse, RecordFails, Fails, Counts, Claim, Places
    <3>5. ~\E answer \in Answers : Request(v, answer)
      <4> SUFFICES ASSUME NEW answer \in Answers, Request(v, answer) PROVE FALSE
        OBVIOUS
      <4>1. \E step \in {"record", "send", "raised"} : Goes(v, step)
        BY DEF Request, Answered
      <4> QED
        BY <4>1, <3>1 DEF Places
    <3> QED
      BY <2>2, <3>2, <3>3, <3>4, <3>5
         DEF Steps, Works, Crash, SettleQuietly, SettleDelivered, LosesTheRow, HookHasNothing,
             HookFails, HookNotes
  <2>3. CASE Still(v)
    BY <1>3, <2>3 DEF OffIsSeen, Still
  <2> QED
    BY <2>1, <2>2, <2>3, StillOrSteps
<1> QED
  BY <1>1, <1>2, <1>3 DEF OffIsSeen

\* Every step of the receiver, the hook and the relay is a step of the promise.
LEMMA PromiseStep ==
    DeliveryTypes /\ Landed /\ OffIsSeen /\ [Next]_vars => [Promise!Next]_(Promise!pvars)
<1> SUFFICES ASSUME DeliveryTypes, Landed, OffIsSeen, [Next]_vars
             PROVE  [Promise!Next]_(Promise!pvars)
  OBVIOUS
<1> USE DEF DeliveryTypes, TypeOK
<1>1. ASSUME NEW w \in Workers, SettleQuietly(w)
      PROVE  Promise!Next
  <2>1. job[w] \in Deliveries /\ status[job[w]] = "owed" /\ wasOff
    BY <1>1 DEF SettleQuietly, Busy, RowsAgree, OffIsSeen
  <2>2. /\ status' = [status EXCEPT ![job[w]] = "succeeded"]
        /\ dropped' = dropped \cup {job[w]}
        /\ landed' = landed /\ wasOff' = wasOff
    BY <1>1 DEF SettleQuietly, endpoint
  <2>3. Fate' = [Fate EXCEPT ![job[w]] = "dropped"]
    BY <2>1, <2>2 DEF Fate
  <2>4. Answered2xx' = Answered2xx /\ Fate[job[w]] = "owed"
    BY <2>1, <2>2 DEF Answered2xx, Fate
  <2>5. Promise!Settles(job[w])
    BY <2>1, <2>2, <2>3, <2>4 DEF Promise!Settles
  <2> QED
    BY <2>1, <2>5 DEF Promise!Next, Promise!Settles
<1>2. ASSUME NEW w \in Workers, SettleDelivered(w)
      PROVE  Promise!Next
  <2>1. job[w] \in Deliveries /\ status[job[w]] = "owed" /\ landed[job[w]] > 0
    BY <1>2 DEF SettleDelivered, Busy, RowsAgree, Landed
  <2>2. /\ status' = [status EXCEPT ![job[w]] = "succeeded"]
        /\ dropped' = dropped /\ job[w] \notin dropped
        /\ landed' = landed /\ wasOff' = wasOff
    BY <1>2, <2>1 DEF SettleDelivered, RowsAgree
  <2>3. Fate' = [Fate EXCEPT ![job[w]] = "delivered"]
    BY <2>1, <2>2 DEF Fate
  <2>4. Answered2xx' = Answered2xx /\ Fate[job[w]] = "owed" /\ job[w] \in Answered2xx
    BY <2>1, <2>2 DEF Answered2xx, Fate
  <2>5. Promise!Settles(job[w])
    BY <2>1, <2>2, <2>3, <2>4 DEF Promise!Settles
  <2> QED
    BY <2>1, <2>5 DEF Promise!Next, Promise!Settles
<1>3. ASSUME NEW w \in Workers, Fails(w)
      PROVE  [Promise!Next]_(Promise!pvars)
  <2>1. job[w] \in Deliveries /\ status[job[w]] = "owed"
    BY <1>3 DEF Fails, Counts, Busy, RowsAgree
  <2>2. /\ \E s \in {"owed", "dead"} : status' = [status EXCEPT ![job[w]] = s]
        /\ UNCHANGED <<dropped, landed, wasOff>>
    BY <1>3 DEF Fails, Counts, endpoint, history
  <2>3. Fate' = Fate \/ Fate' = [Fate EXCEPT ![job[w]] = "dead"]
    <3>1. CASE status' = [status EXCEPT ![job[w]] = "owed"]
      BY <2>1, <2>2, <3>1 DEF Fate
    <3>2. CASE status' = [status EXCEPT ![job[w]] = "dead"]
      BY <2>1, <2>2, <3>2 DEF Fate
    <3> QED
      BY <2>2, <3>1, <3>2
  <2>4. Answered2xx' = Answered2xx /\ Fate[job[w]] = "owed"
    BY <2>1, <2>2 DEF Answered2xx, Fate
  <2>5. Promise!Settles(job[w]) \/ UNCHANGED Promise!pvars
    BY <2>2, <2>3, <2>4 DEF Promise!Settles, Promise!pvars
  <2> QED
    BY <2>1, <2>5 DEF Promise!Next, Promise!Settles
<1>4. ASSUME NEW w \in Workers, NEW answer \in Answers, Request(w, answer)
      PROVE  [Promise!Next]_(Promise!pvars)
  <2>1. job[w] \in Deliveries /\ UNCHANGED <<status, dropped, wasOff>>
    BY <1>4 DEF Request, Answered, Busy, rows, endpoint
  <2>2. \E n \in {0, 1} : landed' = Add(landed, job[w], n)
    BY <1>4 DEF Request, Answered
  <2>3. Answered2xx' = Answered2xx \/ Answered2xx' = Answered2xx \cup {job[w]}
    <3>1. PICK n \in {0, 1} : landed' = Add(landed, job[w], n)
      BY <2>2
    <3>2. \A d \in Deliveries : landed'[d] = IF d = job[w] THEN landed[d] + n ELSE landed[d]
      BY <3>1, AddTypes
    <3>3. CASE n = 0
      BY <3>2, <3>3 DEF Answered2xx
    <3>4. CASE n = 1
      BY <2>1, <3>2, <3>4 DEF Answered2xx
    <3> QED
      BY <3>3, <3>4
  <2>5. Fate' = Fate
    BY <2>1 DEF Fate
  <2>4. Promise!Answers(job[w]) \/ UNCHANGED Promise!pvars
    BY <2>1, <2>3, <2>5 DEF Promise!Answers, Promise!pvars
  <2> QED
    BY <2>1, <2>4 DEF Promise!Next, Promise!Answers
<1>5. ASSUME UNCHANGED <<status, dropped, landed>>
      PROVE  [Promise!Next]_(Promise!pvars)
  <2>1. wasOff' \in BOOLEAN /\ (wasOff => wasOff')
    <3>1. ASSUME NEW w \in Workers, Works(w) \/ Crash(w)
          PROVE  wasOff => wasOff'
      BY <3>1 DEF Works, Crash, Load, CannotRender, Prepare, Refuse, Request, Answered,
                  SettleQuietly, SettleDelivered, RecordFails, LosesTheRow, Fails, Counts,
                  HookHasNothing, HookRecords, Writes, HookFails, HookNotes, endpoint
    <3> QED
      BY <3>1, DeliveryTypesStep DEF Next, Claim, LeaseRunsOut, Stall, OperatorActs, vars, endpoint
  <2>2. wasOff' = TRUE \/ wasOff' = wasOff
    BY <2>1
  <2> QED
    BY <1>5, <2>2 DEF Promise!Next, Promise!GoesOff, Promise!pvars, Fate, Answered2xx
<1>6. ASSUME NEW w \in Workers, Works(w) \/ Crash(w)
      PROVE  \/ SettleQuietly(w) \/ SettleDelivered(w) \/ Fails(w)
             \/ \E answer \in Answers : Request(w, answer)
             \/ UNCHANGED <<status, dropped, landed>>
  BY <1>6 DEF Works, Crash, Load, CannotRender, Prepare, Refuse, RecordFails, LosesTheRow,
              HookHasNothing, HookRecords, Writes, HookFails, HookNotes, rows, history
<1> QED
  BY <1>1, <1>2, <1>3, <1>4, <1>5, <1>6
     DEF Next, Claim, LeaseRunsOut, Stall, OperatorActs, vars, rows, history

-----------------------------------------------------------------------------
(* What counts against the endpoint *)

\* The receiver raises before it has set its stash, and the one of an earlier
\* delivery is still there for the hook.
RaisesOverALeftover == \E w \in Workers : CannotRender(w) /\ pending[w] # NoPending

\* What rules that out: no format is missing, or no lease runs out under a live
\* worker, which would leave it a stash.
NoLeftovers == Unrenderable = {} \/ MaxStalls = 0

\* Without stalls a worker keeps the row it works on.
OwnRow ==
    MaxStalls = 0 =>
        \A w \in Workers :
            pc[w] \in Places \ {"idle", "hook", "note"} => holder[job[w]] = w

\* Then it starts each delivery without a stash.
NoStashYet ==
    MaxStalls = 0 =>
        \A w \in Workers :
            pc[w] \in {"idle", "load", "prepare", "quiet"} => pending[w] = NoPending

\* The hook finds the stash of its own delivery or none, and none only where
\* the endpoint or the format was not there.
HookStash ==
    \A w \in Workers :
        /\ pc[w] \in {"raised", "hook"} =>
              pending[w] = NoPending \/ pending[w].of = job[w]
        /\ pc[w] = "note" => pending[w].of = job[w] /\ ending[w] = "dead"
        /\ pc[w] = "raised" /\ present /\ job[w] \notin Unrenderable => pending[w].of = job[w]

\* The worker whose hook was told of a death.
Doomed(w) == pc[w] \in {"hook", "note"} /\ ending[w] = "dead"

\* It is the only one told of this death, which has not been counted yet.
OneHook ==
    \A w \in Workers : Doomed(w) =>
        /\ status[job[w]] = "dead" /\ noted[job[w]] = 0
        /\ \A v \in Workers \ {w} : Doomed(v) => job[v] # job[w]

\* A death is counted or about to be.
Counted ==
    \A d \in Deliveries \ Unrenderable :
        status[d] = "dead" /\ crashes = 0 /\ present =>
            \/ noted[d] = 1
            \/ \E w \in Workers : Doomed(w) /\ job[w] = d /\ pending[w].of = d

LEMMA OwnRowStep == DeliveryTypes /\ OwnRow /\ [Next]_vars => OwnRow'
<1> DEFINE Active == Places \ {"idle", "hook", "note"}
<1> SUFFICES ASSUME DeliveryTypes, OwnRow, [Next]_vars, MaxStalls = 0, NEW v \in Workers,
                    pc'[v] \in Active
             PROVE  holder'[job'[v]] = v
  BY DEF OwnRow
<1> USE DEF DeliveryTypes, TypeOK
<1>1. ASSUME Still(v)
      PROVE  holder[job[v]] = v /\ job'[v] = job[v] /\ job[v] \in Deliveries
  BY <1>1 DEF Still, OwnRow, Busy
<1>2. ASSUME NEW w \in Workers, Works(w)
      PROVE  \/ holder' = holder
             \/ /\ job[w] \in Deliveries /\ holder[job[w]] = w
                /\ holder' = [holder EXCEPT ![job[w]] = Nobody]
                /\ pc'[w] \in {"idle", "hook"}
  <2>1. CASE SettleQuietly(w) \/ SettleDelivered(w)
    BY <2>1 DEF SettleQuietly, SettleDelivered, Rests, Goes, Busy
  <2>2. CASE Fails(w)
    BY <2>2 DEF Fails, Counts, Goes, Busy
  <2> QED
    BY <1>2, <2>1, <2>2
       DEF Works, Load, CannotRender, Prepare, Refuse, Request, Answered, RecordFails,
           LosesTheRow, HookHasNothing, HookRecords, Writes, HookFails, HookNotes, rows
<1>3. CASE Works(v)
  <2>1. ~Rests(v)
    BY DEF Rests, Goes
  <2>2. pc[v] \in Active /\ job' = job
    <3>1. CASE HookRecords(v)
      BY <2>1, <3>1 DEF HookRecords, Writes, Goes
    <3>2. CASE \/ Load(v) \/ CannotRender(v) \/ Prepare(v) \/ Refuse(v, 0) \/ Refuse(v, 1)
               \/ RecordFails(v)
      BY <3>2 DEF Load, CannotRender, Prepare, Refuse, RecordFails, Places
    <3>3. CASE \E answer \in Answers : Request(v, answer)
      BY <3>3 DEF Request, Answered, Places
    <3>4. CASE Fails(v)
      BY <3>4 DEF Fails, Counts, Goes
    <3> QED
      BY <1>3, <2>1, <3>1, <3>2, <3>3, <3>4
         DEF Works, SettleQuietly, SettleDelivered, LosesTheRow, HookHasNothing, HookFails,
             HookNotes
  <2>3. holder' = holder
    BY <1>2, <1>3
  <2> QED
    BY <2>2, <2>3 DEF OwnRow
<1>4. ASSUME NEW w \in Workers \ {v}, Works(w)
      PROVE  holder'[job'[v]] = v
  <2>1. Still(v)
    BY <1>4, OthersStay DEF Steps
  <2> QED
    BY <1>1, <1>2, <1>4, <2>1
<1>5. ASSUME NEW w \in Workers, NEW d \in Deliveries, Claim(w, d)
      PROVE  holder'[job'[v]] = v
  <2>1. CASE w = v
    BY <1>5, <2>1 DEF Claim
  <2>2. CASE w # v
    <3>1. Still(v)
      BY <1>5, <2>2, OthersStay DEF Steps
    <3> QED
      BY <1>1, <1>5, <3>1 DEF Claim
  <2> QED
    BY <2>1, <2>2
<1>6. ASSUME NEW w \in Workers, Crash(w)
      PROVE  holder'[job'[v]] = v
  <2>1. w # v
    BY <1>6 DEF Crash, Rests, Goes
  <2>2. Still(v)
    BY <1>6, <2>1, OthersStay DEF Steps
  <2> QED
    BY <1>1, <1>6, <2>2 DEF Crash, rows
<1>7. ASSUME NEW d \in Deliveries, LeaseRunsOut(d)
      PROVE  holder'[job'[v]] = v
  <2>1. Still(v)
    BY <1>7 DEF LeaseRunsOut, workers, Still
  <2> QED
    BY <1>1, <1>7, <2>1 DEF LeaseRunsOut
<1>8. ~\E d \in Deliveries : Stall(d)
  BY DEF Stall
<1>9. CASE UNCHANGED <<rows, workers>>
  <2>1. Still(v)
    BY <1>9 DEF workers, Still
  <2> QED
    BY <1>1, <1>9, <2>1 DEF rows
<1> QED
  BY <1>3, <1>4, <1>5, <1>6, <1>7, <1>8, <1>9 DEF Next, OperatorActs, vars

\* A deleted endpoint does not come back.
LEMMA StaysGone == DeliveryTypes /\ [Next]_vars => (present' => present)
<1> SUFFICES ASSUME [Next]_vars PROVE present' => present
  OBVIOUS
<1>1. ASSUME NEW w \in Workers, Works(w) \/ Crash(w)
      PROVE  present' = present
  BY <1>1 DEF Works, Crash, Load, CannotRender, Prepare, Refuse, Request, Answered,
              SettleQuietly, SettleDelivered, RecordFails, LosesTheRow, Fails, Counts,
              HookHasNothing, HookRecords, Writes, HookFails, HookNotes, endpoint,
              Health!Recovers, Health!Dies
<1>2. CASE OperatorActs
  BY <1>2 DEF OperatorActs, Health!PutBack, Health!TurnedOff, Health!Removed
<1> QED
  BY <1>1, <1>2 DEF Next, Claim, LeaseRunsOut, Stall, vars, endpoint

LEMMA NoStashYetStep ==
    DeliveryTypes /\ OwnRow /\ NoStashYet /\ [Next]_vars => NoStashYet'
<1> DEFINE Early == {"idle", "load", "prepare", "quiet"}
<1> SUFFICES ASSUME DeliveryTypes, OwnRow, NoStashYet, [Next]_vars, MaxStalls = 0,
                    NEW v \in Workers, pc'[v] \in Early
             PROVE  pending'[v] = NoPending
  BY DEF NoStashYet
<1> USE DEF DeliveryTypes, TypeOK
<1>1. pc[v] \in Early => pending[v] = NoPending
  BY DEF NoStashYet
<1>2. CASE Still(v)
  BY <1>1, <1>2 DEF Still
<1>3. CASE \/ Load(v) \/ SettleQuietly(v) \/ HookHasNothing(v)
           \/ \E d \in Deliveries : Claim(v, d)
  BY <1>1, <1>3 DEF Load, SettleQuietly, HookHasNothing, Claim
<1>4. ASSUME NEW step \in Places \ Early, Goes(v, step) PROVE FALSE
  BY <1>4 DEF Goes
<1>5. ~(CannotRender(v) \/ Prepare(v) \/ Refuse(v, 0) \/ Refuse(v, 1) \/ RecordFails(v)
        \/ Fails(v))
  BY <1>4 DEF CannotRender, Prepare, Refuse, RecordFails, Fails, Counts, Places
<1>6. ASSUME NEW answer \in Answers, Request(v, answer) PROVE FALSE
  <2>1. \E step \in {"record", "send", "raised"} : Goes(v, step)
    BY <1>6 DEF Request, Answered
  <2> QED BY <2>1, <1>4 DEF Places
<1>7. ~LosesTheRow(v)
  BY DEF LosesTheRow, OwnRow, Places
<1>8. CASE HookRecords(v)
  BY <1>4, <1>8 DEF HookRecords, Writes, Clears, Places
<1>9. CASE SettleDelivered(v) \/ HookFails(v) \/ HookNotes(v) \/ Crash(v)
  BY <1>9 DEF SettleDelivered, HookFails, HookNotes, Crash, Clears
<1> QED
  BY <1>2, <1>3, <1>5, <1>6, <1>7, <1>8, <1>9, StillOrSteps DEF Steps, Works

LEMMA HookStashStep ==
    /\ DeliveryTypes /\ HookStash /\ [Next]_vars /\ [~RaisesOverALeftover]_vars
    => HookStash'
<1> DEFINE Fits(v) ==
        /\ pc[v] \in {"raised", "hook"} =>
              pending[v] = NoPending \/ pending[v].of = job[v]
        /\ pc[v] = "note" => pending[v].of = job[v] /\ ending[v] = "dead"
        /\ pc[v] = "raised" /\ present /\ job[v] \notin Unrenderable => pending[v].of = job[v]
<1> SUFFICES ASSUME DeliveryTypes, HookStash, [Next]_vars, [~RaisesOverALeftover]_vars,
                    NEW v \in Workers
             PROVE  Fits(v)'
  BY DEF HookStash
<1>1. Fits(v) /\ (present' => present)
  BY StaysGone DEF HookStash
<1> USE DEF DeliveryTypes, TypeOK
<1>2. CASE Still(v)
  BY <1>1, <1>2 DEF Still
<1>3. CASE \E d \in Deliveries : Claim(v, d)
  BY <1>1, <1>3 DEF Claim, Goes
<1>4. CASE Load(v)
  BY <1>1, <1>4 DEF Load, Goes
<1>5. CASE CannotRender(v)
  <2>1. CASE UNCHANGED vars
    BY <1>1, <2>1 DEF vars, workers, endpoint
  <2>2. CASE pending[v] = NoPending
    BY <1>5, <2>2 DEF CannotRender, Goes
  <2> QED
    BY <1>5, <2>1, <2>2 DEF RaisesOverALeftover
<1>6. CASE Prepare(v)
  BY <1>6 DEF Prepare, Goes
<1>7. CASE Refuse(v, 0) \/ Refuse(v, 1)
  BY <1>7 DEF Refuse, Goes, OwnStash
<1>8. CASE \E answer \in Answers : Request(v, answer)
  <2>1. /\ pc[v] = "send" /\ job' = job
        /\ pending' = [pending EXCEPT ![v].requests = @ + 1]
        /\ pc'[v] \in {"record", "send", "raised"}
    BY <1>8 DEF Request, Answered, Goes
  <2>2. pending'[v].of = pending[v].of
    BY <2>1 DEF Stashes
  <2> QED
    BY <2>1, <2>2 DEF OwnStash
<1>9. CASE RecordFails(v)
  BY <1>9 DEF RecordFails, Goes, Clears, endpoint
<1>10. CASE Fails(v)
  BY <1>1, <1>10 DEF Fails, Counts, Goes
<1>11. ASSUME Rests(v)
       PROVE  Fits(v)'
  BY <1>11 DEF Rests, Goes
<1>12. CASE HookRecords(v)
  <2>1. CASE ending[v] = "dead"
    BY <1>1, <1>12, <2>1 DEF HookRecords, Writes, Goes
  <2>2. CASE ending[v] # "dead"
    BY <1>11, <1>12, <2>2 DEF HookRecords, Writes, Clears
  <2> QED
    BY <2>1, <2>2
<1>13. CASE SettleDelivered(v) \/ HookFails(v) \/ HookNotes(v) \/ Crash(v)
  BY <1>11, <1>13 DEF SettleDelivered, HookFails, HookNotes, Crash, Clears
<1>14. CASE SettleQuietly(v) \/ HookHasNothing(v)
  BY <1>1, <1>11, <1>14 DEF SettleQuietly, HookHasNothing
<1>15. CASE LosesTheRow(v)
  BY <1>11, <1>15 DEF LosesTheRow
<1> QED
  BY <1>2, <1>3, <1>4, <1>5, <1>6, <1>7, <1>8, <1>9, <1>10, <1>12, <1>13, <1>14, <1>15,
     StillOrSteps DEF Steps, Works

\* A hook learns of a death when the attempt is counted, and keeps to it.
LEMMA DoomSource ==
    ASSUME DeliveryTypes, [Next]_vars, NEW v \in Workers, Doomed(v)'
    PROVE  /\ job'[v] = job[v] /\ pending'[v] = pending[v] /\ job[v] \in Deliveries
           /\ \/ Doomed(v)
              \/ Fails(v) /\ status[job[v]] = "owed" /\ status'[job[v]] = "dead"
<1> USE DEF DeliveryTypes, TypeOK
<1>1. CASE Still(v)
  BY <1>1 DEF Still, Doomed, Busy
<1>2. CASE Fails(v)
  BY <1>2 DEF Fails, Counts, Doomed, Busy, RowsAgree
<1>3. ~Rests(v)
  BY DEF Rests, Goes, Doomed
<1>4. CASE HookRecords(v)
  BY <1>3, <1>4 DEF HookRecords, Writes, Doomed, Busy
<1>5. ASSUME NEW step \in Places \ {"hook", "note"}, Goes(v, step)
      PROVE  FALSE
  BY <1>5 DEF Goes, Doomed
<1>6. CASE \E answer \in Answers : Request(v, answer)
  <2>1. \E step \in {"record", "send", "raised"} : Goes(v, step)
    BY <1>6 DEF Request, Answered
  <2> QED
    BY <2>1, <1>5 DEF Places
<1>7. ~(Load(v) \/ CannotRender(v) \/ Prepare(v) \/ Refuse(v, 0) \/ Refuse(v, 1)
        \/ RecordFails(v) \/ \E d \in Deliveries : Claim(v, d))
  BY <1>5 DEF Load, CannotRender, Prepare, Refuse, RecordFails, Claim, Places
<1> QED
  BY <1>1, <1>2, <1>3, <1>4, <1>6, <1>7, StillOrSteps
     DEF Steps, Works, Crash, SettleQuietly, SettleDelivered, LosesTheRow, HookHasNothing,
         HookFails, HookNotes

\* A dead delivery stays dead, and only the hook counts.
LEMMA DeadStaysDead ==
    ASSUME DeliveryTypes, [Next]_vars
    PROVE  /\ \A d \in Deliveries : status[d] = "dead" => status'[d] = "dead"
           /\ noted' = noted \/ \E w \in Workers : HookNotes(w)
<1> USE DEF DeliveryTypes, TypeOK
<1>1. ASSUME NEW w \in Workers, Works(w) \/ Crash(w)
      PROVE  /\ \A d \in Deliveries : status[d] = "dead" => status'[d] = "dead"
             /\ noted' = noted \/ HookNotes(w)
  <2>1. CASE SettleQuietly(w) \/ SettleDelivered(w)
    BY <2>1 DEF SettleQuietly, SettleDelivered, RowsAgree, Busy
  <2>2. CASE Fails(w)
    BY <2>2 DEF Fails, Counts, RowsAgree, Busy, history
  <2>3. CASE HookNotes(w)
    BY <2>3 DEF HookNotes, rows
  <2> QED
    BY <1>1, <2>1, <2>2, <2>3
       DEF Works, Crash, Load, CannotRender, Prepare, Refuse, Request, Answered, RecordFails,
           LosesTheRow, HookHasNothing, HookRecords, Writes, HookFails, rows, history
<1> QED
  BY <1>1 DEF Next, Claim, LeaseRunsOut, Stall, OperatorActs, vars, rows, history

\* The one count that changes is that of a death told to this hook alone.
LEMMA HookCounts ==
    ASSUME DeliveryTypes, HookStash, OneHook, NEW w \in Workers, HookNotes(w)
    PROVE  /\ Doomed(w) /\ ~Doomed(w)' /\ job[w] \in Deliveries
           /\ noted[job[w]] = 0 /\ status[job[w]] = "dead"
           /\ \A d \in Deliveries : noted'[d] = IF d = job[w] THEN 1 ELSE noted[d]
<1> USE DEF DeliveryTypes, TypeOK
<1>1. Doomed(w) /\ pending[w].of = job[w] /\ job[w] \in Deliveries
  BY DEF HookNotes, HookStash, Doomed, Busy
<1>2. noted[job[w]] = 0 /\ status[job[w]] = "dead"
  BY <1>1 DEF OneHook
<1>3. noted' = Add(noted, job[w], 1)
  BY <1>1 DEF HookNotes
<1>4. ~Doomed(w)'
  BY DEF HookNotes, Rests, Goes, Doomed
<1> QED
  BY <1>1, <1>2, <1>3, <1>4, AddTypes

LEMMA NotedStep ==
    /\ DeliveryTypes /\ HookStash /\ OneHook /\ OnlyDeathsAreNoted /\ [Next]_vars
    => OneHook' /\ OnlyDeathsAreNoted'
<1> SUFFICES ASSUME DeliveryTypes, HookStash, OneHook, OnlyDeathsAreNoted, [Next]_vars
             PROVE  OneHook' /\ OnlyDeathsAreNoted'
  OBVIOUS
<1> USE DEF DeliveryTypes, TypeOK
<1>1. OnlyDeathsAreNoted'
  <2> SUFFICES ASSUME NEW d \in Deliveries
               PROVE  noted'[d] <= IF status'[d] = "dead" THEN 1 ELSE 0
    BY DEF OnlyDeathsAreNoted
  <2>1. /\ noted[d] <= IF status[d] = "dead" THEN 1 ELSE 0
        /\ noted[d] \in Nat
        /\ status[d] = "dead" => status'[d] = "dead"
    BY DeadStaysDead DEF OnlyDeathsAreNoted
  <2>2. CASE noted' = noted
    BY <2>1, <2>2
  <2>3. ASSUME NEW w \in Workers, HookNotes(w)
        PROVE  noted'[d] <= IF status'[d] = "dead" THEN 1 ELSE 0
    BY <2>1, <2>3, HookCounts
  <2> QED
    BY <2>2, <2>3, DeadStaysDead
<1>2. ASSUME NEW w \in Workers, Doomed(w)'
      PROVE  status'[job[w]] = "dead" /\ noted'[job[w]] = 0
  <2>1. job[w] \in Deliveries
    BY <1>2, DoomSource
  <2>2. CASE Doomed(w)
    <3>1. status[job[w]] = "dead" /\ noted[job[w]] = 0
      BY <2>2 DEF OneHook
    <3>2. ASSUME NEW u \in Workers, HookNotes(u)
          PROVE  noted'[job[w]] = 0
      <4>1. u # w /\ Doomed(u)
        BY <1>2, <3>2, HookCounts
      <4>2. job[u] # job[w]
        BY <2>2, <4>1 DEF OneHook
      <4> QED
        BY <2>1, <3>1, <3>2, <4>2, HookCounts
    <3> QED
      BY <2>1, <3>1, <3>2, DeadStaysDead
  <2>3. CASE Fails(w) /\ status[job[w]] = "owed" /\ status'[job[w]] = "dead"
    <3>1. noted[job[w]] = 0
      BY <2>1, <2>3 DEF OnlyDeathsAreNoted
    <3>2. noted' = noted
      BY <2>3 DEF Fails, Counts, history
    <3> QED
      BY <2>3, <3>1, <3>2
  <2> QED
    BY <1>2, <2>2, <2>3, DoomSource
<1>3. ASSUME NEW w \in Workers, Doomed(w)', NEW v \in Workers \ {w}, Doomed(v)'
      PROVE  job[v] # job[w]
  <2>1. CASE Doomed(w) /\ Doomed(v)
    BY <2>1 DEF OneHook
  <2>2. CASE Doomed(w) /\ status[job[v]] = "owed"
    BY <2>2 DEF OneHook
  <2>3. CASE Doomed(v) /\ status[job[w]] = "owed"
    BY <2>3 DEF OneHook
  <2>4. CASE Fails(w) /\ Fails(v)
    <3>1. Still(v)
      BY <2>4, OthersStay DEF Steps, Works
    <3> QED
      BY <2>4, <3>1 DEF Fails, Counts, Goes, Still
  <2> QED
    BY <1>3, <2>1, <2>2, <2>3, <2>4, DoomSource
<1>4. OneHook'
  <2> SUFFICES ASSUME NEW w \in Workers, Doomed(w)'
               PROVE  /\ status'[job'[w]] = "dead" /\ noted'[job'[w]] = 0
                      /\ \A v \in Workers \ {w} : Doomed(v)' => job'[v] # job'[w]
    BY DEF OneHook
  <2> QED
    BY <1>2, <1>3, DoomSource
<1> QED
  BY <1>1, <1>4

LEMMA CountedStep ==
    DeliveryTypes /\ HookStash /\ OneHook /\ Counted /\ [Next]_vars => Counted'
<1> SUFFICES ASSUME DeliveryTypes, HookStash, OneHook, Counted, [Next]_vars,
                    NEW d \in Deliveries \ Unrenderable,
                    status'[d] = "dead", crashes' = 0, present'
             PROVE  \/ noted'[d] = 1
                    \/ \E w \in Workers : Doomed(w)' /\ job'[w] = d /\ pending'[w].of = d
  BY DEF Counted
<1> USE DEF DeliveryTypes, TypeOK
<1>1. crashes = 0 /\ present /\ ~\E w \in Workers : Crash(w)
  <2>1. ~\E w \in Workers : Crash(w)
    BY DEF Crash
  <2>2. crashes' = crashes
    <3>1. ASSUME NEW w \in Workers, Works(w)
          PROVE  UNCHANGED bounds
      BY <3>1 DEF Works, Load, CannotRender, Prepare, Refuse, Request, Answered, SettleQuietly,
                  SettleDelivered, RecordFails, LosesTheRow, Fails, Counts, HookHasNothing,
                  HookRecords, Writes, HookFails, HookNotes
    <3> QED
      BY <2>1, <3>1 DEF Next, Claim, LeaseRunsOut, Stall, OperatorActs, vars, bounds
  <2> QED
    BY <2>1, <2>2, StaysGone
<1>2. CASE status[d] = "dead" /\ noted[d] = 1
  BY <1>2, HookCounts, DeadStaysDead
<1>3. ASSUME NEW w \in Workers, Doomed(w), job[w] = d, pending[w].of = d
      PROVE  \/ noted'[d] = 1
             \/ Doomed(w)' /\ job'[w] = d /\ pending'[w].of = d
  <2>1. CASE Still(w)
    BY <1>3, <2>1 DEF Still, Doomed
  <2>2. CASE HookHasNothing(w)
    BY <1>3, <2>2 DEF HookHasNothing, NoPending
  <2>3. CASE HookRecords(w)
    BY <1>3, <2>3 DEF HookRecords, Writes, Goes, Doomed
  <2>4. CASE HookNotes(w)
    BY <1>3, <2>4, HookCounts
  <2>5. ~HookFails(w)
    BY <1>1 DEF HookFails
  <2> QED
    BY <1>1, <1>3, <2>1, <2>2, <2>3, <2>4, <2>5, StillOrSteps
       DEF Steps, Works, Doomed, Claim, Load, CannotRender, Prepare, Refuse, Request, Answered,
           SettleQuietly, SettleDelivered, RecordFails, LosesTheRow, Fails, Counts
<1>4. ASSUME NEW w \in Workers, Fails(w), job[w] = d
      PROVE  Doomed(w)' /\ job'[w] = d /\ pending'[w].of = d
  <2>1. pending[w].of = d
    BY <1>1, <1>4 DEF Fails, Counts, HookStash
  <2>2. tries'[d] >= Budget
    BY <1>4 DEF Fails, Counts
  <2> QED
    BY <1>4, <2>1, <2>2 DEF Fails, Counts, Goes, Doomed
<1>5. CASE status[d] # "dead"
  <2>1. ASSUME NEW w \in Workers, Works(w)
        PROVE  Fails(w) /\ job[w] = d
    <3>1. CASE SettleQuietly(w) \/ SettleDelivered(w)
      BY <1>5, <3>1 DEF SettleQuietly, SettleDelivered
    <3>2. CASE Fails(w)
      BY <1>5, <3>2 DEF Fails, Counts
    <3> QED
      BY <1>5, <2>1, <3>1, <3>2
         DEF Works, Load, CannotRender, Prepare, Refuse, Request, Answered, RecordFails,
             LosesTheRow, HookHasNothing, HookRecords, Writes, HookFails, HookNotes, rows
  <2>2. \E w \in Workers : Works(w)
    BY <1>1, <1>5 DEF Next, Claim, LeaseRunsOut, Stall, OperatorActs, vars, rows
  <2> QED
    BY <1>4, <2>1, <2>2
<1> QED
  BY <1>1, <1>2, <1>3, <1>5 DEF Counted

LEMMA CountedMeans == DeliveryTypes /\ Counted => DeathsAreCounted
BY DEF DeliveryTypes, Counted, DeathsAreCounted

NotedInv == HookStash /\ OneHook /\ OnlyDeathsAreNoted /\ Counted

LEMMA NotedInvariant ==
    Spec /\ [][~RaisesOverALeftover]_vars => [](DeliveryTypes /\ NotedInv)
<1>1. Init => NotedInv
  <2> SUFFICES ASSUME Init PROVE NotedInv
    OBVIOUS
  <2>1. HookStash /\ OneHook
    BY DEF Init, HookStash, OneHook, Doomed
  <2>2. OnlyDeathsAreNoted /\ Counted
    BY DEF Init, OnlyDeathsAreNoted, Counted
  <2> QED
    BY <2>1, <2>2 DEF NotedInv
<1>2. DeliveryTypes /\ NotedInv /\ [Next]_vars /\ [~RaisesOverALeftover]_vars => NotedInv'
  BY HookStashStep, NotedStep, CountedStep DEF NotedInv
<1> QED
  BY <1>1, <1>2, DeliveryTyped, PTL DEF Spec

-----------------------------------------------------------------------------
(* Every request is in one place *)

\* What the stash of w has for d.
Left(w, d) == IF pending[w].of = d THEN Unwritten(w) ELSE 0

\* The requests of workers that have so many each, and those of all but w.
Held(have) == {r \in Workers \X (1 .. MaxRequests) : r[2] <= have[r[1]]}
HeldByOthers(have, w) == {r \in Held(have) : r[1] # w}

LEMMA PartSize ==
    ASSUME NEW w, NEW n \in Nat
    PROVE  IsFiniteSet({w} \X (1 .. n)) /\ Cardinality({w} \X (1 .. n)) = n
<1> DEFINE f == [i \in 1 .. n |-> <<w, i>>]
<1>1. f \in Bijection(1 .. n, {w} \X (1 .. n))
  <2>1. f \in [1 .. n -> {w} \X (1 .. n)]
    OBVIOUS
  <2>2. \A i, j \in 1 .. n : f[i] = f[j] => i = j
    OBVIOUS
  <2>3. \A r \in {w} \X (1 .. n) : \E i \in 1 .. n : f[i] = r
    <3> SUFFICES ASSUME NEW r \in {w} \X (1 .. n) PROVE f[r[2]] = r /\ r[2] \in 1 .. n
      OBVIOUS
    <3> QED
      OBVIOUS
  <2> QED
    BY <2>1, <2>2, <2>3 DEF Bijection, Injection, Surjection, IsInjective
<1>2. IsFiniteSet(1 .. n) /\ Cardinality(1 .. n) = n
  BY FS_Interval
<1> QED
  BY <1>1, <1>2, FS_Bijection DEF ExistsBijection

LEMMA HeldSplit ==
    ASSUME NEW have \in [Workers -> 0 .. MaxRequests], NEW w \in Workers
    PROVE  /\ Cardinality(HeldByOthers(have, w)) \in Nat
           /\ Cardinality(Held(have)) = Cardinality(HeldByOthers(have, w)) + have[w]
<1> DEFINE part == {w} \X (1 .. have[w])
<1>1. IsFiniteSet(part) /\ Cardinality(part) = have[w]
  <2>1. have[w] \in Nat
    OBVIOUS
  <2> QED
    BY <2>1, PartSize, Zenon
<1>2. IsFiniteSet(Workers \X (1 .. MaxRequests))
  <2>1. IsFiniteSet(1 .. MaxRequests)
    BY FS_Interval
  <2> QED
    BY <2>1, FS_Product
<1>3. HeldByOthers(have, w) \subseteq Workers \X (1 .. MaxRequests)
  BY DEF HeldByOthers, Held
<1>4. IsFiniteSet(HeldByOthers(have, w)) /\ Cardinality(HeldByOthers(have, w)) \in Nat
  BY <1>2, <1>3, FS_Subset, FS_CardinalityType
<1>5. Held(have) = HeldByOthers(have, w) \cup part
  <2>1. ASSUME NEW r \in Held(have), r[1] = w
        PROVE  r \in part
    BY <2>1 DEF Held
  <2>2. ASSUME NEW r \in part
        PROVE  r \in Held(have)
    BY <2>2 DEF Held
  <2> QED
    BY <2>1, <2>2 DEF HeldByOthers
<1>6. HeldByOthers(have, w) \cap part = {}
  BY DEF HeldByOthers
<1>7. Cardinality(Held(have)) = Cardinality(HeldByOthers(have, w)) + Cardinality(part)
                                  - Cardinality({})
  BY <1>1, <1>4, <1>5, <1>6, FS_Union
<1> QED
  BY <1>1, <1>4, <1>7, FS_EmptySet

\* What a step of w adds to the requests made it adds to its stash, to the log or
\* to what is lost, and it takes as much from its stash as it writes or loses.
LEMMA Balance ==
    ASSUME DeliveryTypes, NEW w \in Workers, Steps(w), NEW d \in Deliveries
    PROVE  sent'[d] + logged[d] + lost[d] + Left(w, d)
               = sent[d] + logged'[d] + lost'[d] + Left(w, d)'
<1> USE DEF DeliveryTypes, TypeOK
<1>1. /\ sent[d] \in Nat /\ logged[d] \in Nat /\ lost[d] \in Nat
      /\ pending[w].requests \in Nat /\ Unwritten(w) \in Nat /\ Left(w, d) \in Nat
  BY DEF Stashes, Unwritten, Left
<1>2. ASSUME Forgets(w)
      PROVE  lost'[d] = lost[d] + Left(w, d)
  BY <1>1, <1>2, AddTypes DEF Forgets, Left
<1>3. ASSUME Clears(w)
      PROVE  Left(w, d)' = 0
  BY <1>3 DEF Clears, Left, NoPending
<1>4. ASSUME logged' = Add(logged, pending[w].of, pending[w].requests), pc[w] # "note"
      PROVE  logged'[d] = logged[d] + Left(w, d)
  BY <1>1, <1>4, AddTypes DEF Left, Unwritten
<1>5. ASSUME pending'[w] = pending[w], pc[w] # "note", pc'[w] # "note"
      PROVE  Left(w, d)' = Left(w, d)
  BY <1>5 DEF Left, Unwritten
<1>6. CASE Crash(w) \/ RecordFails(w) \/ HookFails(w) \/ (LosesTheRow(w) /\ pc[w] = "record")
  BY <1>1, <1>2, <1>3, <1>6 DEF Crash, RecordFails, HookFails, LosesTheRow
<1>7. CASE Prepare(w)
  <2>1. Left(w, d)' = 0
    BY <1>7 DEF Prepare, Left, Unwritten
  <2> QED
    BY <1>1, <1>2, <1>7, <2>1 DEF Prepare
<1>8. CASE SettleDelivered(w)
  BY <1>1, <1>3, <1>4, <1>8 DEF SettleDelivered
<1>9. CASE HookRecords(w)
  <2>1. Left(w, d)' = 0
    <3>1. CASE Goes(w, "note")
      BY <3>1 DEF Goes, Left, Unwritten
    <3> QED
      BY <1>3, <1>9, <3>1 DEF HookRecords, Writes
  <2> QED
    BY <1>1, <1>4, <1>9, <2>1 DEF HookRecords, Writes, history
<1>10. CASE HookNotes(w)
  <2>1. Left(w, d) = 0
    BY <1>10 DEF HookNotes, Left, Unwritten
  <2> QED
    BY <1>1, <1>3, <1>10, <2>1 DEF HookNotes
<1>11. CASE \E answer \in Answers : Request(w, answer)
  <2>1. /\ pc[w] = "send" /\ sent' = Add(sent, job[w], 1)
        /\ pending' = [pending EXCEPT ![w].requests = @ + 1]
        /\ UNCHANGED <<logged, lost>>
        /\ \E step \in {"record", "send", "raised"} : Goes(w, step)
    BY <1>11 DEF Request, Answered
  <2>2. pending'[w].requests = pending[w].requests + 1 /\ pending'[w].of = pending[w].of
    BY <2>1 DEF Stashes
  <2>3. pc'[w] # "note" /\ pending[w].of = job[w]
    BY <2>1 DEF Goes, OwnStash
  <2>4. sent'[d] = IF d = job[w] THEN sent[d] + 1 ELSE sent[d]
    BY <2>1, AddTypes
  <2>5. Left(w, d)' = IF d = job[w] THEN Left(w, d) + 1 ELSE Left(w, d)
    BY <1>1, <2>1, <2>2, <2>3 DEF Left, Unwritten
  <2> QED
    BY <1>1, <2>1, <2>4, <2>5
<1>12. CASE Refuse(w, 0) \/ Refuse(w, 1)
  <2>1. PICK n \in {0, 1} : Refuse(w, n)
    BY <1>12
  <2>2. sent' = Add(sent, job[w], n) /\ lost' = Add(lost, job[w], n) /\ UNCHANGED logged
    BY <2>1 DEF Refuse
  <2>3. sent'[d] = sent[d] + (IF d = job[w] THEN n ELSE 0)
    BY <1>1, <2>2, AddTypes
  <2>4. lost'[d] = lost[d] + (IF d = job[w] THEN n ELSE 0)
    BY <1>1, <2>2, AddTypes
  <2>5. Left(w, d)' = Left(w, d)
    BY <1>5, <2>1 DEF Refuse, Goes
  <2> QED
    BY <1>1, <2>2, <2>3, <2>4, <2>5
<1>13. CASE HookHasNothing(w)
  <2>1. Left(w, d)' = Left(w, d)
    BY <1>5, <1>13 DEF HookHasNothing, Rests, Goes
  <2> QED
    BY <1>1, <1>13, <2>1 DEF HookHasNothing, history
<1>14. CASE SettleQuietly(w) \/ (LosesTheRow(w) /\ pc[w] # "record")
  <2>1. Left(w, d)' = Left(w, d)
    BY <1>5, <1>14 DEF SettleQuietly, LosesTheRow, Rests, Goes
  <2> QED
    BY <1>1, <1>14, <2>1 DEF SettleQuietly, LosesTheRow
<1>15. CASE \/ Load(w) \/ CannotRender(w) \/ Fails(w) \/ \E x \in Deliveries : Claim(w, x)
  <2>1. Left(w, d)' = Left(w, d)
    BY <1>5, <1>15 DEF Load, CannotRender, Fails, Counts, Claim, Goes
  <2> QED
    BY <1>1, <1>15, <2>1 DEF Load, CannotRender, Fails, Counts, Claim, history
<1> QED
  BY <1>6, <1>7, <1>8, <1>9, <1>10, <1>11, <1>12, <1>13, <1>14, <1>15 DEF Steps, Works

LEMMA AccountedStep ==
    DeliveryTypes /\ RequestsAreAccountedFor /\ [Next]_vars => RequestsAreAccountedFor'
<1> SUFFICES ASSUME DeliveryTypes, RequestsAreAccountedFor, [Next]_vars, NEW d \in Deliveries
             PROVE  sent'[d] = logged'[d] + lost'[d] + Cardinality(Stashed(d))'
  BY DEF RequestsAreAccountedFor
<1>1. sent[d] = logged[d] + lost[d] + Cardinality(Stashed(d))
  BY DEF RequestsAreAccountedFor
<1>2. ASSUME NEW w \in Workers, Steps(w)
      PROVE  sent'[d] = logged'[d] + lost'[d] + Cardinality(Stashed(d))'
  <2> DEFINE have == [v \in Workers |-> Left(v, d)]
  <2>1. StashTypes /\ DeliveryTypes'
    BY DeliveryTypesStep, TypeParts DEF DeliveryTypes
  <2>2. StashTypes'
    BY <2>1 DEF DeliveryTypes, TypeOK, StashTypes
  <2>3. have \in [Workers -> 0 .. MaxRequests] /\ Stashed(d) = Held(have)
    BY <2>1 DEF Stashed, Held, Left, StashTypes, Stashes, Unwritten
  <2>4. have' \in [Workers -> 0 .. MaxRequests] /\ Stashed(d)' = Held(have')
    BY <2>2 DEF Stashed, Held, Left, StashTypes, Stashes, Unwritten
  <2>5. HeldByOthers(have', w) = HeldByOthers(have, w)
    <3>1. \A v \in Workers \ {w} : have'[v] = have[v]
      BY <1>2, OthersStay DEF Still, Left, Unwritten
    <3> QED
      BY <3>1 DEF HeldByOthers, Held
  <2>6. /\ Cardinality(HeldByOthers(have, w)) \in Nat
        /\ Cardinality(Stashed(d)) = Cardinality(HeldByOthers(have, w)) + Left(w, d)
    BY <2>3, HeldSplit
  <2>7. Cardinality(Stashed(d))' = Cardinality(HeldByOthers(have, w)) + Left(w, d)'
    BY <2>4, <2>5, HeldSplit
  <2>8. sent'[d] + logged[d] + lost[d] + Left(w, d)
            = sent[d] + logged'[d] + lost'[d] + Left(w, d)'
    BY <1>2, Balance
  <2>9. /\ sent[d] \in Nat /\ logged[d] \in Nat /\ lost[d] \in Nat
        /\ sent'[d] \in Nat /\ logged'[d] \in Nat /\ lost'[d] \in Nat
    BY <2>1 DEF DeliveryTypes, TypeOK
  <2>10. Left(w, d) \in Nat /\ Left(w, d)' \in Nat
    BY <2>3, <2>4
  <2>11. PICK before \in Nat, after \in Nat : before = Left(w, d) /\ after = Left(w, d)'
    BY <2>10
  <2>12. PICK others \in Nat : others = Cardinality(HeldByOthers(have, w))
    BY <2>6
  <2>13. sent[d] = logged[d] + lost[d] + (others + before)
    BY <1>1, <2>6, <2>11, <2>12
  <2>14. sent'[d] + logged[d] + lost[d] + before = sent[d] + logged'[d] + lost'[d] + after
    BY <2>8, <2>11
  <2>15. sent'[d] = logged'[d] + lost'[d] + (others + after)
    <3>1. sent'[d] + before = others + before + logged'[d] + lost'[d] + after
      BY <2>9, <2>13, <2>14
    <3> QED
      BY <2>9, <3>1
  <2> QED
    BY <2>7, <2>11, <2>12, <2>15
<1>3. CASE UNCHANGED <<pc, pending, logged, sent, lost>>
  <2>1. Stashed(d)' = Stashed(d)
    BY <1>3 DEF Stashed, Unwritten
  <2> QED
    BY <1>1, <1>3, <2>1
<1> QED
  BY <1>2, <1>3
     DEF Next, LeaseRunsOut, Stall, OperatorActs, vars, Steps, workers, history

-----------------------------------------------------------------------------
(* The budgets *)

\* The requests an outer attempt of w may still make for d.
Room(w, d) ==
    IF job[w] # d THEN 0
    ELSE IF pc[w] \in {"load", "prepare"} THEN MaxRequests
    ELSE IF pc[w] = "send" THEN MaxRequests - pending[w].requests
    ELSE 0

\* d has an outer attempt that nothing has been charged for yet, or that was the
\* last one it needed.
Open(d) == status[d] = "succeeded" \/ (holder[d] # Nobody /\ job[holder[d]] = d)

\* The outer attempts of d that were charged to its budget, a crash or a stall,
\* and the one that is open.
Charges(d) == tries[d] + crashes + stalls + (IF Open(d) THEN 1 ELSE 0)

\* A worker in the failure hook has let go of its row.
LetGo == \A w \in Workers : pc[w] \in {"hook", "note"} => holder[job[w]] # w

\* What was sent, and what may still be, is within the charges.
WithinCharges ==
    \A d \in Deliveries :
        sent[d] + Cardinality(Held([w \in Workers |-> Room(w, d)])) <= MaxRequests * Charges(d)

LEMMA ChargesAreNat ==
    ASSUME DeliveryTypes, NEW d \in Deliveries
    PROVE  Charges(d) \in Nat
BY DEF DeliveryTypes, TypeOK, Charges

LEMMA LetGoStep == DeliveryTypes /\ LetGo /\ [Next]_vars => LetGo'
<1> SUFFICES ASSUME DeliveryTypes, LetGo, [Next]_vars, NEW v \in Workers,
                    pc'[v] \in {"hook", "note"}
             PROVE  holder'[job'[v]] # v
  BY DEF LetGo
<1> USE DEF DeliveryTypes, TypeOK
<1>1. ASSUME job'[v] = job[v], job[v] \in Deliveries, holder[job[v]] # v
      PROVE  holder'[job'[v]] # v
  <2>1. \A d \in Deliveries : holder[d] # v /\ holder'[d] = v => job'[v] = d /\ pc'[v] = "load"
    <3> SUFFICES ASSUME NEW d \in Deliveries, holder[d] # v, holder'[d] = v
                 PROVE  job'[v] = d /\ pc'[v] = "load"
      OBVIOUS
    <3>1. ASSUME NEW w \in Workers, NEW x \in Deliveries, Claim(w, x)
          PROVE  job'[v] = d /\ pc'[v] = "load"
      BY <3>1 DEF Claim, Goes
    <3>2. ASSUME NEW w \in Workers, Works(w) \/ Crash(w)
          PROVE  \A x \in Deliveries : holder'[x] \in {holder[x], Nobody}
      BY <3>2 DEF Works, Crash, Load, CannotRender, Prepare, Refuse, Request, Answered,
                  SettleQuietly, SettleDelivered, RecordFails, LosesTheRow, Fails, Counts,
                  HookHasNothing, HookRecords, Writes, HookFails, HookNotes, rows
    <3> QED
      BY <3>1, <3>2 DEF Next, LeaseRunsOut, Stall, OperatorActs, vars, rows
  <2> QED
    BY <1>1, <2>1
<1>2. CASE Still(v)
  BY <1>1, <1>2 DEF Still, LetGo, Busy
<1>3. CASE Fails(v)
  BY <1>3 DEF Fails, Counts, Busy
<1>4. CASE HookRecords(v) /\ ~Rests(v)
  BY <1>1, <1>4 DEF HookRecords, Writes, LetGo, Busy
<1>5. ~Rests(v)
  BY DEF Rests, Goes
<1>6. ASSUME NEW step \in Places \ {"hook", "note"}, Goes(v, step)
      PROVE  FALSE
  BY <1>6 DEF Goes
<1>7. CASE \E answer \in Answers : Request(v, answer)
  <2>1. \E step \in {"record", "send", "raised"} : Goes(v, step)
    BY <1>7 DEF Request, Answered
  <2> QED
    BY <2>1, <1>6 DEF Places
<1>8. ~(Load(v) \/ CannotRender(v) \/ Prepare(v) \/ Refuse(v, 0) \/ Refuse(v, 1)
        \/ RecordFails(v) \/ \E d \in Deliveries : Claim(v, d))
  BY <1>6 DEF Load, CannotRender, Prepare, Refuse, RecordFails, Claim, Places
<1> QED
  BY <1>2, <1>3, <1>4, <1>5, <1>7, <1>8, StillOrSteps
     DEF Steps, Works, Crash, SettleQuietly, SettleDelivered, LosesTheRow, HookHasNothing,
         HookFails, HookNotes

\* A step of w makes requests only out of the room it has, and gets room only
\* with a claim, which is charged for.
LEMMA Paid ==
    ASSUME DeliveryTypes, LetGo, NEW w \in Workers, Steps(w), NEW d \in Deliveries
    PROVE  \E k \in {0, 1} :
              /\ Charges(d)' >= Charges(d) + k
              /\ sent'[d] + Room(w, d)' <= sent[d] + Room(w, d) + MaxRequests * k
<1> USE DEF DeliveryTypes, TypeOK
<1>1. /\ sent[d] \in Nat /\ tries[d] \in Nat /\ Room(w, d) \in 0 .. MaxRequests
      /\ crashes \in Nat /\ stalls \in Nat
  BY DEF Room, Stashes
<1>2. ASSUME Charges(d)' >= Charges(d), sent'[d] + Room(w, d)' <= sent[d] + Room(w, d)
      PROVE  \E k \in {0, 1} :
                /\ Charges(d)' >= Charges(d) + k
                /\ sent'[d] + Room(w, d)' <= sent[d] + Room(w, d) + MaxRequests * k
  <2>1. Charges(d) \in Nat
    BY ChargesAreNat
  <2> QED
    BY <1>1, <1>2, <2>1
<1>3. CASE \E x \in Deliveries : Claim(w, x)
  <2>1. PICK x \in Deliveries : Claim(w, x)
    BY <1>3
  <2>2. /\ job[w] = Nobody /\ Room(w, d) = 0 /\ sent' = sent
        /\ UNCHANGED <<status, tries, stalls, crashes>>
    BY <2>1 DEF Claim, Room, Busy, history, bounds
  <2>3. CASE x = d
    <3>1. ~Open(d) /\ Open(d)'
      BY <2>1, <2>3 DEF Claim, Open
    <3>2. Charges(d)' = Charges(d) + 1
      BY <1>1, <2>2, <3>1 DEF Charges
    <3>3. Room(w, d)' = MaxRequests
      BY <2>1, <2>3 DEF Claim, Goes, Room
    <3> QED
      BY <1>1, <2>2, <3>2, <3>3, ChargesAreNat
  <2>4. CASE x # d
    <3>1. Open(d)' = Open(d)
      BY <2>1, <2>2, <2>4 DEF Claim, Open
    <3>2. Charges(d)' = Charges(d)
      BY <2>2, <3>1 DEF Charges
    <3>3. Room(w, d)' = 0
      BY <2>1, <2>4 DEF Claim, Room
    <3> QED
      BY <1>1, <1>2, <2>2, <3>2, <3>3, ChargesAreNat
  <2> QED
    BY <2>3, <2>4
<1>4. CASE Fails(w)
  <2>1. /\ Room(w, d)' = 0 /\ sent' = sent
        /\ UNCHANGED <<job, stalls, crashes>>
    BY <1>4 DEF Fails, Counts, Goes, Room, history, bounds
  <2>2. CASE d = job[w]
    <3>1. tries'[d] = tries[d] + 1
      BY <1>1, <1>4, <2>2 DEF Fails, Counts, Add
    <3> QED
      BY <1>1, <1>2, <2>1, <3>1 DEF Charges
  <2>3. CASE d # job[w]
    <3>1. tries'[d] = tries[d] /\ status'[d] = status[d] /\ holder'[d] = holder[d]
      BY <1>4, <2>3 DEF Fails, Counts, Add
    <3>2. Charges(d)' = Charges(d)
      BY <2>1, <3>1 DEF Charges, Open
    <3> QED
      BY <1>1, <1>2, <2>1, <3>2, ChargesAreNat
  <2> QED
    BY <2>2, <2>3
<1>5. CASE SettleQuietly(w) \/ SettleDelivered(w)
  <2>1. /\ Rests(w) /\ sent' = sent /\ UNCHANGED <<tries, stalls, crashes>>
        /\ status' = [status EXCEPT ![job[w]] = "succeeded"]
        /\ holder' = [holder EXCEPT ![job[w]] = Nobody]
    BY <1>5 DEF SettleQuietly, SettleDelivered, bounds
  <2>2. Room(w, d)' = 0
    BY <2>1 DEF Rests, Goes, Room
  <2>3. Open(d) => Open(d)'
    BY <2>1 DEF Rests, Open
  <2>4. Charges(d)' >= Charges(d)
    BY <1>1, <2>1, <2>3 DEF Charges
  <2> QED
    BY <1>1, <1>2, <2>1, <2>2, <2>4
<1>6. CASE Crash(w)
  <2>1. Room(w, d)' = 0 /\ sent' = sent
    BY <1>6 DEF Crash, Rests, Goes, Room
  <2>2. crashes' = crashes + 1 /\ stalls' = stalls /\ tries' = tries
    BY <1>6 DEF Crash, rows
  <2>3. Charges(d)' >= Charges(d)
    BY <1>1, <2>2 DEF Charges
  <2> QED
    BY <1>1, <1>2, <2>1, <2>3
<1>7. CASE LosesTheRow(w) \/ HookHasNothing(w) \/ HookFails(w) \/ HookNotes(w) \/ HookRecords(w)
  <2>1. /\ sent' = sent /\ holder[job[w]] # w
        /\ UNCHANGED <<status, tries, holder, stalls, crashes>>
        /\ Rests(w) \/ (Goes(w, "note") /\ UNCHANGED job)
    BY <1>7 DEF LosesTheRow, HookHasNothing, HookFails, HookNotes, HookRecords, Writes, LetGo,
                rows, bounds, history
  <2>2. Room(w, d)' = 0
    BY <2>1 DEF Rests, Goes, Room
  <2>3. Open(d) => Open(d)'
    BY <2>1 DEF Rests, Open
  <2>4. Charges(d)' >= Charges(d)
    BY <1>1, <2>1, <2>3 DEF Charges
  <2> QED
    BY <1>1, <1>2, <2>1, <2>2, <2>4
<1>8. ASSUME UNCHANGED <<rows, job, bounds>>
      PROVE  Charges(d)' = Charges(d) /\ Charges(d)' >= Charges(d)
  BY <1>8, ChargesAreNat DEF Charges, Open, rows, bounds
<1>9. CASE \E answer \in Answers : Request(w, answer)
  <2>1. /\ pc[w] = "send" /\ sent' = Add(sent, job[w], 1)
        /\ pending' = [pending EXCEPT ![w].requests = @ + 1]
        /\ UNCHANGED <<rows, job, bounds>>
        /\ pc'[w] \in {"record", "send", "raised"}
    BY <1>9 DEF Request, Answered, Goes
  <2>2. pending'[w].requests = pending[w].requests + 1 /\ pending[w].requests \in 0 .. MaxRequests
    BY <2>1 DEF Stashes
  <2>3. sent'[d] = IF d = job[w] THEN sent[d] + 1 ELSE sent[d]
    BY <2>1, AddTypes
  <2>4. pending[w].requests < MaxRequests
    BY <2>1 DEF OwnStash
  <2>5. sent'[d] + Room(w, d)' <= sent[d] + Room(w, d)
    BY <1>1, <2>1, <2>2, <2>3, <2>4 DEF Room
  <2> QED
    BY <1>2, <1>8, <2>1, <2>5
<1>10. CASE Refuse(w, 0) \/ Refuse(w, 1)
  <2>1. PICK n \in {0, 1} : Refuse(w, n)
    BY <1>10
  <2>2. /\ pc[w] = "send" /\ sent' = Add(sent, job[w], n) /\ pc'[w] = "raised"
        /\ UNCHANGED <<rows, job, bounds>>
    BY <2>1 DEF Refuse, Goes
  <2>3. sent'[d] = IF d = job[w] THEN sent[d] + n ELSE sent[d]
    BY <2>2, AddTypes
  <2>4. pending[w].requests < MaxRequests /\ pending[w].requests \in 0 .. MaxRequests
    BY <2>2 DEF OwnStash, Stashes
  <2>5. sent'[d] + Room(w, d)' <= sent[d] + Room(w, d)
    BY <1>1, <2>2, <2>3, <2>4 DEF Room
  <2> QED
    BY <1>2, <1>8, <2>2, <2>5
<1>11. CASE Load(w) \/ CannotRender(w) \/ Prepare(w) \/ RecordFails(w)
  <2>1. sent' = sent /\ UNCHANGED <<rows, job, bounds>>
    BY <1>11 DEF Load, CannotRender, Prepare, RecordFails, history
  <2>2. CASE Prepare(w)
    <3>1. pc[w] = "prepare" /\ pc'[w] = "send" /\ pending'[w].requests = 0
      BY <2>2 DEF Prepare, Goes
    <3>2. Room(w, d)' = Room(w, d)
      BY <2>1, <3>1 DEF Room
    <3> QED
      BY <1>1, <1>2, <1>8, <2>1, <3>2
  <2>3. CASE Load(w)
    <3>1. pc[w] = "load" /\ pc'[w] \in {"prepare", "quiet"}
      BY <2>3 DEF Load, Goes
    <3>2. Room(w, d)' <= Room(w, d)
      BY <2>1, <3>1 DEF Room
    <3>3. Room(w, d)' \in 0 .. MaxRequests
      BY <2>1, <3>1 DEF Room
    <3> QED
      BY <1>1, <1>2, <1>8, <2>1, <3>2, <3>3
  <2>4. CASE CannotRender(w) \/ RecordFails(w)
    <3>1. Room(w, d)' = 0
      BY <2>4 DEF CannotRender, RecordFails, Goes, Room
    <3> QED
      BY <1>1, <1>2, <1>8, <2>1, <3>1
  <2> QED
    BY <1>11, <2>2, <2>3, <2>4
<1> QED
  BY <1>3, <1>4, <1>5, <1>6, <1>7, <1>9, <1>10, <1>11 DEF Steps, Works

LEMMA MoreCharges ==
    ASSUME NEW m \in Nat, NEW c \in Nat, NEW e \in Nat, NEW k \in {0, 1}, e >= c + k
    PROVE  m * c + m * k <= m * e /\ m * c \in Nat /\ m * e \in Nat
<1>1. PICK x \in Nat : e = c + k + x
  <2>1. e - (c + k) \in Nat /\ e = c + k + (e - (c + k))
    OBVIOUS
  <2> QED
    BY <2>1
<1>2. m * e = m * c + m * k + m * x /\ m * x \in Nat
  BY <1>1
<1> QED
  BY <1>2

LEMMA HeldIsNat ==
    ASSUME NEW have PROVE Cardinality(Held(have)) \in Nat
<1>1. Held(have) \subseteq Workers \X (1 .. MaxRequests)
  BY DEF Held
<1>2. IsFiniteSet(1 .. MaxRequests)
  BY FS_Interval
<1>3. IsFiniteSet(Workers \X (1 .. MaxRequests))
  BY <1>2, FS_Product
<1> QED
  BY <1>1, <1>3, FS_Subset, FS_CardinalityType

LEMMA WithinChargesStep ==
    DeliveryTypes /\ LetGo /\ WithinCharges /\ [Next]_vars => WithinCharges'
<1> SUFFICES ASSUME DeliveryTypes, LetGo, WithinCharges, [Next]_vars, NEW d \in Deliveries
             PROVE  sent'[d] + Cardinality(Held([w \in Workers |-> Room(w, d)]))'
                        <= MaxRequests * Charges(d)'
  BY DEF WithinCharges
<1> DEFINE room == [v \in Workers |-> Room(v, d)]
<1>1. sent[d] + Cardinality(Held(room)) <= MaxRequests * Charges(d)
  BY DEF WithinCharges
<1>2. /\ sent[d] \in Nat /\ sent'[d] \in Nat
      /\ Charges(d) \in Nat /\ Charges(d)' \in Nat
  <2>1. DeliveryTypes'
    BY DeliveryTypesStep
  <2> QED
    BY <2>1 DEF DeliveryTypes, TypeOK, Charges
<1>3. ASSUME NEW w \in Workers, Steps(w)
      PROVE  sent'[d] + Cardinality(Held(room')) <= MaxRequests * Charges(d)'
  <2>1. room \in [Workers -> 0 .. MaxRequests]
    BY DEF DeliveryTypes, TypeOK, Stashes, Room
  <2>2. room' \in [Workers -> 0 .. MaxRequests]
    <3>1. pending' \in [Workers -> Stashes]
      BY DeliveryTypesStep DEF DeliveryTypes, TypeOK
    <3> QED
      BY <3>1 DEF Stashes, Room
  <2>3. HeldByOthers(room', w) = HeldByOthers(room, w)
    <3>1. \A v \in Workers \ {w} : room'[v] = room[v]
      BY <1>3, OthersStay DEF Still, Room
    <3> QED
      BY <3>1 DEF HeldByOthers, Held
  <2>4. PICK others \in Nat : others = Cardinality(HeldByOthers(room, w))
    BY <2>1, HeldSplit
  <2>5. Cardinality(Held(room)) = others + Room(w, d)
    BY <2>1, <2>4, HeldSplit
  <2>6. Cardinality(Held(room')) = others + Room(w, d)'
    BY <2>2, <2>3, <2>4, HeldSplit
  <2>7. PICK before \in Nat, after \in Nat : before = Room(w, d) /\ after = Room(w, d)'
    BY <2>1, <2>2
  <2>8. PICK c \in Nat, e \in Nat : c = Charges(d) /\ e = Charges(d)'
    BY <1>2
  <2>9. PICK k \in {0, 1} : /\ e >= c + k
                            /\ sent'[d] + after <= sent[d] + before + MaxRequests * k
    BY <1>3, <2>7, <2>8, Paid
  <2>10. MaxRequests * c + MaxRequests * k <= MaxRequests * e
    BY <2>9, MoreCharges
  <2>11. sent[d] + (others + before) <= MaxRequests * c
    BY <1>1, <2>5, <2>7, <2>8
  <2>12. sent'[d] + (others + after) <= MaxRequests * e
    <3>1. PICK mc \in Nat, mk \in Nat, me \in Nat :
             mc = MaxRequests * c /\ mk = MaxRequests * k /\ me = MaxRequests * e
      BY <2>9, MoreCharges
    <3>2. /\ mc + mk <= me /\ sent[d] + (others + before) <= mc
          /\ sent'[d] + after <= sent[d] + before + mk
      BY <3>1, <2>9, <2>10, <2>11
    <3>3. sent'[d] + (others + after) <= me
      BY <3>2, <1>2
    <3> QED
      BY <3>1, <3>3
  <2> QED
    BY <2>6, <2>7, <2>8, <2>12
<1>4. ASSUME UNCHANGED <<job, pc, pending, sent>>, Charges(d)' >= Charges(d)
      PROVE  sent'[d] + Cardinality(Held(room')) <= MaxRequests * Charges(d)'
  <2>1. room' = room
    BY <1>4 DEF Room
  <2>2. PICK c \in Nat, e \in Nat : c = Charges(d) /\ e = Charges(d)'
    BY <1>2
  <2>3. MaxRequests * c <= MaxRequests * e /\ MaxRequests * c \in Nat /\ MaxRequests * e \in Nat
    <3>1. e >= c + 0
      BY <1>4, <2>2
    <3> QED
      BY <3>1, MoreCharges
  <2>4. sent'[d] + Cardinality(Held(room')) <= MaxRequests * c
    BY <1>1, <1>4, <2>1, <2>2
  <2>5. Cardinality(Held(room')) \in Nat
    BY HeldIsNat
  <2> QED
    BY <1>2, <2>2, <2>3, <2>4, <2>5
<1>5. ASSUME NEW x \in Deliveries, LeaseRunsOut(x) \/ Stall(x)
      PROVE  UNCHANGED <<job, pc, pending, sent>> /\ Charges(d)' >= Charges(d)
  BY <1>2, <1>5 DEF LeaseRunsOut, Stall, workers, history, bounds, Charges, Open, DeliveryTypes,
                    TypeOK
<1>6. CASE OperatorActs \/ UNCHANGED vars
  <2>1. UNCHANGED <<job, pc, pending, sent>>
    BY <1>6 DEF OperatorActs, vars, workers, history
  <2>2. Charges(d)' = Charges(d)
    BY <1>6 DEF OperatorActs, vars, rows, workers, bounds, Charges, Open
  <2> QED
    BY <1>2, <1>4, <2>1, <2>2
<1> QED
  BY <1>3, <1>4, <1>5, <1>6 DEF Next, Steps

LEMMA ChargesAreBudgeted == DeliveryTypes /\ WithinCharges => BudgetsMultiply
<1> SUFFICES ASSUME DeliveryTypes, WithinCharges, NEW d \in Deliveries
             PROVE  sent[d] <= MaxRequests * (Budget + crashes + stalls)
  BY DEF BudgetsMultiply
<1> USE DEF DeliveryTypes, TypeOK
<1> DEFINE room == [w \in Workers |-> Room(w, d)]
<1>1. Cardinality(Held(room)) \in Nat
  BY HeldIsNat
<1>2. sent[d] \in Nat /\ sent[d] + Cardinality(Held(room)) <= MaxRequests * Charges(d)
  BY DEF WithinCharges
<1>3. Charges(d) \in Nat /\ Budget + crashes + stalls >= Charges(d) + 0
      /\ Budget + crashes + stalls \in Nat
  BY DEF Charges, Open, RowsAgree
<1>4. PICK c \in Nat, e \in Nat : c = Charges(d) /\ e = Budget + crashes + stalls
  BY <1>3
<1>5. MaxRequests * c + MaxRequests * 0 <= MaxRequests * e /\ MaxRequests * c \in Nat
      /\ MaxRequests * e \in Nat
  BY <1>3, <1>4, MoreCharges
<1>6. sent[d] <= MaxRequests * c
  BY <1>1, <1>2, <1>4, <1>5
<1>7. sent[d] <= MaxRequests * e
  BY <1>2, <1>5, <1>6
<1> QED
  BY <1>4, <1>7

-----------------------------------------------------------------------------
(* How often a delivery may land *)

\* An outer attempt on w may still have d answered 2xx, or be put off to another
\* that may.  Once the endpoint is deleted only a request in hand may land.
Chance(w, d) ==
    IF /\ job[w] = d
       /\ pc[w] \in {"prepare", "send"} \/ (present /\ pc[w] \in {"load", "raised"})
    THEN 1 ELSE 0

\* Nobody who lives has claimed d, and it may be claimed and sent again.
Again(d) ==
    IF present /\ status[d] = "owed" /\ ~(holder[d] # Nobody /\ job[holder[d]] = d)
    THEN 1 ELSE 0

\* The 2xx answers d has had, and those it may still have.
LandsWithin ==
    \A d \in Deliveries :
        landed[d] + Again(d) + Cardinality(Held([w \in Workers |-> Chance(w, d)]))
            <= 1 + crashes + stalls

\* A worker's step lands d only out of its own chance, and leaves another only
\* by crashing.
LEMMA LandsOnAChance ==
    ASSUME DeliveryTypes, LetGo, NEW w \in Workers, Steps(w), NEW d \in Deliveries
    PROVE  /\ present' = present /\ stalls' = stalls
           /\ landed'[d] + Again(d)' + Chance(w, d)' + crashes
                  <= landed[d] + Again(d) + Chance(w, d) + crashes'
<1> USE DEF DeliveryTypes, TypeOK
<1> DEFINE Fair == landed'[d] + Again(d)' + Chance(w, d)' + crashes
                       <= landed[d] + Again(d) + Chance(w, d) + crashes'
<1>1. /\ landed[d] \in Nat /\ crashes \in Nat
      /\ Again(d) \in {0, 1} /\ Chance(w, d) \in {0, 1}
      /\ Again(d)' \in {0, 1} /\ Chance(w, d)' \in {0, 1}
  BY DEF Again, Chance
<1>2. CASE \E x \in Deliveries : Claim(w, x)
  <2>1. PICK x \in Deliveries : Claim(w, x)
    BY <1>2
  <2>2. /\ job[w] = Nobody /\ job' = [job EXCEPT ![w] = x]
        /\ holder' = [holder EXCEPT ![x] = w] /\ holder[x] = Nobody
        /\ pc'[w] = "load"
        /\ UNCHANGED <<status, present, landed, crashes, stalls>>
    BY <2>1 DEF Claim, Goes, Busy, history, bounds, endpoint
  <2>3. Chance(w, d) = 0
    BY <2>2 DEF Chance
  <2>4. CASE x = d
    <3>1. Again(d)' = 0
      BY <2>2, <2>4 DEF Again
    <3>2. Chance(w, d)' <= Again(d)
      BY <2>1, <2>2, <2>4 DEF Again, Chance, Claim
    <3> QED BY <1>1, <2>2, <2>3, <3>1, <3>2
  <2>5. CASE x # d
    <3>1. Chance(w, d)' = 0
      BY <2>2, <2>5 DEF Chance
    <3>2. Again(d)' = Again(d)
      BY <2>2, <2>5 DEF Again
    <3> QED BY <1>1, <2>2, <2>3, <3>1, <3>2
  <2> QED BY <2>4, <2>5
<1>3. CASE Fails(w)
  <2>1. /\ UNCHANGED <<job, present, landed, crashes, stalls>>
        /\ pc[w] = "raised" /\ pc'[w] = "hook" /\ holder[job[w]] = w
        /\ holder' = [holder EXCEPT ![job[w]] = Nobody]
        /\ \A x \in Deliveries \ {job[w]} : status'[x] = status[x]
        /\ job[w] \in Deliveries
    BY <1>3 DEF Fails, Counts, Goes, Busy, history, bounds, endpoint
  <2>2. Chance(w, d)' = 0
    BY <2>1 DEF Chance
  <2>3. Again(d)' <= Again(d) + Chance(w, d)
    BY <1>1, <2>1 DEF Again, Chance
  <2> QED BY <1>1, <2>1, <2>2, <2>3
<1>4. CASE SettleQuietly(w) \/ SettleDelivered(w)
  <2>1. /\ Rests(w) /\ UNCHANGED <<present, landed, crashes, stalls>>
        /\ status' = [status EXCEPT ![job[w]] = "succeeded"]
        /\ holder' = [holder EXCEPT ![job[w]] = Nobody]
        /\ holder[job[w]] = w /\ job[w] \in Deliveries
    BY <1>4 DEF SettleQuietly, SettleDelivered, Health!Recovers, Busy, endpoint, bounds
  <2>2. Chance(w, d)' = 0
    BY <2>1 DEF Rests, Goes, Chance
  <2>3. Again(d)' <= Again(d)
    BY <1>1, <2>1 DEF Again, Rests
  <2> QED BY <1>1, <2>1, <2>2, <2>3
<1>5. CASE Crash(w)
  <2>1. /\ Rests(w) /\ UNCHANGED <<status, holder, present, landed, stalls>>
        /\ crashes' = crashes + 1
    BY <1>5 DEF Crash, rows, endpoint
  <2>2. Chance(w, d)' = 0
    BY <2>1 DEF Rests, Goes, Chance
  <2> QED BY <1>1, <2>1, <2>2
<1>6. CASE LosesTheRow(w) \/ HookHasNothing(w) \/ HookFails(w) \/ HookNotes(w) \/ HookRecords(w)
  <2>1. /\ holder[job[w]] # w
        /\ UNCHANGED <<status, holder, present, landed, crashes, stalls>>
        /\ Rests(w) \/ (Goes(w, "note") /\ UNCHANGED job)
    BY <1>6 DEF LosesTheRow, HookHasNothing, HookFails, HookNotes, HookRecords, Writes, LetGo,
                Health!Dies, rows, endpoint, bounds, history
  <2>2. Chance(w, d)' = 0
    BY <2>1 DEF Rests, Goes, Chance
  <2>3. Again(d)' = Again(d)
    BY <2>1 DEF Again, Rests
  <2> QED BY <1>1, <2>1, <2>2, <2>3
<1>7. ASSUME UNCHANGED <<rows, job, endpoint, bounds>>
      PROVE  present' = present /\ crashes' = crashes /\ stalls' = stalls /\ Again(d)' = Again(d)
  BY <1>7 DEF Again, rows, endpoint, bounds
<1>8. CASE \E answer \in Answers : Request(w, answer)
  <2>1. PICK answer \in Answers : Request(w, answer)
    BY <1>8
  <2>2. /\ pc[w] = "send" /\ job[w] \in Deliveries
        /\ landed' = Add(landed, job[w], IF answer = "succeeded" THEN 1 ELSE 0)
        /\ UNCHANGED <<rows, job, endpoint, bounds>>
        /\ answer = "succeeded" => pc'[w] = "record"
    BY <2>1 DEF Request, Answered, Goes, Busy
  <2>3. landed'[d] = IF d = job[w] /\ answer = "succeeded" THEN landed[d] + 1 ELSE landed[d]
    BY <2>2, AddTypes
  <2>4. Chance(w, d) = IF d = job[w] THEN 1 ELSE 0
    BY <2>2 DEF Chance
  <2>5. landed'[d] + Chance(w, d)' <= landed[d] + Chance(w, d)
    BY <1>1, <2>2, <2>3, <2>4 DEF Chance
  <2> QED BY <1>1, <1>7, <2>2, <2>3, <2>5
<1>9. CASE \/ Load(w) \/ CannotRender(w) \/ Prepare(w) \/ Refuse(w, 0) \/ Refuse(w, 1)
           \/ RecordFails(w)
  <2>1. UNCHANGED <<rows, job, endpoint, bounds, landed>>
    BY <1>9 DEF Load, CannotRender, Prepare, Refuse, RecordFails, history
  <2>2. Chance(w, d)' <= Chance(w, d)
    <3>1. present' = present /\ job' = job
      BY <2>1 DEF endpoint
    <3>2. CASE Load(w)
      BY <3>1, <3>2 DEF Load, Goes, On, Chance
    <3>3. CASE CannotRender(w) \/ Prepare(w) \/ Refuse(w, 0) \/ Refuse(w, 1)
      BY <3>1, <3>3 DEF CannotRender, Prepare, Refuse, Goes, Chance
    <3>4. CASE RecordFails(w)
      BY <3>1, <3>4 DEF RecordFails, Goes, Chance
    <3> QED BY <1>9, <3>2, <3>3, <3>4
  <2> QED BY <1>1, <1>7, <2>1, <2>2
<1> QED
  BY <1>2, <1>3, <1>4, <1>5, <1>6, <1>8, <1>9 DEF Steps, Works

\* Every step keeps the account of the landings.
LEMMA LandsWithinStep ==
    DeliveryTypes /\ LetGo /\ LandsWithin /\ [Next]_vars => LandsWithin'
<1> SUFFICES ASSUME DeliveryTypes, LetGo, LandsWithin, [Next]_vars, NEW d \in Deliveries
             PROVE  landed'[d] + Again(d)' + Cardinality(Held([w \in Workers |-> Chance(w, d)]))'
                        <= 1 + crashes' + stalls'
  BY DEF LandsWithin
<1> DEFINE chance == [v \in Workers |-> Chance(v, d)]
<1>1. landed[d] + Again(d) + Cardinality(Held(chance)) <= 1 + crashes + stalls
  BY DEF LandsWithin
<1>2. /\ landed[d] \in Nat /\ landed'[d] \in Nat
      /\ crashes \in Nat /\ crashes' \in Nat /\ stalls \in Nat /\ stalls' \in Nat
      /\ Again(d) \in {0, 1} /\ Again(d)' \in {0, 1}
  <2>1. DeliveryTypes'
    BY DeliveryTypesStep
  <2> QED BY <2>1 DEF DeliveryTypes, TypeOK, Again
<1>3. Cardinality(Held(chance)) \in Nat /\ Cardinality(Held(chance')) \in Nat
  BY HeldIsNat
<1>4. ASSUME NEW w \in Workers, Steps(w)
      PROVE  landed'[d] + Again(d)' + Cardinality(Held(chance')) <= 1 + crashes' + stalls'
  <2>1. chance \in [Workers -> 0 .. MaxRequests] /\ chance' \in [Workers -> 0 .. MaxRequests]
    BY DEF Chance
  <2>2. present' = present /\ stalls' = stalls
    BY <1>4, LandsOnAChance
  <2>3. HeldByOthers(chance', w) = HeldByOthers(chance, w)
    <3>1. \A v \in Workers \ {w} : chance'[v] = chance[v]
      BY <1>4, <2>2, OthersStay DEF Still, Chance
    <3> QED
      BY <3>1 DEF HeldByOthers, Held
  <2>4. PICK others \in Nat : others = Cardinality(HeldByOthers(chance, w))
    BY <2>1, HeldSplit
  <2>5. Cardinality(Held(chance)) = others + Chance(w, d)
    BY <2>1, <2>4, HeldSplit
  <2>6. Cardinality(Held(chance')) = others + Chance(w, d)'
    BY <2>1, <2>3, <2>4, HeldSplit
  <2>7. Chance(w, d) \in {0, 1} /\ Chance(w, d)' \in {0, 1}
    BY DEF Chance
  <2>8. landed'[d] + Again(d)' + Chance(w, d)' + crashes
            <= landed[d] + Again(d) + Chance(w, d) + crashes'
    BY <1>4, LandsOnAChance
  <2> QED BY <1>1, <1>2, <2>2, <2>4, <2>5, <2>6, <2>7, <2>8
<1>5. ASSUME UNCHANGED <<job, pc, landed>>, present' => present,
             crashes' >= crashes, Again(d)' + stalls <= Again(d) + stalls'
      PROVE  landed'[d] + Again(d)' + Cardinality(Held(chance')) <= 1 + crashes' + stalls'
  <2>1. \A v \in Workers : chance'[v] <= chance[v] /\ chance[v] \in {0, 1} /\ chance'[v] \in {0, 1}
    BY <1>5 DEF Chance
  <2>2. Held(chance') \subseteq Held(chance)
    BY <2>1 DEF Held
  <2>3. IsFiniteSet(Held(chance))
    <3>1. Held(chance) \subseteq Workers \X (1 .. MaxRequests)
      BY DEF Held
    <3>2. IsFiniteSet(Workers \X (1 .. MaxRequests))
      <4>1. IsFiniteSet(1 .. MaxRequests)
        BY FS_Interval
      <4> QED BY <4>1, FS_Product
    <3> QED
      BY <3>1, <3>2, FS_Subset
  <2>4. Cardinality(Held(chance')) <= Cardinality(Held(chance))
    BY <2>2, <2>3, FS_Subset
  <2> QED BY <1>1, <1>2, <1>3, <1>5, <2>4
<1>6. ASSUME NEW x \in Deliveries, LeaseRunsOut(x) \/ Stall(x)
      PROVE  /\ UNCHANGED <<job, pc, landed, present, crashes>>
             /\ Again(d)' + stalls <= Again(d) + stalls'
  <2>1. UNCHANGED <<job, pc, landed, present, crashes, status>>
    BY <1>6 DEF LeaseRunsOut, Stall, workers, history, endpoint, bounds
  <2>2. CASE Stall(x)
    BY <1>2, <2>1, <2>2 DEF Stall
  <2>3. CASE LeaseRunsOut(x)
    <3>1. Again(d)' = Again(d) /\ stalls' = stalls
      BY <2>1, <2>3 DEF LeaseRunsOut, Again, bounds, DeliveryTypes, TypeOK
    <3> QED BY <1>2, <2>1, <3>1
  <2> QED BY <1>6, <2>1, <2>2, <2>3
<1>7. CASE OperatorActs \/ UNCHANGED vars
  <2>1. UNCHANGED <<job, pc, landed, status, holder, crashes, stalls>> /\ (present' => present)
    BY <1>7, StaysGone DEF OperatorActs, vars, workers, history, rows, bounds
  <2>2. Again(d)' <= Again(d)
    BY <2>1 DEF Again
  <2> QED BY <1>2, <1>5, <2>1, <2>2
<1> QED
  BY <1>2, <1>4, <1>5, <1>6, <1>7 DEF Next, Steps

\* So it lands once, and once more for each crash and each stall.
LEMMA LandsWithinMeans == DeliveryTypes /\ LandsWithin => LandsOnce
<1> SUFFICES ASSUME DeliveryTypes, LandsWithin, NEW d \in Deliveries
             PROVE  landed[d] <= 1 + crashes + stalls
  BY DEF LandsOnce
<1>1. Cardinality(Held([w \in Workers |-> Chance(w, d)])) \in Nat
  BY HeldIsNat
<1>2. landed[d] \in Nat /\ crashes \in Nat /\ stalls \in Nat /\ Again(d) \in {0, 1}
  BY DEF DeliveryTypes, TypeOK, Again
<1> QED
  BY <1>1, <1>2 DEF LandsWithin

-----------------------------------------------------------------------------
(* What stands behind the count *)

Dead == {d \in Deliveries : status[d] = "dead"}
Noted == {d \in Deliveries : noted[d] > 0}

\* Each death in the count is one the hook has noted, and so is each that the
\* threshold was reached with.
Tally ==
    /\ IsFiniteSet(Dead) /\ IsFiniteSet(Noted)
    /\ row.count <= Cardinality(Noted)
    /\ row.stamped => Threshold # Never /\ Threshold <= Cardinality(Noted)

\* A step counts one death and stamps with it, or counts none and stamps nothing.
LEMMA CountMoves ==
    ASSUME DeliveryTypes, [Next]_vars
    PROVE  \/ \E w \in Workers : HookNotes(w)
           \/ noted' = noted /\ row'.count <= row.count /\ (row'.stamped => row.stamped)
<1> USE DEF DeliveryTypes, TypeOK
<1>1. ASSUME row' = row
      PROVE  row'.count <= row.count /\ (row'.stamped => row.stamped)
  BY <1>1
<1>2. ASSUME Health!Recovers \/ Health!PutBack \/ Health!TurnedOff \/ Health!Removed
      PROVE  row'.count <= row.count /\ (row'.stamped => row.stamped)
  BY <1>2 DEF Health!Recovers, Health!PutBack, Health!TurnedOff, Health!Removed
<1>3. ASSUME NEW w \in Workers, Works(w) \/ Crash(w), ~HookNotes(w)
      PROVE  noted' = noted /\ row'.count <= row.count /\ (row'.stamped => row.stamped)
  <2>1. noted' = noted
    BY <1>3 DEF Works, Crash, Load, CannotRender, Prepare, Refuse, Request, Answered,
                SettleQuietly, SettleDelivered, RecordFails, LosesTheRow, Fails, Counts,
                HookHasNothing, HookRecords, Writes, HookFails, history
  <2>2. CASE SettleDelivered(w)
    BY <1>1, <1>2, <2>1, <2>2 DEF SettleDelivered
  <2>3. CASE ~SettleDelivered(w)
    <3>1. row' = row
      BY <1>3, <2>3 DEF Works, Crash, Load, CannotRender, Prepare, Refuse, Request, Answered,
                  SettleQuietly, RecordFails, LosesTheRow, Fails, Counts, HookHasNothing,
                  HookRecords, Writes, HookFails, endpoint
    <3> QED BY <1>1, <2>1, <3>1
  <2> QED BY <2>2, <2>3
<1>4. CASE OperatorActs
  BY <1>2, <1>4 DEF OperatorActs, history
<1>5. CASE \/ \E w \in Workers, d \in Deliveries : Claim(w, d)
           \/ \E d \in Deliveries : LeaseRunsOut(d) \/ Stall(d)
           \/ UNCHANGED vars
  BY <1>1, <1>5 DEF Claim, LeaseRunsOut, Stall, vars, history, endpoint
<1> QED BY <1>3, <1>4, <1>5 DEF Next

\* One delivery at a time dies.
LEMMA DeadGrows ==
    ASSUME DeliveryTypes, [Next]_vars, IsFiniteSet(Dead)
    PROVE  IsFiniteSet(Dead')
<1> USE DEF DeliveryTypes, TypeOK
<1>1. ASSUME NEW w \in Workers, Works(w) \/ Crash(w)
      PROVE  \E d \in Deliveries \cup {Nobody} : Dead' \subseteq Dead \cup {d}
  <2>1. CASE Fails(w)
    <3>1. /\ \A x \in Deliveries : x # job[w] => status'[x] = status[x]
          /\ job[w] \in Deliveries \cup {Nobody}
      BY <2>1 DEF Fails, Counts
    <3>2. Dead' \subseteq Dead \cup {job[w]}
      BY <3>1 DEF Dead
    <3> QED BY <3>1, <3>2
  <2>2. CASE SettleQuietly(w) \/ SettleDelivered(w)
    <3>1. Dead' \subseteq Dead
      BY <2>2 DEF SettleQuietly, SettleDelivered, Dead
    <3> QED BY <3>1
  <2>3. CASE UNCHANGED status
    <3>1. Dead' \subseteq Dead
      BY <2>3 DEF Dead
    <3> QED BY <3>1
  <2> QED
    BY <1>1, <2>1, <2>2, <2>3
       DEF Works, Crash, Load, CannotRender, Prepare, Refuse, Request, Answered, RecordFails,
           LosesTheRow, HookHasNothing, HookRecords, Writes, HookFails, HookNotes, rows
<1>2. ASSUME UNCHANGED status
      PROVE  Dead' \subseteq Dead
  BY <1>2 DEF Dead
<1>3. \E d : Dead' \subseteq Dead \cup {d}
  BY <1>1, <1>2 DEF Next, Claim, LeaseRunsOut, Stall, OperatorActs, vars, rows
<1>4. PICK d : Dead' \subseteq Dead \cup {d}
  BY <1>3
<1>5. IsFiniteSet(Dead \cup {d})
  BY FS_AddElement
<1> QED BY <1>4, <1>5, FS_Subset

\* Every step keeps the tally.
LEMMA TallyStep ==
    DeliveryTypes /\ HookStash /\ OneHook /\ Tally /\ [Next]_vars => Tally'
<1> SUFFICES ASSUME DeliveryTypes, HookStash, OneHook, Tally, [Next]_vars
             PROVE  Tally'
  OBVIOUS
<1> USE DEF DeliveryTypes, TypeOK, Tally
<1>1. IsFiniteSet(Dead')
  BY DeadGrows
<1>2. Cardinality(Noted) \in Nat /\ row.count \in Nat
  BY FS_CardinalityType
<1>3. ASSUME NEW w \in Workers, HookNotes(w)
      PROVE  Tally'
  <2>1. /\ job[w] \in Deliveries /\ noted[job[w]] = 0
        /\ \A d \in Deliveries : noted'[d] = IF d = job[w] THEN 1 ELSE noted[d]
    BY <1>3, HookCounts
  <2>2. Noted' = Noted \cup {job[w]} /\ job[w] \notin Noted
    BY <2>1 DEF Noted
  <2>3. IsFiniteSet(Noted') /\ Cardinality(Noted') = Cardinality(Noted) + 1
    BY <2>2, FS_AddElement
  <2>4. CASE present
    <3>1. Health!Dies
      BY <1>3, <2>4 DEF HookNotes
    <3>2. row'.count = row.count + 1 /\ (row'.stamped => row.stamped \/ Health!Fatal)
      BY <3>1 DEF Health!Dies
    <3>3. row'.stamped => Threshold # Never /\ Threshold <= Cardinality(Noted) + 1
      BY <1>2, <3>2 DEF Health!Fatal
    <3> QED BY <1>1, <1>2, <2>3, <3>2, <3>3
  <2>5. CASE ~present
    <3>1. row' = row
      BY <1>3, <2>5 DEF HookNotes
    <3>2. Threshold # Never => Threshold \in Nat
      OBVIOUS
    <3> QED BY <1>1, <1>2, <2>3, <3>1, <3>2
  <2> QED BY <2>4, <2>5
<1>4. ASSUME noted' = noted, row'.count <= row.count, row'.stamped => row.stamped
      PROVE  Tally'
  <2>1. Noted' = Noted
    BY <1>4 DEF Noted
  <2>2. row'.count \in Nat
    BY DeliveryTypesStep
  <2> QED BY <1>1, <1>2, <1>4, <2>1, <2>2
<1> QED BY <1>3, <1>4, CountMoves

\* What the hook noted is dead, so the dead stand behind the count.
LEMMA TallyMeans ==
    DeliveryTypes /\ Tally /\ OnlyDeathsAreNoted => DeathsBehindTheCount
<1> SUFFICES ASSUME DeliveryTypes, Tally, OnlyDeathsAreNoted PROVE DeathsBehindTheCount
  OBVIOUS
<1>1. Noted \subseteq Dead
  BY DEF Noted, Dead, OnlyDeathsAreNoted, DeliveryTypes, TypeOK
<1>2. /\ Cardinality(Noted) <= Cardinality(Dead)
      /\ Cardinality(Noted) \in Nat /\ Cardinality(Dead) \in Nat
  BY <1>1, FS_Subset, FS_CardinalityType DEF Tally
<1>3. row.count \in Nat
  BY DEF DeliveryTypes, TypeOK
<1>4. row.count <= Cardinality(Dead)
  BY <1>2, <1>3 DEF Tally
<1>5. row.stamped => Threshold # Never /\ Threshold <= Cardinality(Dead)
  BY <1>2 DEF Tally
<1> QED BY <1>4, <1>5 DEF DeathsBehindTheCount, Dead

-----------------------------------------------------------------------------
(* Deaths without a request *)

\* The receiver raises before the first request: the destination is unsafe, or a
\* secret, a body or a lease cannot be used.
RefusesAtOnce == \E w \in Workers : Refuse(w, 0)

\* A stash that is past its requests is of a delivery that had one.
StashWasSent ==
    \A w \in Workers :
        pending[w].of \in Deliveries /\ pc[w] # "send" => sent[pending[w].of] > 0

\* Requests are not taken back.
LEMMA SentGrows ==
    ASSUME DeliveryTypes, [Next]_vars, NEW d \in Deliveries
    PROVE  sent'[d] >= sent[d] /\ sent[d] \in Nat /\ sent'[d] \in Nat
<1> USE DEF DeliveryTypes, TypeOK
<1>1. ASSUME NEW w \in Workers, NEW n \in {0, 1}, sent' = Add(sent, job[w], n)
      PROVE  sent'[d] >= sent[d]
  BY <1>1, AddTypes
<1>2. CASE sent' = sent
  BY <1>2, DeliveryTypesStep
<1>3. ASSUME NEW w \in Workers, Works(w) \/ Crash(w)
      PROVE  sent' = sent \/ \E n \in {0, 1} : sent' = Add(sent, job[w], n)
  BY <1>3 DEF Works, Crash, Load, CannotRender, Prepare, Refuse, Request, Answered,
              SettleQuietly, SettleDelivered, RecordFails, LosesTheRow, Fails, Counts,
              HookHasNothing, HookRecords, Writes, HookFails, HookNotes, history
<1> QED
  BY <1>1, <1>2, <1>3, DeliveryTypesStep
     DEF Next, Claim, LeaseRunsOut, Stall, OperatorActs, vars, history

\* Where no receiver raises before its first request, what is stashed was sent.
LEMMA StashWasSentStep ==
    DeliveryTypes /\ StashWasSent /\ [Next]_vars /\ [~RefusesAtOnce]_vars => StashWasSent'
<1> SUFFICES ASSUME DeliveryTypes, StashWasSent, [Next]_vars, [~RefusesAtOnce]_vars,
                    NEW v \in Workers, pending'[v].of \in Deliveries, pc'[v] # "send"
             PROVE  sent'[pending'[v].of] > 0
  BY DEF StashWasSent
<1> USE DEF DeliveryTypes, TypeOK
<1>1. ASSUME pending'[v].of = pending[v].of, pc[v] # "send"
      PROVE  sent'[pending'[v].of] > 0
  <2>1. sent[pending[v].of] > 0
    BY <1>1 DEF StashWasSent
  <2> QED BY <1>1, <2>1, SentGrows
<1>2. CASE Still(v)
  BY <1>1, <1>2 DEF Still
<1>3. ASSUME Clears(v) PROVE FALSE
  BY <1>3 DEF Clears, NoPending
<1>4. CASE UNCHANGED vars
  BY <1>1, <1>4 DEF vars, workers
<1>5. ASSUME NEW n \in {0, 1}, Refuse(v, n) PROVE sent'[pending'[v].of] > 0
  <2>1. CASE n = 0
    BY <1>4, <1>5, <2>1 DEF RefusesAtOnce
  <2>2. CASE n = 1
    <3>1. /\ pending[v].of = job[v] /\ pending'[v].of = job[v]
          /\ sent' = Add(sent, job[v], 1)
      BY <1>5, <2>2 DEF Refuse, OwnStash
    <3>2. sent'[job[v]] = sent[job[v]] + 1 /\ sent[job[v]] \in Nat
      BY <3>1, AddTypes
    <3> QED BY <3>1, <3>2
  <2> QED BY <2>1, <2>2
<1>6. ASSUME NEW answer \in Answers, Request(v, answer) PROVE sent'[pending'[v].of] > 0
  <2>1. /\ pending[v].of = job[v] /\ pending'[v].of = pending[v].of
        /\ sent' = Add(sent, job[v], 1)
    BY <1>6 DEF Request, Answered, OwnStash
  <2>2. sent'[job[v]] = sent[job[v]] + 1 /\ sent[job[v]] \in Nat
    BY <2>1, AddTypes
  <2> QED BY <2>1, <2>2
<1>7. CASE Prepare(v)
  BY <1>7 DEF Prepare, Goes
<1>8. CASE \/ Load(v) \/ CannotRender(v) \/ SettleQuietly(v) \/ Fails(v) \/ HookHasNothing(v)
           \/ \E d \in Deliveries : Claim(v, d)
  BY <1>1, <1>8 DEF Load, CannotRender, SettleQuietly, Fails, Counts, HookHasNothing, Claim
<1>9. CASE LosesTheRow(v) \/ HookRecords(v)
  BY <1>1, <1>3, <1>9 DEF LosesTheRow, HookRecords, Writes
<1>10. CASE SettleDelivered(v) \/ RecordFails(v) \/ HookFails(v) \/ HookNotes(v) \/ Crash(v)
  BY <1>3, <1>10 DEF SettleDelivered, RecordFails, HookFails, HookNotes, Crash
<1> QED
  BY <1>2, <1>5, <1>6, <1>7, <1>8, <1>9, <1>10, StillOrSteps DEF Steps, Works

\* And what is noted was sent.
LEMMA NotedWasSentStep ==
    DeliveryTypes /\ StashWasSent /\ DeathsHadARequest /\ [Next]_vars => DeathsHadARequest'
<1> SUFFICES ASSUME DeliveryTypes, StashWasSent, DeathsHadARequest, [Next]_vars,
                    NEW d \in Deliveries, noted'[d] > 0
             PROVE  sent'[d] > 0
  BY DEF DeathsHadARequest
<1>1. ASSUME noted[d] > 0 PROVE sent'[d] > 0
  <2>1. sent[d] > 0
    BY <1>1 DEF DeathsHadARequest
  <2> QED BY <2>1, SentGrows
<1>2. ASSUME NEW w \in Workers, HookNotes(w), noted[d] # noted'[d] PROVE sent'[d] > 0
  <2>1. pending[w].of = d /\ pc[w] = "note"
    BY <1>2 DEF HookNotes, Add, DeliveryTypes, TypeOK
  <2>2. sent[d] > 0
    BY <2>1 DEF StashWasSent
  <2> QED BY <2>2, SentGrows
<1> QED BY <1>1, <1>2, DeadStaysDead

-----------------------------------------------------------------------------
(* Theorems *)

\* Every variable keeps to its type, for any workers, deliveries and budget.
THEOREM DeliveryTypeCorrect == Spec => []TypeOK
<1>1. DeliveryTypes => TypeOK
  BY DEF DeliveryTypes
<1> QED BY <1>1, DeliveryTyped, PTL

\* An acknowledged delivery was answered 2xx and has its log rows.
THEOREM AcknowledgedWithEvidence == Spec => []DeliveredIsLogged
<1>1. Init => Landed /\ DeliveredIsLogged
  BY DEF Init, Landed, DeliveredIsLogged
<1> QED
  BY <1>1, DeliveryTyped, LandedStep, EvidenceStep, PTL DEF Spec

\* The outer tier implements the promise made of every delivery: settled at most
\* once, called delivered only if answered 2xx, and dropped only if the endpoint
\* was off.
THEOREM ImplementsThePromise == Spec => KeepsThePromise
<1>1. Init => Promise!Init /\ Landed /\ OffIsSeen
  <2> SUFFICES ASSUME Init PROVE Promise!Init /\ Landed /\ OffIsSeen
    OBVIOUS
  <2>1. Promise!Init
    BY DEF Init, Promise!Init, Fate, Answered2xx
  <2>2. Landed /\ OffIsSeen
    BY DEF Init, Health!Init, Landed, OffIsSeen, On
  <2> QED
    BY <2>1, <2>2
<1> QED
  BY <1>1, DeliveryTyped, LandedStep, OffIsSeenStep, PromiseStep, PTL
     DEF Spec, KeepsThePromise, Promise!SafeSpec

\* Only a stash that outlived its delivery, found by the hook of one that raised
\* before it set its own, makes the failure hook count what did not die, count
\* it twice, miss a death, or switch an endpoint off for less than a threshold
\* of deaths: no crash, stall, redirect or refusal does.
THEOREM OnlyALeftoverMiscounts ==
    Spec /\ [][~RaisesOverALeftover]_vars
        => [](OnlyDeathsAreNoted /\ DeathsAreCounted /\ DeathsBehindTheCount)
<1>1. Init => Tally
  <2> SUFFICES ASSUME Init PROVE Tally
    OBVIOUS
  <2>1. Dead = {} /\ Noted = {}
    BY DEF Init, Dead, Noted
  <2> QED BY <2>1, FS_EmptySet DEF Init, Health!Init, Tally
<1>2. DeliveryTypes /\ NotedInv /\ Tally /\ [Next]_vars => Tally'
  BY TallyStep DEF NotedInv
<1>3. DeliveryTypes /\ NotedInv /\ Tally
        => OnlyDeathsAreNoted /\ DeathsAreCounted /\ DeathsBehindTheCount
  BY TallyMeans, CountedMeans DEF NotedInv
<1> QED
  BY <1>1, <1>2, <1>3, NotedInvariant, PTL DEF Spec

\* And none is found so, whatever crashes, where every format is published or
\* workers keep their leases.
THEOREM NoLeftoverIsMet ==
    ASSUME NoLeftovers PROVE Spec => [][~RaisesOverALeftover]_vars
<1>1. Init => OwnRow /\ NoStashYet
  BY DEF Init, OwnRow, NoStashYet
<1>2. DeliveryTypes /\ NoStashYet => ~RaisesOverALeftover
  BY DEF NoLeftovers, NoStashYet, RaisesOverALeftover, CannotRender
<1> QED
  BY <1>1, <1>2, OwnRowStep, NoStashYetStep, DeliveryTyped, PTL DEF Spec

\* So the failure hook counts only deliveries that died, each at most once.
THEOREM OnlyDeathsCount ==
    ASSUME NoLeftovers PROVE Spec => []OnlyDeathsAreNoted
BY NoLeftoverIsMet, OnlyALeftoverMiscounts, PTL

\* It misses none, short of a crash or a deletion.
THEOREM EveryDeathCounts ==
    ASSUME NoLeftovers PROVE Spec => []DeathsAreCounted
BY NoLeftoverIsMet, OnlyALeftoverMiscounts, PTL

\* And every death the endpoint is judged by is a delivery of its own that
\* died: it is switched off on this package's account only with a threshold's
\* worth of those behind it.
THEOREM TheDeadStandBehindTheCount ==
    ASSUME NoLeftovers PROVE Spec => []DeathsBehindTheCount
BY NoLeftoverIsMet, OnlyALeftoverMiscounts, PTL

\* Every request made is in a log row, in a stash, or gone, and in one of them only.
THEOREM NoRequestIsLostOrInvented == Spec => []RequestsAreAccountedFor
<1>1. Init => RequestsAreAccountedFor
  <2> SUFFICES ASSUME Init, NEW d \in Deliveries
               PROVE  sent[d] = logged[d] + lost[d] + Cardinality(Stashed(d))
    BY DEF RequestsAreAccountedFor
  <2>1. Stashed(d) = {}
    BY DEF Init, Stashed, Unwritten, NoPending
  <2> QED
    BY <2>1, FS_EmptySet DEF Init
<1> QED
  BY <1>1, DeliveryTyped, AccountedStep, PTL DEF Spec

\* Whatever crashes or stalls, a delivery costs its endpoint no more requests than
\* the two budgets multiply to, and one outer attempt more for each.
THEOREM BudgetsMultiplyOnly == Spec => []BudgetsMultiply
<1>1. Init => LetGo /\ WithinCharges
  <2> SUFFICES ASSUME Init PROVE LetGo /\ WithinCharges
    OBVIOUS
  <2>1. LetGo
    BY DEF Init, LetGo
  <2>2. ASSUME NEW d \in Deliveries
        PROVE  sent[d] + Cardinality(Held([w \in Workers |-> Room(w, d)]))
                   <= MaxRequests * Charges(d)
    <3>1. Held([w \in Workers |-> Room(w, d)]) = {}
      BY DEF Init, Held, Room
    <3>2. sent[d] = 0 /\ Charges(d) = 0
      BY <2>2 DEF Init, Charges, Open
    <3>3. Cardinality(Held([w \in Workers |-> Room(w, d)])) = 0
      BY <3>1, FS_EmptySet
    <3>4. MaxRequests * Charges(d) = 0
      BY <3>2
    <3> QED
      BY <3>2, <3>3, <3>4
  <2> QED
    BY <2>1, <2>2 DEF WithinCharges
<1> QED
  BY <1>1, DeliveryTyped, LetGoStep, WithinChargesStep, ChargesAreBudgeted, PTL DEF Spec

\* Whatever crashes or stalls, an endpoint that answered 2xx is asked again only
\* after a crash or a lost lease, and once for each.
THEOREM ASuccessIsFinal == Spec => []LandsOnce
<1>1. Init => LetGo /\ LandsWithin
  <2> SUFFICES ASSUME Init PROVE LetGo /\ LandsWithin
    OBVIOUS
  <2>1. LetGo
    BY DEF Init, LetGo
  <2>2. ASSUME NEW d \in Deliveries
        PROVE  landed[d] + Again(d) + Cardinality(Held([w \in Workers |-> Chance(w, d)]))
                   <= 1 + crashes + stalls
    <3>1. Held([w \in Workers |-> Chance(w, d)]) = {}
      BY DEF Init, Held, Chance
    <3>2. Cardinality(Held([w \in Workers |-> Chance(w, d)])) = 0
      BY <3>1, FS_EmptySet
    <3>3. landed[d] = 0 /\ Again(d) \in {0, 1} /\ crashes = 0 /\ stalls = 0
      BY DEF Init, Again
    <3> QED BY <3>2, <3>3
  <2> QED BY <2>1, <2>2 DEF LandsWithin
<1> QED
  BY <1>1, DeliveryTyped, LetGoStep, LandsWithinStep, LandsWithinMeans, PTL DEF Spec

\* Only a receiver that raises before its first request lets a delivery count
\* against the endpoint that was never sent to it: stale stashes, stalls, crashes
\* and unpublished formats do not.
THEOREM OnlyRefusalsCountUnsent ==
    Spec /\ [][~RefusesAtOnce]_vars => []DeathsHadARequest
<1>1. Init => StashWasSent /\ DeathsHadARequest
  BY DEF Init, NoPending, StashWasSent, DeathsHadARequest
<1> QED
  BY <1>1, DeliveryTyped, StashWasSentStep, NotedWasSentStep, PTL DEF Spec
=============================================================================
