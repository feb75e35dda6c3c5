---------------------- MODULE IntegrityOperationsProofs ----------------------
(***************************************************************************)
(* Machine-checked proofs about WebhookDelivery and IntegrityOperations:   *)
(* for any number of couriers that take over each other's rows, of         *)
(* reconcilers, anchors and rows.                                          *)
(***************************************************************************)
EXTENDS IntegrityOperations, SequenceTheorems, FiniteSetTheorems, TLAPS

\* A courier that was answered holds a row that has arrived.
AnsweredWasReceived ==
    \A p \in Couriers : Does(p, "answered") => courier[p].job \in received

\* Every anchor has its place in the turn of the reconciliations.
EveryAnchorHasATurn == \A s \in Subjects : \E i \in DOMAIN turn : turn[i] = s

\* A running reconciliation has a row to work on.
RunsHaveARow == \A r \in Reconcilers : ~InStep(r, "idle") => reconciler[r].batch # <<>>

DeliveryInv == DeliveryTypeOK /\ DeliveredWasReceived /\ AnsweredWasReceived
ReconciliationTypeOK ==
    /\ incident \in [1 .. MaxIncidents -> IncidentState]
    /\ content \in [Subjects -> Verdicts]
    /\ status \in [Subjects -> Verdicts \cup {"none", "error"}]
    /\ turn \in Seq(Subjects)
    /\ reconciler \in [Reconcilers -> ReconcilerState]
    /\ changes \in 0 .. MaxChanges

OperationsInv ==
    DeliveryInv /\ ReconciliationTypeOK /\ EveryAnchorHasATurn /\ RunsHaveARow

-------------------------------------------------------------------------------
LEMMA InvImpliesSound == OperationsInv => OperationsAreSound
BY DEF OperationsInv, DeliveryInv, ReconciliationTypeOK, OperationsAreSound, OperationsTypeOK

LEMMA RowStates ==
    /\ Absent \in RowState /\ Pending \in RowState
    /\ Absent.status = "absent" /\ Pending.status = "pending"
BY DEF Absent, Pending, RowState, Statuses

LEMMA RestingType == Resting \in CourierState /\ Resting.step = "idle"
<1>1. <<"alert", 1>> \in Rows
  BY DeliveryAssumption DEF Rows
<1> QED BY <1>1 DEF Resting, CourierState, Queues

LEMMA AlertRows == ASSUME NEW i \in 1 .. MaxIncidents PROVE <<"alert", i>> \in Rows
BY DEF Rows

\* What leaves the database alone and puts one courier into a legal state.
LEMMA CourierMoves ==
    ASSUME DeliveryInv, NEW p \in Couriers, NEW c \in CourierState,
           courier' = [courier EXCEPT ![p] = c], UNCHANGED <<row, received>>,
           c.step = "answered" => c.job \in received, faults' \in 0 .. MaxFaults
    PROVE  DeliveryInv'
<1> USE DEF DeliveryInv
<1>1. DeliveryTypeOK'
  BY DEF DeliveryTypeOK
<1>2. DeliveredWasReceived'
  BY DEF DeliveredWasReceived
<1>3. AnsweredWasReceived'
  BY DEF AnsweredWasReceived, Does, DeliveryTypeOK
<1> QED BY <1>1, <1>2, <1>3

\* One row gets a new state, which is "delivered" only if it has arrived.
LEMMA RowChanges ==
    ASSUME DeliveryInv, NEW r \in Rows, NEW new \in RowState,
           new.status = "delivered" => r \in received,
           row' = [row EXCEPT ![r] = new], UNCHANGED received
    PROVE  row' \in [Rows -> RowState] /\ DeliveredWasReceived'
BY DEF DeliveryInv, DeliveryTypeOK, DeliveredWasReceived

LEMMA FaultType == ASSUME faults \in 0 .. MaxFaults, Fault PROVE faults' \in 0 .. MaxFaults
BY DeliveryAssumption DEF Fault

-------------------------------------------------------------------------------
LEMMA ClaimPreserves ==
    ASSUME DeliveryInv, NEW p \in Couriers, Claim(p) PROVE DeliveryInv'
<1>0. PICK r \in NextRow(courier[p].queue) :
        /\ row' = [row EXCEPT ![r].status = "delivering", ![r].lock = "held",
                              ![r].attempts = @ + 1]
        /\ courier' = [courier EXCEPT ![p].step = "send", ![p].job = r,
                                      ![p].attempts = row[r].attempts + 1]
  BY DEF Claim
<1>1. r \in Rows
  BY DEF NextRow
<1>2. row[r] \in RowState /\ courier[p] \in CourierState
  BY <1>1 DEF DeliveryInv, DeliveryTypeOK
<1> DEFINE n == row[r].attempts + 1
           new == [row[r] EXCEPT !.status = "delivering", !.lock = "held", !.attempts = n]
           c == [courier[p] EXCEPT !.step = "send", !.job = r, !.attempts = n]
<1>3. n \in Nat
  BY <1>2 DEF RowState
<1>4. row' = [row EXCEPT ![r] = new] /\ courier' = [courier EXCEPT ![p] = c]
  BY <1>0
<1> HIDE DEF n
<1>5. new \in RowState /\ new.status = "delivering"
  BY <1>2, <1>3 DEF RowState, Statuses
<1>6. c \in CourierState /\ c.step = "send"
  BY <1>1, <1>2, <1>3 DEF CourierState
<1> HIDE DEF new, c
<1>7. received' = received /\ faults' = faults
  BY DEF Claim
<1>8. row' \in [Rows -> RowState] /\ DeliveredWasReceived'
  BY <1>1, <1>4, <1>5, <1>7, RowChanges
<1>9. courier \in [Couriers -> CourierState] /\ courier' \in [Couriers -> CourierState]
  BY <1>4, <1>6 DEF DeliveryInv, DeliveryTypeOK
<1>10. \A q \in Couriers : courier'[q] = IF q = p THEN c ELSE courier[q]
  BY <1>4, <1>9
<1>11. AnsweredWasReceived'
  BY <1>6, <1>7, <1>10 DEF AnsweredWasReceived, Does, DeliveryInv
<1> QED BY <1>7, <1>8, <1>9, <1>11 DEF DeliveryInv, DeliveryTypeOK

LEMMA EndLoopPreserves ==
    ASSUME DeliveryInv, NEW p \in Couriers, EndLoop(p) PROVE DeliveryInv'
<1> DEFINE c == [courier[p] EXCEPT !.queue = "archive",
                     !.step = IF courier[p].queue = "alert" THEN "claim" ELSE "count"]
<1>1. courier[p] \in CourierState
  BY DEF DeliveryInv, DeliveryTypeOK
<1>2. c \in CourierState /\ c.step # "answered"
  BY <1>1 DEF CourierState, Queues
<1>3. courier' = [courier EXCEPT ![p] = c]
  BY DEF EndLoop
<1> HIDE DEF c
<1> QED BY <1>2, <1>3, CourierMoves DEF EndLoop, DeliveryInv, DeliveryTypeOK

LEMMA PostPreserves ==
    ASSUME DeliveryInv, NEW p \in Couriers, Post(p) PROVE DeliveryInv'
<1> USE DEF DeliveryInv, DeliveryTypeOK
<1>1. courier[p] \in CourierState /\ courier[p].job \in Rows
  BY DEF CourierState
<1>2. received \subseteq received' /\ received' \subseteq Rows
  BY <1>1 DEF Post
<1>3. UNCHANGED <<row, faults>>
  BY DEF Post
<1>4. PICK s \in {"answered", "refused"} :
        /\ courier' = [courier EXCEPT ![p].step = s]
        /\ s = "answered" => courier[p].job \in received'
  BY DEF Post
<1>5. courier' \in [Couriers -> CourierState]
  BY <1>1, <1>4 DEF CourierState
<1>6. DeliveredWasReceived'
  BY <1>2, <1>3 DEF DeliveredWasReceived
<1>7. \A q \in Couriers : courier'[q].job = courier[q].job
  BY <1>4
<1>8. AnsweredWasReceived'
  BY <1>2, <1>4, <1>7 DEF AnsweredWasReceived, Does
<1> QED BY <1>2, <1>3, <1>5, <1>6, <1>8

\* The courier that settled a row forgets it.
LEMMA ForgetsType ==
    ASSUME DeliveryInv, NEW p \in Couriers
    PROVE  LET c == [Resting EXCEPT !.step = "claim", !.queue = courier[p].queue]
           IN  c \in CourierState /\ c.step = "claim"
<1>1. courier[p].queue \in Queues
  BY DEF DeliveryInv, DeliveryTypeOK, CourierState
<1>2. Resting \in CourierState
  BY RestingType
<1> QED BY <1>1, <1>2 DEF CourierState

\* One courier forgets its row after that row was settled.
LEMMA Settles ==
    ASSUME DeliveryInv, NEW p \in Couriers, NEW new \in RowState,
           new.status = "delivered" => courier[p].job \in received,
           row' = [row EXCEPT ![courier[p].job] = new],
           ClaimsNext(p), UNCHANGED <<received, faults>>
    PROVE  DeliveryInv'
<1> DEFINE c == [Resting EXCEPT !.step = "claim", !.queue = courier[p].queue]
<1>1. c \in CourierState /\ c.step = "claim"
  BY ForgetsType
<1>2. courier' = [courier EXCEPT ![p] = c]
  BY DEF ClaimsNext
<1> HIDE DEF c
<1>3. courier[p].job \in Rows
  BY DEF DeliveryInv, DeliveryTypeOK, CourierState
<1>4. row' \in [Rows -> RowState] /\ DeliveredWasReceived'
  BY <1>3, RowChanges
<1>5. AnsweredWasReceived'
  BY <1>1, <1>2 DEF AnsweredWasReceived, Does, DeliveryInv, DeliveryTypeOK
<1> QED BY <1>1, <1>2, <1>4, <1>5 DEF DeliveryInv, DeliveryTypeOK

LEMMA MarkDeliveredPreserves ==
    ASSUME DeliveryInv, NEW p \in Couriers, MarkDelivered(p) PROVE DeliveryInv'
<1> DEFINE job == courier[p].job
           new == [row[job] EXCEPT !.status = "delivered", !.lock = "none"]
           c == [courier[p] EXCEPT !.step = "refused"]
<1>1. courier[p] \in CourierState /\ job \in Rows /\ row[job] \in RowState
  BY DEF DeliveryInv, DeliveryTypeOK, CourierState
<1>2. CASE /\ row' = [row EXCEPT ![job].status = "delivered", ![job].lock = "none"]
           /\ ClaimsNext(p) /\ UNCHANGED faults
  <2>1. new \in RowState
    BY <1>1 DEF RowState, Statuses
  <2>2. row' = [row EXCEPT ![job] = new]
    BY <1>2
  <2>3. job \in received /\ UNCHANGED received
    BY DEF MarkDelivered, DeliveryInv, AnsweredWasReceived
  <2> HIDE DEF new
  <2> QED BY <1>2, <2>1, <2>2, <2>3, Settles
<1>3. CASE Fault /\ courier' = [courier EXCEPT ![p].step = "refused"] /\ UNCHANGED row
  <2>1. c \in CourierState /\ c.step = "refused" /\ courier' = [courier EXCEPT ![p] = c]
    BY <1>1, <1>3 DEF CourierState
  <2>2. faults' \in 0 .. MaxFaults /\ UNCHANGED received
    BY <1>3, FaultType DEF DeliveryInv, DeliveryTypeOK, MarkDelivered
  <2> HIDE DEF c
  <2> QED BY <1>3, <2>1, <2>2, CourierMoves
<1> QED BY <1>2, <1>3 DEF MarkDelivered

LEMMA MarkRefusedPreserves ==
    ASSUME DeliveryInv, NEW p \in Couriers, MarkRefused(p) PROVE DeliveryInv'
<1> DEFINE job == courier[p].job
           new == [row[job] EXCEPT
               !.status = IF courier[p].attempts >= MaxAttempts THEN "failed" ELSE "pending",
               !.lock = "none", !.due = FALSE]
<1>1. job \in Rows /\ row[job] \in RowState
  BY DEF DeliveryInv, DeliveryTypeOK, CourierState
<1>2. new \in RowState /\ new.status # "delivered"
  BY <1>1 DEF RowState, Statuses
<1>3. row' = [row EXCEPT ![job] = new] /\ ClaimsNext(p) /\ UNCHANGED <<received, faults>>
  BY DEF MarkRefused
<1> HIDE DEF new
<1> QED BY <1>2, <1>3, Settles

LEMMA AbandonPreserves ==
    ASSUME DeliveryInv, NEW p \in Couriers, Abandon(p) PROVE DeliveryInv'
<1>1. faults' \in 0 .. MaxFaults
  BY FaultType DEF Abandon, DeliveryInv, DeliveryTypeOK
<1> QED BY <1>1, RestingType, CourierMoves DEF Abandon

LEMMA TimePreserves ==
    ASSUME DeliveryInv, NEW r \in Rows, BecomeDue(r) \/ LockExpires(r) PROVE DeliveryInv'
<1>1. PICK new \in {[row[r] EXCEPT !.due = TRUE], [row[r] EXCEPT !.lock = "expired"]} :
        row' = [row EXCEPT ![r] = new]
  BY DEF BecomeDue, LockExpires
<1>2. row[r] \in RowState
  BY DEF DeliveryInv, DeliveryTypeOK
<1>3. new \in RowState /\ new.status = row[r].status
  BY <1>1, <1>2 DEF RowState
<1>4. UNCHANGED <<courier, received, faults>>
  BY DEF BecomeDue, LockExpires
<1>5. new.status = "delivered" => r \in received
  BY <1>3 DEF DeliveryInv, DeliveredWasReceived
<1>6. row' \in [Rows -> RowState] /\ DeliveredWasReceived'
  BY <1>1, <1>3, <1>4, <1>5, RowChanges
<1> QED BY <1>4, <1>6 DEF DeliveryInv, DeliveryTypeOK, AnsweredWasReceived, Does

LEMMA DeliverPreserves ==
    ASSUME DeliveryInv, NEW p \in Couriers, Deliver(p) PROVE DeliveryInv'
BY ClaimPreserves, EndLoopPreserves, PostPreserves, MarkDeliveredPreserves,
   MarkRefusedPreserves DEF Deliver

\* Taking a row out of the turn and putting it at the end keeps every anchor's.
LEMMA TurnGoesOn ==
    ASSUME turn \in Seq(Subjects), EveryAnchorHasATurn, NEW s \in Subjects,
           turn' = Append(RemoveAt(turn, PlaceOf(s)), s)
    PROVE  turn' \in Seq(Subjects) /\ EveryAnchorHasATurn'
<1> DEFINE n == Len(turn)
           k == PlaceOf(s)
           before == SubSeq(turn, 1, k - 1)
           after == SubSeq(turn, k + 1, n)
           rest == before \o after
<1>1. n \in Nat /\ DOMAIN turn = 1 .. n /\ \A i \in 1 .. n : turn[i] \in Subjects
  BY LenProperties, ElementOfSeq
<1>2. k \in 1 .. n /\ turn[k] = s
  BY <1>1 DEF EveryAnchorHasATurn, PlaceOf
<1> HIDE DEF n, k
<1>3. /\ before \in Seq(Subjects) /\ Len(before) = k - 1
      /\ \A i \in 1 .. k - 1 : before[i] = turn[i]
  <2>1. \A i \in 1 .. k - 1 : turn[i] \in Subjects
    BY <1>1, <1>2
  <2>2. 1 \in Int /\ k - 1 \in Int
    BY <1>1, <1>2
  <2>3. /\ before \in Seq(Subjects) /\ Len(before) = IF 1 <= k - 1 THEN k - 1 - 1 + 1 ELSE 0
        /\ \A i \in 1 .. k - 1 - 1 + 1 : before[i] = turn[1 + i - 1]
    BY <2>1, <2>2, SubSeqProperties
  <2> QED BY <1>1, <1>2, <2>3
<1>4. /\ after \in Seq(Subjects) /\ Len(after) = n - k
      /\ \A i \in 1 .. n - k : after[i] = turn[k + i]
  <2>1. \A i \in k + 1 .. n : turn[i] \in Subjects
    BY <1>1, <1>2
  <2>2. k + 1 \in Int /\ n \in Int
    BY <1>1, <1>2
  <2>3. /\ after \in Seq(Subjects) /\ Len(after) = IF k + 1 <= n THEN n - (k + 1) + 1 ELSE 0
        /\ \A i \in 1 .. n - (k + 1) + 1 : after[i] = turn[k + 1 + i - 1]
    BY <2>1, <2>2, SubSeqProperties
  <2> QED BY <1>1, <1>2, <2>3
<1> HIDE DEF before, after
<1>5. /\ rest \in Seq(Subjects) /\ Len(rest) = n - 1
      /\ \A i \in 1 .. n - 1 : rest[i] = IF i < k THEN turn[i] ELSE turn[i + 1]
  <2>1. /\ rest \in Seq(Subjects) /\ Len(rest) = Len(before) + Len(after)
        /\ \A i \in 1 .. Len(before) + Len(after) :
              rest[i] = IF i <= Len(before) THEN before[i] ELSE after[i - Len(before)]
    BY <1>3, <1>4, ConcatProperties
  <2>2. \A i \in 1 .. n - 1 : i < k => rest[i] = turn[i]
    BY <1>1, <1>2, <1>3, <1>4, <2>1
  <2>3. ASSUME NEW i \in 1 .. n - 1, ~(i < k) PROVE rest[i] = turn[i + 1]
    <3>1. i - (k - 1) \in 1 .. n - k /\ k + (i - (k - 1)) = i + 1
      BY <1>1, <1>2, <2>3
    <3>2. rest[i] = after[i - (k - 1)]
      BY <1>1, <1>2, <1>3, <1>4, <2>1, <2>3
    <3>3. after[i - (k - 1)] = turn[k + (i - (k - 1))]
      BY <1>4, <3>1
    <3> QED BY <3>1, <3>2, <3>3
  <2> QED BY <1>1, <1>2, <1>3, <1>4, <2>1, <2>2, <2>3
<1>6. turn' = Append(rest, s)
  BY DEF RemoveAt, n, k, before, after
<1> HIDE DEF rest
<1>7. /\ turn' \in Seq(Subjects) /\ Len(turn') = n
      /\ \A i \in 1 .. n - 1 : turn'[i] = rest[i]
      /\ turn'[n] = s
  BY <1>1, <1>5, <1>6, AppendProperties
<1>8. DOMAIN turn' = 1 .. n
  BY <1>7, LenProperties
<1>9. ASSUME NEW x \in Subjects PROVE \E i \in 1 .. n : turn'[i] = x
  <2>1. PICK i \in 1 .. n : turn[i] = x
    BY <1>1 DEF EveryAnchorHasATurn
  <2>2. CASE i < k
    <3>1. i \in 1 .. n - 1
      BY <1>1, <1>2, <2>2
    <3>2. turn'[i] = x
      BY <1>5, <1>7, <2>1, <2>2, <3>1
    <3> QED BY <3>2
  <2>3. CASE i = k
    <3>1. turn'[n] = x /\ n \in 1 .. n
      BY <1>1, <1>2, <1>7, <2>1, <2>3
    <3> QED BY <3>1
  <2>4. CASE i > k
    <3>1. i - 1 \in 1 .. n - 1 /\ i - 1 \in 1 .. n /\ ~(i - 1 < k) /\ i - 1 + 1 = i
      BY <1>1, <1>2, <2>1, <2>4
    <3>2. turn'[i - 1] = x
      BY <1>5, <1>7, <2>1, <3>1
    <3> QED BY <3>1, <3>2
  <2>5. i < k \/ i = k \/ i > k
    BY <1>1, <1>2
  <2> QED BY <2>2, <2>3, <2>4, <2>5
<1> QED BY <1>7, <1>8, <1>9 DEF EveryAnchorHasATurn

\* An incident is raised or resolved: no row is called delivered by it.
LEMMA IncidentChanges ==
    ASSUME OperationsInv, NEW topic \in Topics, NEW severity \in {"warning", "critical"},
           Raise(topic, severity) \/ Resolve(topic), UNCHANGED received
    PROVE  /\ row' \in [Rows -> RowState] /\ DeliveredWasReceived'
           /\ incident' \in [1 .. MaxIncidents -> IncidentState]
<1>0. incident \in [1 .. MaxIncidents -> IncidentState] /\ row \in [Rows -> RowState]
  BY DEF OperationsInv, ReconciliationTypeOK, DeliveryInv, DeliveryTypeOK
<1>1. CASE Resolve(topic)
  <2>1. ASSUME NEW i \in 1 .. MaxIncidents
        PROVE  [incident[i] EXCEPT !.state = "resolved"] \in IncidentState
    BY <1>0 DEF IncidentState
  <2>2. incident' \in [1 .. MaxIncidents -> IncidentState]
    BY <1>0, <1>1, <2>1 DEF Resolve
  <2> QED BY <1>0, <1>1, <2>2 DEF Resolve, OperationsInv, DeliveryInv, DeliveredWasReceived
<1>2. CASE Raise(topic, severity)
  <2>1. PICK i \in IF OpenFor(topic) # {} THEN OpenFor(topic) ELSE First(Unused) :
            /\ incident' = [incident EXCEPT ![i] =
                   [state |-> "open", topic |-> topic, severity |-> severity]]
            /\ row' = [row EXCEPT ![<<"alert", i>>] =
                   IF AlertsConfigured /\ @ = Absent THEN Pending ELSE @]
    BY <1>2 DEF Raise
  <2>2. i \in 1 .. MaxIncidents
    BY DEF OpenFor, First, Unused
  <2>3. [state |-> "open", topic |-> topic, severity |-> severity] \in IncidentState
    BY DEF IncidentState
  <2>4. incident' \in [1 .. MaxIncidents -> IncidentState]
    BY <1>0, <2>1, <2>3
  <2> DEFINE r == <<"alert", i>>
             new == IF AlertsConfigured /\ row[r] = Absent THEN Pending ELSE row[r]
  <2>5. r \in Rows
    BY <2>2, AlertRows
  <2>6. row' = [row EXCEPT ![r] = new]
    BY <2>1
  <2> HIDE DEF r
  <2>7. new \in RowState /\ (new.status = "delivered" => row[r].status = "delivered")
    BY <1>0, <2>5, RowStates
  <2> HIDE DEF new
  <2>8. new.status = "delivered" => r \in received
    BY <2>5, <2>7 DEF OperationsInv, DeliveryInv, DeliveredWasReceived
  <2> QED BY <2>4, <2>5, <2>6, <2>7, <2>8, RowChanges DEF OperationsInv
<1> QED BY <1>1, <1>2

\* The row a running reconciliation is at.
LEMMA CurrentType ==
    ASSUME OperationsInv, NEW r \in Reconcilers, ~InStep(r, "idle")
    PROVE  /\ Current(r) \in [of : Subjects, verdict : Verdicts]
           /\ Tail(reconciler[r].batch) \in Seq([of : Subjects, verdict : Verdicts])
<1>1. reconciler[r].batch \in Seq([of : Subjects, verdict : Verdicts])
  BY DEF OperationsInv, ReconciliationTypeOK, ReconcilerState
<1>2. reconciler[r].batch # <<>>
  BY DEF OperationsInv, RunsHaveARow
<1> QED BY <1>1, <1>2, HeadTailProperties DEF Current

LEMMA ReconcilerSteps ==
    ASSUME OperationsInv, NEW r \in Reconcilers, NEW new \in ReconcilerState,
           new.step # "idle" => new.batch # <<>>,
           reconciler' = [reconciler EXCEPT ![r] = new]
    PROVE  reconciler' \in [Reconcilers -> ReconcilerState] /\ RunsHaveARow'
BY DEF OperationsInv, ReconciliationTypeOK, RunsHaveARow, InStep

\* A reconciliation goes to another step, or on to its next row, or ends.
LEMMA ReconcilerMoves ==
    ASSUME OperationsInv, NEW r \in Reconcilers, ~InStep(r, "idle"),
           NEW step \in {"mark", "report", "markError", "reportError"}, Moves(r, step)
    PROVE  reconciler' \in [Reconcilers -> ReconcilerState] /\ RunsHaveARow'
<1> DEFINE new == [reconciler[r] EXCEPT !.step = step]
<1>1. reconciler[r] \in ReconcilerState /\ reconciler[r].batch # <<>>
  BY DEF OperationsInv, ReconciliationTypeOK, RunsHaveARow
<1>2. new \in ReconcilerState /\ new.batch # <<>>
  BY <1>1 DEF ReconcilerState
<1>3. reconciler' = [reconciler EXCEPT ![r] = new]
  BY DEF Moves
<1> HIDE DEF new
<1> QED BY <1>2, <1>3, ReconcilerSteps

LEMMA ReconcilerEnds ==
    ASSUME OperationsInv, NEW r \in Reconcilers,
           reconciler' = [reconciler EXCEPT ![r] = [step |-> "idle", batch |-> <<>>]]
    PROVE  reconciler' \in [Reconcilers -> ReconcilerState] /\ RunsHaveARow'
<1>1. <<>> \in Seq([of : Subjects, verdict : Verdicts])
  BY EmptySeq
<1>2. [step |-> "idle", batch |-> <<>>] \in ReconcilerState
  BY <1>1 DEF ReconcilerState
<1> QED BY <1>2, ReconcilerSteps

LEMMA ReconcilerAdvances ==
    ASSUME OperationsInv, NEW r \in Reconcilers, ~InStep(r, "idle"), Advances(r)
    PROVE  reconciler' \in [Reconcilers -> ReconcilerState] /\ RunsHaveARow'
<1> DEFINE rest == Tail(reconciler[r].batch)
           new == [step |-> "read", batch |-> rest]
<1>1. rest \in Seq([of : Subjects, verdict : Verdicts])
  BY CurrentType
<1>2. reconciler' = [reconciler EXCEPT ![r] =
          IF rest = <<>> THEN [step |-> "idle", batch |-> <<>>] ELSE new]
  BY DEF Advances
<1> HIDE DEF rest
<1>3. new \in ReconcilerState /\ new.batch = rest
  BY <1>1 DEF ReconcilerState
<1> HIDE DEF new
<1>4. CASE rest = <<>>
  BY <1>2, <1>4, ReconcilerEnds
<1>5. CASE rest # <<>>
  BY <1>2, <1>3, <1>5, ReconcilerSteps
<1> QED BY <1>4, <1>5

\* What a reconciliation writes into the row.
LEMMA MarkedType ==
    ASSUME OperationsInv, NEW s \in Subjects,
           NEW verdict \in Verdicts \cup {"error"}, Marked(s, verdict)
    PROVE  /\ status' \in [Subjects -> Verdicts \cup {"none", "error"}]
           /\ turn' \in Seq(Subjects) /\ EveryAnchorHasATurn'
BY TurnGoesOn DEF Marked, OperationsInv, ReconciliationTypeOK

LEMMA SelectBatchPreserves ==
    ASSUME OperationsInv, NEW r \in Reconcilers, SelectBatch(r) PROVE OperationsInv'
<1> DEFINE n == IF BatchSize < Len(turn) THEN BatchSize ELSE Len(turn)
           Entry(i) == [of |-> turn[i], verdict |-> content[turn[i]]]
           Entries == [of : Subjects, verdict : Verdicts]
           batch == [i \in 1 .. n |-> Entry(i)]
           new == [step |-> "read", batch |-> batch]
<1>0. /\ turn \in Seq(Subjects) /\ content \in [Subjects -> Verdicts]
      /\ reconciler \in [Reconcilers -> ReconcilerState]
  BY DEF OperationsInv, ReconciliationTypeOK
<1>1. Len(turn) \in Nat /\ Len(turn) # 0
  <2>1. Len(turn) \in Nat /\ DOMAIN turn = 1 .. Len(turn)
    BY <1>0, LenProperties
  <2>2. PICK i \in DOMAIN turn : TRUE
    BY OperationsAssumption DEF OperationsInv, EveryAnchorHasATurn
  <2> QED BY <2>1, <2>2
<1>2. n \in Nat /\ n # 0 /\ n <= Len(turn)
  BY <1>1, OperationsAssumption
<1>3. \A i \in 1 .. n : Entry(i) \in Entries
  <2> TAKE i \in 1 .. n
  <2>1. turn[i] \in Subjects
    BY <1>0, <1>1, <1>2, ElementOfSeq
  <2> QED BY <1>0, <2>1
<1>4. batch \in [1 .. n -> Entries]
  BY <1>3
<1>5. batch \in Seq(Entries)
  <2> HIDE DEF n, Entries, batch
  <2>1. [1 .. n -> Entries] \subseteq UNION {[1 .. m -> Entries] : m \in Nat}
    BY <1>2
  <2> QED BY <1>4, <2>1, SeqDef
<1>6. batch # <<>>
  BY <1>2, <1>5, LenProperties, EmptySeq
<1>7. reconciler' = [reconciler EXCEPT ![r] = new]
  BY DEF SelectBatch
<1> HIDE DEF batch
<1>8. new \in ReconcilerState /\ new.batch # <<>>
  BY <1>5, <1>6 DEF ReconcilerState
<1> HIDE DEF new
<1>9. reconciler' \in [Reconcilers -> ReconcilerState] /\ RunsHaveARow'
  BY <1>0, <1>7, <1>8 DEF RunsHaveARow, InStep, OperationsInv
<1>10. UNCHANGED <<row, courier, received, faults, incident, content, status, turn, changes>>
  BY DEF SelectBatch, deliveryVars
<1> QED BY <1>9, <1>10 DEF OperationsInv, DeliveryInv, DeliveryTypeOK, DeliveredWasReceived,
          AnsweredWasReceived, Does, ReconciliationTypeOK, EveryAnchorHasATurn

LEMMA ReconcilePreserves ==
    ASSUME OperationsInv, NEW r \in Reconcilers, Reconcile(r) PROVE OperationsInv'
<1> DEFINE s == Current(r).of
           v == Current(r).verdict
<1>0. CASE SelectBatch(r)
  BY <1>0, SelectBatchPreserves
<1>1. ~SelectBatch(r) => ~InStep(r, "idle")
  BY DEF Reconcile, ReadAnchor, Mark, Report, MarkError, ReportError, InStep
<1>2. ~InStep(r, "idle") => s \in Subjects /\ v \in Verdicts
  BY CurrentType
<1>3. \A x \in Subjects : x \in Topics
  BY DEF Topics
<1>4. faults \in 0 .. MaxFaults
  BY DEF OperationsInv, DeliveryInv, DeliveryTypeOK
<1> HIDE DEF s, v
<1>5. CASE ReadAnchor(r)
  <2>1. faults' \in 0 .. MaxFaults
    BY <1>4, <1>5, FaultType DEF ReadAnchor
  <2>2. ~InStep(r, "idle") /\ (Moves(r, "mark") \/ Moves(r, "markError"))
    BY <1>5 DEF ReadAnchor, InStep
  <2>3. reconciler' \in [Reconcilers -> ReconcilerState] /\ RunsHaveARow'
    BY <2>2, ReconcilerMoves, ReconcilerAdvances
  <2>4. UNCHANGED <<row, courier, received, incident, content, status, turn, changes>>
    BY <1>5 DEF ReadAnchor
  <2> QED BY <2>1, <2>3, <2>4 DEF OperationsInv, DeliveryInv, DeliveryTypeOK, Does,
            DeliveredWasReceived, AnsweredWasReceived, ReconciliationTypeOK, EveryAnchorHasATurn
<1>6. CASE Mark(r)
  <2>1. faults' \in 0 .. MaxFaults
    BY <1>4, <1>6, FaultType DEF Mark
  <2>2. ~InStep(r, "idle") /\ (Moves(r, "report") \/ Moves(r, "markError"))
    BY <1>6 DEF Mark, InStep
  <2>3. reconciler' \in [Reconcilers -> ReconcilerState] /\ RunsHaveARow'
    BY <2>2, ReconcilerMoves, ReconcilerAdvances
  <2>4. Marked(s, v) \/ UNCHANGED <<status, turn>>
    BY <1>6 DEF Mark, s, v
  <2>5. /\ status' \in [Subjects -> Verdicts \cup {"none", "error"}]
        /\ turn' \in Seq(Subjects) /\ EveryAnchorHasATurn'
    BY <1>2, <2>2, <2>4, MarkedType
       DEF OperationsInv, ReconciliationTypeOK, EveryAnchorHasATurn
  <2>6. UNCHANGED <<row, courier, received, incident, content, changes>>
    BY <1>6 DEF Mark
  <2> QED BY <2>1, <2>3, <2>5, <2>6 DEF OperationsInv, DeliveryInv, DeliveryTypeOK, Does,
            DeliveredWasReceived, AnsweredWasReceived, ReconciliationTypeOK
<1>7. CASE Report(r)
  <2>1. faults' \in 0 .. MaxFaults
    BY <1>4, <1>7, FaultType DEF Report
  <2>2. ~InStep(r, "idle") /\ (Advances(r) \/ Moves(r, "markError"))
    BY <1>7 DEF Report, InStep
  <2>3. reconciler' \in [Reconcilers -> ReconcilerState] /\ RunsHaveARow'
    BY <2>2, ReconcilerMoves, ReconcilerAdvances
  <2>4. UNCHANGED <<courier, received, content, status, turn, changes>>
    BY <1>7 DEF Report
  <2>5. Raise(s, "critical") \/ Resolve(s) \/ UNCHANGED <<incident, row>>
    BY <1>7 DEF Report, s
  <2>6. /\ row' \in [Rows -> RowState] /\ DeliveredWasReceived'
        /\ incident' \in [1 .. MaxIncidents -> IncidentState]
    <3>1. CASE Raise(s, "critical") \/ Resolve(s)
      BY <1>2, <1>3, <2>2, <2>4, <3>1, IncidentChanges
    <3>2. CASE UNCHANGED <<incident, row>>
      BY <2>4, <3>2 DEF OperationsInv, DeliveryInv, DeliveryTypeOK, DeliveredWasReceived,
         ReconciliationTypeOK
    <3> QED BY <2>5, <3>1, <3>2
  <2> QED BY <2>1, <2>3, <2>4, <2>6 DEF OperationsInv, DeliveryInv, DeliveryTypeOK, Does,
            AnsweredWasReceived, ReconciliationTypeOK, EveryAnchorHasATurn
<1>8. CASE MarkError(r)
  <2>1. ~InStep(r, "idle") /\ Moves(r, "reportError")
    BY <1>8 DEF MarkError, InStep
  <2>2. reconciler' \in [Reconcilers -> ReconcilerState] /\ RunsHaveARow'
    BY <2>1, ReconcilerMoves, ReconcilerAdvances
  <2>3. Marked(s, "error")
    BY <1>8 DEF MarkError, s
  <2>4. /\ status' \in [Subjects -> Verdicts \cup {"none", "error"}]
        /\ turn' \in Seq(Subjects) /\ EveryAnchorHasATurn'
    BY <1>2, <2>1, <2>3, MarkedType
  <2>5. UNCHANGED <<row, courier, received, faults, incident, content, changes>>
    BY <1>8 DEF MarkError, deliveryVars
  <2> QED BY <2>2, <2>4, <2>5 DEF OperationsInv, DeliveryInv, DeliveryTypeOK, Does,
            DeliveredWasReceived, AnsweredWasReceived, ReconciliationTypeOK
<1>9. CASE ReportError(r)
  <2>1. ~InStep(r, "idle") /\ Advances(r) /\ Raise(s, "warning")
    BY <1>9 DEF ReportError, InStep, s
  <2>2. reconciler' \in [Reconcilers -> ReconcilerState] /\ RunsHaveARow'
    BY <2>1, ReconcilerMoves, ReconcilerAdvances
  <2>3. UNCHANGED <<courier, received, faults, content, status, turn, changes>>
    BY <1>9 DEF ReportError
  <2>4. /\ row' \in [Rows -> RowState] /\ DeliveredWasReceived'
        /\ incident' \in [1 .. MaxIncidents -> IncidentState]
    BY <1>2, <1>3, <2>1, <2>3, IncidentChanges
  <2> QED BY <2>2, <2>3, <2>4 DEF OperationsInv, DeliveryInv, DeliveryTypeOK, Does,
            AnsweredWasReceived, ReconciliationTypeOK, EveryAnchorHasATurn
<1> QED BY <1>0, <1>5, <1>6, <1>7, <1>8, <1>9 DEF Reconcile

LEMMA AbandonBatchPreserves ==
    ASSUME OperationsInv, NEW r \in Reconcilers, AbandonBatch(r) PROVE OperationsInv'
<1>1. faults' \in 0 .. MaxFaults
  BY FaultType DEF AbandonBatch, OperationsInv, DeliveryInv, DeliveryTypeOK
<1>2. reconciler' \in [Reconcilers -> ReconcilerState] /\ RunsHaveARow'
  BY ReconcilerEnds DEF AbandonBatch
<1>3. UNCHANGED <<row, courier, received, incident, content, status, turn, changes>>
  BY DEF AbandonBatch
<1> QED BY <1>1, <1>2, <1>3 DEF OperationsInv, DeliveryInv, DeliveryTypeOK, Does,
      DeliveredWasReceived, AnsweredWasReceived, ReconciliationTypeOK, EveryAnchorHasATurn

-------------------------------------------------------------------------------
\* The steps of the worker's timer around the two delivery loops.
LEMMA WorkPreserves ==
    ASSUME OperationsInv, NEW p \in Couriers, Work(p) PROVE OperationsInv'
<1>0. /\ courier \in [Couriers -> CourierState] /\ courier[p] \in CourierState
      /\ faults \in 0 .. MaxFaults /\ DeliveryInv
  BY DEF OperationsInv, DeliveryInv, DeliveryTypeOK
<1>1. ASSUME DeliveryInv', UNCHANGED opsVars PROVE OperationsInv'
  BY <1>1 DEF opsVars, OperationsInv, ReconciliationTypeOK, EveryAnchorHasATurn, RunsHaveARow, InStep
<1>2. CASE StartRun(p)
  <2> DEFINE c == [courier[p] EXCEPT
                   !.step = "claim", !.queue = IF AlertsConfigured THEN "alert" ELSE "archive"]
  <2>1. c \in CourierState /\ c.step = "claim"
    BY <1>0 DEF CourierState, Queues
  <2>2. courier' = [courier EXCEPT ![p] = c] /\ UNCHANGED <<row, received, faults, opsVars>>
    BY <1>2 DEF StartRun
  <2> HIDE DEF c
  <2>3. DeliveryInv'
    BY <1>0, <2>1, <2>2, CourierMoves
  <2> QED BY <1>1, <2>2, <2>3
<1>3. CASE CountFailures(p)
  <2> DEFINE c == [courier[p] EXCEPT !.step = "report", !.failures = ArchiveFailed]
  <2>0. ArchiveFailed \in BOOLEAN
    BY DEF ArchiveFailed
  <2>1. c \in CourierState /\ c.step = "report"
    BY <1>0, <2>0 DEF CourierState
  <2>2. courier' = [courier EXCEPT ![p] = c] /\ UNCHANGED <<row, received, faults, opsVars>>
    BY <1>3 DEF CountFailures
  <2> HIDE DEF c
  <2>3. DeliveryInv'
    BY <1>0, <2>1, <2>2, CourierMoves
  <2> QED BY <1>1, <2>2, <2>3
<1>4. CASE SetWorkerIncident(p)
  <2>1. UNCHANGED <<received, faults, content, status, turn, reconciler, changes>>
    BY <1>4 DEF SetWorkerIncident
  <2>2. /\ row' \in [Rows -> RowState] /\ DeliveredWasReceived'
        /\ incident' \in [1 .. MaxIncidents -> IncidentState]
    <3>1. Raise(ArchiveWorker, "warning") \/ Resolve(ArchiveWorker)
      BY <1>4 DEF SetWorkerIncident
    <3>2. ArchiveWorker \in Topics
      BY DEF Topics
    <3> QED BY <2>1, <3>1, <3>2, IncidentChanges
  <2>3. courier' = [courier EXCEPT ![p] = Resting]
    BY <1>4 DEF SetWorkerIncident
  <2>4. courier' \in [Couriers -> CourierState] /\ AnsweredWasReceived'
    BY <1>0, <2>1, <2>3, RestingType DEF AnsweredWasReceived, Does, DeliveryInv
  <2> QED BY <2>1, <2>2, <2>4 DEF OperationsInv, DeliveryInv, DeliveryTypeOK,
            ReconciliationTypeOK, EveryAnchorHasATurn, RunsHaveARow, InStep
<1>5. CASE Deliver(p) /\ UNCHANGED opsVars
  BY <1>0, <1>1, <1>5, DeliverPreserves
<1> QED BY <1>2, <1>3, <1>4, <1>5 DEF Work

LEMMA AppendArchivePreserves == OperationsInv /\ AppendArchive => OperationsInv'
<1> SUFFICES ASSUME OperationsInv, AppendArchive PROVE OperationsInv'
  OBVIOUS
<1>1. PICK n \in 1 .. MaxArchived :
          /\ row' = [row EXCEPT ![<<"archive", n>>] = Pending]
          /\ UNCHANGED <<courier, received, faults, opsVars>>
  BY DEF AppendArchive
<1>2. <<"archive", n>> \in Rows
  BY DEF Rows
<1>3. row' \in [Rows -> RowState] /\ DeliveredWasReceived'
  BY <1>1, <1>2, RowChanges, RowStates DEF OperationsInv
<1> QED BY <1>1, <1>3 DEF opsVars, OperationsInv, DeliveryInv, DeliveryTypeOK, Does,
      AnsweredWasReceived, ReconciliationTypeOK, EveryAnchorHasATurn, RunsHaveARow, InStep

LEMMA ContentPreserves == OperationsInv /\ ContentChanges => OperationsInv'
<1> SUFFICES ASSUME OperationsInv, ContentChanges PROVE OperationsInv'
  OBVIOUS
<1>1. content' \in [Subjects -> Verdicts]
  BY DEF ContentChanges, OperationsInv, ReconciliationTypeOK
<1>2. changes' \in 0 .. MaxChanges
  BY OperationsAssumption DEF ContentChanges, OperationsInv, ReconciliationTypeOK
<1>3. UNCHANGED <<row, courier, received, faults, incident, status, turn, reconciler>>
  BY DEF ContentChanges, deliveryVars
<1> QED BY <1>1, <1>2, <1>3 DEF OperationsInv, DeliveryInv, DeliveryTypeOK, Does,
      DeliveredWasReceived, AnsweredWasReceived, ReconciliationTypeOK, EveryAnchorHasATurn,
      RunsHaveARow, InStep

LEMMA InitEstablishes == Init => OperationsInv
<1> SUFFICES ASSUME Init PROVE OperationsInv
  OBVIOUS
<1> USE DEF Init
<1>1. DeliveryTypeOK
  BY RowStates, RestingType, DeliveryAssumption DEF DeliveryTypeOK
<1>2. DeliveredWasReceived /\ AnsweredWasReceived
  BY RowStates, RestingType DEF DeliveredWasReceived, AnsweredWasReceived, Does
<1>3. incident \in [1 .. MaxIncidents -> IncidentState]
  <2>1. [state |-> "none", topic |-> ArchiveWorker, severity |-> "warning"] \in IncidentState
    BY DEF IncidentState, Topics
  <2> QED BY <2>1
<1>4. content \in [Subjects -> Verdicts] /\ status \in [Subjects -> Verdicts \cup {"none", "error"}]
  BY DEF Verdicts
<1>5. turn \in Seq(Subjects) /\ EveryAnchorHasATurn
  <2>1. Cardinality(Subjects) \in Nat
    BY OperationsAssumption, FS_CardinalityType
  <2>2. [1 .. Cardinality(Subjects) -> Subjects] \subseteq UNION {[1 .. m -> Subjects] : m \in Nat}
    BY <2>1
  <2> QED BY <2>2, SeqDef DEF EveryAnchorHasATurn
<1>6. reconciler \in [Reconcilers -> ReconcilerState] /\ RunsHaveARow
  <2>1. [step |-> "idle", batch |-> <<>>] \in ReconcilerState
    BY EmptySeq DEF ReconcilerState
  <2> QED BY <2>1 DEF RunsHaveARow, InStep
<1>7. changes \in 0 .. MaxChanges
  BY OperationsAssumption
<1> QED BY <1>1, <1>2, <1>3, <1>4, <1>5, <1>6, <1>7
        DEF OperationsInv, DeliveryInv, ReconciliationTypeOK

LEMMA StepPreserves == OperationsInv /\ [Next]_vars => OperationsInv'
<1> SUFFICES ASSUME OperationsInv, [Next]_vars PROVE OperationsInv'
  OBVIOUS
<1>1. ASSUME DeliveryInv', UNCHANGED opsVars PROVE OperationsInv'
  BY <1>1 DEF opsVars, OperationsInv, ReconciliationTypeOK, EveryAnchorHasATurn, RunsHaveARow, InStep
<1>2. CASE \E p \in Couriers : Work(p) \/ (Abandon(p) /\ UNCHANGED opsVars)
  BY <1>1, <1>2, WorkPreserves, AbandonPreserves DEF OperationsInv
<1>3. CASE \E r \in Reconcilers : Reconcile(r) \/ AbandonBatch(r)
  BY <1>3, ReconcilePreserves, AbandonBatchPreserves
<1>4. CASE \E r \in Rows : (BecomeDue(r) \/ LockExpires(r)) /\ UNCHANGED opsVars
  BY <1>1, <1>4, TimePreserves DEF OperationsInv
<1>5. CASE AppendArchive \/ ContentChanges
  BY <1>5, AppendArchivePreserves, ContentPreserves
<1>6. CASE UNCHANGED vars
  BY <1>6 DEF vars, deliveryVars, opsVars, OperationsInv, DeliveryInv, DeliveryTypeOK, Does,
     DeliveredWasReceived, AnsweredWasReceived, ReconciliationTypeOK, EveryAnchorHasATurn,
     RunsHaveARow, InStep
<1> QED BY <1>2, <1>3, <1>4, <1>5, <1>6 DEF Next

\* What the outbox tables call delivered has arrived at the webhook, though a row
\* may be held by a courier that lost it and settled by another one: for any
\* number of processes, rows, anchors, crashes and errors.
THEOREM DeliveryIsTrue == Spec => []OperationsAreSound
<1>1. Spec => []OperationsInv
  BY InitEstablishes, StepPreserves, PTL DEF Spec
<1> QED BY <1>1, InvImpliesSound, PTL
===============================================================================
