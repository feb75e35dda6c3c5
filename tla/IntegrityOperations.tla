------------------------- MODULE IntegrityOperations -------------------------
(***************************************************************************)
(* Incidents and what raises, resolves and announces them                  *)
(* (backend/src/integrity/operations.ts and the timers of                  *)
(* integrityWorker.ts): reconciliation of confirmed anchors, the worker's  *)
(* report on the archive outbox, and the alert rows that WebhookDelivery   *)
(* delivers.  Every process runs both timers, one run of each at a time.   *)
(*                                                                         *)
(* A reconciliation compares the row it read with the entry on the chain,  *)
(* writes the verdict into the row and then opens or resolves an incident, *)
(* in three database transactions.                                         *)
(***************************************************************************)
EXTENDS WebhookDelivery, SequencesExt

CONSTANTS
    Subjects,       \* confirmed anchors
    Defects,        \* verdicts other than "verified": missing, mismatch
    Reconcilers,    \* processes running the reconciliation timer
    AlertsConfigured,   \* stellarIntegrityConfig.alertWebhookUrl is set
    BatchSize,      \* stellarIntegrityConfig.reconciliationBatchSize
    MaxChanges      \* bounds how often a row is damaged or repaired

ASSUME OperationsAssumption ==
    /\ BatchSize \in Nat \ {0}
    /\ AlertsConfigured \in BOOLEAN
    /\ MaxChanges \in Nat
    /\ IsFiniteSet(Subjects) /\ Subjects # {}
    /\ "verified" \notin Defects /\ "error" \notin Defects
    /\ "archive-worker" \notin Subjects

VARIABLES
    incident,       \* rows of integrity_incidents, by number; alert n is incident n's
    content,        \* how each anchor's row compares with the chain
    status,         \* reconciliation_status
    turn,           \* the anchors by last_reconciled_at, oldest first
    reconciler,     \* what each reconciliation is doing
    changes         \* changes of content so far

opsVars == <<incident, content, status, turn, reconciler, changes>>
vars == <<deliveryVars, opsVars>>

-------------------------------------------------------------------------------
Verdicts == {"verified"} \cup Defects

\* The subject of setWorkerIncident('event-archive-failed').
ArchiveWorker == "archive-worker"
Topics == Subjects \cup {ArchiveWorker}

IncidentState == [state : {"none", "open", "resolved"}, topic : Topics,
                  severity : {"warning", "critical"}]

\* batch  the rows the run selected, with the verdict their content will get
ReconcilerState ==
    [step : {"idle", "read", "mark", "report", "markError", "reportError"},
     batch : Seq([of : Subjects, verdict : Verdicts])]

OperationsTypeOK ==
    /\ DeliveryTypeOK
    /\ incident \in [1 .. MaxIncidents -> IncidentState]
    /\ content \in [Subjects -> Verdicts]
    /\ status \in [Subjects -> Verdicts \cup {"none", "error"}]
    /\ turn \in Seq(Subjects)
    /\ reconciler \in [Reconcilers -> ReconcilerState]
    /\ changes \in 0 .. MaxChanges

-------------------------------------------------------------------------------
OpenFor(topic) == {i \in 1 .. MaxIncidents : incident[i].state = "open" /\ incident[i].topic = topic}
Unused == {i \in 1 .. MaxIncidents : incident[i].state = "none"}
First(S) == {i \in S : \A j \in S : i <= j}

\* recordIntegrityIncident: one transaction.  An open incident is updated and its
\* alert stays as it is; otherwise the incident and its alert are inserted.
Raise(topic, severity) ==
    \E i \in IF OpenFor(topic) # {} THEN OpenFor(topic) ELSE First(Unused) :
        /\ incident' = [incident EXCEPT ![i] =
               [state |-> "open", topic |-> topic, severity |-> severity]]
        /\ row' = [row EXCEPT ![<<"alert", i>>] =
               IF AlertsConfigured /\ @ = Absent THEN Pending ELSE @]

\* resolveIntegrityIncident
Resolve(topic) ==
    /\ incident' = [i \in 1 .. MaxIncidents |->
           IF i \in OpenFor(topic) THEN [incident[i] EXCEPT !.state = "resolved"]
                                   ELSE incident[i]]
    /\ UNCHANGED row

-------------------------------------------------------------------------------
InStep(r, step) == reconciler[r].step = step
Current(r) == Head(reconciler[r].batch)

Moves(r, step) == reconciler' = [reconciler EXCEPT ![r].step = step]

\* The next candidate, or the end of the batch.
Advances(r) ==
    reconciler' = [reconciler EXCEPT ![r] =
        IF Tail(@.batch) = <<>> THEN [step |-> "idle", batch |-> <<>>]
                                ELSE [step |-> "read", batch |-> Tail(@.batch)]]

PlaceOf(s) == CHOOSE i \in DOMAIN turn : turn[i] = s

\* UPDATE ... SET last_reconciled_at = now(), reconciliation_status = ...
Marked(s, verdict) ==
    /\ status' = [status EXCEPT ![s] = verdict]
    /\ turn' = Append(RemoveAt(turn, PlaceOf(s)), s)

\* reconcileIntegrityBatch selects the rows.
SelectBatch(r) ==
    /\ InStep(r, "idle")
    /\ reconciler' = [reconciler EXCEPT ![r] =
           [step |-> "read",
            batch |-> [i \in 1 .. (IF BatchSize < Len(turn) THEN BatchSize ELSE Len(turn)) |->
                          [of |-> turn[i], verdict |-> content[turn[i]]]]]]
    /\ UNCHANGED <<deliveryVars, incident, content, status, turn, changes>>

\* readReportAnchor answers or throws.
ReadAnchor(r) ==
    /\ InStep(r, "read")
    /\ \/ Moves(r, "mark") /\ UNCHANGED faults
       \/ Moves(r, "markError") /\ Fault
    /\ UNCHANGED <<row, courier, received, incident, content, status, turn, changes>>

Mark(r) ==
    /\ InStep(r, "mark")
    /\ \/ Marked(Current(r).of, Current(r).verdict) /\ Moves(r, "report") /\ UNCHANGED faults
       \/ UNCHANGED <<status, turn>> /\ Moves(r, "markError") /\ Fault
    /\ UNCHANGED <<row, courier, received, incident, content, changes>>

\* Mutant: a defect is reported, its repair is not.
ReportDefectsOnly(r) ==
    /\ InStep(r, "report")
    /\ \/ /\ IF Current(r).verdict = "verified" THEN UNCHANGED <<incident, row>>
             ELSE Raise(Current(r).of, "critical")
          /\ Advances(r)
          /\ UNCHANGED faults
       \/ UNCHANGED <<incident, row>> /\ Moves(r, "markError") /\ Fault
    /\ UNCHANGED <<courier, received, content, status, turn, changes>>

Report(r) ==
    /\ InStep(r, "report")
    /\ \/ /\ IF Current(r).verdict = "verified" THEN Resolve(Current(r).of)
             ELSE Raise(Current(r).of, "critical")
          /\ Advances(r)
          /\ UNCHANGED faults
       \/ UNCHANGED <<incident, row>> /\ Moves(r, "markError") /\ Fault
    /\ UNCHANGED <<courier, received, content, status, turn, changes>>

\* The catch block: its two transactions, each of which may end the run.
MarkError(r) ==
    /\ InStep(r, "markError")
    /\ Marked(Current(r).of, "error")
    /\ Moves(r, "reportError")
    /\ UNCHANGED <<deliveryVars, incident, content, changes>>

ReportError(r) ==
    /\ InStep(r, "reportError")
    /\ Raise(Current(r).of, "warning")
    /\ Advances(r)
    /\ UNCHANGED <<courier, received, faults, content, status, turn, changes>>

AbandonBatch(r) ==
    /\ ~InStep(r, "idle")
    /\ Fault
    /\ reconciler' = [reconciler EXCEPT ![r] = [step |-> "idle", batch |-> <<>>]]
    /\ UNCHANGED <<row, courier, received, incident, content, status, turn, changes>>

Reconcile(r) ==
    SelectBatch(r) \/ ReadAnchor(r) \/ Mark(r) \/ Report(r) \/ MarkError(r) \/ ReportError(r)

-------------------------------------------------------------------------------
ArchiveFailed == \E n \in 1 .. MaxArchived : row[<<"archive", n>>].status = "failed"

\* What getIntegrityQueueHealth tells an operator of these tables.
reconciliationFailures == {s \in Subjects : status[s] \in Defects \cup {"error"}}
openIncidents == {i \in 1 .. MaxIncidents : incident[i].state = "open"}
alertDeliveryFailures == {i \in 1 .. MaxIncidents : row[<<"alert", i>>].status = "failed"}
healthy == reconciliationFailures = {} /\ openIncidents = {} /\ alertDeliveryFailures = {}

\* A timer's run: alerts (if there is a webhook), then the archive, then the count of failed archive rows,
\* then setWorkerIncident.
StartRun(p) ==
    /\ Does(p, "idle")
    /\ courier' = [courier EXCEPT
           ![p].step = "claim", ![p].queue = IF AlertsConfigured THEN "alert" ELSE "archive"]
    /\ UNCHANGED <<row, received, faults, opsVars>>

CountFailures(p) ==
    /\ Does(p, "count")
    /\ courier' = [courier EXCEPT ![p].step = "report", ![p].failures = ArchiveFailed]
    /\ UNCHANGED <<row, received, faults, opsVars>>

\* Mutant: what has been reported once is not reported again, so it is resolved.
SetWorkerIncidentOnce(p) ==
    /\ Does(p, "report")
    /\ IF courier[p].failures /\ \A i \in 1 .. MaxIncidents : incident[i].topic # ArchiveWorker
       THEN Raise(ArchiveWorker, "warning")
       ELSE Resolve(ArchiveWorker)
    /\ courier' = [courier EXCEPT ![p] = Resting]
    /\ UNCHANGED <<received, faults, content, status, turn, reconciler, changes>>

SetWorkerIncident(p) ==
    /\ Does(p, "report")
    /\ IF courier[p].failures THEN Raise(ArchiveWorker, "warning") ELSE Resolve(ArchiveWorker)
    /\ courier' = [courier EXCEPT ![p] = Resting]
    /\ UNCHANGED <<received, faults, content, status, turn, reconciler, changes>>

Work(p) ==
    \/ StartRun(p) \/ CountFailures(p) \/ SetWorkerIncident(p)
    \/ Deliver(p) /\ UNCHANGED opsVars

-------------------------------------------------------------------------------
\* The event ingestion appends an archive row.
AppendArchive ==
    \E n \in 1 .. MaxArchived :
        /\ row[<<"archive", n>>] = Absent
        /\ \A m \in 1 .. n - 1 : row[<<"archive", m>>] # Absent
        /\ row' = [row EXCEPT ![<<"archive", n>>] = Pending]
        /\ UNCHANGED <<courier, received, faults, opsVars>>

\* A row stops matching the chain, or is restored.
ContentChanges ==
    /\ changes < MaxChanges
    /\ changes' = changes + 1
    /\ \E s \in Subjects, v \in Verdicts :
        content[s] # v /\ content' = [content EXCEPT ![s] = v]
    /\ UNCHANGED <<deliveryVars, incident, status, turn, reconciler>>

Init ==
    /\ row = [r \in Rows |-> Absent]
    /\ courier = [p \in Couriers |-> Resting]
    /\ received = {}
    /\ faults = 0
    /\ incident = [i \in 1 .. MaxIncidents |->
           [state |-> "none", topic |-> ArchiveWorker, severity |-> "warning"]]
    /\ content = [s \in Subjects |-> "verified"]
    /\ status = [s \in Subjects |-> "none"]
    /\ turn \in {t \in [1 .. Cardinality(Subjects) -> Subjects] :
                     \A s \in Subjects : \E i \in DOMAIN t : t[i] = s}
    /\ reconciler = [r \in Reconcilers |-> [step |-> "idle", batch |-> <<>>]]
    /\ changes = 0

Next ==
    \/ \E p \in Couriers : Work(p) \/ (Abandon(p) /\ UNCHANGED opsVars)
    \/ \E r \in Reconcilers : Reconcile(r) \/ AbandonBatch(r)
    \/ \E r \in Rows : (BecomeDue(r) \/ LockExpires(r)) /\ UNCHANGED opsVars
    \/ AppendArchive
    \/ ContentChanges

Spec == Init /\ [][Next]_vars

\* The timers call both loops for ever, every query and fetch ends (the fetches have
\* a timeout), and time passes.
Fairness ==
    /\ \A p \in Couriers : WF_vars(Work(p))
    /\ \A r \in Reconcilers : WF_vars(Reconcile(r))
    /\ \A r \in Rows : WF_vars(BecomeDue(r) /\ UNCHANGED opsVars)
    /\ \A r \in Rows : WF_vars(LockExpires(r) /\ UNCHANGED opsVars)

FairSpec == Spec /\ Fairness

-------------------------------------------------------------------------------
\* What the table calls delivered has arrived, whoever settled the row last, and the
\* tables of outbox and incidents hold what their constraints allow.
OperationsAreSound == OperationsTypeOK /\ DeliveredWasReceived

IsOpen(topic) == OpenFor(topic) # {}

\* Once the rows stop changing and the faults are over, an anchor has an open
\* incident, a critical one, exactly when its row does not match the chain, and the
\* health check counts it then, whatever verdicts overlapping, failed and abandoned
\* runs have written.
ReconciliationConverges ==
    \A s \in Subjects :
        <>[](/\ IsOpen(s) <=> content[s] # "verified"
             /\ s \in reconciliationFailures <=> content[s] # "verified"
             /\ \A i \in OpenFor(s) : incident[i].severity = "critical")

\* The worker's incident ends up open exactly when archive rows were given up, though
\* every process counts, and reports what it counted later; and the health check ends
\* up good exactly when every anchor matches the chain and no row was given up.
ArchiveFailureIsSignalled ==
    /\ <>[](ArchiveFailed <=> IsOpen(ArchiveWorker))
    /\ <>[](healthy <=> /\ \A s \in Subjects : content[s] = "verified"
                        /\ \A r \in Rows : row[r].status # "failed")
=============================================================================
