--------------------------- MODULE WebhookDelivery ---------------------------
(***************************************************************************)
(* The lease protocol of deliverIntegrityAlerts and deliverIntegrityArchive *)
(* (backend/src/integrity/operations.ts).  The two functions differ in the *)
(* table, the webhook and the order of the rows; a row here is the pair of *)
(* its queue and its place in that order.                                  *)
(*                                                                         *)
(* Couriers are processes: each claims one row at a time, posts it, and    *)
(* then names the row, not its claim, in the UPDATE that settles it.       *)
(* Nothing stops a second process from claiming a row whose two minutes    *)
(* are over while the first one still waits for its answer.                *)
(***************************************************************************)
EXTENDS Naturals, FiniteSets

CONSTANTS
    Couriers,       \* processes running the worker's timer
    MaxIncidents,   \* bounds the incidents, and so the alert rows
    MaxArchived,    \* bounds the archive rows
    MaxAttempts,    \* stellarIntegrityConfig.maxAttempts
    MaxFaults       \* bounds crashes and database errors

ASSUME DeliveryAssumption ==
    /\ MaxIncidents \in Nat \ {0}
    /\ MaxArchived \in Nat
    /\ MaxAttempts \in Nat \ {0}
    /\ MaxFaults \in Nat

VARIABLES
    row,            \* the rows of both outbox tables
    courier,        \* what each process is doing, with the row it claimed
    received,       \* rows the webhooks have received
    faults          \* crashes and database errors so far

deliveryVars == <<row, courier, received, faults>>

-------------------------------------------------------------------------------
Queues == {"alert", "archive"}
Rows == ({"alert"} \X (1 .. MaxIncidents)) \cup ({"archive"} \X (1 .. MaxArchived))

Statuses == {"absent", "pending", "delivering", "delivered", "failed"}

\* due   available_at has passed
\* lock  locked_at is NULL, recent, or older than two minutes
RowState == [status : Statuses, attempts : Nat, due : BOOLEAN,
             lock : {"none", "held", "expired"}]

\* attempts is the value the claim returned.
CourierState ==
    [step : {"idle", "claim", "send", "answered", "refused", "count", "report"},
     queue : Queues, job : Rows, attempts : Nat, failures : BOOLEAN]

Resting == [step |-> "idle", queue |-> "alert", job |-> <<"alert", 1>>, attempts |-> 0,
            failures |-> FALSE]

DeliveryTypeOK ==
    /\ row \in [Rows -> RowState]
    /\ courier \in [Couriers -> CourierState]
    /\ received \subseteq Rows
    /\ faults \in 0 .. MaxFaults

Absent  == [status |-> "absent", attempts |-> 0, due |-> FALSE, lock |-> "none"]
Pending == [status |-> "pending", attempts |-> 0, due |-> TRUE, lock |-> "none"]

Does(p, step) == courier[p].step = step

\* A settled row is forgotten; the loop claims the next one.
ClaimsNext(p) == courier' = [courier EXCEPT
    ![p] = [Resting EXCEPT !.step = "claim", !.queue = courier[p].queue]]

Fault == faults < MaxFaults /\ faults' = faults + 1

-------------------------------------------------------------------------------
\* Mutant: a row whose courier died is not claimed again.
ClaimableWhenPending(r) == row[r].due /\ row[r].status = "pending"

Claimable(r) ==
    /\ row[r].due
    /\ \/ row[r].status = "pending"
       \/ row[r].status = "delivering" /\ row[r].lock = "expired"

\* ORDER BY created_at, or ledger_sequence, LIMIT 1
NextRow(queue) ==
    {r \in Rows : /\ r[1] = queue
                  /\ Claimable(r)
                  /\ \A s \in Rows : s[1] = queue /\ Claimable(s) => r[2] <= s[2]}

\* UPDATE ... SET status = 'delivering', attempts = attempts + 1 ... RETURNING *
Claim(p) ==
    /\ Does(p, "claim")
    /\ \E r \in NextRow(courier[p].queue) :
        /\ row' = [row EXCEPT ![r].status = "delivering", ![r].lock = "held",
                              ![r].attempts = @ + 1]
        /\ courier' = [courier EXCEPT ![p].step = "send", ![p].job = r,
                                      ![p].attempts = row[r].attempts + 1]
    /\ UNCHANGED <<received, faults>>

\* The loop ends when no row can be claimed; the worker goes on with what follows.
EndLoop(p) ==
    /\ Does(p, "claim")
    /\ NextRow(courier[p].queue) = {}
    /\ courier' = [courier EXCEPT
           ![p].queue = "archive",
           ![p].step = IF courier[p].queue = "alert" THEN "claim" ELSE "count"]
    /\ UNCHANGED <<row, received, faults>>

\* Mutant: an answer is taken for an acknowledgement whatever its status.
PostUnchecked(p) ==
    /\ Does(p, "send")
    /\ courier' = [courier EXCEPT ![p].step = "answered"]
    /\ received' \in {received, received \cup {courier[p].job}}
    /\ UNCHANGED <<row, faults>>

\* fetch: acknowledged, or refused, or timed out.  What timed out may have arrived.
Post(p) ==
    /\ Does(p, "send")
    /\ \/ /\ received' = received \cup {courier[p].job}
          /\ courier' = [courier EXCEPT ![p].step = "answered"]
       \/ /\ received' \in {received, received \cup {courier[p].job}}
          /\ courier' = [courier EXCEPT ![p].step = "refused"]
    /\ UNCHANGED <<row, faults>>

\* UPDATE ... SET status = 'delivered'.  When it fails, the catch block runs.
MarkDelivered(p) ==
    /\ Does(p, "answered")
    /\ \/ /\ row' = [row EXCEPT ![courier[p].job].status = "delivered",
                                ![courier[p].job].lock = "none"]
          /\ ClaimsNext(p)
          /\ UNCHANGED faults
       \/ /\ Fault
          /\ courier' = [courier EXCEPT ![p].step = "refused"]
          /\ UNCHANGED row
    /\ UNCHANGED received

\* The catch block: back to pending with a delay, or given up.
MarkRefused(p) ==
    /\ Does(p, "refused")
    /\ row' = [row EXCEPT ![courier[p].job] =
           [@ EXCEPT !.status = IF courier[p].attempts >= MaxAttempts THEN "failed" ELSE "pending",
                     !.lock = "none", !.due = FALSE]]
    /\ ClaimsNext(p)
    /\ UNCHANGED <<received, faults>>

\* A crash, or an exception that ends the timer's run: the rows stay as they are.
Abandon(p) ==
    /\ ~Does(p, "idle")
    /\ Fault
    /\ courier' = [courier EXCEPT ![p] = Resting]
    /\ UNCHANGED <<row, received>>

\* available_at is reached; two minutes have passed since the claim.
BecomeDue(r) ==
    /\ row[r].status = "pending" /\ ~row[r].due
    /\ row' = [row EXCEPT ![r].due = TRUE]
    /\ UNCHANGED <<courier, received, faults>>

LockExpires(r) ==
    /\ row[r].lock = "held"
    /\ row' = [row EXCEPT ![r].lock = "expired"]
    /\ UNCHANGED <<courier, received, faults>>

Deliver(p) == Claim(p) \/ EndLoop(p) \/ Post(p) \/ MarkDelivered(p) \/ MarkRefused(p)

-------------------------------------------------------------------------------
\* What the table calls delivered has arrived, whoever settled the row last.
DeliveredWasReceived == \A r \in Rows : row[r].status = "delivered" => r \in received

\* No row waits for ever: neither one whose courier died nor one that two couriers hold.
RowsEnd ==
    \A r \in Rows : row[r].status \in {"pending", "delivering"}
                        ~> row[r].status \in {"delivered", "failed"}
=============================================================================
