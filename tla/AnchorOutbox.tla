----------------------------- MODULE AnchorOutbox -----------------------------
(***************************************************************************)
(* The report integrity outbox: backend/src/integrity/integrityWorker.ts,  *)
(* integrityRepository.ts and the transaction path of stellarClient.ts,    *)
(* composed with the on-chain registry of IntegrityContract.               *)
(*                                                                         *)
(* The API enqueues one row per report revision.  Worker processes claim   *)
(* rows, build and broadcast a Stellar transaction that calls the contract *)
(* and record the outcome in the outbox and in the anchors table.  Every   *)
(* await in the worker is a separate action, so that two processes, a      *)
(* crash, the two-minute lock expiry, the network and the operator's retry *)
(* interleave between any two of them.                                     *)
(*                                                                         *)
(* Time is abstracted to the three comparisons the code makes:             *)
(*   due      available_at <= now()                                        *)
(*   lock     locked_at is NULL / younger / older than two minutes         *)
(*   settled  the submission is at least 90 s old.  Transactions carry a   *)
(*            30 s time bound, so a settled one can no longer be included  *)
(*            in a ledger, and the RPC server is assumed to have ingested  *)
(*            every ledger that could hold it.                             *)
(***************************************************************************)
EXTENDS IntegrityContract

CONSTANTS
    NoHash,         \* NULL in a hash column
    Workers,        \* backend processes that run the integrity worker
    MaxAttempts,    \* stellarIntegrityConfig.maxAttempts
    MaxClaims,      \* bound on the attempts counter of a row
    MaxTx,          \* bound on the transactions built
    MaxCrashes,     \* bound on process crashes
    MaxRetries      \* bound on the operator's retries of one row

ASSUME OutboxAssumption ==
    /\ IsFiniteSet(Keys)
    /\ NoHash \notin Hashes
    /\ 0 \in Kinds             \* the kind of an evidence revision
    /\ MaxAttempts \in Nat \ {0}
    /\ MaxClaims \in Nat
    /\ MaxTx \in Nat
    /\ MaxCrashes \in Nat
    /\ MaxRetries \in Nat

VARIABLES
    outbox,       \* report_integrity_outbox, one row per job
    anchorRow,    \* report_integrity_anchors, one row per job
    worker,       \* what each process holds in memory
    txs,          \* Stellar transactions built so far
    built,        \* how many of them there are
    accountSeq,   \* sequence number of the submitting Stellar account
    incidents,    \* jobs with a field-report-anchor-failed incident
    crashes       \* crashes so far

outboxVars == <<outbox, anchorRow, worker, txs, built, accountSeq, incidents, crashes>>
vars == <<outboxVars, contractVars>>

-------------------------------------------------------------------------------
\* A job is a revision of a report; the report key stands for the report.
Revs == 1 .. MaxRevision
Jobs == Keys \X Revs
Prev(j) == <<j[1], j[2] - 1>>

TxIds == 1 .. MaxTx
NoTx  == 0
NoJob == <<NoHash, 0>>          \* revisions start at 1

Statuses == {"absent", "pending", "submitting", "confirmed", "failed"}

OutboxRow == [status : Statuses, attempts : Nat, hash : TxIds \cup {NoTx},
              lock : {"none", "held", "expired"}, due : BOOLEAN,
              content : Hashes \cup {NoHash}, previous : Hashes \cup {NoHash},
              createdAt : Nat]

AnchorRow == [status : Statuses, tx : TxIds \cup {NoTx}, ledger : Nat]

\* States of a transaction: not built, built, known to the network, included
\* and successful, included and failed.
TxStates == {"none", "built", "sent", "applied", "rejected"}

Tx == [job : Jobs \cup {NoJob}, seq : Nat, state : TxStates, settled : BOOLEAN,
       ledger : Nat]

\* Where a worker is; each label is the next await of the code.
Steps == {"idle", "mark", "inspect", "prepare", "persist", "send", "poll",
          "confirm", "defer", "clear", "fail", "report"}

\* The job as returned by the claiming UPDATE (a snapshot of the row), and the
\* transaction the worker is dealing with.
WorkerState == [step : Steps, job : Jobs \cup {NoJob}, attempts : Nat,
                tx : TxIds \cup {NoTx}]

Idle == [step |-> "idle", job |-> NoJob, attempts |-> 0, tx |-> NoTx]

OutboxTypeOK ==
    /\ ContractTypeOK
    /\ outbox \in [Jobs -> OutboxRow]
    /\ anchorRow \in [Jobs -> AnchorRow]
    /\ worker \in [Workers -> WorkerState]
    /\ txs \in [TxIds -> Tx]
    /\ built \in 0 .. MaxTx
    /\ accountSeq \in Nat
    /\ incidents \subseteq Jobs
    /\ crashes \in 0 .. MaxCrashes

-------------------------------------------------------------------------------
(***************************************************************************)
(* The API: enqueueReportIntegrity, enqueueReportRevision,                 *)
(* enqueueReviewAttestation and retryReportIntegrity.                      *)
(***************************************************************************)
Absent(j) == outbox[j].status = "absent"

\* Mutant: ON CONFLICT DO UPDATE instead of DO NOTHING.
EnqueueUpserts(j, h) ==
    /\ j[2] > 1 => ~Absent(Prev(j))
    /\ outbox' = [outbox EXCEPT ![j] =
           [status |-> "pending", attempts |-> 0, hash |-> NoTx, lock |-> "none",
            due |-> TRUE, content |-> h,
            previous |-> IF j[2] = 1 THEN NoHash ELSE outbox[Prev(j)].content,
            createdAt |-> Cardinality({i \in Jobs : ~Absent(i)})]]
    /\ anchorRow' = [anchorRow EXCEPT ![j].status = "pending"]
    /\ UNCHANGED <<worker, txs, built, accountSeq, incidents, crashes, contractVars>>

\* The row a report's next revision goes to, chained to the latest one.
Enqueue(j, h) ==
    /\ Absent(j)
    /\ j[2] > 1 => ~Absent(Prev(j))
    /\ outbox' = [outbox EXCEPT ![j] =
           [status |-> "pending", attempts |-> 0, hash |-> NoTx, lock |-> "none",
            due |-> TRUE, content |-> h,
            previous |-> IF j[2] = 1 THEN NoHash ELSE outbox[Prev(j)].content,
            createdAt |-> Cardinality({i \in Jobs : ~Absent(i)})]]
    /\ anchorRow' = [anchorRow EXCEPT ![j].status = "pending"]
    /\ UNCHANGED <<worker, txs, built, accountSeq, incidents, crashes, contractVars>>

FailedJobs(k) == {j \in Jobs : j[1] = k /\ outbox[j].status = "failed"}

\* Requeues every failed row of the report.  attempts is not reset.
Retry(k) ==
    /\ FailedJobs(k) # {}
    /\ \A j \in FailedJobs(k) : outbox[j].attempts < MaxAttempts + MaxRetries
    /\ outbox' = [j \in Jobs |->
           IF j \in FailedJobs(k)
           THEN [outbox[j] EXCEPT !.status = "pending", !.due = TRUE, !.lock = "none"]
           ELSE outbox[j]]
    /\ anchorRow' = [j \in Jobs |->
           IF j[1] = k /\ anchorRow[j].status = "failed"
           THEN [anchorRow[j] EXCEPT !.status = "pending"]
           ELSE anchorRow[j]]
    /\ UNCHANGED <<worker, txs, built, accountSeq, incidents, crashes, contractVars>>

-------------------------------------------------------------------------------
(***************************************************************************)
(* The worker loop, processIntegrityOutboxBatch.                           *)
(***************************************************************************)
At(w, step) == worker[w].step = step
Goto(w, step) == worker' = [worker EXCEPT ![w].step = step]
Release(w) == worker' = [worker EXCEPT ![w] = Idle]

unchangedChain == <<txs, built, accountSeq, contractVars>>

\* Mutant: no stale-job recovery.
ClaimableWhenPending(j) ==
    /\ outbox[j].due
    /\ outbox[j].status = "pending"
    /\ j[2] > 1 => outbox[Prev(j)].status = "confirmed"

\* Mutant: revisions do not wait for their predecessor.
ClaimableInAnyOrder(j) ==
    /\ outbox[j].due
    /\ \/ outbox[j].status = "pending"
       \/ outbox[j].status = "submitting" /\ outbox[j].lock = "expired"

Claimable(j) ==
    /\ outbox[j].due
    /\ \/ outbox[j].status = "pending"
       \/ outbox[j].status = "submitting" /\ outbox[j].lock = "expired"
    /\ j[2] > 1 => outbox[Prev(j)].status = "confirmed"

\* Mutant: locked_at is not set.
ClaimWithoutLock(w) ==
    /\ At(w, "idle")
    /\ \E j \in Jobs :
        /\ Claimable(j)
        /\ outbox[j].attempts < MaxClaims
        /\ outbox' = [outbox EXCEPT ![j].status = "submitting",
                                    ![j].attempts = @ + 1]
        /\ worker' = [worker EXCEPT ![w] =
               [step |-> "mark", job |-> j, attempts |-> outbox[j].attempts + 1,
                tx |-> outbox[j].hash]]
    /\ UNCHANGED <<anchorRow, incidents, crashes, unchangedChain>>

\* claimNextJob, the claiming UPDATE: oldest claimable row first.
Claim(w) ==
    /\ At(w, "idle")
    /\ \E j \in Jobs :
        /\ Claimable(j)
        /\ outbox[j].attempts < MaxClaims
        /\ \A i \in Jobs : Claimable(i) => outbox[j].createdAt <= outbox[i].createdAt
        /\ outbox' = [outbox EXCEPT ![j].status = "submitting",
                                    ![j].attempts = @ + 1,
                                    ![j].lock = "held"]
        /\ worker' = [worker EXCEPT ![w] =
               [step |-> "mark", job |-> j, attempts |-> outbox[j].attempts + 1,
                tx |-> outbox[j].hash]]
    /\ UNCHANGED <<anchorRow, incidents, crashes, unchangedChain>>

\* claimNextJob, the second transaction, then the branch on the job's
\* submitted_transaction_hash.
Mark(w) ==
    /\ At(w, "mark")
    /\ anchorRow' = [anchorRow EXCEPT ![worker[w].job].status = "submitting"]
    /\ Goto(w, IF worker[w].tx = NoTx THEN "prepare" ELSE "inspect")
    /\ UNCHANGED <<outbox, incidents, crashes, unchangedChain>>

\* inspectSubmittedTransaction on the hash an earlier attempt persisted.  Until
\* the submission has settled the RPC server may not know the transaction yet.
\* An RPC error (or an error of the database in the branch taken) is a plain
\* failure of the attempt that keeps the hash.
Inspect(w) ==
    /\ At(w, "inspect")
    /\ LET t == txs[worker[w].tx] IN
       \/ t.state = "applied"  /\ Goto(w, "confirm")
       \/ t.state = "rejected" /\ Goto(w, "clear")
       \/ ~t.settled           /\ Goto(w, "defer")
       \/ t.settled /\ t.state \notin {"applied", "rejected"} /\ Goto(w, "clear")
       \/ Goto(w, "fail")
    /\ UNCHANGED <<outbox, anchorRow, incidents, crashes, unchangedChain>>

\* The ledger the next transaction would be included in.
NextLedger == ledger + 1

\* The contract call of submitReportAnchor succeeds in that ledger.
CallAccepted(j) ==
    IF j[2] = 1
    THEN AnchorAccepted(writer, j[1], 1, 1, NextLedger)
    ELSE RevisionAccepted(writer, j[1], j[2], outbox[j].previous, 1, 0, NextLedger)

\* submitContractOperation up to the signature: the account's sequence number
\* is read and the call simulated.  The simulation fails when the contract
\* would refuse the call; any other error ends the attempt in the same way.
Prepare(w) ==
    /\ At(w, "prepare")
    /\ \/ /\ CallAccepted(worker[w].job)
          /\ built < MaxTx
          /\ built' = built + 1
          /\ txs' = [txs EXCEPT ![built + 1] =
                 [job |-> worker[w].job, seq |-> accountSeq + 1, state |-> "built",
                  settled |-> FALSE, ledger |-> 0]]
          /\ worker' = [worker EXCEPT ![w].step = "persist", ![w].tx = built + 1]
       \/ Goto(w, "fail") /\ UNCHANGED <<built, txs>>
    /\ UNCHANGED <<outbox, anchorRow, incidents, crashes, accountSeq, contractVars>>

\* Mutant: the hash is only recorded in the anchors table.
PersistNothing(w) ==
    /\ At(w, "persist")
    /\ anchorRow' = [anchorRow EXCEPT ![worker[w].job].tx = worker[w].tx]
    /\ Goto(w, "send")
    /\ UNCHANGED <<outbox, incidents, crashes, unchangedChain>>

\* persistReportSubmittedHash, called by submitContractOperation before it
\* broadcasts.  Neither UPDATE is conditional on the row's status.
Persist(w) ==
    /\ At(w, "persist")
    /\ outbox' = [outbox EXCEPT ![worker[w].job].hash = worker[w].tx,
                                ![worker[w].job].status = "submitting"]
    /\ anchorRow' = [anchorRow EXCEPT ![worker[w].job].tx = worker[w].tx,
                                      ![worker[w].job].status = "submitting"]
    /\ Goto(w, "send")
    /\ UNCHANGED <<incidents, crashes, unchangedChain>>

\* sendTransaction: accepted; an exception, after which the transaction may or
\* may not have reached the network; TRY_AGAIN_LATER; or ERROR.
Send(w) ==
    LET reached == txs' = [txs EXCEPT ![worker[w].tx].state = "sent"] IN
    /\ At(w, "send")
    /\ \/ reached /\ Goto(w, "poll")
       \/ (reached \/ UNCHANGED txs) /\ Goto(w, "defer")
       \/ UNCHANGED txs /\ Goto(w, "clear")
    /\ UNCHANGED <<outbox, anchorRow, incidents, crashes, built, accountSeq, contractVars>>

\* Mutant: an accepted submission is taken for an anchored one.
PollOptimistic(w) ==
    /\ At(w, "poll")
    /\ IF txs[worker[w].tx].state = "rejected" THEN Goto(w, "clear") ELSE Goto(w, "confirm")
    /\ UNCHANGED <<outbox, anchorRow, incidents, crashes, unchangedChain>>

\* The polling loop: SUCCESS, FAILED, thirty polls without an answer, or an
\* RPC error (or an error of the database while confirming), which is a plain
\* failure that keeps the hash.
Poll(w) ==
    /\ At(w, "poll")
    /\ LET t == txs[worker[w].tx] IN
       \/ t.state = "applied"  /\ Goto(w, "confirm")
       \/ t.state = "rejected" /\ Goto(w, "clear")
       \/ Goto(w, "defer")
       \/ Goto(w, "fail")
    /\ UNCHANGED <<outbox, anchorRow, incidents, crashes, unchangedChain>>

\* confirmJob: one database transaction, not conditional on the row's status.
Confirm(w) ==
    /\ At(w, "confirm")
    /\ outbox' = [outbox EXCEPT ![worker[w].job].status = "confirmed",
                                ![worker[w].job].lock = "none"]
    /\ anchorRow' = [anchorRow EXCEPT ![worker[w].job] =
           [status |-> "confirmed", tx |-> worker[w].tx,
            ledger |-> txs[worker[w].tx].ledger]]
    /\ Release(w)
    /\ UNCHANGED <<incidents, crashes, unchangedChain>>

\* deferReportConfirmation: only the outbox row is rescheduled.
Defer(w) ==
    /\ At(w, "defer")
    /\ outbox' = [outbox EXCEPT
           ![worker[w].job].status = "pending",
           ![worker[w].job].due = FALSE,
           ![worker[w].job].lock = "none",
           ![worker[w].job].attempts = IF @ = 0 THEN 0 ELSE @ - 1]
    /\ Release(w)
    /\ UNCHANGED <<anchorRow, incidents, crashes, unchangedChain>>

\* clearReportSubmittedHash, before the failure is recorded.
Clear(w) ==
    /\ At(w, "clear")
    /\ outbox' = [outbox EXCEPT ![worker[w].job].hash = NoTx]
    /\ anchorRow' = [anchorRow EXCEPT ![worker[w].job].tx = NoTx]
    /\ Goto(w, "fail")
    /\ UNCHANGED <<incidents, crashes, unchangedChain>>

\* failJob.  Whether the job is exhausted is decided on the claimed snapshot.
Exhausted(w) == worker[w].attempts >= MaxAttempts

Fail(w) ==
    /\ At(w, "fail")
    /\ LET status == IF Exhausted(w) THEN "failed" ELSE "pending" IN
       /\ outbox' = [outbox EXCEPT ![worker[w].job].status = status,
                                   ![worker[w].job].due = FALSE,
                                   ![worker[w].job].lock = "none"]
       /\ anchorRow' = [anchorRow EXCEPT ![worker[w].job].status = status]
    /\ IF Exhausted(w) THEN Goto(w, "report") ELSE Release(w)
    /\ UNCHANGED <<incidents, crashes, unchangedChain>>

\* recordIntegrityIncident, in a transaction of its own.
Report(w) ==
    /\ At(w, "report")
    /\ incidents' = incidents \cup {worker[w].job}
    /\ Release(w)
    /\ UNCHANGED <<outbox, anchorRow, crashes, unchangedChain>>

\* The process dies (or a database error escapes the batch): what it held in
\* memory is gone, and the restarted process begins with an empty loop.
Crash(w) ==
    /\ ~At(w, "idle")
    /\ crashes < MaxCrashes
    /\ crashes' = crashes + 1
    /\ Release(w)
    /\ UNCHANGED <<outbox, anchorRow, incidents, unchangedChain>>

WorkerStep(w) ==
    \/ Claim(w) \/ Mark(w) \/ Inspect(w) \/ Prepare(w) \/ Persist(w) \/ Send(w)
    \/ Poll(w) \/ Confirm(w) \/ Defer(w) \/ Clear(w) \/ Fail(w) \/ Report(w)

-------------------------------------------------------------------------------
(***************************************************************************)
(* Time and the Stellar network.                                           *)
(***************************************************************************)
unchangedButOutbox ==
    <<anchorRow, worker, incidents, crashes, unchangedChain>>

LockExpires(j) ==
    /\ outbox[j].lock = "held"
    /\ outbox' = [outbox EXCEPT ![j].lock = "expired"]
    /\ UNCHANGED unchangedButOutbox

BecomesDue(j) ==
    /\ ~Absent(j)
    /\ ~outbox[j].due
    /\ outbox' = [outbox EXCEPT ![j].due = TRUE]
    /\ UNCHANGED unchangedButOutbox

\* 90 s after persistReportSubmittedHash recorded the submission
Settle(t) ==
    /\ txs[t].state # "none"
    /\ ~txs[t].settled
    /\ \A w \in Workers : ~(At(w, "persist") /\ worker[w].tx = t)
    /\ txs' = [txs EXCEPT ![t].settled = TRUE]
    /\ UNCHANGED <<outbox, anchorRow, worker, built, accountSeq, incidents, crashes,
                   contractVars>>

\* A validator includes the transaction in the next ledger.  Its sequence
\* number must be the account's next one; inclusion consumes that number
\* whether the transaction succeeds or fails (the contract refuses the call, or
\* the resources declared at simulation no longer suffice).
Includable(t) ==
    /\ txs[t].state = "sent"
    /\ ~txs[t].settled
    /\ txs[t].seq = accountSeq + 1
    /\ NextLedger <= MaxLedger

Included(t, outcome) ==
    /\ accountSeq' = accountSeq + 1
    /\ txs' = [txs EXCEPT ![t].state = outcome, ![t].ledger = NextLedger]
    /\ UNCHANGED <<outbox, anchorRow, worker, built, incidents, crashes>>

Reject(t) == Includable(t) /\ Included(t, "rejected") /\ CloseLedger(NextLedger)

Apply(t) ==
    LET j == txs[t].job IN
    /\ Includable(t)
    /\ Included(t, "applied")
    /\ IF j[2] = 1
       THEN anchor(writer, j[1], 1, outbox[j].content, 1, NextLedger)
       ELSE anchor_revision(writer, j[1], j[2], outbox[j].content,
                            outbox[j].previous, 1, 0, NextLedger)

-------------------------------------------------------------------------------
NoRow == [status |-> "absent", attempts |-> 0, hash |-> NoTx, lock |-> "none",
          due |-> FALSE, content |-> NoHash, previous |-> NoHash, createdAt |-> 0]
NoAnchorRow == [status |-> "absent", tx |-> NoTx, ledger |-> 0]
NotBuilt == [job |-> NoJob, seq |-> 0, state |-> "none", settled |-> FALSE, ledger |-> 0]

Init ==
    /\ ContractInit
    /\ outbox = [j \in Jobs |-> NoRow]
    /\ anchorRow = [j \in Jobs |-> NoAnchorRow]
    /\ worker = [w \in Workers |-> Idle]
    /\ txs = [t \in TxIds |-> NotBuilt]
    /\ built = 0
    /\ accountSeq = 0
    /\ incidents = {}
    /\ crashes = 0

Next ==
    \/ \E j \in Jobs, h \in Hashes : Enqueue(j, h)
    \/ \E k \in Keys : Retry(k)
    \/ \E w \in Workers : WorkerStep(w) \/ Crash(w)
    \/ \E j \in Jobs : LockExpires(j) \/ BecomesDue(j)
    \/ \E t \in TxIds : Settle(t) \/ Apply(t) \/ Reject(t)

Spec == Init /\ [][Next]_vars

\* The worker's timer keeps calling the batch and no await hangs for ever (each
\* RPC call, poll and query ends in an answer or an exception); clocks advance.
\* Nothing is assumed of the network, the operator or the users.
Fairness ==
    /\ \A w \in Workers : WF_vars(WorkerStep(w))
    /\ \A j \in Jobs : WF_vars(LockExpires(j)) /\ WF_vars(BecomesDue(j))
    /\ \A t \in TxIds : WF_vars(Settle(t))

FairSpec == Spec /\ Fairness

-------------------------------------------------------------------------------
(***************************************************************************)
(* Correctness, for any number of worker processes.                        *)
(***************************************************************************)

\* The registry holds nothing the outbox did not ask for: every entry carries
\* the content, and every revision the previous hash, of the row with its key
\* and revision, whatever was resubmitted, reclaimed or retried on the way.
RegistryMatchesOutbox ==
    /\ \A a \in anchors :
          a.revision = 1 /\ outbox[<<a.key, 1>>].content = a.content
    /\ \A v \in revisions :
          /\ v.revision \in Revs
          /\ outbox[<<v.key, v.revision>>].content = v.content
          /\ outbox[<<v.key, v.revision>>].previous = v.previous

\* "confirmed" is never claimed of a revision that is not on the chain: the
\* contract holds the row's content at the ledger the row records.
ConfirmedIsAnchored ==
    \A j \in Jobs : anchorRow[j].status = "confirmed" =>
        \E p \in Links(j[1], j[2]) : /\ p.content = outbox[j].content
                                     /\ p.ledger = anchorRow[j].ledger

\* Exactly once: however often a job is reclaimed, rebuilt and broadcast, at
\* most one of its transactions succeeds.
AppliedOnce ==
    \A t, u \in TxIds :
        /\ txs[t].state = "applied"
        /\ txs[u].state = "applied"
        /\ txs[t].job = txs[u].job
        => t = u

(***************************************************************************)
(* Correctness with one worker process.                                    *)
(***************************************************************************)

\* Pre-broadcast persistence: when a transaction has anchored a revision, the
\* row is confirmed or still holds that transaction's hash.
AnchoredIsRemembered ==
    \A t \in TxIds : txs[t].state = "applied" =>
        LET j == txs[t].job IN
        outbox[j].status = "confirmed" \/ outbox[j].hash = t

\* A job that was given up, with no attempt under way, can still be repaired by
\* a retry: either its revision is not on the chain or its row still holds the
\* hash of the transaction that put it there.
AnchoredIsNotLost ==
    \A j \in Jobs :
        /\ outbox[j].status = "failed"
        /\ Links(j[1], j[2]) # {}
        /\ \A w \in Workers : worker[w].job # j
        => outbox[j].hash # NoTx

\* The two tables agree on how a job ended.
TablesAgree ==
    \A j \in Jobs : \A s \in {"confirmed", "failed"} :
        outbox[j].status = s <=> anchorRow[j].status = s

\* A confirmed anchor keeps the receipt of the transaction that wrote it.
ConfirmedHasReceipt ==
    \A j \in Jobs : anchorRow[j].status = "confirmed" =>
        \E t \in TxIds : /\ anchorRow[j].tx = t
                         /\ txs[t].job = j
                         /\ txs[t].state = "applied"

\* No crash, RPC failure or retry loses the outcome of a submission: it is
\* recorded in both tables, with its receipt, or can still be found.
OutcomeRecoverable == AnchoredIsRemembered /\ TablesAgree /\ ConfirmedHasReceipt

\* Stale-job recovery: a row that is being submitted is held by a live worker
\* or by a lock that expires, never by neither.
SubmittingIsRecoverable ==
    \A j \in Jobs : outbox[j].status = "submitting" =>
        \/ outbox[j].lock # "none"
        \/ \E w \in Workers : worker[w].job = j

\* A job whose turn it is ends: confirmed, or failed for an operator to see.
JobsEnd ==
    \A j \in Jobs :
        /\ outbox[j].status \in {"pending", "submitting"}
        /\ j[2] > 1 => outbox[Prev(j)].status = "confirmed"
        ~> outbox[j].status \in {"confirmed", "failed"}

\* The abstract view of a job's status and of the registry.
LifecycleStatus(j) ==
    CASE outbox[j].status = "absent" -> "none"
      [] outbox[j].status \in {"pending", "submitting"} -> "queued"
      [] OTHER -> outbox[j].status

Lifecycle == INSTANCE AnchorLifecycle WITH
    requested <- {[key |-> j[1], revision |-> j[2], content |-> outbox[j].content] :
                    j \in {i \in Jobs : ~Absent(i)}},
    onChain   <- UNION {{[key |-> p.key, revision |-> p.revision, content |-> p.content] :
                    p \in Links(j[1], j[2])} : j \in Jobs},
    status    <- [k \in Keys |-> [r \in Revs |-> LifecycleStatus(<<k, r>>)]]

\* The pipeline implements the life cycle of AnchorLifecycle.
ImplementsLifecycle == Lifecycle!Spec
===============================================================================
