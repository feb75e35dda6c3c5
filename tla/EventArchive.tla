----------------------------- MODULE EventArchive -----------------------------
(***************************************************************************)
(* Ingestion of the contract's events into the hash-chained archive:       *)
(* ingestIntegrityEvents of backend/src/integrity/operations.ts and the    *)
(* timer that runs it in integrityWorker.ts.                               *)
(*                                                                         *)
(* Every backend process runs an ingestor.  It reads the shared cursor,    *)
(* checks it against the RPC server's retention, fetches a page of events, *)
(* appends each one to the archive in a database transaction of its own    *)
(* and then moves the cursor.  Each await is an action, so ingestors       *)
(* overlap, lag behind each other and die between any two of them, while   *)
(* the network emits events and the RPC server forgets old ledgers.        *)
(*                                                                         *)
(* An event is its position in the order in which the network emitted it.  *)
(* A chain hash is the sequence of the events it commits to, <<>> for the  *)
(* NULL before the first one.  integrity_contract_events, written in the   *)
(* same transaction with the same key, is left out; so is the delivery of  *)
(* the archive to the webhook.                                             *)
(***************************************************************************)
EXTENDS Naturals, Sequences, FiniteSets

CONSTANTS
    Ingestors,      \* backend processes with event ingestion enabled
    StartLedger,    \* stellarIntegrityConfig.eventStartLedger, set
    PageLimit,      \* events per page (100 in the code)
    MaxEvents,      \* bound on the events emitted
    MaxLedger,      \* bound on the ledgers closed
    MaxFailures     \* bound on RPC errors, database errors and crashes

ASSUME ArchiveAssumption ==
    /\ StartLedger \in Nat \ {0}
    /\ PageLimit \in Nat \ {0}
    /\ MaxEvents \in Nat
    /\ MaxLedger \in Nat \ {0}
    /\ MaxFailures \in Nat

VARIABLES
    emitted,    \* the ledger of every event, in the order of emission
    tip,        \* the latest ledger the RPC server knows
    oldest,     \* the oldest ledger it still holds
    cursor,     \* the row of integrity_event_cursors
    archive,    \* rows of integrity_event_archive_outbox
    ingestor,   \* what each process holds in memory
    incident,   \* is an event-ingestion-failed incident open?
    failures    \* failures so far

network == <<emitted, tip, oldest>>
vars == <<network, cursor, archive, ingestor, incident, failures>>

-------------------------------------------------------------------------------
Events == 1 .. MaxEvents
ChainHashes == UNION {[1 .. n -> Events] : n \in 0 .. MaxEvents}

\* position counts the events before the cursor; ledger is latest_ledger.
Cursor == [saved : BOOLEAN, position : 0 .. MaxEvents, ledger : 0 .. MaxLedger]

\* createdAt orders the rows by the start of their transactions: it counts the
\* rows committed before.
Row == [event : Events, ledger : 1 .. MaxLedger, createdAt : 0 .. MaxEvents,
        previous : ChainHashes, hash : ChainHashes]

Steps == {"idle", "check", "fetch", "begin", "append", "save", "resolve", "raise"}

\* request   the cursor of the next getEvents call
\* page      the number of the page's last event, and latest_ledger after it
\* next      the event being archived; createdAt the start of its transaction
Ingestor == [step : Steps, request : Cursor, last : 0 .. MaxEvents,
             ledger : 0 .. MaxLedger, full : BOOLEAN, next : 0 .. MaxEvents + 1,
             createdAt : 0 .. MaxEvents]

NoCursor == [saved |-> FALSE, position |-> 0, ledger |-> 0]

Idle == [step |-> "idle", request |-> NoCursor, last |-> 0, ledger |-> 0, full |-> FALSE,
         next |-> 0, createdAt |-> 0]

ArchiveTypeOK ==
    /\ emitted \in UNION {[1 .. n -> 1 .. MaxLedger] : n \in 0 .. MaxEvents}
    /\ tip \in 1 .. MaxLedger
    /\ oldest \in 1 .. MaxLedger
    /\ cursor \in Cursor
    /\ archive \subseteq Row
    /\ ingestor \in [Ingestors -> Ingestor]
    /\ incident \in BOOLEAN
    /\ failures \in 0 .. MaxFailures

-------------------------------------------------------------------------------
(***************************************************************************)
(* The network and the RPC server.                                         *)
(***************************************************************************)

\* A ledger closes, with up to two events of the contract.
CloseLedger ==
    /\ tip < MaxLedger
    /\ \E n \in 0 .. 2 :
        /\ Len(emitted) + n <= MaxEvents
        /\ emitted' = emitted \o [i \in 1 .. n |-> tip + 1]
    /\ tip' = tip + 1
    /\ UNCHANGED <<oldest, cursor, archive, ingestor, incident, failures>>

\* The RPC server's retention window moves on.
Forget ==
    /\ oldest < tip
    /\ oldest' = oldest + 1
    /\ UNCHANGED <<emitted, tip, cursor, archive, ingestor, incident, failures>>

-------------------------------------------------------------------------------
At(p, step) == ingestor[p].step = step
End(p, step) == ingestor' = [ingestor EXCEPT ![p] = [Idle EXCEPT !.step = step]]
unchangedDatabase == <<cursor, archive, incident>>

\* The first query.
ReadCursor(p) ==
    /\ At(p, "idle")
    /\ ingestor' = [ingestor EXCEPT ![p] = [Idle EXCEPT !.step = "check", !.request = cursor]]
    /\ UNCHANGED <<network, unchangedDatabase, failures>>

\* The ledger the next page starts in has left the retention window.
Gap(c) == IF c.saved THEN c.ledger < oldest ELSE StartLedger < oldest

\* Mutant: a cursor outside retention ends the run without an error.
CheckQuietly(p) ==
    /\ At(p, "check")
    /\ ingestor' = [ingestor EXCEPT
           ![p].step = IF Gap(ingestor[p].request) THEN "resolve" ELSE "fetch"]
    /\ UNCHANGED <<network, unchangedDatabase, failures>>

\* getHealth, and the two checks of the retention window.
Check(p) ==
    /\ At(p, "check")
    /\ ingestor' = [ingestor EXCEPT
           ![p].step = IF Gap(ingestor[p].request) THEN "raise" ELSE "fetch"]
    /\ UNCHANGED <<network, unchangedDatabase, failures>>

\* Where a request starts: after its cursor, or after the events before the start
\* ledger, those of the moment it is answered.
EventsBefore(ledger) == Cardinality({e \in 1 .. Len(emitted) : emitted[e] < ledger})
Position(c) == IF c.saved THEN c.position ELSE EventsBefore(StartLedger)

\* The number of the last event of a page that starts after position.
LastOfPage(position) ==
    IF position + PageLimit < Len(emitted) THEN position + PageLimit ELSE Len(emitted)

\* What a getEvents call after position returns: a full page ends at its last
\* event, any other one at the tip of the chain.
PageAfter(position) ==
    LET last == LastOfPage(position)
        full == last = position + PageLimit IN
    [Idle EXCEPT !.step = IF last = position THEN "save" ELSE "begin",
              !.last = last,
              !.full = full,
              !.ledger = IF full THEN emitted[last] ELSE tip,
              !.next = position + 1]

\* getEvents: the RPC server refuses a start outside the ledgers it holds.
Fetch(p) ==
    /\ At(p, "fetch")
    /\ IF Gap(ingestor[p].request) \/ (~ingestor[p].request.saved /\ tip < StartLedger)
       THEN End(p, "raise")
       ELSE ingestor' = [ingestor EXCEPT ![p] = PageAfter(Position(ingestor[p].request))]
    /\ UNCHANGED <<network, unchangedDatabase, failures>>

-------------------------------------------------------------------------------
(***************************************************************************)
(* One event: a database transaction under an advisory lock.               *)
(***************************************************************************)
Archived(e) == \E r \in archive : r.event = e

\* ORDER BY ledger_sequence DESC, created_at DESC LIMIT 1
ChainHead ==
    {r \in archive : \A s \in archive :
        s.ledger < r.ledger \/ (s.ledger = r.ledger /\ s.createdAt <= r.createdAt)}

\* BEGIN: the row's created_at is fixed here, before the lock is waited for.
Begin(p) ==
    /\ At(p, "begin")
    /\ ingestor' = [ingestor EXCEPT ![p].step = "append",
                                    ![p].createdAt = Cardinality(archive)]
    /\ UNCHANGED <<network, unchangedDatabase, failures>>

NewRow(p, previous) ==
    [event |-> ingestor[p].next, ledger |-> emitted[ingestor[p].next],
     createdAt |-> ingestor[p].createdAt, previous |-> previous,
     hash |-> Append(previous, ingestor[p].next)]

\* The next event of the page, or its end.
Advance(p) ==
    ingestor' = [ingestor EXCEPT ![p].next = @ + 1,
        ![p].step = IF ingestor[p].next = ingestor[p].last THEN "save" ELSE "begin"]

\* Mutant: an event that is archived already is appended again.
ArchiveEventAgain(p) ==
    /\ At(p, "append")
    /\ \E previous \in IF archive = {} THEN {<<>>} ELSE {r.hash : r \in ChainHead} :
        /\ \A r \in archive : r.previous # previous
        /\ Len(previous) < MaxEvents
        /\ archive' = archive \cup {NewRow(p, previous)}
    /\ Advance(p)
    /\ UNCHANGED <<network, cursor, incident, failures>>

\* Mutant: an event that is archived already is an error.
ArchiveEventOnce(p) ==
    /\ At(p, "append")
    /\ IF Archived(ingestor[p].next)
       THEN End(p, "raise") /\ UNCHANGED archive
       ELSE \E previous \in IF archive = {} THEN {<<>>} ELSE {r.hash : r \in ChainHead} :
            /\ archive' = archive \cup {NewRow(p, previous)}
            /\ Advance(p)
    /\ UNCHANGED <<network, cursor, incident, failures>>

\* From the lock to COMMIT.  An archived event is skipped.  A new one succeeds
\* the head; the unique index on previous_chain_hash turns a second successor
\* into an error.
ArchiveEvent(p) ==
    /\ At(p, "append")
    /\ IF Archived(ingestor[p].next)
       THEN Advance(p) /\ UNCHANGED archive
       ELSE \E previous \in IF archive = {} THEN {<<>>} ELSE {r.hash : r \in ChainHead} :
            IF \E r \in archive : r.previous = previous
            THEN End(p, "raise") /\ UNCHANGED archive
            ELSE archive' = archive \cup {NewRow(p, previous)} /\ Advance(p)
    /\ UNCHANGED <<network, cursor, incident, failures>>

-------------------------------------------------------------------------------
\* The cursor is moved to the page's end, wherever it stands by then.  After a
\* full page the next one is fetched, unless the page limit of a run is reached.
Save(p) ==
    LET i == ingestor[p]
        end == [saved |-> TRUE, position |-> i.last, ledger |-> i.ledger] IN
    /\ At(p, "save")
    /\ cursor' = end
    /\ \/ /\ i.full
          /\ ingestor' = [ingestor EXCEPT ![p] = [Idle EXCEPT !.step = "fetch",
                                                              !.request = end]]
       \/ End(p, "resolve")
    /\ UNCHANGED <<network, archive, incident, failures>>

\* setWorkerIncident after a run: resolved by a success, raised by an error.
Resolve(p) ==
    /\ At(p, "resolve")
    /\ incident' = FALSE
    /\ ingestor' = [ingestor EXCEPT ![p] = Idle]
    /\ UNCHANGED <<network, cursor, archive, failures>>

Raise(p) ==
    /\ At(p, "raise")
    /\ incident' = TRUE
    /\ ingestor' = [ingestor EXCEPT ![p] = Idle]
    /\ UNCHANGED <<network, cursor, archive, failures>>

\* An exception of the RPC client or the database: the transaction under way is
\* rolled back and the run ends with an incident.
RunFails(p) ==
    /\ ~At(p, "idle")
    /\ ~At(p, "raise")
    /\ failures < MaxFailures
    /\ failures' = failures + 1
    /\ End(p, "raise")
    /\ UNCHANGED <<network, unchangedDatabase>>

\* The process dies, and is restarted.
Crash(p) ==
    /\ ~At(p, "idle")
    /\ failures < MaxFailures
    /\ failures' = failures + 1
    /\ ingestor' = [ingestor EXCEPT ![p] = Idle]
    /\ UNCHANGED <<network, unchangedDatabase>>

-------------------------------------------------------------------------------
Init ==
    /\ emitted = <<>>
    /\ tip = 1
    /\ oldest = 1
    /\ cursor = NoCursor
    /\ archive = {}
    /\ ingestor = [p \in Ingestors |-> Idle]
    /\ incident = FALSE
    /\ failures = 0

Run(p) ==
    \/ ReadCursor(p) \/ Check(p) \/ Fetch(p) \/ Begin(p) \/ ArchiveEvent(p)
    \/ Save(p) \/ Resolve(p) \/ Raise(p)

Next ==
    \/ CloseLedger
    \/ Forget
    \/ \E p \in Ingestors : Run(p) \/ RunFails(p) \/ Crash(p)

Spec == Init /\ [][Next]_vars

\* Every process's timer starts another run when the last one has ended, and no
\* await hangs for ever.  Failures are bounded; nothing is assumed of the network.
FairSpec == Spec /\ \A p \in Ingestors : WF_vars(Run(p))

-------------------------------------------------------------------------------
(***************************************************************************)
(* Correctness.                                                            *)
(***************************************************************************)

\* The events of the configured range.
InRange(e) == e \in 1 .. Len(emitted) /\ emitted[e] >= StartLedger

\* The cursor never passes an event that is not archived: whatever is lost of a
\* page (a crash, an RPC error, a lagging ingestor) is fetched again, and a
\* retention gap stops ingestion instead of being skipped.
CursorPassesArchivedOnly ==
    \A e \in 1 .. cursor.position : InRange(e) => Archived(e)

\* One chain: every row commits to all the events before it, in the order of
\* emission, and to nothing else, so the archive is never forked or reordered.
ArchiveIsOneChain ==
    \A r \in archive :
        LET first == EventsBefore(StartLedger) + 1 IN
        /\ r.hash = [i \in 1 .. r.event - first + 1 |-> first + i - 1]
        /\ \A s \in archive : s.event = r.event => s = r

\* What the archive holds is the chain's history, and the cursor tells how far.
ArchiveIsSound == ArchiveTypeOK /\ CursorPassesArchivedOnly /\ ArchiveIsOneChain

\* Events are archived, whatever crashes and lags, unless the cursor falls out
\* of the RPC server's retention.
EventsAreArchived ==
    \A e \in Events : InRange(e) ~> (Archived(e) \/ Gap(cursor))

\* A lasting retention gap is an open incident for good: no ingestor's success
\* hides it.
GapIsSignalled == <>[]Gap(cursor) => <>[]incident
===============================================================================
