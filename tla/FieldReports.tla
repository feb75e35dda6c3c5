---------------------------- MODULE FieldReports ----------------------------
(***************************************************************************)
(* Field reports as the API stores them: createFieldReport,                *)
(* updateFieldReport and reviseFieldReportEvidence of                      *)
(* backend/src/services/fieldReports.service.ts with the enqueueing        *)
(* functions of integrity/integrityRepository.ts.                          *)
(*                                                                         *)
(* Every request reads the report in one database transaction and writes   *)
(* it in another.  The writing transaction runs at READ COMMITTED: its     *)
(* first statement takes the lock of the report's row (or of the client    *)
(* id's entry in the unique index), the next reads the latest row of       *)
(* report_integrity_anchors, the last inserts the next one.  Each          *)
(* statement is an action, so requests interleave between any two.         *)
(*                                                                         *)
(* AnchorOutbox takes over where this module stops: a row inserted here is *)
(* what its Enqueue starts from.                                           *)
(***************************************************************************)
EXTENDS Naturals, Sequences, FiniteSets

CONSTANTS
    ClientIds,      \* ids chosen by the mobile client, one per submission
    Requests,       \* HTTP requests; one that inserts a report names its id
    Contents,       \* what the integrity manifest covers of a report
    Statuses,       \* review statuses
    Submitted,      \* the status of a new report
    Assignees,      \* values of assignedTo
    Unassigned,     \* the assignee of a new report
    Keep,           \* a field a PATCH leaves out
    NoReport,       \* no report id
    MaxInFlight     \* how many requests the API handles at a time

ASSUME FieldReportsAssumption ==
    /\ Submitted \in Statuses
    /\ Unassigned \in Assignees
    /\ Keep \notin Statuses \cup Assignees
    /\ NoReport \notin Requests
    /\ MaxInFlight \in Nat \ {0}

VARIABLES
    reports,    \* rows of field_reports
    chained,    \* rows of report_integrity_anchors
    request     \* the requests, with what each holds in memory

vars == <<reports, chained, request>>

-------------------------------------------------------------------------------
Payload == [status : Statuses, assignedTo : Assignees, content : Contents]

\* id is a random id the creating request generates.  The status column is
\* kept next to the payload and is not always written with it.
ReportRow == [client : ClientIds, id : Requests, column : Statuses, payload : Payload]

\* hashReportForIntegrity covers the content alone (its revision is always 1);
\* hashReviewAttestation covers the status and the revision (and the previous
\* hash, the reviewer and the time, which nothing here tells apart).
ReportDigest(content) == [type |-> "report", of |-> content, revision |-> 1]
AttestationDigest(status, revision) ==
    [type |-> "review-attestation", of |-> status, revision |-> revision]

RevisionNumbers == Nat \ {0}

DigestsOf(revisions) ==
    [type : {"report"}, of : Contents, revision : {1}]
        \cup [type : {"review-attestation"}, of : Statuses, revision : revisions]
Digest == DigestsOf(RevisionNumbers)

NoDigest == [type |-> "none", of |-> NoReport, revision |-> 0]

AnchorRow == [report : Requests, revision : RevisionNumbers, digest : Digest,
              previous : Digest \cup {NoDigest}]

NoInput == [kind |-> "none"]
Creations == [kind : {"create"}, client : ClientIds, content : Contents]
Patches   == [kind : {"patch"}, report : Requests, status : Statuses \cup {Keep},
              assignedTo : Assignees \cup {Keep}]
Revisions == [kind : {"evidence"}, report : Requests, content : Contents]

Unread == [status |-> Keep, assignedTo |-> Keep, content |-> Keep]

\* step      where the request is
\* input     what the client sent
\* seen      the payload read by getFieldReport
\* row       the next row of the chain, once its revision and link are known
\* answer    the report id of a successful response
\* overwrote whether it wrote over a payload it had not read (history)
Idle == [step |-> "idle", input |-> NoInput, seen |-> Unread, row |-> {},
         answer |-> NoReport, overwrote |-> FALSE]

RequestState == [step : {"idle", "read", "written", "linked", "ok", "unchanged", "error"},
                 input : {NoInput} \cup Creations \cup Patches \cup Revisions,
                 seen : Payload \cup {Unread}, row : SUBSET AnchorRow,
                 answer : Requests \cup {NoReport}, overwrote : BOOLEAN]

FieldReportsTypeOK ==
    /\ reports \subseteq ReportRow
    /\ chained \subseteq AnchorRow
    /\ request \in [Requests -> RequestState]

-------------------------------------------------------------------------------
At(q, step) == request[q].step = step
InTransaction(q) == request[q].step \in {"written", "linked"}
InFlight == {q \in Requests : At(q, "read") \/ InTransaction(q)}

Stored(client) == {r \in reports : r.client = client}
ById(id) == {r \in reports : r.id = id}
ChainOf(id) == {a \in chained : a.report = id}

\* The report a request writes to; empty while a creation's is not inserted.
Target(q) ==
    IF request[q].input.kind = "create" THEN Stored(request[q].input.client)
                                        ELSE ById(request[q].input.report)

\* The client id whose row (or unique index entry) a request locks.
Locks(q) ==
    IF request[q].input.kind = "create"
    THEN {request[q].input.client}
    ELSE {r.client : r \in ById(request[q].input.report)}

\* The first query of a creation: a report with this client id is the answer,
\* unless it is not among the 500 reports the query returns.
ReadForCreate(q, input) ==
    /\ At(q, "idle")
    /\ Cardinality(InFlight) < MaxInFlight
    /\ \/ request' = [request EXCEPT ![q].step = "read", ![q].input = input]
       \/ \E r \in Stored(input.client) :
            request' = [request EXCEPT ![q].step = "ok", ![q].input = input,
                                       ![q].answer = r.id]
    /\ UNCHANGED <<reports, chained>>

\* getFieldReport at the start of a PATCH.
ReadForPatch(q, input) ==
    /\ At(q, "idle")
    /\ Cardinality(InFlight) < MaxInFlight
    /\ input.status # Keep \/ input.assignedTo # Keep
    /\ \E r \in ById(input.report) :
        request' = [request EXCEPT ![q].step = "read", ![q].input = input,
                                   ![q].seen = r.payload]
    /\ UNCHANGED <<reports, chained>>

\* getFieldReport at the start of PUT evidence; a revision that does not change
\* the digest is refused.
ReadForEvidence(q, input) ==
    /\ At(q, "idle")
    /\ Cardinality(InFlight) < MaxInFlight
    /\ \E r \in ById(input.report) :
        request' = [request EXCEPT
            ![q].step = IF r.payload.content = input.content THEN "unchanged" ELSE "read",
            ![q].input = input,
            ![q].seen = IF r.payload.content = input.content THEN Unread ELSE r.payload]
    /\ UNCHANGED <<reports, chained>>

\* The payload a request stores: what it read, with its own changes.
Written(q) ==
    LET input == request[q].input
        seen  == request[q].seen IN
    CASE input.kind = "create" ->
            [status |-> Submitted, assignedTo |-> Unassigned, content |-> input.content]
      [] input.kind = "patch" ->
            [seen EXCEPT !.status = IF input.status = Keep THEN @ ELSE input.status,
                         !.assignedTo = IF input.assignedTo = Keep THEN @ ELSE input.assignedTo]
      [] input.kind = "evidence" -> [seen EXCEPT !.content = input.content]

\* Mutant: the writing transaction takes no row lock.
WriteRowUnlocked(q) ==
    /\ At(q, "read")
    /\ request' = [request EXCEPT ![q].step = "written"]
    /\ UNCHANGED <<reports, chained>>

\* The first statement of the writing transaction waits for every transaction
\* that has written the same row; what it writes is visible at its commit.
WriteRow(q) ==
    /\ At(q, "read")
    /\ \A p \in Requests : InTransaction(p) => Locks(p) \cap Locks(q) = {}
    /\ request' = [request EXCEPT ![q].step = "written"]
    /\ UNCHANGED <<reports, chained>>

\* Whether the update has to be chained, and the digest it is chained with.
ChangesStatus(q) == request[q].input.status \notin {Keep, request[q].seen.status}

\* Mutant: only evidence is chained.
IsChainedEvidence(q) == request[q].input.kind # "patch"

IsChained(q) == request[q].input.kind = "patch" => ChangesStatus(q)

NextDigest(q, revision) ==
    IF request[q].input.kind = "patch"
    THEN AttestationDigest(request[q].input.status, revision)
    ELSE ReportDigest(Written(q).content)

\* SELECT ... ORDER BY revision DESC LIMIT 1: the row the next one succeeds.
Latest(id) == {a \in ChainOf(id) : \A b \in ChainOf(id) : b.revision <= a.revision}

Successor(q, last) ==
    [report |-> last.report, revision |-> last.revision + 1,
     digest |-> NextDigest(q, last.revision + 1), previous |-> last.digest]

FirstRow(id, content) ==
    [report |-> id, revision |-> 1, digest |-> ReportDigest(content), previous |-> NoDigest]

\* enqueueReportIntegrity (for the stored report, which after a conflict is not
\* the one sent), enqueueReviewAttestation or enqueueReportRevision up to the
\* insertion.
LinkRow(q) ==
    /\ At(q, "written")
    /\ request' = [request EXCEPT ![q].step = "linked", ![q].row =
           IF request[q].input.kind = "create"
           THEN IF Target(q) = {} THEN {FirstRow(q, request[q].input.content)}
                ELSE {FirstRow(r.id, r.payload.content) : r \in Target(q)}
           ELSE IF IsChained(q)
           THEN {Successor(q, last) : last \in UNION {Latest(r.id) : r \in Target(q)}}
           ELSE {}]
    /\ UNCHANGED <<reports, chained>>

SameRevision(a, b) == a.report = b.report /\ a.revision = b.revision

\* Mutant: ON CONFLICT DO UPDATE.
InsertedOver(rows) ==
    {b \in chained : \A a \in rows : ~SameRevision(a, b)} \cup rows

\* ON CONFLICT (..., report_id, revision) DO NOTHING
Inserted(rows) ==
    chained \cup {a \in rows : \A b \in chained : ~SameRevision(a, b)}

\* Mutant: every creation inserts a report of its own.
StoredTwice(q) ==
    IF request[q].input.kind = "create"
    THEN reports \cup {[client |-> request[q].input.client, id |-> q,
                        column |-> Submitted, payload |-> Written(q)]}
    ELSE (reports \ Target(q)) \cup
         {[r EXCEPT !.payload = Written(q)] : r \in Target(q)}

\* INSERT INTO field_reports ... ON CONFLICT (..., client_id) keeps the payload.
StoredRows(q) ==
    IF request[q].input.kind = "create"
    THEN IF Target(q) # {} THEN reports
         ELSE reports \cup {[client |-> request[q].input.client, id |-> q,
                             column |-> Submitted, payload |-> Written(q)]}
    ELSE (reports \ Target(q)) \cup
         {[r EXCEPT !.payload = Written(q),
                    !.column = IF request[q].input.kind = "patch" THEN Written(q).status
                                                                  ELSE @] : r \in Target(q)}

\* COMMIT of the writing transaction, and the response.
Commit(q) ==
    /\ At(q, "linked")
    /\ reports' = StoredRows(q)
    /\ chained' = Inserted(request[q].row)
    /\ \E r \in StoredRows(q) :
        /\ r.client \in Locks(q)
        /\ request' = [request EXCEPT ![q].step = "ok", ![q].seen = Unread,
                                   ![q].answer = r.id,
                                   ![q].overwrote = \E t \in Target(q) :
                                       request[q].seen \notin {Unread, t.payload}]

\* Mutant: the report is committed before its row is enqueued.
RollbackHalf(q) ==
    /\ InTransaction(q)
    /\ reports' = StoredRows(q)
    /\ request' = [request EXCEPT ![q].step = "error", ![q].seen = Unread, ![q].row = {}]
    /\ UNCHANGED chained

\* An exception, a lost connection or a crash of the process: ROLLBACK.
Rollback(q) ==
    /\ At(q, "read") \/ InTransaction(q)
    /\ request' = [request EXCEPT ![q].step = "error", ![q].seen = Unread, ![q].row = {}]
    /\ UNCHANGED <<reports, chained>>

-------------------------------------------------------------------------------
Init ==
    /\ reports = {}
    /\ chained = {}
    /\ request = [q \in Requests |-> Idle]

Read(q) ==
    \/ \E input \in Creations : ReadForCreate(q, input)
    \/ \E input \in Patches : ReadForPatch(q, input)
    \/ \E input \in Revisions : ReadForEvidence(q, input)

Next ==
    \E q \in Requests :
        Read(q) \/ WriteRow(q) \/ LinkRow(q) \/ Commit(q) \/ Rollback(q)

Spec == Init /\ [][Next]_vars

-------------------------------------------------------------------------------
(***************************************************************************)
(* Correctness under any interleaving of requests.                         *)
(***************************************************************************)

\* Submissions are idempotent per client id: a retry, even one that overlaps
\* the first attempt, stores no second report, and every successful response
\* names the same one.
IdempotentCreate ==
    /\ \A r, s \in reports : r.client = s.client => r = s
    /\ \A q \in Requests :
        At(q, "ok") /\ request[q].input.kind = "create" =>
            \E r \in reports : /\ r.client = request[q].input.client
                               /\ r.id = request[q].answer

\* No acknowledged change is missing from the chain: the row that a request
\* linked (its own digest, at its own revision) is there once it is answered.
AcknowledgedIsChained ==
    \A q \in Requests :
        /\ At(q, "ok")
        /\ request[q].input.kind = "create" => request[q].answer = q
        => request[q].row \subseteq chained

\* One request's commit is all or nothing: a report has a chain from the
\* moment it is stored, and a chain belongs to a stored report.
ReportHasChain == {r.id : r \in reports} = {a.report : a \in chained}

\* The rows of a report are a chain in the sense of getReportIntegrity:
\* revisions 1, 2, 3 ... without a gap, each linked to the one before it.
ChainLinksValid ==
    \A a \in chained :
        IF a.revision = 1 THEN a.previous = NoDigest
        ELSE \E b \in chained : /\ b.report = a.report
                                /\ b.revision = a.revision - 1
                                /\ b.digest = a.previous

\* Every stored report has a complete chain, however its requests overlap,
\* fail or are rolled back half way.
ChainsComplete == FieldReportsTypeOK /\ ReportHasChain /\ ChainLinksValid

\* The chain of every report only ever grows, by one digest at its end.  Every
\* request adds at most one row.
DigestAt(id, n) == (CHOOSE a \in ChainOf(id) : a.revision = n).digest

RowChain == INSTANCE HashChain WITH
    Keys   <- Requests,
    Hashes <- DigestsOf(1 .. Cardinality(Requests)),
    chain  <- [id \in Requests |-> [n \in 1 .. Cardinality(ChainOf(id)) |-> DigestAt(id, n)]]

ChainOnlyGrows == RowChain!Spec

\* The review status a report's chain stands for.
AttestedStatus(id) ==
    LET attestations == {a \in ChainOf(id) : a.digest.type = "review-attestation"} IN
    IF attestations = {} THEN Submitted
    ELSE (CHOOSE a \in attestations :
             \A b \in attestations : b.revision <= a.revision).digest.of

\* The stored status, payload and column, is the one attested last.
StatusIsAttested(r) ==
    r.payload.status = AttestedStatus(r.id) /\ r.column = r.payload.status

\* getReportIntegrity: the stored evidence is the one that the latest evidence row
\* commits to.  It tells so of confirmed rows only; here rows are as good as confirmed.
matchesCurrentReport(r) ==
    \E a \in ChainOf(r.id) :
        /\ a.digest = ReportDigest(r.payload.content)
        /\ \A b \in ChainOf(r.id) : b.digest.type = "report" => b.revision <= a.revision

\* A report agrees with its chain, both in status and in evidence, whatever
\* requests of any kind were handled at a time, were repeated or failed,
\* unless one of them wrote back a report that had changed since it was read.
ReportMatchesChain ==
    \A r \in reports :
        \/ \E q \in Requests : request[q].overwrote /\ request[q].answer = r.id
        \/ StatusIsAttested(r) /\ matchesCurrentReport(r)

\* Every change of a report's review status is attested.  The code does not
\* keep this when requests overlap.
StatusAttested == \A r \in reports : StatusIsAttested(r)
=============================================================================
