-------------------------- MODULE FieldReportsProofs --------------------------
(***************************************************************************)
(* Machine-checked proofs about FieldReports: for any number of requests,  *)
(* client ids, contents, statuses and assignees, and any overlap of the    *)
(* requests' transactions.                                                 *)
(***************************************************************************)
EXTENDS FieldReports, FiniteSetTheorems, SequenceTheorems, TLAPS

-------------------------------------------------------------------------------
(***************************************************************************)
(* The inductive invariant.  First the tables.                             *)
(***************************************************************************)
\* A report has one row, by client id and by id, and its creation was answered.
ReportsAreKeyed ==
    /\ \A r, s \in reports : r.client = s.client \/ r.id = s.id => r = s
    /\ \A r \in reports : At(r.id, "ok")

RevisionsAreUnique == \A a, b \in chained : SameRevision(a, b) => a = b

ChainsStart == \A r \in reports : \E a \in chained : a.report = r.id /\ a.revision = 1

ChainsEnd == \A r \in reports : Latest(r.id) # {}

TablesInv ==
    /\ ReportsAreKeyed
    /\ RevisionsAreUnique /\ ReportHasChain /\ ChainLinksValid /\ ChainsStart /\ ChainsEnd

\* Then every request.  What a writing request holds was read from a stored report.
IsCreation(q) == request[q].input.kind = "create"
Works(q) == At(q, "read") \/ InTransaction(q)

InputRead(q) ==
    Works(q) =>
        \/ request[q].input \in Creations
        \/ /\ request[q].input \in Patches \cup Revisions
           /\ request[q].seen \in Payload
           /\ ById(request[q].input.report) # {}

\* Two transactions under way never have the lock of one client id.
Alone(q) ==
    \A p \in Requests \ {q} :
        InTransaction(p) /\ InTransaction(q) => Locks(p) \cap Locks(q) = {}

\* What was linked is still what has to be inserted: the first row of a report that
\* is not stored, a first row that is there already, or the successor of the latest.
Successors(q) ==
    IF IsChained(q) THEN {Successor(q, b) : b \in Latest(request[q].input.report)} ELSE {}

Linked(q) ==
    At(q, "linked") =>
        /\ IsCreation(q) /\ Target(q) = {} =>
              request[q].row = {FirstRow(q, request[q].input.content)}
        /\ IsCreation(q) /\ Target(q) # {} =>
              \A a \in request[q].row : a.revision = 1 /\ ById(a.report) # {}
        /\ ~IsCreation(q) => request[q].row = Successors(q)

NothingLinked(q) == At(q, "idle") => request[q].row = {}

Answered(q) ==
    At(q, "ok") /\ IsCreation(q) =>
        \E r \in reports : r.client = request[q].input.client /\ r.id = request[q].answer

Acknowledged(q) ==
    At(q, "ok") /\ (IsCreation(q) => request[q].answer = q) => request[q].row \subseteq chained

OverwroteAnswered(q) == request[q].overwrote => At(q, "ok")

RequestInv(q) ==
    /\ InputRead(q) /\ Alone(q) /\ Linked(q) /\ NothingLinked(q)
    /\ Answered(q) /\ Acknowledged(q) /\ OverwroteAnswered(q)

Inv == FieldReportsTypeOK /\ TablesInv /\ \A q \in Requests : RequestInv(q)

LEMMA InvImpliesProperties ==
    Inv => IdempotentCreate /\ AcknowledgedIsChained /\ ChainsComplete
BY DEF Inv, TablesInv, ReportsAreKeyed, RequestInv, Answered, Acknowledged, IsCreation,
       IdempotentCreate, AcknowledgedIsChained, ChainsComplete

-------------------------------------------------------------------------------
\* The kinds of the inputs.
LEMMA Kinds ==
    /\ \A i \in Creations : i.kind = "create" /\ i.client \in ClientIds /\ i.content \in Contents
    /\ \A i \in Patches : i.kind = "patch" /\ i.report \in Requests
    /\ \A i \in Revisions : i.kind = "evidence" /\ i.report \in Requests /\ i.content \in Contents
    /\ NoInput.kind = "none"
BY DEF Creations, Patches, Revisions, NoInput

LEMMA PatchInputs ==
    ASSUME NEW i \in Patches
    PROVE  i.status \in Statuses \cup {Keep} /\ i.assignedTo \in Assignees \cup {Keep}
BY DEF Patches

LEMMA IdleType ==
    /\ Idle \in RequestState /\ Idle.step = "idle" /\ Idle.row = {} /\ ~Idle.overwrote
BY DEF Idle, RequestState

LEMMA WrittenType ==
    ASSUME Inv, NEW q \in Requests, Works(q) PROVE Written(q) \in Payload
<1> DEFINE i == request[q].input
           seen == request[q].seen
<1>1. InputRead(q)
  BY DEF Inv, RequestInv
<1>2. CASE i \in Creations
  <2>1. Written(q) = [status |-> Submitted, assignedTo |-> Unassigned, content |-> i.content]
    BY <1>2, Kinds DEF Written
  <2> QED BY <1>2, <2>1, Kinds, FieldReportsAssumption DEF Payload
<1>3. CASE i \in Patches
  <2>1. seen \in Payload
    BY <1>1, <1>3, Kinds DEF InputRead
  <2>2. Written(q) = [seen EXCEPT
            !.status = IF i.status = Keep THEN seen.status ELSE i.status,
            !.assignedTo = IF i.assignedTo = Keep THEN seen.assignedTo ELSE i.assignedTo]
    BY <1>3, Kinds DEF Written
  <2> QED BY <1>3, <2>1, <2>2, PatchInputs DEF Payload
<1>4. CASE i \in Revisions
  <2>1. seen \in Payload
    BY <1>1, <1>4, Kinds DEF InputRead
  <2>2. Written(q) = [seen EXCEPT !.content = i.content]
    BY <1>4, Kinds DEF Written
  <2> QED BY <1>4, <2>1, <2>2, Kinds DEF Payload
<1> QED BY <1>1, <1>2, <1>3, <1>4 DEF InputRead

\* The successor of a row of the chain is a row, at the next revision.
LEMMA SuccessorType ==
    ASSUME Inv, NEW q \in Requests, Works(q), ~IsCreation(q), IsChained(q), NEW b \in chained
    PROVE  /\ Successor(q, b) \in AnchorRow
           /\ Successor(q, b).report = b.report
           /\ Successor(q, b).revision = b.revision + 1
           /\ Successor(q, b).previous = b.digest
<1> DEFINE i == request[q].input
           n == b.revision + 1
           d == NextDigest(q, n)
<1>1. b.report \in Requests /\ n \in RevisionNumbers /\ b.digest \in Digest
  BY DEF Inv, FieldReportsTypeOK, AnchorRow, RevisionNumbers
<1>2. d \in Digest
  <2>1. CASE i \in Patches
    <3>1. d = [type |-> "review-attestation", of |-> i.status, revision |-> n]
      BY <2>1, Kinds DEF NextDigest, AttestationDigest
    <3>2. i.status \in Statuses
      BY <2>1, Kinds, PatchInputs DEF IsChained, ChangesStatus
    <3> QED BY <1>1, <3>1, <3>2 DEF Digest, DigestsOf
  <2>2. CASE i \in Revisions
    <3>1. d = [type |-> "report", of |-> Written(q).content, revision |-> 1]
      BY <2>2, Kinds DEF NextDigest, ReportDigest
    <3>2. Written(q).content \in Contents
      BY WrittenType DEF Payload
    <3> QED BY <3>1, <3>2 DEF Digest, DigestsOf
  <2>3. InputRead(q)
    BY DEF Inv, RequestInv
  <2> QED BY <2>1, <2>2, <2>3, Kinds DEF InputRead, IsCreation
<1> HIDE DEF d, n
<1>3. Successor(q, b) = [report |-> b.report, revision |-> n, digest |-> d, previous |-> b.digest]
  BY DEF Successor, d, n
<1>4. Successor(q, b) \in AnchorRow
  BY <1>1, <1>2, <1>3 DEF AnchorRow
<1> QED BY <1>3, <1>4 DEF n

LEMMA FirstRowType ==
    ASSUME NEW id \in Requests, NEW content \in Contents
    PROVE  /\ FirstRow(id, content) \in AnchorRow
           /\ FirstRow(id, content).report = id
           /\ FirstRow(id, content).revision = 1
           /\ FirstRow(id, content).previous = NoDigest
<1>1. ReportDigest(content) \in Digest
  BY DEF ReportDigest, Digest, DigestsOf
<1>2. 1 \in RevisionNumbers
  BY DEF RevisionNumbers
<1> QED BY <1>1, <1>2 DEF FirstRow, AnchorRow

-------------------------------------------------------------------------------
(***************************************************************************)
(* Steps of one request that leave the tables alone.                       *)
(***************************************************************************)
\* What does not concern a request's own record does not concern the request.
LEMMA Untouched ==
    ASSUME Inv, NEW p \in Requests, request'[p] = request[p], UNCHANGED <<reports, chained>>
    PROVE  /\ InputRead(p)' /\ Linked(p)' /\ NothingLinked(p)' /\ Answered(p)' /\ Acknowledged(p)'
           /\ OverwroteAnswered(p)'
           /\ Locks(p)' = Locks(p) /\ (InTransaction(p)' <=> InTransaction(p))
<1>1. InputRead(p) /\ Linked(p) /\ NothingLinked(p) /\ Answered(p) /\ Acknowledged(p)
  BY DEF Inv, RequestInv
<1>2. InputRead(p)'
  BY <1>1 DEF InputRead, Works, At, InTransaction, ById
<1>3. Locks(p)' = Locks(p) /\ (InTransaction(p)' <=> InTransaction(p))
  BY DEF Locks, ById, InTransaction
<1>4. /\ \A b : Successor(p, b)' = Successor(p, b)
      /\ IsChained(p)' = IsChained(p) /\ OverwroteAnswered(p)'
  BY DEF Successor, NextDigest, Written, IsChained, ChangesStatus, Inv, RequestInv,
         OverwroteAnswered, At
<1>5. Target(p)' = Target(p) /\ Latest(request[p].input.report)' = Latest(request[p].input.report)
  BY DEF Target, Latest, ChainOf, Stored, ById
<1>6. Linked(p)'
  <2> SUFFICES ASSUME At(p, "linked")'
               PROVE  /\ IsCreation(p)' /\ Target(p)' = {} =>
                            request'[p].row = {FirstRow(p, request[p].input.content)'}
                      /\ IsCreation(p)' /\ Target(p)' # {} =>
                            \A a \in request'[p].row : a.revision = 1 /\ ById(a.report)' # {}
                      /\ ~IsCreation(p)' => request'[p].row = Successors(p)'
    BY DEF Linked
  <2>1. At(p, "linked") /\ IsCreation(p)' = IsCreation(p)
    BY DEF At, IsCreation
  <2>2. \A id : ById(id)' = ById(id)
    BY DEF ById
  <2>3. FirstRow(p, request[p].input.content)' = FirstRow(p, request[p].input.content)
    BY DEF FirstRow, ReportDigest
  <2>4. Successors(p)' = Successors(p)
    BY <1>4, <1>5 DEF Successors
  <2> QED BY <1>1, <1>5, <2>1, <2>2, <2>3, <2>4 DEF Linked
<1>7. NothingLinked(p)' /\ Answered(p)' /\ Acknowledged(p)'
  BY <1>1 DEF NothingLinked, Answered, Acknowledged, At, IsCreation
<1> QED BY <1>2, <1>3, <1>4, <1>6, <1>7

LEMMA QuietStep ==
    ASSUME Inv, NEW q \in Requests, ~At(q, "ok"),
           request' \in [Requests -> RequestState],
           \A p \in Requests \ {q} : request'[p] = request[p],
           UNCHANGED <<reports, chained>>, RequestInv(q)'
    PROVE  Inv'
<1>1. FieldReportsTypeOK'
  BY DEF Inv, FieldReportsTypeOK
<1>2. TablesInv'
  <2>1. \A r \in reports : r.id \in Requests /\ At(r.id, "ok")
    BY DEF Inv, TablesInv, ReportsAreKeyed, FieldReportsTypeOK, ReportRow
  <2>2. \A r \in reports : r.id # q
    BY <2>1 DEF At
  <2>3. \A r \in reports : At(r.id, "ok")'
    BY <2>1, <2>2 DEF At
  <2>4. ReportsAreKeyed'
    BY <2>3 DEF Inv, TablesInv, ReportsAreKeyed
  <2> QED BY <2>4 DEF Inv, TablesInv, RevisionsAreUnique, SameRevision, ReportHasChain,
          ChainLinksValid, ChainsStart, ChainsEnd, Latest, ChainOf
<1>3. ASSUME NEW p \in Requests \ {q} PROVE RequestInv(p)'
  <2>1. /\ InputRead(p)' /\ Linked(p)' /\ NothingLinked(p)' /\ Answered(p)' /\ Acknowledged(p)'
        /\ OverwroteAnswered(p)'
    BY Untouched
  <2>2. Alone(p) /\ Alone(q)'
    BY DEF Inv, RequestInv
  <2>3. ASSUME NEW o \in Requests \ {p}, InTransaction(o)', InTransaction(p)'
        PROVE  Locks(o)' \cap Locks(p)' = {}
    <3>1. CASE o = q
      BY <2>2, <2>3, <3>1 DEF Alone
    <3>2. CASE o # q
      BY <2>2, <2>3, <3>2, Untouched DEF Alone
    <3> QED BY <3>1, <3>2
  <2> QED BY <2>1, <2>3 DEF RequestInv, Alone
<1> QED BY <1>1, <1>2, <1>3 DEF Inv

\* The request's record changes to new.
LEMMA Changes ==
    ASSUME Inv, NEW q \in Requests, NEW new \in RequestState,
           request' = [request EXCEPT ![q] = new]
    PROVE  /\ request' \in [Requests -> RequestState]
           /\ request'[q] = new
           /\ \A p \in Requests \ {q} : request'[p] = request[p]
BY DEF Inv, FieldReportsTypeOK

\* A request that starts to work, or is answered from what is stored.
LEMMA ReadPreserves ==
    ASSUME Inv, NEW q \in Requests, Read(q) PROVE Inv'
<1>1. At(q, "idle") /\ UNCHANGED <<reports, chained>>
  BY DEF Read, ReadForCreate, ReadForPatch, ReadForEvidence
<1>2. /\ request[q] \in RequestState /\ request[q].row = {} /\ ~At(q, "ok")
      /\ reports \subseteq ReportRow /\ ~request[q].overwrote
  BY <1>1 DEF Inv, FieldReportsTypeOK, RequestInv, NothingLinked, OverwroteAnswered, At
<1>3. ASSUME NEW new \in RequestState, request' = [request EXCEPT ![q] = new],
             new.row = {}, ~new.overwrote, new.step \in {"read", "ok", "unchanged"},
             new.step = "read" =>
                \/ new.input \in Creations
                \/ /\ new.input \in Patches \cup Revisions
                   /\ new.seen \in Payload
                   /\ ById(new.input.report) # {},
             new.step = "ok" =>
                \E r \in reports : r.client = new.input.client /\ r.id = new.answer
      PROVE  Inv'
  <2>1. /\ request' \in [Requests -> RequestState] /\ request'[q] = new
        /\ \A p \in Requests \ {q} : request'[p] = request[p]
    BY <1>3, Changes
  <2>2. InputRead(q)'
    BY <1>1, <1>3, <2>1 DEF InputRead, Works, At, InTransaction, ById
  <2>3. Alone(q)' /\ Linked(q)' /\ NothingLinked(q)'
    BY <1>3, <2>1 DEF Alone, Linked, NothingLinked, InTransaction, At
  <2>4. Answered(q)' /\ Acknowledged(q)' /\ OverwroteAnswered(q)'
    BY <1>1, <1>3, <2>1 DEF Answered, Acknowledged, OverwroteAnswered, At
  <2>5. RequestInv(q)'
    BY <2>2, <2>3, <2>4 DEF RequestInv
  <2> QED BY <1>1, <1>2, <2>1, <2>5, QuietStep
<1>4. CASE \E input \in Creations : ReadForCreate(q, input)
  <2>1. PICK input \in Creations : ReadForCreate(q, input)
    BY <1>4
  <2>2. CASE request' = [request EXCEPT ![q].step = "read", ![q].input = input]
    <3> DEFINE new == [request[q] EXCEPT !.step = "read", !.input = input]
    <3>1. request' = [request EXCEPT ![q] = new]
      BY <2>2
    <3>2. /\ new \in RequestState /\ new.row = {} /\ new.step = "read" /\ new.input = input
          /\ ~new.overwrote
      BY <1>2 DEF RequestState
    <3> HIDE DEF new
    <3> QED BY <1>3, <3>1, <3>2
  <2>3. CASE \E r \in Stored(input.client) :
                 request' = [request EXCEPT ![q].step = "ok", ![q].input = input,
                                            ![q].answer = r.id]
    <3>1. PICK r \in Stored(input.client) :
                 request' = [request EXCEPT ![q].step = "ok", ![q].input = input,
                                            ![q].answer = r.id]
      BY <2>3
    <3> DEFINE id == r.id
               new == [request[q] EXCEPT !.step = "ok", !.input = input, !.answer = id]
    <3>2. request' = [request EXCEPT ![q] = new]
      BY <3>1
    <3>3. r \in reports /\ r.client = input.client /\ id \in Requests
      BY <1>2 DEF Stored, ReportRow
    <3> HIDE DEF id
    <3>4. /\ new \in RequestState /\ new.row = {} /\ new.step = "ok" /\ new.input = input
          /\ new.answer = id /\ ~new.overwrote
      BY <1>2, <3>3 DEF RequestState
    <3> HIDE DEF new
    <3>5. \E x \in reports : x.client = new.input.client /\ x.id = new.answer
      BY <3>3, <3>4 DEF id
    <3> QED BY <1>3, <3>2, <3>4, <3>5
  <2> QED BY <2>1, <2>2, <2>3 DEF ReadForCreate
<1>5. CASE \E input \in Patches : ReadForPatch(q, input)
  <2>1. PICK input \in Patches : ReadForPatch(q, input)
    BY <1>5
  <2>2. PICK r \in ById(input.report) :
            request' = [request EXCEPT ![q].step = "read", ![q].input = input,
                                       ![q].seen = r.payload]
    BY <2>1 DEF ReadForPatch
  <2> DEFINE payload == r.payload
             new == [request[q] EXCEPT !.step = "read", !.input = input, !.seen = payload]
  <2>3. request' = [request EXCEPT ![q] = new]
    BY <2>2
  <2>4. payload \in Payload /\ ById(input.report) # {}
    BY <1>2 DEF ById, ReportRow
  <2> HIDE DEF payload
  <2>5. /\ new \in RequestState /\ new.row = {} /\ new.step = "read" /\ new.input = input
        /\ new.seen = payload /\ ~new.overwrote
    BY <1>2, <2>4 DEF RequestState
  <2> HIDE DEF new
  <2> QED BY <1>3, <2>3, <2>4, <2>5
<1>6. CASE \E input \in Revisions : ReadForEvidence(q, input)
  <2>1. PICK input \in Revisions : ReadForEvidence(q, input)
    BY <1>6
  <2>2. PICK r \in ById(input.report) :
          request' = [request EXCEPT
            ![q].step = IF r.payload.content = input.content THEN "unchanged" ELSE "read",
            ![q].input = input,
            ![q].seen = IF r.payload.content = input.content THEN Unread ELSE r.payload]
    BY <2>1 DEF ReadForEvidence
  <2> DEFINE step == IF r.payload.content = input.content THEN "unchanged" ELSE "read"
             seen == IF r.payload.content = input.content THEN Unread ELSE r.payload
             new == [request[q] EXCEPT !.step = step, !.input = input, !.seen = seen]
  <2>3. request' = [request EXCEPT ![q] = new]
    BY <2>2
  <2>4. /\ ById(input.report) # {} /\ seen \in Payload \cup {Unread}
        /\ step \in {"unchanged", "read"} /\ (step = "read" => seen \in Payload)
    BY <1>2 DEF ById, ReportRow
  <2> HIDE DEF step, seen
  <2>5. /\ new \in RequestState /\ new.row = {} /\ new.step = step /\ new.input = input
        /\ new.seen = seen /\ ~new.overwrote
    BY <1>2, <2>4 DEF RequestState
  <2> HIDE DEF new
  <2> QED BY <1>3, <2>3, <2>4, <2>5
<1> QED BY <1>4, <1>5, <1>6 DEF Read

\* The row lock is waited for.
LEMMA WriteRowPreserves ==
    ASSUME Inv, NEW q \in Requests, WriteRow(q) PROVE Inv'
<1> DEFINE new == [request[q] EXCEPT !.step = "written"]
<1>1. At(q, "read") /\ UNCHANGED <<reports, chained>> /\ request' = [request EXCEPT ![q] = new]
  BY DEF WriteRow
<1>2. request[q] \in RequestState /\ ~request[q].overwrote
  BY <1>1 DEF Inv, FieldReportsTypeOK, RequestInv, OverwroteAnswered, At
<1>3. /\ new \in RequestState /\ new.step = "written" /\ new.input = request[q].input
      /\ new.seen = request[q].seen /\ ~new.overwrote
  BY <1>2 DEF RequestState
<1> HIDE DEF new
<1>4. /\ request' \in [Requests -> RequestState] /\ request'[q] = new
      /\ \A p \in Requests \ {q} : request'[p] = request[p]
  BY <1>1, <1>3, Changes
<1>5. InputRead(q)'
  BY <1>1, <1>3, <1>4 DEF Inv, RequestInv, InputRead, Works, At, InTransaction, ById
<1>6. Alone(q)'
  <2>1. \A p \in Requests : InTransaction(p) => Locks(p) \cap Locks(q) = {}
    BY DEF WriteRow
  <2>2. Locks(q)' = Locks(q)
    BY <1>1, <1>3, <1>4 DEF Locks, ById
  <2> QED BY <1>1, <1>4, <2>1, <2>2, Untouched DEF Alone
<1>7. /\ Linked(q)' /\ NothingLinked(q)' /\ Answered(q)' /\ Acknowledged(q)'
      /\ OverwroteAnswered(q)'
  BY <1>3, <1>4 DEF Linked, NothingLinked, Answered, Acknowledged, OverwroteAnswered, At
<1>8. ~At(q, "ok")
  BY <1>1 DEF At
<1> QED BY <1>1, <1>4, <1>5, <1>6, <1>7, <1>8, QuietStep DEF RequestInv

LEMMA RollbackPreserves ==
    ASSUME Inv, NEW q \in Requests, Rollback(q) PROVE Inv'
<1> DEFINE new == [request[q] EXCEPT !.step = "error", !.seen = Unread, !.row = {}]
<1>1. Works(q) /\ UNCHANGED <<reports, chained>> /\ request' = [request EXCEPT ![q] = new]
  BY DEF Rollback, Works
<1>2. request[q] \in RequestState /\ ~request[q].overwrote
  BY <1>1 DEF Inv, FieldReportsTypeOK, RequestInv, OverwroteAnswered, At, Works, InTransaction
<1>3. new \in RequestState /\ new.step = "error" /\ ~new.overwrote
  BY <1>2 DEF RequestState
<1> HIDE DEF new
<1>4. /\ request' \in [Requests -> RequestState] /\ request'[q] = new
      /\ \A p \in Requests \ {q} : request'[p] = request[p]
  BY <1>1, <1>3, Changes
<1>5. InputRead(q)' /\ Alone(q)' /\ Linked(q)'
  BY <1>3, <1>4 DEF InputRead, Alone, Linked, Works, InTransaction, At
<1>6. NothingLinked(q)' /\ Answered(q)' /\ Acknowledged(q)' /\ OverwroteAnswered(q)'
  BY <1>3, <1>4 DEF NothingLinked, Answered, Acknowledged, OverwroteAnswered, At
<1>7. ~At(q, "ok")
  BY <1>1 DEF Works, InTransaction, At
<1> QED BY <1>1, <1>4, <1>5, <1>6, <1>7, QuietStep DEF RequestInv

\* The latest row of the chain is read, and the next one prepared.
LEMMA LinkRowPreserves ==
    ASSUME Inv, NEW q \in Requests, LinkRow(q) PROVE Inv'
<1> DEFINE input == request[q].input
           rows == IF IsCreation(q)
                   THEN IF Target(q) = {} THEN {FirstRow(q, input.content)}
                        ELSE {FirstRow(r.id, r.payload.content) : r \in Target(q)}
                   ELSE IF IsChained(q)
                   THEN {Successor(q, last) : last \in UNION {Latest(r.id) : r \in Target(q)}}
                   ELSE {}
           new == [request[q] EXCEPT !.step = "linked", !.row = rows]
<1>1. /\ At(q, "written") /\ UNCHANGED <<reports, chained>>
      /\ request' = [request EXCEPT ![q] = new]
  BY DEF LinkRow, IsCreation
<1>2. /\ request[q] \in RequestState /\ Works(q) /\ reports \subseteq ReportRow
      /\ chained \subseteq AnchorRow /\ InputRead(q) /\ ~request[q].overwrote
  BY <1>1 DEF Inv, FieldReportsTypeOK, Works, InTransaction, At, RequestInv, OverwroteAnswered
<1>3. /\ rows \subseteq AnchorRow
      /\ IsCreation(q) /\ Target(q) = {} => rows = {FirstRow(q, input.content)}
      /\ IsCreation(q) /\ Target(q) # {} => \A a \in rows : a.revision = 1 /\ ById(a.report) # {}
      /\ ~IsCreation(q) => rows = Successors(q)
  <2>1. CASE IsCreation(q) /\ Target(q) = {}
    <3>1. rows = {FirstRow(q, input.content)}
      BY <2>1
    <3>2. input \in Creations
      BY <1>2, <2>1, Kinds DEF InputRead, IsCreation
    <3>3. FirstRow(q, input.content) \in AnchorRow
      BY <3>2, Kinds, FirstRowType
    <3> QED BY <2>1, <3>1, <3>3
  <2>2. CASE IsCreation(q) /\ Target(q) # {}
    <3>1. rows = {FirstRow(r.id, r.payload.content) : r \in Target(q)}
      BY <2>2
    <3>2. ASSUME NEW r \in Target(q)
          PROVE  /\ FirstRow(r.id, r.payload.content) \in AnchorRow
                 /\ FirstRow(r.id, r.payload.content).revision = 1
                 /\ ById(FirstRow(r.id, r.payload.content).report) # {}
      <4>1. r \in reports /\ r.id \in Requests /\ r.payload.content \in Contents
        BY <1>2, <2>2 DEF Target, Stored, ReportRow, Payload, IsCreation
      <4>2. r \in ById(r.id)
        BY <4>1 DEF ById
      <4> QED BY <4>1, <4>2, FirstRowType
    <3> HIDE DEF rows
    <3> QED BY <2>2, <3>1, <3>2
  <2>3. CASE ~IsCreation(q)
    <3>1. Target(q) # {} /\ \A r \in Target(q) : r.id = input.report
      BY <1>2, <2>3, Kinds DEF InputRead, Target, ById, IsCreation
    <3>2. UNION {Latest(r.id) : r \in Target(q)} = Latest(input.report)
      BY <3>1
    <3>3. rows = Successors(q)
      BY <2>3, <3>2 DEF Successors
    <3>4. ASSUME NEW a \in rows PROVE a \in AnchorRow
      <4>1. IsChained(q) /\ \E b \in Latest(input.report) : a = Successor(q, b)
        BY <3>3 DEF Successors
      <4>2. PICK b \in Latest(input.report) : a = Successor(q, b)
        BY <4>1
      <4>3. b \in chained
        BY DEF Latest, ChainOf
      <4> QED BY <1>2, <2>3, <4>1, <4>2, <4>3, SuccessorType
    <3> HIDE DEF rows
    <3> QED BY <2>3, <3>3, <3>4
  <2> QED BY <2>1, <2>2, <2>3
<1> HIDE DEF rows
<1>4. /\ new \in RequestState /\ new.step = "linked" /\ new.row = rows
      /\ new.input = input /\ new.seen = request[q].seen /\ ~new.overwrote
  BY <1>2, <1>3 DEF RequestState
<1> HIDE DEF new
<1>5. /\ request' \in [Requests -> RequestState] /\ request'[q] = new
      /\ \A p \in Requests \ {q} : request'[p] = request[p]
  BY <1>1, <1>4, Changes
<1>6. InputRead(q)'
  BY <1>1, <1>2, <1>4, <1>5 DEF InputRead, Works, InTransaction, At, ById
<1>7. Alone(q)'
  <2>1. Locks(q)' = Locks(q) /\ InTransaction(q)
    BY <1>1, <1>4, <1>5 DEF Locks, ById, InTransaction, At
  <2>2. Alone(q)
    BY DEF Inv, RequestInv
  <2> QED BY <1>1, <1>5, <2>1, <2>2, Untouched DEF Alone
<1>8. Linked(q)'
  <2>1. IsCreation(q)' = IsCreation(q) /\ Target(q)' = Target(q)
    BY <1>1, <1>4, <1>5 DEF IsCreation, Target, Stored, ById
  <2>2. \A b : Successor(q, b)' = Successor(q, b)
    <3>1. request'[q].input = request[q].input /\ request'[q].seen = request[q].seen
      BY <1>4, <1>5
    <3>2. Written(q)' = Written(q)
      BY <3>1 DEF Written
    <3>3. \A n : NextDigest(q, n)' = NextDigest(q, n)
      BY <3>1, <3>2 DEF NextDigest, AttestationDigest, ReportDigest
    <3> QED BY <3>3 DEF Successor
  <2>3. /\ Latest(request[q].input.report)' = Latest(input.report)
        /\ FirstRow(q, request[q].input.content)' = FirstRow(q, input.content)
        /\ \A id : ById(id)' = ById(id)
    BY <1>1, <1>4, <1>5 DEF Latest, ChainOf, ById, FirstRow, ReportDigest
  <2>4. request'[q].row = rows /\ IsChained(q)' = IsChained(q)
    BY <1>4, <1>5 DEF IsChained, ChangesStatus
  <2>5. Successors(q)' = Successors(q)
    BY <2>2, <2>3, <2>4 DEF Successors
  <2> QED BY <1>3, <2>1, <2>3, <2>4, <2>5 DEF Linked
<1>9. NothingLinked(q)' /\ Answered(q)' /\ Acknowledged(q)' /\ OverwroteAnswered(q)'
  BY <1>4, <1>5 DEF NothingLinked, Answered, Acknowledged, OverwroteAnswered, At
<1>10. ~At(q, "ok")
  BY <1>1 DEF At
<1> QED BY <1>1, <1>5, <1>6, <1>7, <1>8, <1>9, <1>10, QuietStep DEF RequestInv

-------------------------------------------------------------------------------
(***************************************************************************)
(* The commit.                                                             *)
(***************************************************************************)
SameReport(r, s) == r.client = s.client /\ r.id = s.id
Creates(q) == IsCreation(q) /\ Target(q) = {}

LEMMA Linking ==
    ASSUME Inv, NEW q \in Requests, At(q, "linked")
    PROVE  /\ Works(q) /\ InTransaction(q) /\ InputRead(q) /\ Linked(q) /\ Alone(q)
           /\ request[q] \in RequestState /\ request[q].row \subseteq AnchorRow
           /\ reports \subseteq ReportRow /\ chained \subseteq AnchorRow
           /\ \A r \in reports : r.id # q
           /\ \A a \in chained : a.report # q
           /\ IsCreation(q) => request[q].input \in Creations
           /\ ~IsCreation(q) => /\ request[q].input.report \in Requests
                                /\ ById(request[q].input.report) # {}
<1>1. Works(q) /\ InTransaction(q)
  BY DEF Works, InTransaction, At
<1>2. InputRead(q) /\ Linked(q) /\ Alone(q)
  BY DEF Inv, RequestInv
<1>3. /\ request[q] \in RequestState /\ reports \subseteq ReportRow /\ chained \subseteq AnchorRow
  BY DEF Inv, FieldReportsTypeOK
<1>4. request[q].row \subseteq AnchorRow
  BY <1>3 DEF RequestState
<1>5. \A r \in reports : r.id # q
  BY DEF Inv, TablesInv, ReportsAreKeyed, At
<1>6. \A a \in chained : a.report # q
  BY <1>5 DEF Inv, TablesInv, ReportHasChain
<1>7. IsCreation(q) => request[q].input \in Creations
  BY <1>1, <1>2, Kinds DEF InputRead, IsCreation
<1>8. ~IsCreation(q) => /\ request[q].input.report \in Requests
                        /\ ById(request[q].input.report) # {}
  BY <1>1, <1>2, Kinds DEF InputRead, IsCreation
<1> QED BY <1>1, <1>2, <1>3, <1>4, <1>5, <1>6, <1>7, <1>8

\* The reports keep their identity; a commit adds at most the report it creates.
LEMMA CommitReports ==
    ASSUME Inv, NEW q \in Requests, At(q, "linked")
    PROVE  /\ StoredRows(q) \subseteq ReportRow
           /\ \A r \in reports : \E s \in StoredRows(q) : SameReport(r, s)
           /\ \A s \in StoredRows(q) :
                 \/ \E r \in reports : SameReport(r, s)
                 \/ Creates(q) /\ s.client = request[q].input.client /\ s.id = q
           /\ Creates(q) => \E s \in StoredRows(q) : s.id = q
           /\ \A r, s \in StoredRows(q) : r.client = s.client \/ r.id = s.id => r = s
<1> DEFINE input == request[q].input
           payload == Written(q)
<1>1. payload \in Payload
  BY WrittenType, Linking
<1>2. \A r, s \in reports : r.client = s.client \/ r.id = s.id => r = s
  BY DEF Inv, TablesInv, ReportsAreKeyed
<1>3. CASE Creates(q)
  <2> DEFINE row == [client |-> input.client, id |-> q, column |-> Submitted, payload |-> payload]
  <2>1. StoredRows(q) = reports \cup {row}
    BY <1>3 DEF StoredRows, Creates, IsCreation
  <2>2. row \in ReportRow
    BY <1>1, <1>3, Linking, Kinds, FieldReportsAssumption DEF Creates, ReportRow
  <2>3. row.client = input.client /\ row.id = q
    OBVIOUS
  <2>4. \A r \in reports : r.client # input.client /\ r.id # q
    BY <1>3, Linking DEF Creates, Target, Stored, IsCreation
  <2> HIDE DEF row
  <2> QED BY <1>2, <1>3, <2>1, <2>2, <2>3, <2>4, Linking DEF SameReport
<1>4. CASE IsCreation(q) /\ ~Creates(q)
  <2>1. StoredRows(q) = reports
    BY <1>4 DEF StoredRows, Creates, IsCreation
  <2> QED BY <1>2, <1>4, <2>1, Linking DEF SameReport
<1>5. CASE ~IsCreation(q)
  <2> DEFINE column(r) == IF input.kind = "patch" THEN payload.status ELSE r.column
             update(r) == [r EXCEPT !.payload = payload, !.column = column(r)]
  <2>1. StoredRows(q) = (reports \ Target(q)) \cup {update(r) : r \in Target(q)}
    BY <1>5 DEF StoredRows, IsCreation
  <2>2. Target(q) \subseteq reports
    BY <1>5 DEF Target, ById, IsCreation
  <2>3. \A r \in Target(q) : update(r) \in ReportRow /\ SameReport(r, update(r))
    BY <1>1, <2>2, Linking, ZenonT(60) DEF ReportRow, Payload, SameReport
  <2>4. ~Creates(q)
    BY <1>5 DEF Creates
  <2> HIDE DEF update
  <2>5. \A s \in StoredRows(q) :
            \/ s \in reports \ Target(q)
            \/ \E r \in Target(q) : s = update(r)
    BY <2>1
  <2>6. StoredRows(q) \subseteq ReportRow
    BY <2>3, <2>5, Linking
  <2>7. \A r \in reports : \E s \in StoredRows(q) : SameReport(r, s)
    BY <2>1, <2>3 DEF SameReport
  <2>8. \A s \in StoredRows(q) : \E r \in reports : SameReport(r, s)
    BY <2>2, <2>3, <2>5 DEF SameReport
  <2>9. \A r, s \in StoredRows(q) : r.client = s.client \/ r.id = s.id => r = s
    BY <1>2, <2>2, <2>3, <2>5 DEF SameReport
  <2> QED BY <2>4, <2>6, <2>7, <2>8, <2>9
<1> QED BY <1>3, <1>4, <1>5

\* A row is only ever inserted at the end of a chain.
LEMMA CommitChain ==
    ASSUME Inv, NEW q \in Requests, At(q, "linked"), NEW rows, rows = Inserted(request[q].row)
    PROVE  /\ chained \subseteq rows /\ rows \subseteq AnchorRow
           /\ \A a \in rows \ chained :
                 \/ Creates(q) /\ a = FirstRow(q, request[q].input.content)
                 \/ /\ ~IsCreation(q)
                    /\ \E b \in Latest(request[q].input.report) : a = Successor(q, b)
           /\ (IsCreation(q) /\ ~Creates(q)) \/ request[q].row \subseteq rows
<1> DEFINE input == request[q].input
<1>1. rows = chained \cup {a \in request[q].row : \A b \in chained : ~SameRevision(a, b)}
  BY DEF Inserted
<1>2. chained \subseteq rows /\ rows \subseteq AnchorRow
  BY <1>1, Linking
<1>3. CASE Creates(q)
  <2>1. request[q].row = {FirstRow(q, input.content)}
    BY <1>3, Linking DEF Linked, Creates
  <2>2. FirstRow(q, input.content).report = q
    BY DEF FirstRow
  <2>3. \A b \in chained : ~SameRevision(FirstRow(q, input.content), b)
    BY <2>2, Linking DEF SameRevision
  <2> QED BY <1>1, <1>2, <1>3, <2>1, <2>3
<1>4. CASE IsCreation(q) /\ ~Creates(q)
  <2>1. \A a \in request[q].row : a.revision = 1 /\ ById(a.report) # {}
    BY <1>4, Linking DEF Linked, Creates
  <2>2. \A a \in request[q].row : \E b \in chained : SameRevision(a, b)
    BY <2>1 DEF ById, SameRevision, Inv, TablesInv, ChainsStart
  <2> QED BY <1>1, <1>2, <1>4, <2>2
<1>5. CASE ~IsCreation(q)
  <2>1. \A a \in request[q].row : \E b \in Latest(input.report) : a = Successor(q, b)
    <3>1. request[q].row = Successors(q)
      BY <1>5, Linking DEF Linked
    <3> QED BY <3>1 DEF Successors
  <2>2. ASSUME NEW a \in request[q].row, NEW c \in chained PROVE ~SameRevision(a, c)
    <3>1. PICK b \in Latest(input.report) : a = Successor(q, b)
      BY <2>1
    <3>2. /\ b \in chained /\ b.report = input.report
          /\ a.report = b.report /\ a.revision = b.revision + 1
      BY <3>1 DEF Latest, ChainOf, Successor
    <3>3. c.report = input.report => c.revision <= b.revision
      BY DEF Latest, ChainOf
    <3>4. b.revision \in Nat /\ c.revision \in Nat
      BY <3>2, Linking DEF AnchorRow, RevisionNumbers
    <3> QED BY <3>2, <3>3, <3>4 DEF SameRevision
  <2> QED BY <1>1, <1>2, <1>5, <2>1, <2>2
<1> QED BY <1>3, <1>4, <1>5

\* What a commit adds to which chain.
LEMMA CommitChains ==
    ASSUME Inv, NEW q \in Requests, At(q, "linked"), chained' = Inserted(request[q].row)
    PROVE  /\ \A id : id # q =>
                \/ ChainOf(id)' = ChainOf(id)
                \/ /\ ~IsCreation(q) /\ IsChained(q) /\ id = request[q].input.report
                   /\ \E last \in Latest(id) :
                        ChainOf(id)' = ChainOf(id) \cup {Successor(q, last)}
           /\ Creates(q) => ChainOf(q)' = {FirstRow(q, request[q].input.content)}
           /\ ~IsCreation(q) /\ IsChained(q) => \A id \in {request[q].input.report} :
                \E last \in Latest(id) : ChainOf(id)' = ChainOf(id) \cup {Successor(q, last)}
<1> DEFINE input == request[q].input
           report == input.report
<1>1. /\ chained \subseteq chained'
      /\ \A a \in chained' \ chained :
            \/ Creates(q) /\ a = FirstRow(q, input.content)
            \/ ~IsCreation(q) /\ \E b \in Latest(report) : a = Successor(q, b)
      /\ (IsCreation(q) /\ ~Creates(q)) \/ request[q].row \subseteq chained'
  BY CommitChain
<1>2. FirstRow(q, input.content).report = q
  BY DEF FirstRow
<1>3. CASE IsCreation(q)
  <2>1. \A id : id # q => ChainOf(id)' = ChainOf(id)
    BY <1>1, <1>2, <1>3 DEF ChainOf
  <2>2. Creates(q) => ChainOf(q)' = {FirstRow(q, input.content)}
    BY <1>1, <1>2, <1>3, Linking DEF ChainOf, Linked, Creates
  <2> QED BY <1>3, <2>1, <2>2
<1>4. CASE ~IsCreation(q) /\ ~IsChained(q)
  <2>1. request[q].row = {}
    BY <1>4, Linking DEF Linked, Successors
  <2>2. chained' = chained
    BY <2>1 DEF Inserted
  <2> QED BY <1>4, <2>2 DEF ChainOf, Creates
<1>5. CASE ~IsCreation(q) /\ IsChained(q)
  <2>1. PICK last \in Latest(report) : TRUE
    BY <1>5, Linking DEF ById, Inv, TablesInv, ChainsEnd
  <2>2. \A b \in Latest(report) : b = last
    <3> TAKE b \in Latest(report)
    <3>1. /\ b \in chained /\ last \in chained /\ b.report = last.report
          /\ b.revision <= last.revision /\ last.revision <= b.revision
          /\ b.revision \in Nat /\ last.revision \in Nat
      BY <2>1, Linking DEF Latest, ChainOf, AnchorRow, RevisionNumbers
    <3> QED BY <3>1 DEF Inv, TablesInv, RevisionsAreUnique, SameRevision
  <2>3. request[q].row = {Successor(q, last)}
    <3>1. request[q].row = Successors(q)
      BY <1>5, Linking DEF Linked
    <3>2. Latest(report) = {last}
      BY <2>1, <2>2
    <3>3. request[q].row = {Successor(q, b) : b \in Latest(report)}
      BY <1>5, <3>1 DEF Successors
    <3> HIDE DEF report, input
    <3> QED BY <3>2, <3>3, Zenon
  <2>4. chained' = chained \cup {Successor(q, last)}
    BY <1>1, <1>5, <2>3 DEF Inserted
  <2>5. Successor(q, last).report = report
    BY <2>1 DEF Successor, Latest, ChainOf
  <2>6. \A id : ChainOf(id)' = IF id = report THEN ChainOf(id) \cup {Successor(q, last)}
                               ELSE ChainOf(id)
    BY <2>4, <2>5 DEF ChainOf
  <2>7. ASSUME NEW id, id # q
        PROVE  \/ ChainOf(id)' = ChainOf(id)
               \/ /\ id = report
                  /\ \E b \in Latest(id) : ChainOf(id)' = ChainOf(id) \cup {Successor(q, b)}
    BY <2>1, <2>6
  <2>8. ~Creates(q) /\ \A id \in {report} : ChainOf(id)' = ChainOf(id) \cup {Successor(q, last)}
    BY <1>5, <2>6 DEF Creates
  <2> HIDE DEF report, input
  <2> QED BY <1>5, <2>1, <2>7, <2>8 DEF report, input
<1> QED BY <1>3, <1>4, <1>5

\* Two first rows, or two successors of the latest row, of one report are one row.
LEMMA CommitTables ==
    ASSUME Inv, NEW q \in Requests, At(q, "linked"),
           reports' = StoredRows(q), chained' = Inserted(request[q].row),
           At(q, "ok")', \A p \in Requests \ {q} : request'[p] = request[p]
    PROVE  TablesInv'
<1> DEFINE input == request[q].input
<1>1. /\ ReportsAreKeyed /\ RevisionsAreUnique /\ ReportHasChain /\ ChainLinksValid
      /\ ChainsStart /\ ChainsEnd
  BY DEF Inv, TablesInv
<1>2. /\ chained \subseteq chained' /\ chained' \subseteq AnchorRow
      /\ \A a \in chained' \ chained :
            \/ Creates(q) /\ a = FirstRow(q, input.content)
            \/ ~IsCreation(q) /\ \E b \in Latest(input.report) : a = Successor(q, b)
  BY CommitChain
<1>3. /\ reports' \subseteq ReportRow
      /\ \A r \in reports : \E s \in reports' : SameReport(r, s)
      /\ \A s \in reports' :
            \/ \E r \in reports : SameReport(r, s)
            \/ Creates(q) /\ s.client = input.client /\ s.id = q
      /\ Creates(q) => \E s \in reports' : s.id = q
      /\ \A r, s \in reports' : r.client = s.client \/ r.id = s.id => r = s
  BY CommitReports
<1>4. \A b \in Latest(input.report) : /\ b \in chained /\ b.report = input.report
                                      /\ b.revision \in Nat
  BY Linking DEF Latest, ChainOf, AnchorRow, RevisionNumbers
<1>5. \A b : /\ Successor(q, b).report = b.report
             /\ Successor(q, b).revision = b.revision + 1
             /\ Successor(q, b).previous = b.digest
  BY DEF Successor
<1>6. /\ FirstRow(q, input.content).report = q /\ FirstRow(q, input.content).revision = 1
      /\ FirstRow(q, input.content).previous = NoDigest
  BY DEF FirstRow
<1>7. ReportsAreKeyed'
  <2>1. \A s \in reports' : At(s.id, "ok")'
    <3> TAKE s \in reports'
    <3>1. CASE \E r \in reports : SameReport(r, s)
      BY <1>1, <3>1, Linking DEF ReportsAreKeyed, SameReport, At, ReportRow
    <3>2. CASE s.id = q
      BY <3>2 DEF At
    <3> QED BY <1>3, <3>1, <3>2
  <2> QED BY <1>3, <2>1 DEF ReportsAreKeyed
<1>8. RevisionsAreUnique'
  <2> SUFFICES ASSUME NEW a \in chained', NEW b \in chained', SameRevision(a, b)
               PROVE  a = b
    BY DEF RevisionsAreUnique, SameRevision
  <2>1. CASE a \in chained /\ b \in chained
    BY <1>1, <2>1 DEF RevisionsAreUnique
  <2>2. ASSUME NEW c \in chained, NEW d \in chained' \ chained PROVE ~SameRevision(c, d)
    <3>1. CASE Creates(q) /\ d = FirstRow(q, input.content)
      BY <1>6, <3>1, Linking DEF SameRevision
    <3>2. CASE ~IsCreation(q) /\ \E e \in Latest(input.report) : d = Successor(q, e)
      <4>1. PICK e \in Latest(input.report) : d = Successor(q, e)
        BY <3>2
      <4>2. d.report = input.report /\ d.revision = e.revision + 1 /\ e.revision \in Nat
        BY <1>4, <1>5, <4>1
      <4>3. c.report = input.report => c.revision <= e.revision
        BY DEF Latest, ChainOf
      <4>4. c.revision \in Nat
        BY Linking DEF AnchorRow, RevisionNumbers
      <4> QED BY <4>2, <4>3, <4>4 DEF SameRevision
    <3> QED BY <1>2, <3>1, <3>2
  <2>3. CASE a \notin chained /\ b \notin chained
    <3>1. CASE Creates(q)
      BY <1>2, <2>3, <3>1 DEF Creates
    <3>2. CASE ~Creates(q)
      <4>1. PICK c \in Latest(input.report) : a = Successor(q, c)
        BY <1>2, <2>3, <3>2
      <4>2. PICK d \in Latest(input.report) : b = Successor(q, d)
        BY <1>2, <2>3, <3>2
      <4>3. c.revision + 1 = d.revision + 1 /\ c.revision \in Nat /\ d.revision \in Nat
        BY <1>4, <1>5, <4>1, <4>2 DEF SameRevision
      <4>4. SameRevision(c, d)
        BY <1>4, <4>3 DEF SameRevision
      <4>5. c = d
        BY <1>1, <1>4, <4>4 DEF RevisionsAreUnique
      <4> QED BY <4>1, <4>2, <4>5
    <3> QED BY <3>1, <3>2
  <2> QED BY <2>1, <2>2, <2>3 DEF SameRevision
<1>9. ReportHasChain'
  <2>1. \A s \in reports' : \E a \in chained' : a.report = s.id
    <3> TAKE s \in reports'
    <3>1. CASE \E r \in reports : SameReport(r, s)
      BY <1>1, <1>2, <3>1 DEF ChainsStart, SameReport
    <3>2. CASE Creates(q) /\ s.id = q
      <4>1. FirstRow(q, input.content) \in chained'
        BY <3>2, CommitChain, Linking DEF Linked, Creates
      <4> QED BY <1>6, <3>2, <4>1
    <3> QED BY <1>3, <3>1, <3>2
  <2>2. \A a \in chained : \E s \in reports' : s.id = a.report
    <3> TAKE a \in chained
    <3>1. PICK r \in reports : r.id = a.report
      BY <1>1 DEF ReportHasChain
    <3> QED BY <1>3, <3>1 DEF SameReport
  <2>3. \A a \in chained' : \E s \in reports' : s.id = a.report
    <3> TAKE a \in chained'
    <3>1. CASE a \in chained
      BY <2>2, <3>1
    <3>2. CASE Creates(q) /\ a = FirstRow(q, input.content)
      BY <1>3, <1>6, <3>2
    <3>3. CASE \E b \in Latest(input.report) : a = Successor(q, b)
      BY <1>4, <1>5, <2>2, <3>3
    <3> QED BY <1>2, <3>1, <3>2, <3>3
  <2> QED BY <2>1, <2>3 DEF ReportHasChain
<1>10. ChainLinksValid'
  <2> SUFFICES ASSUME NEW a \in chained'
               PROVE  IF a.revision = 1 THEN a.previous = NoDigest
                      ELSE \E b \in chained' : /\ b.report = a.report
                                               /\ b.revision = a.revision - 1
                                               /\ b.digest = a.previous
    BY DEF ChainLinksValid
  <2>1. CASE a \in chained
    BY <1>1, <1>2, <2>1 DEF ChainLinksValid
  <2>2. CASE Creates(q) /\ a = FirstRow(q, input.content)
    BY <1>6, <2>2
  <2>3. CASE \E b \in Latest(input.report) : a = Successor(q, b)
    <3>1. PICK b \in Latest(input.report) : a = Successor(q, b)
      BY <2>3
    <3>2. b \in chained' /\ b.revision \in Nat \ {0}
      BY <1>2, <1>4, Linking DEF AnchorRow, RevisionNumbers
    <3>3. a.revision = b.revision + 1 /\ a.report = b.report /\ a.previous = b.digest
      BY <1>5, <3>1
    <3>4. a.revision # 1 /\ b.revision = a.revision - 1
      BY <3>2, <3>3
    <3> QED BY <3>2, <3>3, <3>4
  <2> QED BY <1>2, <2>1, <2>2, <2>3
<1>11. ChainsStart'
  <2> SUFFICES ASSUME NEW s \in reports'
               PROVE  \E a \in chained' : a.report = s.id /\ a.revision = 1
    BY DEF ChainsStart
  <2>1. CASE \E r \in reports : SameReport(r, s)
    BY <1>1, <1>2, <2>1 DEF ChainsStart, SameReport
  <2>2. CASE Creates(q) /\ s.id = q
    <3>1. FirstRow(q, input.content) \in chained'
      BY <2>2, CommitChain, Linking DEF Linked, Creates
    <3> QED BY <1>6, <2>2, <3>1
  <2> QED BY <1>3, <2>1, <2>2
<1>12. ChainsEnd'
  <2> SUFFICES ASSUME NEW s \in reports' PROVE \E a \in Latest(s.id)' : TRUE
    BY DEF ChainsEnd
  <2>1. CASE Creates(q) /\ s.id = q
    <3>1. ChainOf(s.id)' = {FirstRow(q, input.content)}
      BY <2>1, CommitChains
    <3>2. FirstRow(q, input.content) \in Latest(s.id)'
      BY <1>6, <3>1 DEF Latest
    <3> QED BY <3>2
  <2>2. CASE \E r \in reports : SameReport(r, s)
    <3>1. s.id # q /\ Latest(s.id) # {}
      BY <1>1, <2>2, Linking DEF SameReport, ChainsEnd
    <3>2. CASE ChainOf(s.id)' = ChainOf(s.id)
      BY <3>1, <3>2 DEF Latest
    <3>3. CASE ChainOf(s.id)' # ChainOf(s.id)
      <4>1. PICK last \in Latest(s.id) :
                ChainOf(s.id)' = ChainOf(s.id) \cup {Successor(q, last)}
        BY <3>1, <3>3, CommitChains
      <4>2. /\ \A a \in ChainOf(s.id) : a.revision \in Nat /\ a.revision <= last.revision
            /\ last.revision \in Nat
        BY Linking DEF Latest, ChainOf, AnchorRow, RevisionNumbers
      <4>3. Successor(q, last).revision = last.revision + 1
        BY <1>5
      <4>4. \A b \in ChainOf(s.id)' : b.revision <= Successor(q, last).revision
        BY <4>1, <4>2, <4>3
      <4>5. Successor(q, last) \in Latest(s.id)'
        BY <4>1, <4>4 DEF Latest
      <4> QED BY <4>5
    <3> QED BY <3>2, <3>3
  <2> QED BY <1>3, <2>1, <2>2
<1> QED BY <1>7, <1>8, <1>9, <1>10, <1>11, <1>12 DEF TablesInv

\* What the other requests hold outlasts the commit: those that write have other locks.
LEMMA CommitOthers ==
    ASSUME Inv, NEW q \in Requests, At(q, "linked"),
           reports' = StoredRows(q), chained' = Inserted(request[q].row),
           At(q, "ok")', \A p \in Requests \ {q} : request'[p] = request[p],
           NEW p \in Requests \ {q}
    PROVE  RequestInv(p)'
<1> DEFINE input == request[q].input
<1>1. RequestInv(p) /\ request'[p] = request[p]
  BY DEF Inv
<1>2. /\ chained \subseteq chained'
      /\ \A a \in chained' \ chained :
            \/ Creates(q) /\ a = FirstRow(q, input.content)
            \/ ~IsCreation(q) /\ \E b \in Latest(input.report) : a = Successor(q, b)
  BY CommitChain
<1>3. /\ \A r \in reports : \E s \in reports' : SameReport(r, s)
      /\ \A s \in reports' :
            \/ \E r \in reports : SameReport(r, s)
            \/ Creates(q) /\ s.client = input.client /\ s.id = q
  BY CommitReports
<1>4. \A id : ById(id) # {} => id # q /\ ById(id)' # {}
  BY <1>3, Linking DEF ById, SameReport
<1>5. InputRead(p)'
  BY <1>1, <1>4 DEF RequestInv, InputRead, Works, InTransaction, At
<1>6. ASSUME NEW o \in Requests \ {q}, InTransaction(o)
      PROVE  Locks(o)' = Locks(o)
  <2>1. request'[o] = request[o] /\ InputRead(o) /\ Works(o)
    BY <1>6 DEF Inv, RequestInv, Works
  <2>2. CASE IsCreation(o)
    BY <2>1, <2>2 DEF Locks, IsCreation
  <2>3. CASE ~IsCreation(o)
    <3> DEFINE id == request[o].input.report
    <3>1. id # q
      BY <1>4, <2>1, <2>3, Kinds DEF InputRead, IsCreation
    <3>2. \A r \in ById(id) : \E s \in ById(id)' : s.client = r.client
      BY <1>3, <3>1 DEF ById, SameReport
    <3>3. \A s \in ById(id)' : \E r \in ById(id) : s.client = r.client
      BY <1>3, <3>1 DEF ById, SameReport
    <3>4. {r.client : r \in ById(id)}' = {r.client : r \in ById(id)}
      BY <3>2, <3>3
    <3> QED BY <2>1, <2>3, <3>4 DEF Locks, IsCreation, ById
  <2> QED BY <2>2, <2>3
<1>7. Alone(p)'
  <2> SUFFICES ASSUME NEW o \in Requests \ {p}, InTransaction(o)', InTransaction(p)'
               PROVE  Locks(o)' \cap Locks(p)' = {}
    BY DEF Alone
  <2>1. o # q
    BY DEF InTransaction, At
  <2>2. InTransaction(o) /\ InTransaction(p)
    BY <2>1 DEF InTransaction
  <2> QED BY <1>1, <1>6, <2>1, <2>2 DEF RequestInv, Alone
<1>8. Linked(p)'
  <2> SUFFICES ASSUME At(p, "linked")' PROVE Linked(p)'
    BY DEF Linked
  <2>1. At(p, "linked") /\ InTransaction(p) /\ Works(p) /\ Linked(p) /\ InputRead(p)
    BY <1>1 DEF At, InTransaction, Works, RequestInv
  <2>2. Locks(p) \cap Locks(q) = {}
    BY <2>1, Linking DEF Alone
  <2>3. IsCreation(p)' = IsCreation(p)
    BY <1>1 DEF IsCreation
  <2>4. CASE IsCreation(p)
    <3> DEFINE client == request[p].input.client
    <3>1. \A a : ById(a) # {} => ById(a)' # {}
      BY <1>4
    <3>2. Target(p) = Stored(client) /\ Target(p)' = Stored(client)'
      BY <1>1, <2>4 DEF Target, IsCreation, Stored
    <3>3. Locks(p) = {client}
      BY <2>4 DEF Locks, IsCreation
    <3>4. Creates(q) => input.client # client
      <4>1. Creates(q) => Locks(q) = {input.client}
        BY DEF Locks, Creates, IsCreation
      <4> QED BY <2>2, <3>3, <4>1
    <3>5. Target(p)' = {} <=> Target(p) = {}
      BY <1>3, <3>2, <3>4 DEF Stored, SameReport
    <3>6. FirstRow(p, request[p].input.content)' = FirstRow(p, request[p].input.content)
      BY <1>1 DEF FirstRow, ReportDigest
    <3> QED BY <1>1, <2>1, <2>3, <2>4, <3>1, <3>5, <3>6 DEF Linked
  <2>5. CASE ~IsCreation(p)
    <3> DEFINE id == request[p].input.report
    <3>1. ById(id) # {} /\ id # q
      BY <1>4, <2>1, <2>5, Kinds DEF InputRead, IsCreation
    <3>2. ASSUME NEW a \in chained' \ chained PROVE a.report # id
      <4>1. CASE a = FirstRow(q, input.content)
        BY <3>1, <4>1 DEF FirstRow
      <4>2. CASE ~IsCreation(q) /\ \E b \in Latest(input.report) : a = Successor(q, b)
        <5>1. a.report = input.report
          BY <4>2 DEF Latest, ChainOf, Successor
        <5>2. /\ Locks(p) = {r.client : r \in ById(id)}
              /\ Locks(q) = {r.client : r \in ById(input.report)}
          BY <2>5, <4>2 DEF Locks, IsCreation
        <5> QED BY <2>2, <3>1, <5>1, <5>2
      <4> QED BY <1>2, <4>1, <4>2
    <3>3. Latest(id)' = Latest(id)
      BY <1>1, <1>2, <3>2 DEF Latest, ChainOf
    <3>4. \A b : Successor(p, b)' = Successor(p, b)
      <4>1. Written(p)' = Written(p)
        BY <1>1 DEF Written
      <4>2. \A n : NextDigest(p, n)' = NextDigest(p, n)
        BY <1>1, <4>1 DEF NextDigest, AttestationDigest, ReportDigest
      <4> QED BY <4>2 DEF Successor
    <3>5. Successors(p)' = Successors(p)
      BY <1>1, <3>3, <3>4 DEF Successors, IsChained, ChangesStatus
    <3> QED BY <1>1, <2>1, <2>3, <2>5, <3>5 DEF Linked
  <2> QED BY <2>4, <2>5
<1>9. NothingLinked(p)' /\ Answered(p)' /\ Acknowledged(p)' /\ OverwroteAnswered(p)'
  <2>1. NothingLinked(p) /\ Answered(p) /\ Acknowledged(p) /\ OverwroteAnswered(p)
    BY <1>1 DEF RequestInv
  <2>2. Answered(p)'
    BY <1>1, <1>3, <2>1 DEF Answered, At, IsCreation, SameReport
  <2> QED BY <1>1, <1>2, <2>1, <2>2
          DEF NothingLinked, Acknowledged, OverwroteAnswered, At, IsCreation
<1> QED BY <1>5, <1>7, <1>8, <1>9 DEF RequestInv

LEMMA CommitPreserves ==
    ASSUME Inv, NEW q \in Requests, Commit(q) PROVE Inv'
<1>1. At(q, "linked") /\ reports' = StoredRows(q) /\ chained' = Inserted(request[q].row)
  BY DEF Commit
<1>2. PICK r \in StoredRows(q) :
        /\ r.client \in Locks(q)
        /\ request' = [request EXCEPT ![q].step = "ok", ![q].seen = Unread,
                                   ![q].answer = r.id,
                                   ![q].overwrote = \E t \in Target(q) :
                                       request[q].seen \notin {Unread, t.payload}]
  BY DEF Commit
<1> DEFINE id == r.id
           overwrote == \E t \in Target(q) : request[q].seen \notin {Unread, t.payload}
           new == [request[q] EXCEPT !.step = "ok", !.seen = Unread, !.answer = id,
                                     !.overwrote = overwrote]
<1>3. request' = [request EXCEPT ![q] = new]
  BY <1>2
<1>4. id \in Requests /\ overwrote \in BOOLEAN
  BY <1>1, CommitReports DEF ReportRow
<1> HIDE DEF id, overwrote
<1>5. /\ new \in RequestState /\ new.step = "ok" /\ new.answer = id
      /\ new.input = request[q].input /\ new.row = request[q].row
  <2>1. request[q] \in RequestState
    BY <1>1, Linking
  <2> QED BY <1>4, <2>1 DEF RequestState
<1> HIDE DEF new
<1>6. /\ request' \in [Requests -> RequestState] /\ request'[q] = new
      /\ \A p \in Requests \ {q} : request'[p] = request[p]
  BY <1>3, <1>5, Changes
<1>7. At(q, "ok")'
  BY <1>5, <1>6 DEF At
<1>8. FieldReportsTypeOK'
  BY <1>1, <1>6, CommitReports, CommitChain DEF FieldReportsTypeOK
<1>9. TablesInv'
  BY <1>1, <1>6, <1>7, CommitTables
<1>10. \A p \in Requests \ {q} : RequestInv(p)'
  BY <1>1, <1>6, <1>7, CommitOthers
<1>11. RequestInv(q)'
  <2>1. InputRead(q)' /\ Alone(q)' /\ Linked(q)' /\ NothingLinked(q)'
    BY <1>7 DEF InputRead, Alone, Linked, NothingLinked, Works, InTransaction, At
  <2>2. Answered(q)'
    <3>1. IsCreation(q)' => r.client = request'[q].input.client
      BY <1>2, <1>5, <1>6 DEF IsCreation, Locks
    <3> QED BY <1>1, <1>5, <1>6, <3>1 DEF Answered, id
  <2>3. Acknowledged(q)'
    <3> SUFFICES ASSUME IsCreation(q)' => request'[q].answer = q
                 PROVE  request'[q].row \subseteq chained'
      BY DEF Acknowledged
    <3>1. CASE IsCreation(q) /\ ~Creates(q)
      <4>1. StoredRows(q) = reports /\ id # q
        BY <1>1, <3>1, Linking DEF StoredRows, Creates, IsCreation, id
      <4> QED BY <1>5, <1>6, <3>1, <4>1 DEF IsCreation
    <3>2. CASE ~(IsCreation(q) /\ ~Creates(q))
      BY <1>1, <1>5, <1>6, <3>2, CommitChain
    <3> QED BY <3>1, <3>2
  <2>4. OverwroteAnswered(q)'
    BY <1>7 DEF OverwroteAnswered
  <2> QED BY <2>1, <2>2, <2>3, <2>4 DEF RequestInv
<1> QED BY <1>8, <1>9, <1>10, <1>11 DEF Inv

-------------------------------------------------------------------------------
(***************************************************************************)
(* Agreement of a report with its chain.                                   *)
(***************************************************************************)
\* The status and the evidence that a set of rows stands for.
AttestationsIn(rows) == {a \in rows : a.digest.type = "review-attestation"}

LastOf(attestations) ==
    IF attestations = {} THEN Submitted
    ELSE (CHOOSE a \in attestations : \A b \in attestations : b.revision <= a.revision).digest.of

StatusOf(rows) == LastOf(AttestationsIn(rows))

Anchored(rows, content) ==
    \E a \in rows :
        /\ a.digest = ReportDigest(content)
        /\ \A b \in rows : b.digest.type = "report" => b.revision <= a.revision

Matches(rows, payload, column) ==
    /\ payload.status = StatusOf(rows) /\ column = payload.status
    /\ Anchored(rows, payload.content)

Agrees(r) == StatusIsAttested(r) /\ matchesCurrentReport(r)

LEMMA AgreesIs ==
    ASSUME NEW r
    PROVE  /\ Agrees(r) <=> Matches(ChainOf(r.id), r.payload, r.column)
           /\ Agrees(r)' <=> Matches(ChainOf(r.id)', r.payload, r.column)
BY DEF Agrees, StatusIsAttested, AttestedStatus, matchesCurrentReport, Matches, StatusOf, LastOf,
       AttestationsIn, Anchored

Later(rows, a) ==
    /\ a.revision \in Nat
    /\ \A b \in rows : b.revision \in Nat /\ b.revision < a.revision

\* A later row of evidence leaves the status and anchors its evidence.
LEMMA EvidenceAdded ==
    ASSUME NEW rows, NEW a, Later(rows, a), NEW content, a.digest = ReportDigest(content)
    PROVE  StatusOf(rows \cup {a}) = StatusOf(rows) /\ Anchored(rows \cup {a}, content)
<1>1. a.digest.type = "report"
  BY DEF ReportDigest
<1>2. AttestationsIn(rows \cup {a}) = AttestationsIn(rows)
  BY <1>1 DEF AttestationsIn
<1>3. Anchored(rows \cup {a}, content)
  BY DEF Later, Anchored
<1> QED BY <1>2, <1>3 DEF StatusOf

\* A later attestation is the status, and leaves the evidence.
LEMMA AttestationAdded ==
    ASSUME NEW rows, NEW a, Later(rows, a), a.digest.type = "review-attestation"
    PROVE  /\ StatusOf(rows \cup {a}) = a.digest.of
           /\ \A content : Anchored(rows, content) => Anchored(rows \cup {a}, content)
<1> DEFINE attestations == AttestationsIn(rows \cup {a})
           last == CHOOSE b \in attestations : \A c \in attestations : c.revision <= b.revision
<1>1. a \in attestations /\ \A b \in attestations : b.revision <= a.revision
  BY DEF Later, AttestationsIn
<1>2. last \in attestations /\ \A b \in attestations : b.revision <= last.revision
  BY <1>1
<1>3. last = a
  BY <1>1, <1>2 DEF Later, AttestationsIn
<1>4. StatusOf(rows \cup {a}) = last.digest.of
  BY <1>1 DEF StatusOf, LastOf
<1>5. \A content : Anchored(rows, content) => Anchored(rows \cup {a}, content)
  BY DEF Anchored
<1> QED BY <1>3, <1>4, <1>5

\* A request that writes a report as it had read it leaves it in agreement.
LEMMA CommitMatches ==
    ASSUME Inv, NEW q \in Requests, At(q, "linked"), ~IsCreation(q),
           chained' = Inserted(request[q].row),
           NEW r \in Target(q), request[q].seen = r.payload,
           Matches(ChainOf(r.id), r.payload, r.column)
    PROVE  Matches(ChainOf(r.id)', Written(q),
                   IF request[q].input.kind = "patch" THEN Written(q).status ELSE r.column)
<1> DEFINE input == request[q].input
           rows == ChainOf(r.id)
           seen == r.payload
<1>1. /\ input \in Patches \cup Revisions /\ seen \in Payload /\ r.id = input.report
      /\ r \in reports /\ r.id # q
  BY Linking, Kinds DEF InputRead, IsCreation, Target, ById
<1>2. ASSUME NEW last \in Latest(r.id) PROVE Later(rows, Successor(q, last))
  <2>1. Successor(q, last).revision = last.revision + 1
    BY DEF Successor
  <2>2. last.revision \in Nat /\ \A b \in rows : b.revision \in Nat /\ b.revision <= last.revision
    BY Linking DEF Latest, ChainOf, AnchorRow, RevisionNumbers
  <2> QED BY <2>1, <2>2 DEF Later
<1>3. IsChained(q) => \E last \in Latest(r.id) : ChainOf(r.id)' = rows \cup {Successor(q, last)}
  BY <1>1, CommitChains
<1>4. CASE input \in Revisions
  <2>1. IsChained(q) /\ input.kind = "evidence"
    BY <1>4, Kinds DEF IsChained
  <2>2. PICK last \in Latest(r.id) : ChainOf(r.id)' = rows \cup {Successor(q, last)}
    BY <1>3, <2>1
  <2>3. Successor(q, last).digest = ReportDigest(Written(q).content)
    BY <2>1 DEF Successor, NextDigest
  <2>4. Written(q).status = seen.status
    BY <1>1, <2>1 DEF Written, Payload
  <2>5. /\ StatusOf(ChainOf(r.id)') = StatusOf(rows)
        /\ Anchored(ChainOf(r.id)', Written(q).content)
    BY <1>2, <2>2, <2>3, EvidenceAdded
  <2> QED BY <2>1, <2>4, <2>5 DEF Matches
<1>5. CASE input \in Patches
  <2> DEFINE status == IF input.status = Keep THEN seen.status ELSE input.status
  <2>1. input.kind = "patch"
    BY <1>5, Kinds
  <2>2. Written(q).status = status /\ Written(q).content = seen.content
    BY <1>1, <2>1 DEF Written, Payload
  <2>3. CASE ChangesStatus(q)
    <3>1. PICK last \in Latest(r.id) : ChainOf(r.id)' = rows \cup {Successor(q, last)}
      BY <1>3, <2>3 DEF IsChained
    <3>2. /\ Successor(q, last).digest.type = "review-attestation"
          /\ Successor(q, last).digest.of = input.status
      BY <2>1 DEF Successor, NextDigest, AttestationDigest
    <3>3. input.status = status
      BY <2>3 DEF ChangesStatus
    <3>4. /\ StatusOf(ChainOf(r.id)') = input.status
          /\ Anchored(ChainOf(r.id)', seen.content)
      BY <1>2, <3>1, <3>2, AttestationAdded DEF Matches
    <3> QED BY <2>1, <2>2, <3>3, <3>4 DEF Matches
  <2>4. CASE ~ChangesStatus(q)
    <3>1. ~IsChained(q)
      BY <2>1, <2>4 DEF IsChained
    <3>2. ChainOf(r.id)' = rows
      BY <1>1, <3>1, CommitChains
    <3>3. status = seen.status
      BY <2>4 DEF ChangesStatus
    <3> QED BY <2>1, <2>2, <3>2, <3>3 DEF Matches
  <2> QED BY <2>3, <2>4
<1> QED BY <1>1, <1>4, <1>5

\* A report that is stored for the first time agrees with its first row.
LEMMA CreationMatches ==
    ASSUME Inv, NEW q \in Requests, At(q, "linked"), Creates(q),
           chained' = Inserted(request[q].row), NEW s \in StoredRows(q), s.id = q
    PROVE  Matches(ChainOf(s.id)', s.payload, s.column)
<1> DEFINE input == request[q].input
           first == FirstRow(q, input.content)
<1>1. s = [client |-> input.client, id |-> q, column |-> Submitted, payload |-> Written(q)]
  BY Linking DEF StoredRows, Creates, IsCreation
<1>2. Written(q) = [status |-> Submitted, assignedTo |-> Unassigned, content |-> input.content]
  BY DEF Written, Creates, IsCreation
<1>3. ChainOf(q)' = {first}
  BY CommitChains
<1>4. first.digest = ReportDigest(input.content) /\ first.digest.type = "report"
      /\ first.revision = 1
  BY DEF FirstRow, ReportDigest
<1> HIDE DEF first
<1>5. StatusOf({first}) = Submitted /\ Anchored({first}, input.content)
  BY <1>4 DEF StatusOf, LastOf, AttestationsIn, Anchored
<1> QED BY <1>1, <1>2, <1>3, <1>5 DEF Matches

LEMMA CommitAgrees ==
    ASSUME Inv, ReportMatchesChain, NEW q \in Requests, Commit(q) PROVE ReportMatchesChain'
<1> DEFINE input == request[q].input
<1>1. At(q, "linked") /\ reports' = StoredRows(q) /\ chained' = Inserted(request[q].row)
  BY DEF Commit
<1>2. PICK t \in StoredRows(q) :
        /\ t.client \in Locks(q)
        /\ request' = [request EXCEPT ![q].step = "ok", ![q].seen = Unread,
                                   ![q].answer = t.id,
                                   ![q].overwrote = \E x \in Target(q) :
                                       request[q].seen \notin {Unread, x.payload}]
  BY DEF Commit
<1>3. /\ request'[q].answer = t.id
      /\ request'[q].overwrote = \E x \in Target(q) : request[q].seen \notin {Unread, x.payload}
      /\ \A p \in Requests \ {q} : request'[p] = request[p]
  BY <1>1, <1>2, Linking DEF Inv, FieldReportsTypeOK, RequestState
<1>4. /\ \A s \in StoredRows(q) :
            \/ \E r \in reports : SameReport(r, s)
            \/ Creates(q) /\ s.client = input.client /\ s.id = q
      /\ \A r, s \in StoredRows(q) : r.client = s.client \/ r.id = s.id => r = s
  BY <1>1, CommitReports
<1>5. \A r, s \in reports : r.client = s.client \/ r.id = s.id => r = s
  BY DEF Inv, TablesInv, ReportsAreKeyed
<1> SUFFICES ASSUME NEW s \in StoredRows(q)
             PROVE  \/ \E p \in Requests : request'[p].overwrote /\ request'[p].answer = s.id
                    \/ Agrees(s)'
  BY <1>1 DEF ReportMatchesChain, Agrees
<1>6. CASE Creates(q) /\ s.id = q
  BY <1>1, <1>6, CreationMatches, AgreesIs
<1>7. ASSUME NEW r \in reports, SameReport(r, s)
      PROVE  \/ \E p \in Requests : request'[p].overwrote /\ request'[p].answer = s.id
             \/ Agrees(s)'
  <2>1. s.id = r.id /\ s.client = r.client /\ r.id # q
    BY <1>1, <1>7, Linking DEF SameReport
  <2>2. CASE \E p \in Requests : request[p].overwrote /\ request[p].answer = r.id
    <3>1. PICK p \in Requests : request[p].overwrote /\ request[p].answer = r.id
      BY <2>2
    <3>2. p # q
      BY <1>1, <3>1 DEF Inv, RequestInv, OverwroteAnswered, At
    <3> QED BY <1>3, <2>1, <3>1, <3>2
  <2>3. CASE Agrees(r)
    <3>1. Matches(ChainOf(r.id), r.payload, r.column)
      BY <2>3, AgreesIs
    <3>2. CASE IsCreation(q) \/ r \notin Target(q)
      <4>1. s = r
        <5>1. CASE IsCreation(q)
          BY <1>5, <2>1, <5>1 DEF StoredRows, IsCreation
        <5>2. CASE ~IsCreation(q)
          <6>1. Target(q) \subseteq reports /\ r \notin Target(q)
            BY <3>2, <5>2 DEF Target, ById, IsCreation
          <6>2. \/ s \in reports
                \/ \E x \in Target(q) : \E c, y : s = [x EXCEPT !.payload = y, !.column = c]
            BY <5>2 DEF StoredRows, IsCreation
          <6>3. \A x \in reports : \A c, y : [x EXCEPT !.payload = y, !.column = c].client = x.client
            BY <1>1, Linking DEF ReportRow
          <6>4. s \in reports
            <7>1. ASSUME NEW x \in Target(q), NEW c, NEW y,
                         s = [x EXCEPT !.payload = y, !.column = c]
                  PROVE  FALSE
              <8>1. s.client = x.client /\ x \in reports
                BY <6>1, <6>3, <7>1
              <8>2. x = r
                BY <1>5, <2>1, <8>1
              <8> QED BY <6>1, <8>2
            <7> QED BY <6>2, <7>1
          <6> QED BY <1>5, <2>1, <6>4
        <5> QED BY <5>1, <5>2
      <4>2. ChainOf(r.id)' = ChainOf(r.id)
        BY <1>1, <2>1, <3>2, CommitChains DEF Target, ById, IsCreation
      <4> QED BY <3>1, <4>1, <4>2, AgreesIs
    <3>3. CASE ~IsCreation(q) /\ r \in Target(q) /\ request[q].seen # r.payload
      <4>1. request[q].seen \in Payload
        BY <1>1, <3>3, Linking, Kinds DEF InputRead, IsCreation
      <4>2. request[q].seen # Unread
        BY <4>1, FieldReportsAssumption DEF Payload, Unread
      <4>3. t.client = r.client
        BY <1>1, <1>2, <1>5, <3>3, Linking DEF Locks, Target, ById, IsCreation
      <4>4. t = s
        BY <1>4, <2>1, <4>3
      <4> QED BY <1>3, <3>3, <4>2, <4>4
    <3>4. CASE ~IsCreation(q) /\ r \in Target(q) /\ request[q].seen = r.payload
      <4> DEFINE column == IF input.kind = "patch" THEN Written(q).status ELSE r.column
      <4>1. s = [r EXCEPT !.payload = Written(q), !.column = column]
        <5>1. Target(q) = {r}
          BY <1>5, <3>4 DEF Target, ById, IsCreation
        <5>2. StoredRows(q) = (reports \ {r}) \cup
                              {[r EXCEPT !.payload = Written(q), !.column = column]}
          BY <3>4, <5>1 DEF StoredRows, IsCreation
        <5> QED BY <1>5, <2>1, <5>2
      <4>2. s.payload = Written(q) /\ s.column = column
        BY <1>1, <4>1, Linking DEF ReportRow
      <4>3. Matches(ChainOf(r.id)', Written(q), column)
        BY <1>1, <3>1, <3>4, CommitMatches
      <4> QED BY <2>1, <4>2, <4>3, AgreesIs
    <3> QED BY <3>2, <3>3, <3>4
  <2> QED BY <2>2, <2>3 DEF ReportMatchesChain, Agrees
<1> QED BY <1>4, <1>6, <1>7

\* The other steps write no table, and forget no request that wrote over another's work.
LEMMA OthersAgree ==
    ASSUME Inv, ReportMatchesChain, UNCHANGED <<reports, chained>>,
           \A p \in Requests : request[p].overwrote => request'[p] = request[p]
    PROVE  ReportMatchesChain'
<1> SUFFICES ASSUME NEW r \in reports
             PROVE  \/ \E p \in Requests : request'[p].overwrote /\ request'[p].answer = r.id
                    \/ Agrees(r)'
  BY DEF ReportMatchesChain, Agrees
<1>1. CASE Agrees(r)
  <2>1. ChainOf(r.id)' = ChainOf(r.id)
    BY DEF ChainOf
  <2> QED BY <1>1, <2>1, AgreesIs
<1>2. CASE ~Agrees(r)
  BY <1>2 DEF ReportMatchesChain, Agrees
<1> QED BY <1>1, <1>2

LEMMA StepAgrees == Inv /\ ReportMatchesChain /\ [Next]_vars => ReportMatchesChain'
<1> SUFFICES ASSUME Inv, ReportMatchesChain, [Next]_vars PROVE ReportMatchesChain'
  OBVIOUS
<1>1. ASSUME NEW q \in Requests, Commit(q) PROVE ReportMatchesChain'
  BY <1>1, CommitAgrees
<1>2. ASSUME NEW q \in Requests, Read(q) \/ WriteRow(q) \/ LinkRow(q) \/ Rollback(q)
      PROVE  ReportMatchesChain'
  <2>1. UNCHANGED <<reports, chained>> /\ ~At(q, "ok")
    BY <1>2 DEF Read, ReadForCreate, ReadForPatch, ReadForEvidence, WriteRow, LinkRow, Rollback,
                At, InTransaction
  <2>2. \A p \in Requests \ {q} : request'[p] = request[p]
    BY <1>2 DEF Read, ReadForCreate, ReadForPatch, ReadForEvidence, WriteRow, LinkRow, Rollback,
                Inv, FieldReportsTypeOK
  <2>3. ~request[q].overwrote
    BY <2>1 DEF Inv, RequestInv, OverwroteAnswered
  <2> QED BY <2>1, <2>2, <2>3, OthersAgree
<1>3. CASE UNCHANGED vars
  BY <1>3, OthersAgree DEF vars
<1> QED BY <1>1, <1>2, <1>3 DEF Next

-------------------------------------------------------------------------------
(***************************************************************************)
(* The theorems.                                                           *)
(***************************************************************************)
LEMMA InitEstablishes == Init => Inv
<1> SUFFICES ASSUME Init PROVE Inv
  OBVIOUS
<1>1. \A q \in Requests : request[q] = Idle
  BY DEF Init
<1>2. FieldReportsTypeOK
  BY IdleType DEF Init, FieldReportsTypeOK
<1>3. TablesInv
  BY DEF Init, TablesInv, ReportsAreKeyed, RevisionsAreUnique, ReportHasChain,
         ChainLinksValid, ChainsStart, ChainsEnd
<1>4. \A q \in Requests : RequestInv(q)
  BY <1>1, IdleType DEF RequestInv, InputRead, Alone, Linked, NothingLinked, Answered,
         Acknowledged, OverwroteAnswered, Works, InTransaction, At
<1> QED BY <1>2, <1>3, <1>4 DEF Inv

LEMMA StepPreserves == Inv /\ [Next]_vars => Inv'
<1> SUFFICES ASSUME Inv, [Next]_vars PROVE Inv'
  OBVIOUS
<1>1. ASSUME NEW q \in Requests,
             Read(q) \/ WriteRow(q) \/ LinkRow(q) \/ Commit(q) \/ Rollback(q)
      PROVE  Inv'
  BY <1>1, ReadPreserves, WriteRowPreserves, LinkRowPreserves, CommitPreserves,
     RollbackPreserves
<1>2. CASE UNCHANGED vars
  <2>1. UNCHANGED <<reports, chained>> /\ request' = request
    BY <1>2 DEF vars
  <2>2. FieldReportsTypeOK' /\ TablesInv'
    BY <2>1 DEF Inv, FieldReportsTypeOK, TablesInv, ReportsAreKeyed, At, RevisionsAreUnique,
       SameRevision, ReportHasChain, ChainLinksValid, ChainsStart, ChainsEnd, Latest, ChainOf
  <2>3. \A p \in Requests : Alone(p)'
    BY <2>1, Untouched DEF Inv, RequestInv, Alone
  <2> QED BY <2>1, <2>2, <2>3, Untouched DEF Inv, RequestInv
<1> QED BY <1>1, <1>2 DEF Next

LEMMA Invariance == Spec => []Inv
BY InitEstablishes, StepPreserves, PTL DEF Spec

-------------------------------------------------------------------------------
(***************************************************************************)
(* The refinement of HashChain.  Revisions are given without gaps, and a   *)
(* chain has at most one row for every request that was answered.          *)
(***************************************************************************)
Answers == {q \in Requests : At(q, "ok")}

RevisionsOf(id) == {a.revision : a \in ChainOf(id)}

Gapless(id) ==
    /\ IsFiniteSet(ChainOf(id))
    /\ RevisionsOf(id) = 1 .. Cardinality(ChainOf(id))
    /\ Cardinality(ChainOf(id)) <= Cardinality(Answers)

ChainsGapless == \A id \in Requests : Gapless(id)

\* Requests that were answered stay answered.
LEMMA AnswersGrow ==
    ASSUME Inv, IsFiniteSet(Requests), NEW q \in Requests, ~At(q, "ok"),
           \A p \in Requests \ {q} : request'[p] = request[p]
    PROVE  /\ Cardinality(Answers) \in Nat /\ Cardinality(Answers') \in Nat
           /\ Cardinality(Answers) <= Cardinality(Answers')
           /\ At(q, "ok")' => Cardinality(Answers') = Cardinality(Answers) + 1
<1>1. Answers \in SUBSET Requests /\ Answers' \in SUBSET Requests
  BY DEF Answers
<1>2. IsFiniteSet(Answers) /\ IsFiniteSet(Answers')
  BY <1>1, FS_Subset
<1>3. Answers \subseteq Answers' /\ q \notin Answers
  BY DEF Answers, At
<1>4. At(q, "ok")' => Answers' = Answers \cup {q}
  BY DEF Answers, At
<1>5. Cardinality(Answers \cup {q}) = Cardinality(Answers) + 1
  BY <1>2, <1>3, FS_AddElement
<1>6. Cardinality(Answers) <= Cardinality(Answers')
  <2>1. PICK S : S = Answers'
    OBVIOUS
  <2> QED BY <1>2, <1>3, <2>1, FS_Subset
<1> QED BY <1>2, <1>4, <1>5, <1>6, FS_CardinalityType

\* A row after the latest one takes the next revision.
LEMMA NextRevision ==
    ASSUME Inv, NEW id \in Requests, NEW q \in Requests, NEW last \in Latest(id),
           IsFiniteSet(ChainOf(id)), RevisionsOf(id) = 1 .. Cardinality(ChainOf(id))
    PROVE  /\ last.revision = Cardinality(ChainOf(id))
           /\ Successor(q, last).revision = last.revision + 1
           /\ Successor(q, last) \notin ChainOf(id)
<1>1. last \in ChainOf(id) /\ \A b \in ChainOf(id) : b.revision <= last.revision
  BY DEF Latest
<1>2. Cardinality(ChainOf(id)) \in Nat
  BY FS_CardinalityType
<1>3. last.revision \in RevisionsOf(id)
  BY <1>1 DEF RevisionsOf
<1>4. \A n \in RevisionsOf(id) : n <= last.revision
  BY <1>1 DEF RevisionsOf
<1>5. last.revision = Cardinality(ChainOf(id))
  BY <1>2, <1>3, <1>4
<1>6. Successor(q, last).revision = last.revision + 1
  BY DEF Successor
<1> QED BY <1>1, <1>2, <1>5, <1>6

\* The digest of a row names its revision, or is that of a report's evidence.
LEMMA SuccessorDigest ==
    ASSUME NEW q \in Requests, NEW last
    PROVE  Successor(q, last).digest.revision \in {1, Successor(q, last).revision}
BY DEF Successor, NextDigest, AttestationDigest, ReportDigest

\* What a commit does to the chain of a report: nothing, or one row at its end.
GrowsBy(id, new) ==
    /\ ChainOf(id)' = ChainOf(id) \cup {new}
    /\ new \notin ChainOf(id)
    /\ new.revision = Cardinality(ChainOf(id)) + 1
    /\ new.digest.revision \in {1, new.revision}

LEMMA CommitGrows ==
    ASSUME Inv, ChainsGapless, NEW q \in Requests, At(q, "linked"),
           chained' = Inserted(request[q].row)
    PROVE  \/ \A id \in Requests : ChainOf(id)' = ChainOf(id)
           \/ \E k \in Requests, new \in AnchorRow :
                /\ GrowsBy(k, new)
                /\ \A id \in Requests \ {k} : ChainOf(id)' = ChainOf(id)
<1>1. \A id \in Requests : id # q =>
          \/ ChainOf(id)' = ChainOf(id)
          \/ /\ ~IsCreation(q) /\ IsChained(q) /\ id = request[q].input.report
             /\ \E last \in Latest(id) : ChainOf(id)' = ChainOf(id) \cup {Successor(q, last)}
  BY CommitChains
<1>2. ChainOf(q) = {}
  BY Linking DEF ChainOf
<1>3. CASE Creates(q)
  <2>1. PICK new : new = FirstRow(q, request[q].input.content)
    OBVIOUS
  <2>2. new \in AnchorRow
    BY <1>3, <2>1, Linking, Kinds, FirstRowType DEF Creates
  <2>6. new.revision = 1 /\ new.digest.revision = 1
    BY <2>1 DEF FirstRow, ReportDigest
  <2>3. ChainOf(q)' = {new}
    BY <1>3, <2>1, CommitChains
  <2>4. GrowsBy(q, new)
    BY <1>2, <2>3, <2>6, FS_EmptySet DEF GrowsBy
  <2>5. \A id \in Requests \ {q} : ChainOf(id)' = ChainOf(id)
    BY <1>1, <1>3 DEF Creates
  <2> QED BY <2>2, <2>4, <2>5
<1>4. CASE ~Creates(q)
  <2>1. ChainOf(q)' = ChainOf(q)
    <3>1. /\ chained \subseteq chained' /\ chained' \subseteq AnchorRow
          /\ \A a \in chained' \ chained :
               ~IsCreation(q) /\ \E b \in Latest(request[q].input.report) : a = Successor(q, b)
      BY <1>4, CommitChain
    <3>2. \A b : b \in Latest(request[q].input.report) => b \in chained
      BY DEF Latest, ChainOf
    <3>3. \A b : Successor(q, b).report = b.report
      BY DEF Successor
    <3>4. \A a \in chained' : a.report # q
      BY <3>1, <3>2, <3>3, Linking
    <3> QED BY <1>2, <3>4 DEF ChainOf
  <2>2. CASE \A id \in Requests : ChainOf(id)' = ChainOf(id)
    BY <2>2
  <2>3. ASSUME NEW k \in Requests, ChainOf(k)' # ChainOf(k)
        PROVE  \E new \in AnchorRow :
                  /\ GrowsBy(k, new)
                  /\ \A id \in Requests \ {k} : ChainOf(id)' = ChainOf(id)
    <3>1. PICK last \in Latest(k) :
            /\ ChainOf(k)' = ChainOf(k) \cup {Successor(q, last)}
            /\ k = request[q].input.report
      BY <1>1, <2>1, <2>3
    <3>2. PICK new : new = Successor(q, last)
      OBVIOUS
    <3>3. /\ last.revision = Cardinality(ChainOf(k))
          /\ new.revision = last.revision + 1 /\ new \notin ChainOf(k)
      BY <3>2, NextRevision DEF ChainsGapless, Gapless
    <3>4. new \in AnchorRow
      <4>1. chained' \subseteq AnchorRow
        BY CommitChain
      <4>2. new \in chained'
        BY <3>1, <3>2 DEF ChainOf
      <4> QED BY <4>1, <4>2
    <3>5. \A id \in Requests \ {k} : ChainOf(id)' = ChainOf(id)
      BY <1>1, <2>1, <3>1
    <3>6. new.digest.revision \in {1, new.revision}
      BY <3>2, SuccessorDigest
    <3> QED BY <3>1, <3>2, <3>3, <3>4, <3>5, <3>6 DEF GrowsBy
  <2> QED BY <2>2, <2>3
<1> QED BY <1>3, <1>4

LEMMA GrownIsGapless ==
    ASSUME NEW k \in Requests, NEW new, Gapless(k), GrowsBy(k, new),
           Cardinality(Answers) \in Nat, Cardinality(Answers') = Cardinality(Answers) + 1
    PROVE  Gapless(k)' /\ Cardinality(ChainOf(k)') = Cardinality(ChainOf(k)) + 1
<1>1. PICK n : n = Cardinality(ChainOf(k)) /\ n \in Nat
  BY FS_CardinalityType DEF Gapless
<1>2. IsFiniteSet(ChainOf(k)') /\ Cardinality(ChainOf(k)') = n + 1
  BY <1>1, FS_AddElement DEF Gapless, GrowsBy
<1>3. RevisionsOf(k)' = RevisionsOf(k) \cup {n + 1}
  BY <1>1 DEF RevisionsOf, GrowsBy
<1>4. RevisionsOf(k)' = 1 .. n + 1
  BY <1>1, <1>3 DEF Gapless
<1>5. Cardinality(ChainOf(k)') <= Cardinality(Answers')
  BY <1>1, <1>2 DEF Gapless
<1> QED BY <1>1, <1>2, <1>4, <1>5 DEF Gapless

LEMMA SameChainGapless ==
    ASSUME NEW id \in Requests, Gapless(id), ChainOf(id)' = ChainOf(id),
           Cardinality(Answers) \in Nat, Cardinality(Answers') \in Nat,
           Cardinality(Answers) <= Cardinality(Answers')
    PROVE  Gapless(id)'
<1>1. Cardinality(ChainOf(id)) \in Nat
  BY FS_CardinalityType DEF Gapless
<1>2. RevisionsOf(id)' = RevisionsOf(id)
  BY DEF RevisionsOf
<1> QED BY <1>1, <1>2 DEF Gapless

\* What a step that is not a commit leaves alone, and which request it is of.
LEMMA NoCommit ==
    ASSUME Inv, NEW q \in Requests, Read(q) \/ WriteRow(q) \/ LinkRow(q) \/ Rollback(q)
    PROVE  /\ UNCHANGED chained /\ ~At(q, "ok")
           /\ \A p \in Requests \ {q} : request'[p] = request[p]
<1>1. request \in [Requests -> RequestState]
  BY DEF Inv, FieldReportsTypeOK
<1>2. CASE Read(q)
  BY <1>1, <1>2 DEF Read, ReadForCreate, ReadForPatch, ReadForEvidence, At
<1>3. CASE WriteRow(q)
  BY <1>1, <1>3 DEF WriteRow, At
<1>4. CASE LinkRow(q)
  BY <1>1, <1>4 DEF LinkRow, At
<1>5. CASE Rollback(q)
  BY <1>1, <1>5 DEF Rollback, InTransaction, At
<1> QED BY <1>2, <1>3, <1>4, <1>5

LEMMA CommitAnswers ==
    ASSUME Inv, NEW q \in Requests, Commit(q)
    PROVE  /\ At(q, "linked") /\ ~At(q, "ok") /\ At(q, "ok")'
           /\ chained' = Inserted(request[q].row)
           /\ \A p \in Requests \ {q} : request'[p] = request[p]
BY DEF Inv, FieldReportsTypeOK, Commit, At

LEMMA StepIsGapless ==
    IsFiniteSet(Requests) /\ Inv /\ ChainsGapless /\ [Next]_vars => ChainsGapless'
<1> SUFFICES ASSUME IsFiniteSet(Requests), Inv, ChainsGapless, [Next]_vars
             PROVE  ChainsGapless'
  OBVIOUS
<1>1. ASSUME NEW q \in Requests, Read(q) \/ WriteRow(q) \/ LinkRow(q) \/ Rollback(q)
      PROVE  ChainsGapless'
  <2>1. \A id \in Requests : ChainOf(id)' = ChainOf(id)
    BY <1>1, NoCommit DEF ChainOf
  <2> QED BY <1>1, <2>1, NoCommit, AnswersGrow, SameChainGapless DEF ChainsGapless
<1>2. ASSUME NEW q \in Requests, Commit(q)
      PROVE  ChainsGapless'
  BY <1>2, CommitAnswers, AnswersGrow, CommitGrows, GrownIsGapless, SameChainGapless
     DEF ChainsGapless
<1>3. CASE UNCHANGED vars
  BY <1>3 DEF vars, ChainsGapless, Gapless, RevisionsOf, ChainOf, Answers, At
<1> QED BY <1>1, <1>2, <1>3 DEF Next

LEMMA InitIsGapless == Init => ChainsGapless
<1> SUFFICES ASSUME Init, NEW id \in Requests PROVE Gapless(id)
  BY DEF ChainsGapless
<1>1. ChainOf(id) = {} /\ Answers = {}
  BY DEF Init, ChainOf, Answers, At, Idle
<1>2. RevisionsOf(id) = {}
  BY <1>1 DEF RevisionsOf
<1> QED BY <1>1, <1>2, FS_EmptySet DEF Gapless

\* The chain of a report as the sequence of its digests.
Digests(id) == [n \in 1 .. Cardinality(ChainOf(id)) |-> DigestAt(id, n)]

\* DigestAt reads the one row of that revision.
RowAt(S, n) == CHOOSE a \in S : a.revision = n

LEMMA DigestOfRow ==
    /\ \A id, n : DigestAt(id, n) = RowAt(ChainOf(id), n).digest
    /\ \A id, n : DigestAt(id, n)' = RowAt(ChainOf(id)', n).digest
BY Zenon DEF DigestAt, RowAt

LEMMA OnlyRow ==
    ASSUME NEW S, NEW a \in S, \A b \in S : b.revision = a.revision => b = a
    PROVE  RowAt(S, a.revision) = a
BY DEF RowAt

\* Append, for a sequence given as a function.
LEMMA AppendedFunction ==
    ASSUME NEW n \in Nat, NEW s, s = [i \in 1 .. n |-> s[i]], NEW h
    PROVE  Append(s, h) = [i \in 1 .. n + 1 |-> IF i <= n THEN s[i] ELSE h]
<1> DEFINE C == {s[i] : i \in 1 .. n} \cup {h}
<1>1. s \in Seq(C) /\ h \in C /\ Len(s) = n
  OBVIOUS
<1> HIDE DEF C
<1>2. /\ Append(s, h) \in Seq(C) /\ Len(Append(s, h)) = n + 1
      /\ \A i \in 1 .. n : Append(s, h)[i] = s[i]
      /\ Append(s, h)[n + 1] = h
  BY <1>1
<1>3. PICK t \in Seq(C) : t = Append(s, h) /\ Len(t) = n + 1
  BY <1>2
<1>4. t = [i \in 1 .. n + 1 |-> t[i]]
  BY <1>3, LenProperties
<1>5. \A i \in 1 .. n + 1 : t[i] = IF i <= n THEN s[i] ELSE h
  BY <1>2, <1>3
<1> QED BY <1>3, <1>4, <1>5

\* A row at the end of a chain appends its digest.
LEMMA RowAppends ==
    ASSUME Inv, RevisionsAreUnique', NEW k \in Requests, NEW new, Gapless(k),
           GrowsBy(k, new), Cardinality(ChainOf(k)') = Cardinality(ChainOf(k)) + 1
    PROVE  Digests(k)' = Append(Digests(k), new.digest)
<1>1. PICK n : n = Cardinality(ChainOf(k)) /\ n \in Nat
  BY FS_CardinalityType DEF Gapless
<1>2. PICK S : S = ChainOf(k)
  OBVIOUS
<1>3. PICK T : T = ChainOf(k)' /\ T = S \cup {new}
  BY <1>2 DEF GrowsBy
<1>4. \A a, b \in T : a.revision = b.revision => a = b
  BY <1>3 DEF RevisionsAreUnique, SameRevision, ChainOf
<1>5. new \in T /\ new.revision = n + 1
  BY <1>1, <1>3 DEF GrowsBy
<1>6. RowAt(T, n + 1) = new
  BY <1>4, <1>5, OnlyRow
<1>7. ASSUME NEW i \in 1 .. n
      PROVE  RowAt(T, i) = RowAt(S, i)
  <2>1. i \in RevisionsOf(k)
    BY <1>1 DEF Gapless
  <2>2. PICK a \in S : a.revision = i
    BY <1>2, <2>1 DEF RevisionsOf
  <2>3. RowAt(S, i) = a /\ RowAt(T, i) = a
    BY <1>3, <1>4, <2>2, OnlyRow
  <2> QED BY <2>3
<1>8. PICK s : s = Digests(k)
  OBVIOUS
<1>9. s = [i \in 1 .. n |-> RowAt(S, i).digest]
  BY <1>1, <1>2, <1>8, DigestOfRow DEF Digests
<1>10. Digests(k)' = [i \in 1 .. n + 1 |-> RowAt(T, i).digest]
  BY <1>1, <1>3, DigestOfRow DEF Digests
<1>11. Append(s, new.digest) = [i \in 1 .. n + 1 |-> IF i <= n THEN s[i] ELSE new.digest]
  <2>1. s = [i \in 1 .. n |-> s[i]]
    BY <1>9
  <2> QED BY <1>1, <2>1, AppendedFunction
<1>12. \A i \in 1 .. n + 1 : RowAt(T, i).digest = IF i <= n THEN s[i] ELSE new.digest
  BY <1>1, <1>6, <1>7, <1>9
<1> QED BY <1>8, <1>10, <1>11, <1>12

LEMMA SameChainSameDigests ==
    ASSUME NEW id, ChainOf(id)' = ChainOf(id) PROVE Digests(id)' = Digests(id)
BY DigestOfRow DEF Digests

\* The digest of a row whose revision is no larger than the number of requests.
LEMMA DigestBound ==
    ASSUME NEW a \in AnchorRow, NEW n \in Nat, a.revision \in 1 .. n,
           a.digest.revision \in {1, a.revision}
    PROVE  a.digest \in DigestsOf(1 .. n)
BY DEF AnchorRow, Digest, DigestsOf, RevisionNumbers

LEMMA CommitExtends ==
    ASSUME IsFiniteSet(Requests), Inv, RevisionsAreUnique', ChainsGapless,
           NEW q \in Requests, Commit(q)
    PROVE  RowChain!Next \/ UNCHANGED [id \in Requests |-> Digests(id)]
<1>1. CASE \A id \in Requests : ChainOf(id)' = ChainOf(id)
  BY <1>1, SameChainSameDigests
<1>2. ASSUME NEW k \in Requests, NEW new \in AnchorRow, GrowsBy(k, new),
             \A id \in Requests \ {k} : ChainOf(id)' = ChainOf(id)
      PROVE  RowChain!Next
  <2>1. /\ Cardinality(Answers) \in Nat /\ Cardinality(Answers') = Cardinality(Answers) + 1
    BY CommitAnswers, AnswersGrow
  <2>2. Gapless(k)' /\ Cardinality(ChainOf(k)') = Cardinality(ChainOf(k)) + 1
    BY <1>2, <2>1, GrownIsGapless DEF ChainsGapless
  <2>3. Digests(k)' = Append(Digests(k), new.digest)
    BY <1>2, <2>2, RowAppends DEF ChainsGapless
  <2>4. PICK n : n = Cardinality(Requests) /\ n \in Nat
    BY FS_CardinalityType
  <2>5. new.revision \in 1 .. n
    <3>1. Answers' \in SUBSET Requests
      BY DEF Answers
    <3>2. PICK S \in SUBSET Requests : S = Answers'
      BY <3>1
    <3>3. Cardinality(Answers') <= n
      BY <2>4, <3>2, FS_Subset
    <3>4. Cardinality(ChainOf(k)) \in Nat
      BY FS_CardinalityType DEF ChainsGapless, Gapless
    <3>5. Cardinality(ChainOf(k)') <= Cardinality(Answers')
      BY <2>2 DEF Gapless
    <3>6. new.revision = Cardinality(ChainOf(k)) + 1
      BY <1>2 DEF GrowsBy
    <3> QED BY <2>1, <2>2, <2>4, <3>3, <3>4, <3>5, <3>6
  <2>6. new.digest \in DigestsOf(1 .. Cardinality(Requests))
    BY <1>2, <2>4, <2>5, DigestBound DEF GrowsBy
  <2>7. \A id \in Requests \ {k} : Digests(id)' = Digests(id)
    BY <1>2, SameChainSameDigests
  <2>8. RowChain!Extend(k, new.digest)
    BY <2>3, <2>7 DEF RowChain!Extend, Digests
  <2> QED BY <2>6, <2>8 DEF RowChain!Next
<1> QED BY <1>1, <1>2, CommitAnswers, CommitGrows

LEMMA StepRefines ==
    IsFiniteSet(Requests) /\ Inv /\ Inv' /\ ChainsGapless /\ [Next]_vars
    => [RowChain!Next]_([id \in Requests |-> Digests(id)])
<1> SUFFICES ASSUME IsFiniteSet(Requests), Inv, Inv', ChainsGapless, [Next]_vars
             PROVE  RowChain!Next \/ UNCHANGED [id \in Requests |-> Digests(id)]
  OBVIOUS
<1>1. ASSUME NEW q \in Requests, Read(q) \/ WriteRow(q) \/ LinkRow(q) \/ Rollback(q)
      PROVE  UNCHANGED [id \in Requests |-> Digests(id)]
  <2>1. \A id \in Requests : ChainOf(id)' = ChainOf(id)
    BY <1>1, NoCommit DEF ChainOf
  <2> QED BY <2>1, SameChainSameDigests
<1>2. ASSUME NEW q \in Requests, Commit(q)
      PROVE  RowChain!Next \/ UNCHANGED [id \in Requests |-> Digests(id)]
  BY <1>2, CommitExtends DEF Inv, TablesInv
<1>3. CASE UNCHANGED vars
  <2>1. \A id \in Requests : ChainOf(id)' = ChainOf(id)
    BY <1>3 DEF vars, ChainOf
  <2> QED BY <2>1, SameChainSameDigests
<1> QED BY <1>1, <1>2, <1>3 DEF Next

LEMMA InitRefines == Init => RowChain!Init
<1> SUFFICES ASSUME Init PROVE RowChain!Init
  OBVIOUS
<1>1. \A id \in Requests : Cardinality(ChainOf(id)) = 0
  <2>1. \A id \in Requests : ChainOf(id) = {}
    BY DEF Init, ChainOf
  <2> QED BY <2>1, FS_EmptySet
<1>2. \A id \in Requests : Digests(id) = <<>>
  BY <1>1 DEF Digests
<1> QED BY <1>2 DEF RowChain!Init, Digests

-------------------------------------------------------------------------------
\* Submissions are idempotent per client id for any number of overlapping retries:
\* createFieldReport stores one report per (device, client id) and names it in every answer.
THEOREM SubmissionsAreIdempotent == Spec => []IdempotentCreate
BY Invariance, InvImpliesProperties, PTL

\* No successful answer of create, PATCH or PUT evidence is without its row in the chain.
THEOREM AcknowledgementsAreChained == Spec => []AcknowledgedIsChained
BY Invariance, InvImpliesProperties, PTL

\* Every stored report has a chain without gaps, revision by revision, whatever requests
\* overlap, fail or are rolled back.
THEOREM ChainsAreComplete == Spec => []ChainsComplete
BY Invariance, InvImpliesProperties, PTL

\* A stored report agrees with its chain, in status and in evidence, whatever requests
\* overlap, are retried or fail, unless a request wrote back a report that had changed
\* since it was read (fieldReports.service.ts reads in one transaction and writes in another).
THEOREM ReportsMatchTheirChains == Spec => []ReportMatchesChain
<1>1. Init => ReportMatchesChain
  BY DEF Init, ReportMatchesChain
<1> QED BY <1>1, Invariance, StepAgrees, PTL DEF Spec

\* The reports' chains are append-only: every answered request adds at most one digest,
\* with the next revision, at the end of one chain, and no request removes, replaces or
\* reorders a row.  The requests of a behaviour are finitely many: a revision is then
\* no larger than their number.
THEOREM ReportChainsOnlyGrow == IsFiniteSet(Requests) => (Spec => ChainOnlyGrows)
<1> SUFFICES ASSUME IsFiniteSet(Requests) PROVE Spec => ChainOnlyGrows
  OBVIOUS
<1>1. ChainsGapless /\ Inv /\ [Next]_vars => ChainsGapless'
  BY StepIsGapless
<1>2. Spec => []ChainsGapless
  BY <1>1, InitIsGapless, Invariance, PTL DEF Spec
<1>3. Inv /\ Inv' /\ ChainsGapless /\ [Next]_vars
      => [RowChain!Next]_([id \in Requests |->
             [n \in 1 .. Cardinality(ChainOf(id)) |-> DigestAt(id, n)]])
  BY StepRefines DEF Digests
<1> QED
  BY <1>2, <1>3, InitRefines, Invariance, PTL DEF Spec, ChainOnlyGrows, RowChain!Spec
===============================================================================
