---------------------------- MODULE ReleaseGate ----------------------------
(***************************************************************************)
(* One release gate: createReleaseGate, createPublisherAttestation,        *)
(* approveReleaseGate and evaluateReleaseGate of                           *)
(* backend/src/integrity/governanceRepository.ts, with                     *)
(* enqueueIntegrityArtifact of artifactRepository.ts.                      *)
(*                                                                         *)
(* All requests name the same external id, so that they meet in one gate   *)
(* and in one revision chain of gate artifacts.  Each query or transaction *)
(* of a request is an action: an approval is five transactions, and        *)
(* requests interleave, fail or crash between any two of them.  Meanwhile  *)
(* the worker anchors the artifacts, as in AnchorLifecycle with one worker *)
(* process.  No route requeues an artifact, so one whose attempts are      *)
(* exhausted differs in nothing from one that is queued for ever.          *)
(*                                                                         *)
(* Signatures are not forged: a request carries one only for the artifact  *)
(* revision and with the key it was made for.                              *)
(***************************************************************************)
EXTENDS Naturals, FiniteSets

CONSTANTS
    Keys,           \* Stellar accounts that may attest
    Subjects,       \* artifacts a release is about
    Policies,       \* policies a gate is created with
    Payloads,       \* payloads POST /artifacts gives the gate's artifact
    Signatures,     \* signatures of one key over one artifact (signedAt differs)
    Requests,       \* HTTP requests; what one inserts bears its name
    None,           \* no key, no artifact, no payload
    MaxInFlight     \* how many requests the API handles at a time

Policy == [subject : Subjects, required : Nat, allowed : SUBSET Keys]

ASSUME ReleaseGateAssumption ==
    /\ Policies \subseteq Policy
    /\ IsFiniteSet(Keys)
    /\ IsFiniteSet(Requests)
    /\ Subjects \cap Requests = {}
    /\ None \notin Keys \cup Subjects \cup Requests
    /\ MaxInFlight \in Nat \ {0}

VARIABLES
    artifacts,      \* rows of integrity_artifact_anchors
    gates,          \* rows of integrity_release_gates with the external id
    attestations,   \* rows of integrity_publisher_attestations
    approvals,      \* rows of integrity_release_gate_approvals
    request         \* the requests, with what each holds in memory

vars == <<artifacts, gates, attestations, approvals, request>>

-------------------------------------------------------------------------------
\* An artifact's type and external id.  An attestation's external id names the
\* artifact it is about and the key.
Chain == [type : {"subject", "gate", "attestation"}, of : Subjects \cup Requests \cup {None},
          by : Keys \cup {None}]

SubjectChain(s) == [type |-> "subject", of |-> s, by |-> None]
GateChain == [type |-> "gate", of |-> None, by |-> None]
AttestationChain(of, by) == [type |-> "attestation", of |-> of, by |-> by]

Payload == Policies \cup Payloads \cup Signatures \cup {None}

ArtifactRow == [id : Subjects \cup Requests, chain : Chain, revision : Nat \ {0},
                payload : Payload, status : {"queued", "confirmed"}]

\* One row, or none.  "revoked" is a status no code gives a gate.
GateRow == [id : Requests, policy : Policies, status : {"pending", "approved"}]

AttestationRow == [id : Requests, of : Requests, by : Keys, artifact : Subjects \cup Requests]

ApprovalRow == [by : Keys, attestation : Requests]

NoInput == [kind |-> "none"]
Creations == [kind : {"create"}, policy : Policies]
Approvals == [kind : {"approve"}, of : Requests, by : Keys, signature : Signatures]
Attests   == [kind : {"attest"}, of : Requests, by : Keys, signature : Signatures]
Posts     == [kind : {"post"}, payload : Payloads]
Views     == [kind : {"evaluate"}]

Submissions == Creations \cup Approvals \cup Attests \cup Posts
Inputs == {NoInput} \cup Submissions \cup Views

Steps == {"idle", "checked", "linked", "enqueued", "attested", "recorded", "evaluated",
          "ok", "error"}

\* step      where the request is
\* input     what the client sent
\* row       the artifact enqueueIntegrityArtifact found or is about to insert
\* verdict   what evaluateReleaseGate computed
Idle == [step |-> "idle", input |-> NoInput, row |-> {}, verdict |-> FALSE]

RequestState == [step : Steps, input : Inputs, row : SUBSET ArtifactRow, verdict : BOOLEAN]

ReleaseGateTypeOK ==
    /\ artifacts \subseteq ArtifactRow
    /\ gates \subseteq GateRow
    /\ attestations \subseteq AttestationRow
    /\ approvals \subseteq ApprovalRow
    /\ request \in [Requests -> RequestState]

-------------------------------------------------------------------------------
At(q, step) == request[q].step = step
Kind(q) == request[q].input.kind

\* A step's continuation; a request that has ended forgets the artifact.
Goes(q, step) ==
    request' = [request EXCEPT ![q].step = step, ![q].row = IF step = "ok" THEN {} ELSE @]

InFlight == {q \in Requests : request[q].step \notin {"idle", "ok", "error"}}
Arrives(q) == At(q, "idle") /\ Cardinality(InFlight) < MaxInFlight

RowsOf(chain) == {a \in artifacts : a.chain = chain}

\* ORDER BY revision DESC LIMIT 1
Latest(chain) == {a \in RowsOf(chain) : \A b \in RowsOf(chain) : b.revision <= a.revision}

Confirmed(id) == \E a \in artifacts : a.id = id /\ a.status = "confirmed"

\* UNIQUE (subject_artifact_id, attestor_public_key)
AttestedBy(of, by) == {t \in attestations : t.of = of /\ t.by = by}

-------------------------------------------------------------------------------
\* createReleaseGate up to the check of the policy.
StartCreate(q, input) ==
    /\ Arrives(q)
    /\ gates = {}
    /\ input.policy.required \in 2 .. Cardinality(input.policy.allowed)
    /\ request' = [request EXCEPT ![q].step = "checked", ![q].input = input]
    /\ UNCHANGED <<artifacts, gates, attestations, approvals>>

\* approveReleaseGate up to the enqueueing in createPublisherAttestation: the
\* signature has to be over the artifact that is the latest, and the key must not
\* have attested to it.  (The two queries commute with everything between them,
\* but for an error the first makes certain.)
StartApprove(q, input) ==
    /\ Arrives(q)
    /\ \E g \in gates : input.by \in g.policy.allowed
    /\ \E a \in Latest(GateChain) : a.id = input.of
    /\ AttestedBy(input.of, input.by) = {}
    /\ request' = [request EXCEPT ![q].step = "checked", ![q].input = input]
    /\ UNCHANGED <<artifacts, gates, attestations, approvals>>

\* POST /attestations about a revision of the gate's artifact, by any key.
StartAttest(q, input) ==
    /\ Arrives(q)
    /\ \E a \in RowsOf(GateChain) : a.id = input.of
    /\ AttestedBy(input.of, input.by) = {}
    /\ request' = [request EXCEPT ![q].step = "checked", ![q].input = input]
    /\ UNCHANGED <<artifacts, gates, attestations, approvals>>

\* POST /artifacts with the type and external id of the gate's artifact.
StartPost(q, input) ==
    /\ Arrives(q)
    /\ request' = [request EXCEPT ![q].step = "checked", ![q].input = input]
    /\ UNCHANGED <<artifacts, gates, attestations, approvals>>

-------------------------------------------------------------------------------
ChainFor(input) ==
    IF input.kind \in {"create", "post"} THEN GateChain
                                         ELSE AttestationChain(input.of, input.by)

PayloadFor(input) ==
    IF input.kind = "create" THEN input.policy
    ELSE IF input.kind = "post" THEN input.payload ELSE input.signature

FirstRevision == 1

\* The latest revision when it has the same content, the next one otherwise.
NextArtifact(q) ==
    LET input == request[q].input
        last  == Latest(ChainFor(input)) IN
    IF last = {}
    THEN {[id |-> q, chain |-> ChainFor(input), revision |-> FirstRevision,
           payload |-> PayloadFor(input), status |-> "queued"]}
    ELSE {IF a.payload = PayloadFor(input) THEN a
          ELSE [id |-> q, chain |-> a.chain, revision |-> a.revision + 1,
                payload |-> PayloadFor(input), status |-> "queued"] : a \in last}

\* enqueueIntegrityArtifact reads the latest revision.  Its FOR UPDATE only decides
\* which of two requests that read the same revision inserts first.
LinkArtifact(q) ==
    /\ At(q, "checked")
    /\ request' = [request EXCEPT ![q].step = "linked", ![q].row = NextArtifact(q)]
    /\ UNCHANGED <<artifacts, gates, attestations, approvals>>

RevisionTaken(a) == \E b \in artifacts : b.chain = a.chain /\ b.revision = a.revision

\* ... and inserts the next one, or violates the unique constraint.
InsertArtifact(q) ==
    /\ At(q, "linked")
    /\ \A a \in request[q].row : a.id = q => ~RevisionTaken(a)
    /\ artifacts' = artifacts \cup {a \in request[q].row : a.id = q}
    /\ Goes(q, IF Kind(q) = "post" THEN "ok" ELSE "enqueued")
    /\ UNCHANGED <<gates, attestations, approvals>>

-------------------------------------------------------------------------------
\* The last statement of createReleaseGate.  A second gate with the external id
\* violates the unique constraint; the request ends in Fail.
InsertGate(q) ==
    /\ At(q, "enqueued")
    /\ Kind(q) = "create"
    /\ gates = {}
    /\ gates' = {[id |-> q, policy |-> request[q].input.policy, status |-> "pending"]}
    /\ Goes(q, "ok")
    /\ UNCHANGED <<artifacts, attestations, approvals>>

\* INSERT INTO integrity_publisher_attestations ... ON CONFLICT DO NOTHING: the
\* request goes on with the id it generated either way.
InsertAttestation(q) ==
    LET input == request[q].input IN
    /\ At(q, "enqueued")
    /\ Kind(q) \in {"approve", "attest"}
    /\ attestations' =
           IF AttestedBy(input.of, input.by) # {} THEN attestations
           ELSE attestations \cup
                {[id |-> q, of |-> input.of, by |-> input.by, artifact |-> a.id] :
                    a \in request[q].row}
    /\ Goes(q, IF Kind(q) = "approve" THEN "attested" ELSE "ok")
    /\ UNCHANGED <<artifacts, gates, approvals>>

\* ON CONFLICT (gate_id, approver_public_key) DO NOTHING
ApprovalsWith(q) ==
    IF \E p \in approvals : p.by = request[q].input.by THEN approvals
    ELSE approvals \cup {[by |-> request[q].input.by, attestation |-> q]}

\* Mutant: the reference to the attestation is not a foreign key.
ReferencesAny(q) == TRUE

\* attestation_id REFERENCES integrity_publisher_attestations(id)
ReferencesHold(q) ==
    \A p \in ApprovalsWith(q) : \E t \in attestations : t.id = p.attestation

InsertApproval(q) ==
    /\ At(q, "attested")
    /\ ReferencesHold(q)
    /\ approvals' = ApprovalsWith(q)
    /\ Goes(q, "recorded")
    /\ UNCHANGED <<artifacts, gates, attestations>>

-------------------------------------------------------------------------------
\* Mutant: approvals count before their anchor is confirmed.
ConfirmedApproversEarly ==
    {p.by : p \in {r \in approvals : \E t \in attestations : t.id = r.attestation}}

\* Mutant: an approval counts until its anchor is confirmed.
ConfirmedApproversPending ==
    {p.by : p \in {r \in approvals : \E t \in attestations :
                      t.id = r.attestation /\ ~Confirmed(t.artifact)}}

\* count(DISTINCT approver_public_key) FILTER (... status = 'confirmed')
ConfirmedApprovers ==
    {p.by : p \in {r \in approvals : \E t \in attestations :
                      t.id = r.attestation /\ Confirmed(t.artifact)}}

\* What evaluateReleaseGate computes from one snapshot.
Open ==
    \E g \in gates :
        /\ Confirmed(g.policy.subject)
        /\ \E a \in Latest(GateChain) : a.status = "confirmed"
        /\ Cardinality(ConfirmedApprovers) >= g.policy.required

\* GET /release-gates/:gateId, scripts/checkIntegrityReleaseGate.ts, or the end of
\* an approval: the snapshot is read.
Evaluate(q) ==
    /\ Arrives(q) \/ At(q, "recorded")
    /\ \E a \in Latest(GateChain) : gates # {}
    /\ request' = [request EXCEPT
           ![q].step = "evaluated",
           ![q].input = IF At(q, "idle") THEN [kind |-> "evaluate"] ELSE @,
           ![q].verdict = Open]
    /\ UNCHANGED <<artifacts, gates, attestations, approvals>>

\* ... and stored in a second transaction, whatever happened in between.
Answer(q) ==
    /\ At(q, "evaluated")
    /\ gates' = {[g EXCEPT !.status = IF request[q].verdict THEN "approved" ELSE "pending"] :
                     g \in gates}
    /\ Goes(q, "ok")
    /\ UNCHANGED <<artifacts, attestations, approvals>>

\* A violated constraint, a lost connection or a crash.
Fail(q) ==
    /\ q \in InFlight
    /\ request' = [request EXCEPT ![q] = [Idle EXCEPT !.step = "error"]]
    /\ UNCHANGED <<artifacts, gates, attestations, approvals>>

-------------------------------------------------------------------------------
\* claimNextArtifactJob: pending, and the previous revision is confirmed.
IsTurn(a) ==
    /\ a.status = "queued"
    /\ a.revision > 1 =>
        \E b \in RowsOf(a.chain) : b.revision = a.revision - 1 /\ b.status = "confirmed"

\* The worker anchors an artifact: confirmArtifactJob.
Confirm(a) ==
    /\ IsTurn(a)
    /\ artifacts' = (artifacts \ {a}) \cup {[a EXCEPT !.status = "confirmed"]}
    /\ UNCHANGED <<gates, attestations, approvals, request>>

-------------------------------------------------------------------------------
Init ==
    /\ artifacts = {[id |-> s, chain |-> SubjectChain(s), revision |-> 1, payload |-> None,
                     status |-> "queued"] : s \in Subjects}
    /\ gates = {}
    /\ attestations = {}
    /\ approvals = {}
    /\ request = [q \in Requests |-> Idle]

Start(q) ==
    \/ \E input \in Creations : StartCreate(q, input)
    \/ \E input \in Approvals : StartApprove(q, input)
    \/ \E input \in Attests : StartAttest(q, input)
    \/ \E input \in Posts : StartPost(q, input)

Next ==
    \/ \E q \in Requests :
        \/ Start(q) \/ LinkArtifact(q) \/ InsertArtifact(q)
        \/ InsertGate(q) \/ InsertAttestation(q) \/ InsertApproval(q)
        \/ Evaluate(q) \/ Answer(q) \/ Fail(q)
    \/ \E a \in artifacts : Confirm(a)

Spec == Init /\ [][Next]_vars

-------------------------------------------------------------------------------
\* Keys with an anchored attestation of some revision of the gate's artifact.
Endorsers ==
    {k \in Keys : \E t \in attestations, a \in RowsOf(GateChain) :
        t.by = k /\ t.of = a.id /\ Confirmed(t.artifact)}

\* The release subject is anchored, and enough allowed accounts have signed a
\* revision of the gate's artifact, each signature anchored.
Founded(g) ==
    /\ Confirmed(g.policy.subject)
    /\ Cardinality(Endorsers \cap g.policy.allowed) >= g.policy.required

\* A request is told "approved", and the gate's row says so, only on good grounds:
\* evaluateReleaseGate counts rows that several earlier requests left behind, some
\* of them half done, and stores a verdict after the snapshot it was computed from.
ApprovalIsFounded ==
    /\ \A q \in Requests : request[q].verdict => \E g \in gates : Founded(g)
    /\ \A g \in gates : g.status = "approved" => Founded(g)

\* A gate that is open is closed by nothing but a new revision of its artifact: no
\* repeated, failed or late request takes an approval away.
ClosesForRevisionOnly ==
    [][Open /\ ~Open' => Latest(GateChain)' # Latest(GateChain)]_vars

\* A successful approval is recorded: there is an approval of the account, backed
\* by an attestation it made, even when two requests of one account overlap.
SuccessfulApprovalIsRecorded ==
    \A q \in Requests :
        At(q, "ok") /\ Kind(q) = "approve" =>
            \E p \in approvals, t \in attestations :
                /\ p.by = request[q].input.by
                /\ t.id = p.attestation
                /\ t.by = p.by

\* The policy of a gate is the one its approvers sign: an open gate has enough
\* attestations of revisions that carry its policy.
\* docs/soroban-integrity.md:96 calls the gate "an immutable multi-party promotion
\* policy"; the approvals are not tied to the revision they were given for.
OpenedByItsPolicy ==
    Open => \E g \in gates :
        Cardinality({k \in g.policy.allowed :
            \E t \in attestations, a \in RowsOf(GateChain) :
                t.by = k /\ t.of = a.id /\ a.payload = g.policy}) >= g.policy.required
=============================================================================
