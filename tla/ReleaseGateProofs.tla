-------------------------- MODULE ReleaseGateProofs --------------------------
(***************************************************************************)
(* Proofs about ReleaseGate, for any number of requests, accounts,         *)
(* policies and revisions.                                                 *)
(*                                                                         *)
(* An approval is three rows written by three transactions.  GateInv says  *)
(* how the rows of overlapping and half-finished requests fit together:    *)
(* an attestation was inserted by the request whose id it bears, an        *)
(* approval refers to an attestation by the same, allowed, account.        *)
(* BatchInv, for the artifacts that are posted in Merkle batches, follows. *)
(***************************************************************************)
EXTENDS MerkleArtifacts, FiniteSetTheorems, TLAPS

Approving(q) == Kind(q) = "approve"
Attesting(q) == Kind(q) \in {"approve", "attest"}

\* The id of some revision of the gate's artifact.
IsRevision(id) == \E a \in RowsOf(GateChain) : a.id = id

IsAllowed(k) == \E g \in gates : k \in g.policy.allowed

OneGate == \A g, h \in gates : g = h

\* A request at work has an input; what it signs is a revision of the gate; an
\* approver is allowed.
RequestsAdmitted ==
    \A q \in Requests :
        /\ request[q].step \in {"checked", "linked", "enqueued", "attested"} =>
               request[q].input \in Submissions
        /\ Attesting(q) => IsRevision(request[q].input.of)
        /\ Approving(q) => IsAllowed(request[q].input.by)

\* An attestation was inserted by the request with its id.
AttestationsOwned ==
    \A t \in attestations :
        /\ request[t.id].step \notin {"idle", "checked", "linked", "enqueued"}
        /\ At(t.id, "attested") => t.by = request[t.id].input.by
        /\ IsRevision(t.of)

\* An approval is backed by an attestation of the same account.
ApprovalsBacked ==
    \A p \in approvals :
        /\ IsAllowed(p.by)
        /\ \E t \in attestations : t.id = p.attestation
        /\ \A t \in attestations : t.id = p.attestation => t.by = p.by

\* An attested request is an approval, and a recorded one has left its mark.
IsRecorded(k) ==
    \E p \in approvals, t \in attestations : p.by = k /\ t.id = p.attestation /\ t.by = p.by

ApprovalsRecorded ==
    \A q \in Requests :
        /\ At(q, "attested") => Approving(q)
        /\ Approving(q) /\ request[q].step \in {"recorded", "evaluated", "ok"} =>
               IsRecorded(request[q].input.by)

GateInv ==
    /\ ReleaseGateTypeOK
    /\ OneGate
    /\ RequestsAdmitted
    /\ AttestationsOwned
    /\ ApprovalsBacked
    /\ ApprovalsRecorded
    /\ ApprovalIsFounded

-------------------------------------------------------------------------------
(***************************************************************************)
(* Types.                                                                  *)
(***************************************************************************)

\* What a request is about to insert is an artifact row.
LEMMA NextArtifactType ==
    ASSUME ReleaseGateTypeOK, NEW q \in Requests, At(q, "checked"),
           request[q].input \in Submissions
    PROVE  NextArtifact(q) \subseteq ArtifactRow
<1> DEFINE in == request[q].input
<1> USE DEF Submissions
<1>1. ChainFor(in) \in Chain
  BY DEF ChainFor, GateChain, AttestationChain, Chain, Creations, Approvals, Attests, Posts
<1>2. PayloadFor(in) \in Payload
  <2>1. CASE in \in Creations
    BY <2>1 DEF PayloadFor, Payload, Creations
  <2>2. CASE in \in Posts
    BY <2>2 DEF PayloadFor, Payload, Posts
  <2>3. CASE in \in Approvals \cup Attests
    BY <2>3 DEF PayloadFor, Payload, Approvals, Attests
  <2> QED BY <2>1, <2>2, <2>3
<1>3. Latest(ChainFor(in)) \subseteq ArtifactRow
  BY DEF Latest, RowsOf, ReleaseGateTypeOK
<1>4. [id |-> q, chain |-> ChainFor(in), revision |-> 1,
       payload |-> PayloadFor(in), status |-> "queued"] \in ArtifactRow
  BY <1>1, <1>2 DEF ArtifactRow
<1>5. \A a \in Latest(ChainFor(in)) :
        [id |-> q, chain |-> a.chain, revision |-> a.revision + 1,
         payload |-> PayloadFor(in), status |-> "queued"] \in ArtifactRow
  BY <1>2, <1>3 DEF ArtifactRow
<1> QED BY <1>3, <1>4, <1>5 DEF NextArtifact, FirstRevision

\* What a request is when nothing is known of it but its step.
LEMMA IdleType ==
    ASSUME NEW step \in Steps
    PROVE  [Idle EXCEPT !.step = step] \in RequestState
<1>1. Idle \in RequestState
  BY DEF Idle, RequestState, Inputs, Steps
<1> QED BY <1>1 DEF RequestState

\* Moving a request on keeps its type.
LEMMA GoesType ==
    ASSUME request \in [Requests -> RequestState], NEW q \in Requests, NEW step \in Steps,
           Goes(q, step)
    PROVE  request' \in [Requests -> RequestState]
<1> DEFINE row == IF step = "ok" THEN {} ELSE request[q].row
<1>1. request[q].row \in SUBSET ArtifactRow
  BY DEF RequestState
<1>2. row \in SUBSET ArtifactRow
  BY <1>1
<1>3. request' = [request EXCEPT ![q].step = step, ![q].row = row]
  BY DEF Goes
<1> QED BY <1>2, <1>3 DEF RequestState

LEMMA StepType ==
    ASSUME ReleaseGateTypeOK, RequestsAdmitted, ApprovalsRecorded, [Next]_vars
    PROVE  ReleaseGateTypeOK'
<1> USE DEF ReleaseGateTypeOK
<1>1. ASSUME NEW q \in Requests, Start(q)
      PROVE  ReleaseGateTypeOK'
  <2>1. UNCHANGED <<artifacts, gates, attestations, approvals>>
    BY <1>1 DEF Start, StartCreate, StartApprove, StartAttest, StartPost
  <2>2. PICK input \in Submissions :
          request' = [request EXCEPT ![q].step = "checked", ![q].input = input]
    BY <1>1 DEF Start, StartCreate, StartApprove, StartAttest, StartPost, Submissions
  <2>3. input \in Inputs /\ "checked" \in Steps
    BY DEF Inputs, Steps
  <2> QED BY <2>1, <2>2, <2>3 DEF RequestState
<1>2. ASSUME NEW q \in Requests, LinkArtifact(q)
      PROVE  ReleaseGateTypeOK'
  <2>1. NextArtifact(q) \subseteq ArtifactRow
    BY <1>2, NextArtifactType DEF LinkArtifact, RequestsAdmitted, At
  <2>2. "linked" \in Steps
    BY DEF Steps
  <2> QED BY <1>2, <2>1, <2>2 DEF LinkArtifact, RequestState
<1>3. ASSUME NEW q \in Requests, InsertArtifact(q)
      PROVE  ReleaseGateTypeOK'
  <2>1. request[q].row \subseteq ArtifactRow
    BY DEF RequestState
  <2>2. PICK step \in Steps : Goes(q, step)
    BY <1>3 DEF InsertArtifact, Steps
  <2> QED BY <1>3, <2>1, <2>2, GoesType DEF InsertArtifact
<1>4. ASSUME NEW q \in Requests, InsertGate(q)
      PROVE  ReleaseGateTypeOK'
  <2>1. request[q].input.policy \in Policies
    BY <1>4 DEF InsertGate, RequestsAdmitted, At, Kind, Submissions, Creations, Approvals,
                Attests, Posts
  <2>2. gates' \subseteq GateRow
    BY <1>4, <2>1 DEF InsertGate, GateRow
  <2> QED BY <1>4, <2>2, GoesType DEF InsertGate, Steps
<1>5. ASSUME NEW q \in Requests, InsertAttestation(q)
      PROVE  ReleaseGateTypeOK'
  <2>1. request[q].input.of \in Requests /\ request[q].input.by \in Keys
    BY <1>5 DEF InsertAttestation, RequestsAdmitted, At, Kind, Submissions, Creations,
                Approvals, Attests, Posts
  <2>2. request[q].row \subseteq ArtifactRow
    BY DEF RequestState
  <2>3. \A a \in request[q].row :
          [id |-> q, of |-> request[q].input.of, by |-> request[q].input.by,
           artifact |-> a.id] \in AttestationRow
    BY <2>1, <2>2 DEF ArtifactRow, AttestationRow
  <2>4. attestations' \subseteq AttestationRow
    BY <1>5, <2>3 DEF InsertAttestation
  <2>5. PICK step \in Steps : Goes(q, step)
    BY <1>5 DEF InsertAttestation, Steps
  <2> QED BY <1>5, <2>4, <2>5, GoesType DEF InsertAttestation
<1>6. ASSUME NEW q \in Requests, InsertApproval(q)
      PROVE  ReleaseGateTypeOK'
  <2>1. request[q].input.by \in Keys
    BY <1>6 DEF InsertApproval, RequestsAdmitted, ApprovalsRecorded, At, Kind, Approving,
                Submissions, Creations, Approvals, Attests, Posts
  <2>2. approvals' \subseteq ApprovalRow
    BY <1>6, <2>1 DEF InsertApproval, ApprovalsWith, ApprovalRow
  <2> QED BY <1>6, <2>2, GoesType DEF InsertApproval, Steps
<1>7. ASSUME NEW q \in Requests, Evaluate(q) \/ Answer(q) \/ Fail(q)
      PROVE  ReleaseGateTypeOK'
  <2>1. CASE Evaluate(q)
    <3> DEFINE input == IF At(q, "idle") THEN [kind |-> "evaluate"] ELSE request[q].input
    <3>1. input \in Inputs
      BY DEF Inputs, Views, RequestState
    <3>2. Open \in BOOLEAN /\ "evaluated" \in Steps
      BY DEF Open, Steps
    <3>3. request' = [request EXCEPT ![q].step = "evaluated", ![q].input = input,
                                     ![q].verdict = Open]
      BY <2>1 DEF Evaluate
    <3> HIDE DEF input
    <3>4. request' \in [Requests -> RequestState]
      BY <3>1, <3>2, <3>3, ZenonT(60) DEF RequestState
    <3> QED BY <2>1, <3>4 DEF Evaluate
  <2>2. CASE Answer(q)
    <3>1. gates' \subseteq GateRow
      BY <2>2 DEF Answer, GateRow
    <3> QED BY <2>2, <3>1, GoesType DEF Answer, Steps
  <2>3. CASE Fail(q)
    BY <2>3, IdleType DEF Fail, Steps
  <2> QED BY <1>7, <2>1, <2>2, <2>3
<1>8. ASSUME NEW a \in artifacts, Confirm(a)
      PROVE  ReleaseGateTypeOK'
  BY <1>8 DEF Confirm, ArtifactRow
<1>9. CASE UNCHANGED vars
  BY <1>9 DEF vars
<1> QED
  BY <1>1, <1>2, <1>3, <1>4, <1>5, <1>6, <1>7, <1>8, <1>9 DEF Next
-------------------------------------------------------------------------------
(***************************************************************************)
(* What a step never takes back.                                           *)
(***************************************************************************)
ArtifactsGrow ==
    \A a \in artifacts : \E b \in artifacts' :
        /\ b.id = a.id
        /\ b.chain = a.chain
        /\ a.status = "confirmed" => b.status = "confirmed"

PoliciesKept ==
    /\ \A g \in gates : \E h \in gates' : h.policy = g.policy
    /\ gates # {} => \A h \in gates' : \E g \in gates : h.policy = g.policy

Grows ==
    /\ ArtifactsGrow
    /\ PoliciesKept
    /\ attestations \subseteq attestations'
    /\ approvals \subseteq approvals'

LEMMA StepGrows ==
    ASSUME ReleaseGateTypeOK, [Next]_vars
    PROVE  Grows
<1> USE DEF ReleaseGateTypeOK
<1>1. ASSUME NEW q \in Requests,
             Start(q) \/ LinkArtifact(q) \/ Evaluate(q) \/ Fail(q)
      PROVE  Grows
  <2>1. UNCHANGED <<artifacts, gates, attestations, approvals>>
    BY <1>1 DEF Start, StartCreate, StartApprove, StartAttest, StartPost, LinkArtifact,
                Evaluate, Fail
  <2> QED BY <2>1 DEF Grows, ArtifactsGrow, PoliciesKept
<1>2. ASSUME NEW q \in Requests,
             InsertArtifact(q) \/ InsertGate(q) \/ InsertAttestation(q) \/ InsertApproval(q)
      PROVE  Grows
  <2>1. /\ artifacts \subseteq artifacts' /\ attestations \subseteq attestations'
        /\ approvals \subseteq approvals'
    BY <1>2 DEF InsertArtifact, InsertGate, InsertAttestation, InsertApproval, ApprovalsWith
  <2>2. gates' = gates \/ gates = {}
    BY <1>2 DEF InsertArtifact, InsertGate, InsertAttestation, InsertApproval
  <2> QED BY <2>1, <2>2 DEF Grows, ArtifactsGrow, PoliciesKept
<1>3. ASSUME NEW q \in Requests, Answer(q)
      PROVE  Grows
  <2>1. UNCHANGED <<artifacts, attestations, approvals>>
    BY <1>3 DEF Answer
  <2>2. PICK status \in {"approved", "pending"} :
          gates' = {[g EXCEPT !.status = status] : g \in gates}
    BY <1>3 DEF Answer
  <2>3. \A g \in gates : [g EXCEPT !.status = status].policy = g.policy
    BY DEF GateRow
  <2>4. PoliciesKept
    BY <2>2, <2>3 DEF PoliciesKept
  <2> QED BY <2>1, <2>4 DEF Grows, ArtifactsGrow
<1>4. ASSUME NEW a \in artifacts, Confirm(a)
      PROVE  Grows
  <2> DEFINE c == [a EXCEPT !.status = "confirmed"]
  <2>1. c.id = a.id /\ c.chain = a.chain /\ c.status = "confirmed"
    BY DEF ArtifactRow
  <2>2. /\ artifacts' = (artifacts \ {a}) \cup {c}
        /\ UNCHANGED <<gates, attestations, approvals>>
    BY <1>4 DEF Confirm
  <2> HIDE DEF c
  <2>3. ArtifactsGrow
    BY <2>1, <2>2 DEF ArtifactsGrow
  <2> QED BY <2>2, <2>3 DEF Grows, PoliciesKept
<1>5. CASE UNCHANGED vars
  BY <1>5 DEF vars, Grows, ArtifactsGrow, PoliciesKept
<1> QED BY <1>1, <1>2, <1>3, <1>4, <1>5 DEF Next

\* What a growing step keeps.
LEMMA GrowthKeeps ==
    ASSUME Grows
    PROVE  /\ \A id : IsRevision(id) => IsRevision(id)'
           /\ \A id : Confirmed(id) => Confirmed(id)'
           /\ \A k : IsAllowed(k) => IsAllowed(k)'
           /\ \A k : IsRecorded(k) => IsRecorded(k)'
           /\ Endorsers \subseteq Endorsers'
<1>1. ASSUME NEW id, IsRevision(id) PROVE IsRevision(id)'
  BY <1>1 DEF IsRevision, RowsOf, Grows, ArtifactsGrow, GateChain
<1>2. ASSUME NEW id, Confirmed(id) PROVE Confirmed(id)'
  BY <1>2 DEF Confirmed, Grows, ArtifactsGrow
<1>3. ASSUME NEW k, IsAllowed(k) PROVE IsAllowed(k)'
  BY <1>3 DEF IsAllowed, Grows, PoliciesKept
<1>4. ASSUME NEW k, IsRecorded(k) PROVE IsRecorded(k)'
  BY <1>4 DEF IsRecorded, Grows
<1>5. Endorsers \subseteq Endorsers'
  <2>1. Endorsers = {k \in Keys : \E t \in attestations :
                        t.by = k /\ IsRevision(t.of) /\ Confirmed(t.artifact)}
    BY DEF Endorsers, IsRevision
  <2>2. Endorsers' = {k \in Keys : \E t \in attestations' :
                        t.by = k /\ IsRevision(t.of)' /\ Confirmed(t.artifact)'}
    BY DEF Endorsers, IsRevision
  <2> QED BY <1>1, <1>2, <2>1, <2>2 DEF Grows
<1> QED BY <1>1, <1>2, <1>3, <1>4, <1>5

\* Good grounds stay good.
LEMMA FoundedStays ==
    ASSUME Grows, NEW g, NEW h, h.policy = g.policy, g.policy \in Policies, Founded(g)
    PROVE  Founded(h)'
<1>1. Confirmed(h.policy.subject)'
  BY GrowthKeeps DEF Founded
<1>2. IsFiniteSet((Endorsers \cap g.policy.allowed)')
  BY FS_Subset, ReleaseGateAssumption DEF Endorsers
<1>3. (Endorsers \cap g.policy.allowed) \subseteq (Endorsers \cap g.policy.allowed)'
  BY GrowthKeeps
<1>4. IsFiniteSet(Endorsers \cap g.policy.allowed)
  BY FS_Subset, ReleaseGateAssumption DEF Endorsers
<1>5. /\ Cardinality(Endorsers \cap g.policy.allowed) \in Nat
      /\ Cardinality((Endorsers \cap g.policy.allowed)') \in Nat
      /\ Cardinality(Endorsers \cap g.policy.allowed)
            <= Cardinality((Endorsers \cap g.policy.allowed)')
  BY <1>2, <1>3, <1>4, FS_Subset, FS_CardinalityType
<1>6. g.policy.required \in Nat
  BY ReleaseGateAssumption DEF Policy
<1> QED BY <1>1, <1>5, <1>6 DEF Founded
-------------------------------------------------------------------------------
(***************************************************************************)
(* What a step does to the requests: at most one of them changes, and it   *)
(* starts, moves on, is evaluated or fails.                                *)
(***************************************************************************)
OthersWait(q) == \A p \in Requests : p # q => request'[p] = request[p]

Starts(q) ==
    /\ OthersWait(q)
    /\ At(q, "idle") /\ At(q, "checked")'
    /\ request'[q].input \in Submissions
    /\ Attesting(q)' => IsRevision(request'[q].input.of)
    /\ Approving(q)' => IsAllowed(request'[q].input.by)
    /\ request'[q].verdict = request[q].verdict

MovesOn(q, from, to) ==
    /\ OthersWait(q)
    /\ At(q, from) /\ At(q, to)'
    /\ request'[q].input = request[q].input
    /\ request'[q].verdict = request[q].verdict

IsEvaluated(q) ==
    /\ OthersWait(q)
    /\ At(q, "evaluated")'
    /\ \/ At(q, "idle") /\ request'[q].input = [kind |-> "evaluate"]
       \/ At(q, "recorded") /\ request'[q].input = request[q].input
    /\ request'[q].verdict = Open

Fails(q) ==
    /\ OthersWait(q)
    /\ At(q, "error")'
    /\ request'[q].input = NoInput
    /\ request'[q].verdict = FALSE

LEMMA GoesMovesOn ==
    ASSUME ReleaseGateTypeOK, NEW q \in Requests, NEW from, NEW to, At(q, from), Goes(q, to)
    PROVE  MovesOn(q, from, to)
  BY DEF ReleaseGateTypeOK, Goes, MovesOn, OthersWait, At, RequestState

LEMMA StartStarts ==
    ASSUME ReleaseGateTypeOK, NEW q \in Requests, Start(q)
    PROVE  Starts(q)
<1>1. PICK input \in Submissions :
        /\ request' = [request EXCEPT ![q].step = "checked", ![q].input = input]
        /\ At(q, "idle")
        /\ input.kind \in {"approve", "attest"} => IsRevision(input.of)
        /\ input.kind = "approve" => IsAllowed(input.by)
  <2>1. CASE \E input \in Creations : StartCreate(q, input)
    BY <2>1 DEF StartCreate, Arrives, Creations, Submissions
  <2>2. CASE \E input \in Approvals : StartApprove(q, input)
    BY <2>2 DEF StartApprove, Arrives, Submissions, IsRevision, IsAllowed, Latest
  <2>3. CASE \E input \in Attests : StartAttest(q, input)
    BY <2>3 DEF StartAttest, Arrives, Attests, Submissions, IsRevision
  <2>4. CASE \E input \in Posts : StartPost(q, input)
    BY <2>4 DEF StartPost, Arrives, Posts, Submissions
  <2> QED BY <2>1, <2>2, <2>3, <2>4 DEF Start
<1>2. /\ request'[q].step = "checked" /\ request'[q].input = input
      /\ request'[q].verdict = request[q].verdict
      /\ OthersWait(q)
  BY <1>1 DEF ReleaseGateTypeOK, RequestState, OthersWait
<1> QED BY <1>1, <1>2 DEF Starts, At, Attesting, Approving, Kind

LEMMA EvaluateEvaluates ==
    ASSUME ReleaseGateTypeOK, NEW q \in Requests, Evaluate(q)
    PROVE  IsEvaluated(q)
  BY DEF ReleaseGateTypeOK, RequestState, Evaluate, IsEvaluated, OthersWait, At, Arrives

LEMMA FailFails ==
    ASSUME ReleaseGateTypeOK, NEW q \in Requests, Fail(q)
    PROVE  Fails(q)
  BY DEF ReleaseGateTypeOK, RequestState, Fail, Fails, Idle, OthersWait, At

\* Everything a step can be, as far as the requests are concerned.
LEMMA RequestSteps ==
    ASSUME ReleaseGateTypeOK, ApprovalsRecorded, [Next]_vars
    PROVE  \/ request' = request
           \/ \E q \in Requests :
                \/ Starts(q)
                \/ MovesOn(q, "checked", "linked")
                \/ Kind(q) = "post" /\ MovesOn(q, "linked", "ok")
                \/ MovesOn(q, "linked", "enqueued")
                \/ Kind(q) = "create" /\ MovesOn(q, "enqueued", "ok")
                \/ Kind(q) = "attest" /\ MovesOn(q, "enqueued", "ok")
                \/ Kind(q) = "approve" /\ MovesOn(q, "enqueued", "attested")
                \/ InsertApproval(q) /\ MovesOn(q, "attested", "recorded")
                \/ MovesOn(q, "evaluated", "ok")
                \/ IsEvaluated(q)
                \/ Fails(q)
<1>1. ASSUME NEW q \in Requests, Start(q) PROVE Starts(q)
  BY <1>1, StartStarts
<1>2. ASSUME NEW q \in Requests, LinkArtifact(q) PROVE MovesOn(q, "checked", "linked")
  BY <1>2 DEF ReleaseGateTypeOK, LinkArtifact, MovesOn, OthersWait, At, RequestState
<1>3. ASSUME NEW q \in Requests, InsertArtifact(q)
      PROVE  \/ Kind(q) = "post" /\ MovesOn(q, "linked", "ok")
             \/ MovesOn(q, "linked", "enqueued")
  BY <1>3, GoesMovesOn DEF InsertArtifact
<1>4. ASSUME NEW q \in Requests, InsertGate(q)
      PROVE  Kind(q) = "create" /\ MovesOn(q, "enqueued", "ok")
  BY <1>4, GoesMovesOn DEF InsertGate
<1>5. ASSUME NEW q \in Requests, InsertAttestation(q)
      PROVE  \/ Kind(q) = "attest" /\ MovesOn(q, "enqueued", "ok")
             \/ Kind(q) = "approve" /\ MovesOn(q, "enqueued", "attested")
  BY <1>5, GoesMovesOn DEF InsertAttestation
<1>6. ASSUME NEW q \in Requests, InsertApproval(q)
      PROVE  InsertApproval(q) /\ MovesOn(q, "attested", "recorded")
  BY <1>6, GoesMovesOn DEF InsertApproval
<1>7. ASSUME NEW q \in Requests, Answer(q) PROVE MovesOn(q, "evaluated", "ok")
  BY <1>7, GoesMovesOn DEF Answer
<1>8. ASSUME NEW q \in Requests, Evaluate(q) PROVE IsEvaluated(q)
  BY <1>8, EvaluateEvaluates
<1>9. ASSUME NEW q \in Requests, Fail(q) PROVE Fails(q)
  BY <1>9, FailFails
<1>10. ASSUME NEW a \in artifacts, Confirm(a) PROVE request' = request
  BY <1>10 DEF Confirm
<1>11. ASSUME UNCHANGED vars PROVE request' = request
  BY <1>11 DEF vars
<1>12. CASE \E q \in Requests :
              \/ Start(q) \/ LinkArtifact(q) \/ InsertArtifact(q)
              \/ InsertGate(q) \/ InsertAttestation(q) \/ InsertApproval(q)
              \/ Evaluate(q) \/ Answer(q) \/ Fail(q)
  BY <1>1, <1>2, <1>3, <1>4, <1>5, <1>6, <1>7, <1>8, <1>9, <1>12
<1> QED BY <1>10, <1>11, <1>12 DEF Next

-------------------------------------------------------------------------------
(***************************************************************************)
(* Every step preserves GateInv, one conjunct at a time.                   *)
(***************************************************************************)
LEMMA OneGatePreserved ==
    ASSUME GateInv, [Next]_vars
    PROVE  OneGate'
<1> USE DEF GateInv, OneGate
<1>1. ASSUME NEW q \in Requests, InsertGate(q) PROVE OneGate'
  BY <1>1 DEF InsertGate
<1>2. ASSUME NEW q \in Requests, Answer(q) PROVE OneGate'
  BY <1>2 DEF Answer
<1>3. CASE gates' = gates
  BY <1>3
<1> QED
  BY <1>1, <1>2, <1>3 DEF Next, vars, Start, StartCreate, StartApprove, StartAttest, StartPost,
     LinkArtifact, InsertArtifact, InsertAttestation, InsertApproval, Evaluate, Fail, Confirm

LEMMA RequestsAdmittedPreserved ==
    ASSUME GateInv, [Next]_vars
    PROVE  RequestsAdmitted'
<1>1. Grows
  BY StepGrows DEF GateInv
<1>2. ASSUME NEW p \in Requests, request'[p].input = request[p].input,
             request'[p].step \in {"checked", "linked", "enqueued", "attested"} =>
                 request[p].step \in {"checked", "linked", "enqueued", "attested"}
      PROVE  /\ request'[p].step \in {"checked", "linked", "enqueued", "attested"} =>
                    request'[p].input \in Submissions
             /\ (Attesting(p) => IsRevision(request[p].input.of))'
             /\ (Approving(p) => IsAllowed(request[p].input.by))'
  BY <1>1, <1>2, GrowthKeeps
  DEF GateInv, RequestsAdmitted, Attesting, Approving, Kind, IsRevision, IsAllowed
<1>3. ASSUME NEW q \in Requests, OthersWait(q),
             request'[q].step \in {"checked", "linked", "enqueued", "attested"} =>
                    request'[q].input \in Submissions,
             (Attesting(q) => IsRevision(request[q].input.of))',
             (Approving(q) => IsAllowed(request[q].input.by))'
      PROVE  RequestsAdmitted'
  <2>1. ASSUME NEW p \in Requests
        PROVE  /\ request'[p].step \in {"checked", "linked", "enqueued", "attested"} =>
                      request'[p].input \in Submissions
               /\ (Attesting(p) => IsRevision(request[p].input.of))'
               /\ (Approving(p) => IsAllowed(request[p].input.by))'
    <3>1. CASE p = q
      BY <1>3, <3>1
    <3>2. CASE p # q
      BY <1>2, <1>3, <3>2 DEF OthersWait
    <3> QED BY <3>1, <3>2
  <2> QED BY <2>1 DEF RequestsAdmitted
<1>4. CASE request' = request
  BY <1>2, <1>4 DEF RequestsAdmitted
<1>5. ASSUME NEW q \in Requests, Starts(q) PROVE RequestsAdmitted'
  <2>1. /\ (Attesting(q) => IsRevision(request[q].input.of))'
        /\ (Approving(q) => IsAllowed(request[q].input.by))'
    BY <1>1, <1>5, GrowthKeeps DEF Starts, IsRevision, IsAllowed
  <2> QED BY <1>3, <1>5, <2>1 DEF Starts
<1>6. ASSUME NEW q \in Requests, NEW from, NEW to, MovesOn(q, from, to),
             to \in {"checked", "linked", "enqueued", "attested"} =>
                 from \in {"checked", "linked", "enqueued", "attested"}
      PROVE  RequestsAdmitted'
  BY <1>2, <1>3, <1>6 DEF MovesOn, At
<1>7. ASSUME NEW q \in Requests, IsEvaluated(q) PROVE RequestsAdmitted'
  <2>1. CASE request'[q].input = request[q].input
    BY <1>2, <1>3, <1>7, <2>1 DEF IsEvaluated, At
  <2>2. CASE request'[q].input = [kind |-> "evaluate"]
    BY <1>3, <1>7, <2>2 DEF IsEvaluated, At, Attesting, Approving, Kind
  <2> QED BY <1>7, <2>1, <2>2 DEF IsEvaluated
<1>8. ASSUME NEW q \in Requests, Fails(q) PROVE RequestsAdmitted'
  BY <1>3, <1>8 DEF Fails, At, Attesting, Approving, Kind, NoInput
<1> QED BY <1>4, <1>5, <1>6, <1>7, <1>8, RequestSteps DEF GateInv

LEMMA AttestationsOwnedPreserved ==
    ASSUME GateInv, [Next]_vars
    PROVE  AttestationsOwned'
<1>1. Grows
  BY StepGrows DEF GateInv
<1>2. ASSUME NEW t \in attestations
      PROVE  /\ request'[t.id].step \notin {"idle", "checked", "linked", "enqueued"}
             /\ request'[t.id].step = "attested" => t.by = request'[t.id].input.by
             /\ IsRevision(t.of)'
  <2>1. /\ t.id \in Requests
        /\ request[t.id].step \notin {"idle", "checked", "linked", "enqueued"}
        /\ request[t.id].step = "attested" => t.by = request[t.id].input.by
        /\ IsRevision(t.of)
    BY DEF GateInv, ReleaseGateTypeOK, AttestationRow, AttestationsOwned, At
  <2>2. CASE request' = request
    BY <2>1, <2>2, <1>1, GrowthKeeps DEF IsRevision
  <2>3. ASSUME NEW q \in Requests, OthersWait(q),
               \/ request'[q].step \in {"recorded", "evaluated", "error"}
               \/ request[q].step \in {"idle", "checked", "linked", "enqueued"}
               \/ request'[q].step = "ok"
        PROVE  /\ request'[t.id].step \notin {"idle", "checked", "linked", "enqueued"}
               /\ request'[t.id].step = "attested" => t.by = request'[t.id].input.by
    BY <2>1, <2>3 DEF OthersWait
  <2>4. CASE \E q \in Requests : OthersWait(q) /\
               (\/ request'[q].step \in {"recorded", "evaluated", "error"}
                \/ request[q].step \in {"idle", "checked", "linked", "enqueued"}
                \/ request'[q].step = "ok")
    BY <2>1, <2>3, <2>4, <1>1, GrowthKeeps DEF IsRevision
  <2> QED BY <2>2, <2>4, RequestSteps DEF GateInv, Starts, MovesOn, IsEvaluated, Fails, At
<1>3. ASSUME NEW q \in Requests, InsertAttestation(q)
      PROVE  AttestationsOwned'
  <2>1. ASSUME NEW t \in attestations', t \notin attestations
        PROVE  t.id = q /\ t.by = request[q].input.by /\ t.of = request[q].input.of
    BY <1>3, <2>1 DEF InsertAttestation
  <2>2. /\ request'[q].step \in {"attested", "ok"}
        /\ request'[q].input = request[q].input
        /\ IsRevision(request[q].input.of)
    BY <1>3, GoesMovesOn
    DEF GateInv, InsertAttestation, MovesOn, At, RequestsAdmitted, Attesting
  <2>3. ASSUME NEW t \in attestations', t \notin attestations
        PROVE  /\ request'[t.id].step \notin {"idle", "checked", "linked", "enqueued"}
               /\ request'[t.id].step = "attested" => t.by = request'[t.id].input.by
               /\ IsRevision(t.of)'
    BY <1>1, <2>1, <2>2, <2>3, GrowthKeeps DEF IsRevision
  <2> QED BY <1>2, <2>3 DEF AttestationsOwned, At, IsRevision
<1>4. CASE attestations' = attestations
  BY <1>2, <1>4 DEF AttestationsOwned, At, IsRevision
<1> QED
  BY <1>3, <1>4 DEF Next, vars, Start, StartCreate, StartApprove, StartAttest, StartPost,
     LinkArtifact, InsertArtifact, InsertGate, InsertApproval, Evaluate, Answer, Fail, Confirm

LEMMA ApprovalsBackedPreserved ==
    ASSUME GateInv, [Next]_vars
    PROVE  ApprovalsBacked'
<1>1. Grows
  BY StepGrows DEF GateInv
<1>2. ASSUME NEW p \in approvals
      PROVE  IsAllowed(p.by)' /\ \E t \in attestations' : t.id = p.attestation
  BY <1>1, GrowthKeeps DEF GateInv, ApprovalsBacked, Grows, IsAllowed
<1>3. ASSUME NEW q \in Requests, InsertAttestation(q)
      PROVE  ApprovalsBacked'
  <2>1. approvals' = approvals
    BY <1>3 DEF InsertAttestation
  <2>2. ASSUME NEW t \in attestations', t \notin attestations
        PROVE  t.id = q
    BY <1>3, <2>2 DEF InsertAttestation
  <2>3. \A p \in approvals : p.attestation # q
    BY <1>3 DEF GateInv, ApprovalsBacked, AttestationsOwned, InsertAttestation, At
  <2>4. \A p \in approvals : \A t \in attestations' : t.id = p.attestation => t.by = p.by
    BY <2>2, <2>3 DEF GateInv, ApprovalsBacked
  <2> QED BY <1>2, <2>1, <2>4 DEF ApprovalsBacked, IsAllowed
<1>4. ASSUME NEW q \in Requests, InsertApproval(q)
      PROVE  ApprovalsBacked'
  <2>1. attestations' = attestations /\ gates' = gates
    BY <1>4 DEF InsertApproval
  <2>2. ASSUME NEW p \in approvals', p \notin approvals
        PROVE  p.by = request[q].input.by /\ p.attestation = q
    BY <1>4, <2>2 DEF InsertApproval, ApprovalsWith
  <2>3. /\ At(q, "attested")
        /\ IsAllowed(request[q].input.by)
        /\ \A p \in approvals' : \E t \in attestations : t.id = p.attestation
    BY <1>4 DEF InsertApproval, ReferencesHold, GateInv, ApprovalsRecorded, RequestsAdmitted
  <2>4. \A t \in attestations : t.id = q => t.by = request[q].input.by
    BY <2>3 DEF GateInv, AttestationsOwned
  <2>5. \A p \in approvals' :
           IsAllowed(p.by) /\ \A t \in attestations : t.id = p.attestation => t.by = p.by
    BY <2>2, <2>3, <2>4 DEF GateInv, ApprovalsBacked
  <2> QED BY <2>1, <2>3, <2>5 DEF ApprovalsBacked, IsAllowed
<1>5. CASE attestations' = attestations /\ approvals' = approvals
  BY <1>2, <1>5 DEF GateInv, ApprovalsBacked, IsAllowed
<1> QED
  BY <1>3, <1>4, <1>5 DEF Next, vars, Start, StartCreate, StartApprove, StartAttest, StartPost,
     LinkArtifact, InsertArtifact, InsertGate, Evaluate, Answer, Fail, Confirm

LEMMA ApprovalsRecordedPreserved ==
    ASSUME GateInv, [Next]_vars
    PROVE  ApprovalsRecorded'
<1>1. Grows
  BY StepGrows DEF GateInv
<1> DEFINE Marked(p) ==
    /\ request'[p].step = "attested" => request'[p].input.kind = "approve"
    /\ request'[p].input.kind = "approve" /\ request'[p].step \in {"recorded", "evaluated", "ok"}
           => IsRecorded(request[p].input.by)'
<1>2. ASSUME NEW p \in Requests, request'[p] = request[p] PROVE Marked(p)
  BY <1>1, <1>2, GrowthKeeps DEF GateInv, ApprovalsRecorded, At, Approving, Kind, IsRecorded
<1>3. ASSUME NEW q \in Requests, OthersWait(q), Marked(q) PROVE ApprovalsRecorded'
  <2>1. \A p \in Requests : Marked(p)
    BY <1>2, <1>3 DEF OthersWait
  <2> QED BY <2>1 DEF ApprovalsRecorded, At, Approving, Kind
<1>4. CASE request' = request
  <2>1. \A p \in Requests : Marked(p)
    BY <1>2, <1>4
  <2> QED BY <2>1 DEF ApprovalsRecorded, At, Approving, Kind
<1>5. ASSUME NEW q \in Requests, Starts(q) PROVE ApprovalsRecorded'
  BY <1>3, <1>5 DEF Starts, At
<1>6. ASSUME NEW q \in Requests, NEW from, NEW to, MovesOn(q, from, to),
             \/ to \in {"linked", "enqueued"}
             \/ to = "attested" /\ Kind(q) = "approve"
             \/ to = "ok" /\ Kind(q) # "approve"
             \/ to = "ok" /\ from = "evaluated"
      PROVE  ApprovalsRecorded'
  <2>1. Marked(q)
    BY <1>1, <1>6, GrowthKeeps
    DEF MovesOn, At, Kind, GateInv, ApprovalsRecorded, Approving, IsRecorded
  <2> QED BY <1>3, <1>6, <2>1 DEF MovesOn
<1>7. ASSUME NEW q \in Requests, InsertApproval(q), MovesOn(q, "attested", "recorded")
      PROVE  ApprovalsRecorded'
  <2>1. PICK p \in approvals' : p.by = request[q].input.by
    <3>1. approvals' = ApprovalsWith(q)
      BY <1>7 DEF InsertApproval
    <3>2. CASE \E p \in approvals : p.by = request[q].input.by
      BY <3>1, <3>2 DEF ApprovalsWith
    <3>3. CASE ~\E p \in approvals : p.by = request[q].input.by
      <4>1. [by |-> request[q].input.by, attestation |-> q] \in approvals'
        BY <3>1, <3>3 DEF ApprovalsWith
      <4> QED BY <4>1
    <3> QED BY <3>2, <3>3
  <2>2. \E t \in attestations' : t.id = p.attestation /\ t.by = p.by
    <3>1. ApprovalsBacked'
      BY ApprovalsBackedPreserved
    <3> QED BY <3>1 DEF ApprovalsBacked
  <2>3. Marked(q)
    BY <1>7, <2>1, <2>2 DEF MovesOn, At, IsRecorded
  <2> QED BY <1>3, <1>7, <2>3 DEF MovesOn
<1>8. ASSUME NEW q \in Requests, IsEvaluated(q) PROVE ApprovalsRecorded'
  <2>1. Marked(q)
    BY <1>1, <1>8, GrowthKeeps
    DEF IsEvaluated, At, Kind, GateInv, ApprovalsRecorded, Approving, IsRecorded
  <2> QED BY <1>3, <1>8, <2>1 DEF IsEvaluated
<1>9. ASSUME NEW q \in Requests, Fails(q) PROVE ApprovalsRecorded'
  BY <1>3, <1>9 DEF Fails, At, NoInput
<1> QED BY <1>4, <1>5, <1>6, <1>7, <1>8, <1>9, RequestSteps DEF GateInv

\* The snapshot an evaluation reads cannot say "approved" without good grounds.
LEMMA OpenIsFounded ==
    ASSUME GateInv, Open
    PROVE  \E g \in gates : Founded(g)
<1>1. PICK g \in gates : /\ Confirmed(g.policy.subject)
                         /\ Cardinality(ConfirmedApprovers) >= g.policy.required
  BY DEF Open
<1>2. ConfirmedApprovers \subseteq Endorsers \cap g.policy.allowed
  <2>1. ASSUME NEW p \in approvals, NEW t \in attestations, t.id = p.attestation,
               Confirmed(t.artifact)
        PROVE  p.by \in Endorsers \cap g.policy.allowed
    <3>1. t.by = p.by /\ IsRevision(t.of) /\ p.by \in Keys
      BY <2>1 DEF GateInv, ApprovalsBacked, AttestationsOwned, ReleaseGateTypeOK, ApprovalRow
    <3>2. p.by \in g.policy.allowed
      BY DEF GateInv, ApprovalsBacked, IsAllowed, OneGate
    <3> QED BY <2>1, <3>1, <3>2 DEF Endorsers, IsRevision
  <2> QED BY <2>1 DEF ConfirmedApprovers
<1>3. IsFiniteSet(Endorsers \cap g.policy.allowed)
  BY FS_Subset, ReleaseGateAssumption DEF Endorsers
<1>4. /\ Cardinality(ConfirmedApprovers) \in Nat
      /\ Cardinality(Endorsers \cap g.policy.allowed) \in Nat
      /\ Cardinality(ConfirmedApprovers) <= Cardinality(Endorsers \cap g.policy.allowed)
  BY <1>2, <1>3, FS_Subset, FS_CardinalityType
<1>5. g.policy.required \in Nat
  BY ReleaseGateAssumption DEF GateInv, ReleaseGateTypeOK, GateRow, Policy
<1>6. Cardinality(Endorsers \cap g.policy.allowed) >= g.policy.required
  BY <1>1, <1>4, <1>5
<1>7. Founded(g)
  BY <1>1, <1>6 DEF Founded
<1> QED BY <1>7

LEMMA ApprovalIsFoundedPreserved ==
    ASSUME GateInv, [Next]_vars
    PROVE  ApprovalIsFounded'
<1>1. Grows
  BY StepGrows DEF GateInv
<1>2. \A g \in gates : g.policy \in Policies
  BY DEF GateInv, ReleaseGateTypeOK, GateRow
<1>3. ASSUME NEW g \in gates, Founded(g)
      PROVE  /\ \E h \in gates' : Founded(h)'
             /\ \A h \in gates' : Founded(h)'
  <2>1. /\ \E h \in gates' : h.policy = g.policy
        /\ \A h \in gates' : h.policy = g.policy
    BY <1>1 DEF GateInv, OneGate, Grows, PoliciesKept
  <2>2. \A h \in gates' : Founded(h)'
    BY <1>1, <1>2, <1>3, <2>1, FoundedStays
  <2> QED BY <2>1, <2>2
<1>4. \A q \in Requests : request'[q].verdict => \E h \in gates' : Founded(h)'
  <2>1. ASSUME NEW q \in Requests, request'[q].verdict = request[q].verdict, request'[q].verdict
        PROVE  \E h \in gates' : Founded(h)'
    <3>1. PICK g \in gates : Founded(g)
      BY <2>1 DEF GateInv, ApprovalIsFounded
    <3> QED BY <3>1, <1>3
  <2>2. ASSUME NEW q \in Requests, request'[q].verdict = Open, request'[q].verdict
        PROVE  \E h \in gates' : Founded(h)'
    <3>1. PICK g \in gates : Founded(g)
      BY <2>2, OpenIsFounded
    <3> QED BY <3>1, <1>3
  <2>3. \A q \in Requests : \/ request'[q].verdict = request[q].verdict
                            \/ request'[q].verdict = Open
                            \/ ~request'[q].verdict
    BY RequestSteps DEF GateInv, Starts, MovesOn, IsEvaluated, Fails, OthersWait
  <2> QED BY <2>1, <2>2, <2>3
<1>5. \A h \in gates' : h.status = "approved" => Founded(h)'
  <2>1. ASSUME NEW q \in Requests, InsertGate(q), NEW h \in gates', h.status = "approved"
        PROVE  Founded(h)'
    BY <2>1 DEF InsertGate
  <2>2. ASSUME NEW q \in Requests, Answer(q), NEW h \in gates', h.status = "approved"
        PROVE  Founded(h)'
    <3>1. PICK g \in gates : h = [g EXCEPT !.status =
                                     IF request[q].verdict THEN "approved" ELSE "pending"]
      BY <2>2 DEF Answer
    <3>2. request[q].verdict
      BY <2>2, <3>1 DEF GateInv, ReleaseGateTypeOK, GateRow
    <3>3. PICK f \in gates : Founded(f)
      BY <3>2 DEF GateInv, ApprovalIsFounded
    <3> QED BY <3>3, <1>3, <2>2
  <2>3. ASSUME gates' = gates, NEW h \in gates', h.status = "approved"
        PROVE  Founded(h)'
    BY <2>3, <1>3 DEF GateInv, ApprovalIsFounded
  <2> QED
    BY <2>1, <2>2, <2>3 DEF Next, vars, Start, StartCreate, StartApprove, StartAttest, StartPost,
       LinkArtifact, InsertArtifact, InsertAttestation, InsertApproval, Evaluate, Fail, Confirm
<1> QED BY <1>4, <1>5 DEF ApprovalIsFounded

-------------------------------------------------------------------------------
LEMMA InitEstablishesGate == Init => GateInv
<1> SUFFICES ASSUME Init PROVE GateInv
  OBVIOUS
<1> USE DEF Init
<1>1. Idle \in RequestState
  BY DEF Idle, RequestState, Inputs, Steps
<1>2. \A s \in Subjects : [id |-> s, chain |-> SubjectChain(s), revision |-> 1, payload |-> None,
                           status |-> "queued"] \in ArtifactRow
  BY DEF ArtifactRow, SubjectChain, Chain, Payload
<1>3. ReleaseGateTypeOK
  BY <1>1, <1>2 DEF ReleaseGateTypeOK
<1>4. \A q \in Requests : /\ request[q].step = "idle" /\ request[q].input.kind = "none"
                          /\ ~request[q].verdict
  BY DEF Idle, NoInput
<1> QED
  BY <1>3, <1>4 DEF GateInv, OneGate, RequestsAdmitted, AttestationsOwned, ApprovalsBacked,
     ApprovalsRecorded, ApprovalIsFounded, Attesting, Approving, Kind, At

LEMMA GateInvariant == Spec => []GateInv
<1>1. ASSUME GateInv, [Next]_vars PROVE GateInv'
  <2>1. ReleaseGateTypeOK'
    BY <1>1, StepType DEF GateInv
  <2> QED
    BY <1>1, <2>1, OneGatePreserved, RequestsAdmittedPreserved, AttestationsOwnedPreserved,
       ApprovalsBackedPreserved, ApprovalsRecordedPreserved, ApprovalIsFoundedPreserved
    DEF GateInv
<1> QED BY <1>1, InitEstablishesGate, PTL DEF Spec

\* The rows of the governance tables and the requests keep their types.
THEOREM ReleaseGateTypeCorrect == Spec => []ReleaseGateTypeOK
<1>1. GateInv => ReleaseGateTypeOK
  BY DEF GateInv
<1> QED BY <1>1, GateInvariant, PTL

\* Nobody is told "approved", and no gate is stored as approved, without an
\* anchored subject and enough anchored signatures of allowed accounts.
THEOREM ApprovalsAreFounded == Spec => []ApprovalIsFounded
<1>1. GateInv => ApprovalIsFounded
  BY DEF GateInv
<1> QED BY <1>1, GateInvariant, PTL

\* An approval that was answered with success is recorded.
THEOREM SuccessfulApprovalsAreRecorded == Spec => []SuccessfulApprovalIsRecorded
<1>1. GateInv => SuccessfulApprovalIsRecorded
  BY DEF GateInv, SuccessfulApprovalIsRecorded, ApprovalsRecorded, IsRecorded, Approving, At
<1> QED BY <1>1, GateInvariant, PTL

\* An open gate is closed by nothing but a new revision of its artifact.
THEOREM OnlyRevisionsClose == Spec => ClosesForRevisionOnly
<1>1. ASSUME GateInv, [Next]_vars, Open, Latest(GateChain)' = Latest(GateChain)
      PROVE  Open'
  <2>1. Grows
    BY <1>1, StepGrows DEF GateInv
  <2>2. PICK g \in gates : /\ Confirmed(g.policy.subject)
                           /\ \E a \in Latest(GateChain) : a.status = "confirmed"
                           /\ Cardinality(ConfirmedApprovers) >= g.policy.required
    BY <1>1 DEF Open
  <2>3. PICK h \in gates' : h.policy = g.policy
    BY <2>1 DEF Grows, PoliciesKept
  <2>4. ConfirmedApprovers \subseteq ConfirmedApprovers'
    BY <2>1, GrowthKeeps DEF ConfirmedApprovers, Confirmed, Grows
  <2>5. IsFiniteSet(ConfirmedApprovers) /\ IsFiniteSet(ConfirmedApprovers')
    <3>1. ConfirmedApprovers \subseteq Keys /\ ConfirmedApprovers' \subseteq Keys
      BY <1>1, StepType DEF GateInv, ReleaseGateTypeOK, ApprovalRow, ConfirmedApprovers
    <3> QED BY <3>1, FS_Subset, ReleaseGateAssumption
  <2>6. /\ Cardinality(ConfirmedApprovers) \in Nat /\ Cardinality(ConfirmedApprovers') \in Nat
        /\ Cardinality(ConfirmedApprovers) <= Cardinality(ConfirmedApprovers')
    BY <2>4, <2>5, FS_Subset, FS_CardinalityType
  <2>7. g.policy.required \in Nat
    BY <1>1, ReleaseGateAssumption DEF GateInv, ReleaseGateTypeOK, GateRow, Policy
  <2>8. Confirmed(g.policy.subject)'
    BY <2>1, <2>2, GrowthKeeps DEF Confirmed
  <2>9. Cardinality(ConfirmedApprovers)' >= h.policy.required
    BY <2>2, <2>3, <2>6, <2>7
  <2> QED BY <1>1, <2>2, <2>3, <2>8, <2>9 DEF Open, Confirmed
<1>2. GateInv /\ [Next]_vars => [Open /\ ~Open' => Latest(GateChain)' # Latest(GateChain)]_vars
  BY <1>1
<1> QED BY <1>2, GateInvariant, PTL DEF Spec, ClosesForRevisionOnly

-------------------------------------------------------------------------------
(***************************************************************************)
(* Merkle batches.  The batches are one more way of posting an artifact:   *)
(* everything above holds with them.  A batch is answered by two           *)
(* transactions, and may be answered with an artifact that another request *)
(* inserted and with leaves that a third one stored.  BatchInv says that   *)
(* whatever a request was answered with bears the root and the number of   *)
(* leaves it asked for.                                                    *)
(***************************************************************************)

Stored(id, payload) == \E a \in artifacts : a.id = id /\ a.payload = payload

\* An artifact was inserted by the request with its id, once.
ArtifactsOwned ==
    /\ \A a, b \in artifacts : a.id = b.id => a = b
    /\ \A a \in artifacts : a.id \in Requests =>
           request[a.id].step \notin {"idle", "checked", "linked"}

\* What a request found is stored, what it is about to insert is one row; either has
\* the payload it was sent.
RowsLinked ==
    \A q \in Requests : At(q, "linked") =>
        /\ \A a \in request[q].row :
               /\ a.payload = PayloadFor(request[q].input)
               /\ a.id = q \/ Stored(a.id, a.payload)
        /\ \A a, b \in request[q].row : a.id = q /\ b.id = q => a = b

\* A batch is first posted and then refers to an artifact with its manifest.
BatchesFollowed ==
    \A q \in Requests :
        /\ BatchAt(q, "enqueueing") =>
               /\ batch[q].items \in Batches
               /\ request[q].step \in {"checked", "linked"}
               /\ request[q].input = [kind |-> "post", payload |-> Manifests[batch[q].items]]
        /\ batch[q].step \in {"enqueued", "answered"} =>
               /\ batch[q].items \in Batches
               /\ Stored(batch[q].artifact, Manifests[batch[q].items])
        /\ BatchAt(q, "answered") => ManifestOf(batch[q].artifact) # {}

\* Leaves are stored with an artifact that has their manifest.
ManifestsStored ==
    \A m \in manifests :
        /\ m.rootHash = Root(m.leaves)
        /\ Stored(m.artifact, Manifests[m.leaves])

BatchInv == MerkleTypeOK /\ ArtifactsOwned /\ RowsLinked /\ BatchesFollowed /\ ManifestsStored

-------------------------------------------------------------------------------
\* Every step of the artifacts with batches is one of the gate, or none.
LEMMA BatchStepIsGateStep ==
    ASSUME [ArtifactNext]_artifactVars
    PROVE  [Next]_vars
<1>1. ASSUME NEW q \in Requests, GateStep(q) PROVE Next
  BY <1>1 DEF GateStep, StartGate, Start, Next
<1>2. ASSUME NEW a \in artifacts, Confirm(a) PROVE Next
  BY <1>2 DEF Next
<1>3. ASSUME NEW q \in Requests, NEW items \in Batches, PostBatch(q, items) PROVE Next
  <2>1. [kind |-> "post", payload |-> Manifests[items]] \in Posts
    BY BatchAssumption DEF Posts
  <2> QED BY <1>3, <2>1 DEF PostBatch, Start, Next
<1>4. ASSUME NEW q \in Requests, EnqueueBatch(q) \/ LoseBatch(q) PROVE [Next]_vars
  BY <1>4 DEF EnqueueBatch, LoseBatch, Next
<1>5. ASSUME NEW q \in Requests, InsertManifest(q) PROVE UNCHANGED vars
  BY <1>5 DEF InsertManifest
<1>6. CASE UNCHANGED artifactVars
  BY <1>6 DEF artifactVars
<1> QED BY <1>1, <1>2, <1>3, <1>4, <1>5, <1>6 DEF ArtifactNext

\* The batches leave the release gate as it is: whatever ReleaseGate promises holds of
\* artifacts that are posted in batches as well.
THEOREM BatchesKeepTheGate == ArtifactSpec => Spec
<1>1. ArtifactInit => Init
  BY DEF ArtifactInit
<1> QED BY <1>1, BatchStepIsGateStep, PTL DEF ArtifactSpec, Spec

-------------------------------------------------------------------------------
\* What an artifact step does to the stored rows.
LEMMA StoredStays ==
    ASSUME ReleaseGateTypeOK, [Next]_vars, NEW id, NEW payload, Stored(id, payload)
    PROVE  Stored(id, payload)'
<1>1. PICK a \in artifacts : a.id = id /\ a.payload = payload
  BY DEF Stored
<1>2. CASE artifacts \subseteq artifacts'
  BY <1>1, <1>2 DEF Stored
<1>3. ASSUME NEW b \in artifacts, Confirm(b) PROVE Stored(id, payload)'
  <2> DEFINE c == [b EXCEPT !.status = "confirmed"]
  <2>1. c.id = b.id /\ c.payload = b.payload
    BY DEF ReleaseGateTypeOK, ArtifactRow
  <2>2. artifacts' = (artifacts \ {b}) \cup {c}
    BY <1>3 DEF Confirm
  <2> HIDE DEF c
  <2> QED BY <1>1, <2>1, <2>2 DEF Stored
<1> QED
  BY <1>2, <1>3 DEF Next, vars, Start, StartCreate, StartApprove, StartAttest, StartPost,
     LinkArtifact, InsertArtifact, InsertGate, InsertAttestation, InsertApproval, Evaluate,
     Answer, Fail

\* What LinkArtifact reads: rows with the payload that was sent, at most one of them new.
LEMMA NextArtifactLinks ==
    ASSUME ReleaseGateTypeOK, ArtifactsOwned, NEW q \in Requests, At(q, "checked")
    PROVE  /\ \A a \in NextArtifact(q) :
                  /\ a.payload = PayloadFor(request[q].input)
                  /\ a.id = q \/ Stored(a.id, a.payload)
           /\ \A a, b \in NextArtifact(q) : a.id = q /\ b.id = q => a = b
<1> DEFINE payload == PayloadFor(request[q].input)
           chain == ChainFor(request[q].input)
           new(a) == [id |-> q, chain |-> a.chain, revision |-> a.revision + 1,
                      payload |-> payload, status |-> "queued"]
           first == [id |-> q, chain |-> chain, revision |-> FirstRevision,
                     payload |-> payload, status |-> "queued"]
<1>1. CASE Latest(chain) = {}
  <2>1. NextArtifact(q) = {first}
    BY <1>1 DEF NextArtifact
  <2>2. first.id = q /\ first.payload = payload
    OBVIOUS
  <2> HIDE DEF first, payload
  <2> QED BY <2>1, <2>2 DEF payload
<1>2. CASE Latest(chain) # {}
  <2>1. NextArtifact(q) = {IF a.payload = payload THEN a ELSE new(a) : a \in Latest(chain)}
    BY <1>2 DEF NextArtifact
  <2>2. \A a \in Latest(chain) : a \in artifacts /\ a.id # q
    BY DEF Latest, RowsOf, ArtifactsOwned, At
  <2>3. \A a, b \in Latest(chain) : a.chain = b.chain /\ a.revision = b.revision
    <3>1. \A a, b \in Latest(chain) : /\ a.revision <= b.revision /\ b.revision <= a.revision
                                       /\ a.revision \in Nat /\ b.revision \in Nat
                                       /\ a.chain = b.chain
      BY DEF Latest, RowsOf, ReleaseGateTypeOK, ArtifactRow
    <3> QED BY <3>1
  <2>4. \A a, b \in Latest(chain) : new(a) = new(b)
    BY <2>3
  <2>5. \A a \in Latest(chain) : new(a).id = q /\ new(a).payload = payload
    OBVIOUS
  <2> HIDE DEF new, payload
  <2> QED BY <2>1, <2>2, <2>4, <2>5 DEF Stored, payload
<1> QED BY <1>1, <1>2

\* A request's step leaves the other requests alone.
LEMMA OthersAreLeft ==
    ASSUME ReleaseGateTypeOK, NEW q \in Requests,
           \/ Start(q) \/ LinkArtifact(q) \/ InsertArtifact(q)
           \/ InsertGate(q) \/ InsertAttestation(q) \/ InsertApproval(q)
           \/ Evaluate(q) \/ Answer(q) \/ Fail(q)
    PROVE  OthersWait(q)
<1>1. CASE Start(q)
  BY <1>1, StartStarts DEF Starts
<1>2. CASE LinkArtifact(q)
  BY <1>2 DEF ReleaseGateTypeOK, LinkArtifact, OthersWait
<1>3. ASSUME NEW step, Goes(q, step) PROVE OthersWait(q)
  BY <1>3 DEF ReleaseGateTypeOK, Goes, OthersWait
<1>4. CASE InsertArtifact(q) \/ InsertGate(q) \/ InsertAttestation(q) \/ InsertApproval(q)
           \/ Answer(q)
  BY <1>3, <1>4 DEF InsertArtifact, InsertGate, InsertAttestation, InsertApproval, Answer
<1>5. CASE Evaluate(q)
  BY <1>5, EvaluateEvaluates DEF IsEvaluated
<1>6. CASE Fail(q)
  BY <1>6, FailFails DEF Fails
<1> QED BY <1>1, <1>2, <1>4, <1>5, <1>6

LEMMA LinkLinks ==
    ASSUME ReleaseGateTypeOK, NEW q \in Requests, LinkArtifact(q)
    PROVE  /\ MovesOn(q, "checked", "linked")
           /\ request'[q].row = NextArtifact(q)
  BY DEF ReleaseGateTypeOK, LinkArtifact, MovesOn, OthersWait, At, RequestState

\* A request that is linked was linked before, or is linked by this step.
LEMMA LinkedByLink ==
    ASSUME ReleaseGateTypeOK, ApprovalsRecorded, [Next]_vars, NEW p \in Requests,
           At(p, "linked")'
    PROVE  request'[p] = request[p] \/ LinkArtifact(p)
<1>1. ASSUME NEW q \in Requests,
             \/ Start(q) \/ LinkArtifact(q) \/ InsertArtifact(q)
             \/ InsertGate(q) \/ InsertAttestation(q) \/ InsertApproval(q)
             \/ Evaluate(q) \/ Answer(q) \/ Fail(q)
      PROVE  request'[p] = request[p] \/ LinkArtifact(p)
  <2>1. CASE p # q
    BY <1>1, <2>1, OthersAreLeft DEF OthersWait
  <2>2. CASE p = q
    <3>1. CASE Start(q)
      BY <2>2, <3>1, StartStarts DEF Starts, At
    <3>2. CASE Evaluate(q)
      BY <2>2, <3>2, EvaluateEvaluates DEF IsEvaluated, At
    <3>3. CASE Fail(q)
      BY <2>2, <3>3, FailFails DEF Fails, At
    <3>4. CASE InsertArtifact(q) \/ InsertGate(q) \/ InsertAttestation(q) \/ InsertApproval(q)
               \/ Answer(q)
      <4>1. PICK step \in {"ok", "enqueued", "attested", "recorded"} : Goes(q, step)
        BY <3>4 DEF InsertArtifact, InsertGate, InsertAttestation, InsertApproval, Answer
      <4>2. request'[q].step = step
        BY <4>1 DEF Goes, ReleaseGateTypeOK, RequestState
      <4> QED BY <2>2, <4>2 DEF At
    <3> QED BY <1>1, <2>2, <3>1, <3>2, <3>3, <3>4
  <2> QED BY <2>1, <2>2
<1>2. ASSUME NEW a \in artifacts, Confirm(a) PROVE request' = request
  BY <1>2 DEF Confirm
<1>3. CASE UNCHANGED vars
  BY <1>3 DEF vars
<1>4. CASE \E q \in Requests :
              \/ Start(q) \/ LinkArtifact(q) \/ InsertArtifact(q)
              \/ InsertGate(q) \/ InsertAttestation(q) \/ InsertApproval(q)
              \/ Evaluate(q) \/ Answer(q) \/ Fail(q)
  BY <1>1, <1>4
<1> QED BY <1>2, <1>3, <1>4 DEF Next

LEMMA RowsLinkedPreserved ==
    ASSUME GateInv, ArtifactsOwned, RowsLinked, [Next]_vars
    PROVE  RowsLinked'
<1> DEFINE Fits(p) ==
        /\ \A a \in request'[p].row :
               /\ a.payload = PayloadFor(request'[p].input)
               /\ a.id = p \/ Stored(a.id, a.payload)'
        /\ \A a, b \in request'[p].row : a.id = p /\ b.id = p => a = b
<1>1. SUFFICES ASSUME NEW p \in Requests, At(p, "linked")' PROVE Fits(p)
  BY DEF RowsLinked
<1>2. \A a : Stored(a.id, a.payload) => Stored(a.id, a.payload)'
  BY StoredStays DEF GateInv
<1>3. CASE request'[p] = request[p]
  BY <1>1, <1>2, <1>3 DEF RowsLinked, At
<1>4. CASE LinkArtifact(p)
  <2>1. /\ request'[p].row = NextArtifact(p)
        /\ request'[p].input = request[p].input
        /\ At(p, "checked")
    BY <1>4, LinkLinks DEF GateInv, MovesOn
  <2>2. /\ \A a \in NextArtifact(p) :
               /\ a.payload = PayloadFor(request[p].input)
               /\ a.id = p \/ Stored(a.id, a.payload)
        /\ \A a, b \in NextArtifact(p) : a.id = p /\ b.id = p => a = b
    BY <2>1, NextArtifactLinks DEF GateInv
  <2> QED BY <1>2, <2>1, <2>2
<1> QED BY <1>1, <1>3, <1>4, LinkedByLink DEF GateInv

LEMMA ArtifactsOwnedPreserved ==
    ASSUME GateInv, ArtifactsOwned, RowsLinked, [Next]_vars
    PROVE  ArtifactsOwned'
<1> DEFINE early == {"idle", "checked", "linked"}
<1>1. \A p \in Requests : request'[p].step \in early => request[p].step \in early
  BY RequestSteps DEF GateInv, Starts, MovesOn, IsEvaluated, Fails, OthersWait, At
<1>2. CASE artifacts' = artifacts
  BY <1>1, <1>2 DEF ArtifactsOwned
<1>3. ASSUME NEW q \in Requests, InsertArtifact(q) PROVE ArtifactsOwned'
  <2>1. request'[q].step \in {"ok", "enqueued"}
    BY <1>3 DEF InsertArtifact, Goes, GateInv, ReleaseGateTypeOK, RequestState
  <2>2. At(q, "linked") /\ \A a \in artifacts : a.id # q
    BY <1>3 DEF InsertArtifact, ArtifactsOwned, At
  <2>3. artifacts' = artifacts \cup {a \in request[q].row : a.id = q}
    BY <1>3 DEF InsertArtifact
  <2>4. \A a, b \in request[q].row : a.id = q /\ b.id = q => a = b
    BY <2>2 DEF RowsLinked
  <2>5. \A a, b \in artifacts' : a.id = b.id => a = b
    BY <2>2, <2>3, <2>4 DEF ArtifactsOwned
  <2>6. \A a \in artifacts' : a.id \in Requests => request'[a.id].step \notin early
    BY <1>1, <2>1, <2>3 DEF ArtifactsOwned
  <2> QED BY <2>5, <2>6 DEF ArtifactsOwned
<1>4. ASSUME NEW a \in artifacts, Confirm(a) PROVE ArtifactsOwned'
  <2> DEFINE c == [a EXCEPT !.status = "confirmed"]
  <2>1. c.id = a.id
    BY DEF GateInv, ReleaseGateTypeOK, ArtifactRow
  <2>2. artifacts' = (artifacts \ {a}) \cup {c}
    BY <1>4 DEF Confirm
  <2> HIDE DEF c
  <2> QED BY <1>1, <2>1, <2>2 DEF ArtifactsOwned
<1> QED
  BY <1>2, <1>3, <1>4 DEF Next, vars, Start, StartCreate, StartApprove, StartAttest, StartPost,
     LinkArtifact, InsertGate, InsertAttestation, InsertApproval, Evaluate, Answer, Fail

-------------------------------------------------------------------------------
\* What a batch is when it is posted; what a step of it leaves as it was.
LEMMA BatchTypes ==
    ASSUME GateInv, MerkleTypeOK, BatchesFollowed, [ArtifactNext]_artifactVars
    PROVE  MerkleTypeOK'
<1> USE DEF MerkleTypeOK
<1>1. ASSUME NEW q \in Requests, NEW items \in Batches, PostBatch(q, items)
      PROVE  MerkleTypeOK'
  <2>1. [NoBatch EXCEPT !.step = "enqueueing", !.items = items] \in BatchState
    BY DEF NoBatch, BatchState
  <2> QED BY <1>1, <2>1 DEF PostBatch
<1>2. ASSUME NEW q \in Requests, EnqueueBatch(q) PROVE MerkleTypeOK'
  <2>1. PICK a \in request[q].row :
          batch' = [batch EXCEPT ![q].step = "enqueued", ![q].artifact = a.id]
    BY <1>2 DEF EnqueueBatch
  <2>2. a.id \in Subjects \cup Requests
    BY DEF GateInv, ReleaseGateTypeOK, RequestState, ArtifactRow
  <2>3. [batch[q] EXCEPT !.step = "enqueued", !.artifact = a.id] \in BatchState
    BY <2>2 DEF BatchState
  <2>4. batch' = [batch EXCEPT ![q] = [batch[q] EXCEPT !.step = "enqueued", !.artifact = a.id]]
    BY <2>1
  <2> QED BY <1>2, <2>3, <2>4 DEF EnqueueBatch
<1>3. ASSUME NEW q \in Requests, InsertManifest(q) PROVE MerkleTypeOK'
  <2>1. /\ batch[q].items \in Batches
        /\ batch[q].artifact \in Subjects \cup Requests
    <3>1. batch[q].items \in Batches /\ Stored(batch[q].artifact, Manifests[batch[q].items])
      BY <1>3 DEF InsertManifest, BatchesFollowed, BatchAt
    <3> QED BY <3>1 DEF Stored, GateInv, ReleaseGateTypeOK, ArtifactRow
  <2>2. Manifests[batch[q].items].rootHash \in Roots
    BY <2>1 DEF Manifests, Manifest, Roots
  <2>3. manifests' \subseteq ManifestRow
    BY <1>3, <2>1, <2>2 DEF InsertManifest, ManifestRow
  <2>4. batch' \in [Requests -> BatchState]
    BY <1>3 DEF InsertManifest, BatchState
  <2> QED BY <2>3, <2>4
<1>4. ASSUME NEW q \in Requests, LoseBatch(q) PROVE MerkleTypeOK'
  <2>1. [NoBatch EXCEPT !.step = "lost"] \in BatchState
    BY DEF NoBatch, BatchState
  <2> QED BY <1>4, <2>1 DEF LoseBatch
<1>5. CASE UNCHANGED merkleVars
  BY <1>5 DEF merkleVars
<1> QED BY <1>1, <1>2, <1>3, <1>4, <1>5 DEF ArtifactNext, artifactVars

LEMMA ManifestsStoredPreserved ==
    ASSUME GateInv, BatchesFollowed, ManifestsStored, [ArtifactNext]_artifactVars
    PROVE  ManifestsStored'
<1>1. \A id, payload : Stored(id, payload) => Stored(id, payload)'
  BY BatchStepIsGateStep, StoredStays DEF GateInv
<1>2. CASE manifests' = manifests
  BY <1>1, <1>2 DEF ManifestsStored
<1>3. ASSUME NEW q \in Requests, InsertManifest(q) PROVE ManifestsStored'
  <2>1. batch[q].items \in Batches /\ Stored(batch[q].artifact, Manifests[batch[q].items])
    BY <1>3 DEF InsertManifest, BatchesFollowed, BatchAt
  <2>2. Manifests[batch[q].items].rootHash = Root(batch[q].items)
    BY <2>1 DEF Manifests, Manifest
  <2> DEFINE row == [artifact |-> batch[q].artifact,
                     rootHash |-> Manifests[batch[q].items].rootHash,
                     leaves |-> batch[q].items]
  <2>3. manifests' = manifests \/ manifests' = manifests \cup {row}
    BY <1>3 DEF InsertManifest
  <2>4. row.rootHash = Root(row.leaves) /\ Stored(row.artifact, Manifests[row.leaves])
    BY <2>1, <2>2
  <2> HIDE DEF row
  <2> QED BY <1>1, <1>2, <2>3, <2>4 DEF ManifestsStored
<1> QED
  BY <1>2, <1>3 DEF ArtifactNext, artifactVars, merkleVars, PostBatch, EnqueueBatch, LoseBatch

\* A batch about to be enqueued is still as it was posted, or its artifact was linked.
LEMMA EnqueueingStays ==
    ASSUME GateInv, BatchesFollowed, NEW p \in Requests, BatchAt(p, "enqueueing"),
           \/ \E q \in Requests : GateStep(q)
           \/ \E q \in Requests \ {p} :
                 \/ Start(q) \/ InsertArtifact(q) \/ Fail(q)
           \/ \E a \in artifacts : Confirm(a)
           \/ UNCHANGED vars
    PROVE  /\ request'[p].step \in {"checked", "linked"}
           /\ request'[p].input = request[p].input
<1>1. /\ request[p].step \in {"checked", "linked"}
      /\ ~BatchAt(p, "none")
  BY DEF BatchesFollowed, BatchAt
<1>2. CASE request'[p] = request[p]
  BY <1>1, <1>2
<1>3. CASE LinkArtifact(p)
  BY <1>3, LinkLinks DEF GateInv, MovesOn, At
<1>4. ASSUME NEW q \in Requests, GateStep(q)
      PROVE  request'[p] = request[p] \/ LinkArtifact(p)
  <2>1. CASE p # q
    <3>1. OthersWait(q)
      BY <1>4, OthersAreLeft DEF GateInv, GateStep, StartGate, Start
    <3> QED BY <2>1, <3>1 DEF OthersWait
  <2>2. CASE p = q
    BY <1>1, <1>4, <2>2 DEF GateStep, StartGate, StartCreate, StartApprove, StartAttest, Arrives,
       InsertGate, InsertAttestation, InsertApproval, Evaluate, Answer, At
  <2> QED BY <2>1, <2>2
<1>5. ASSUME NEW q \in Requests \ {p}, Start(q) \/ InsertArtifact(q) \/ Fail(q)
      PROVE  request'[p] = request[p]
  BY <1>5, OthersAreLeft DEF GateInv, OthersWait
<1> QED BY <1>2, <1>3, <1>4, <1>5 DEF Confirm, vars

LEMMA BatchesFollowedPreserved ==
    ASSUME GateInv, BatchInv, [ArtifactNext]_artifactVars
    PROVE  BatchesFollowed'
<1> DEFINE Posted(p) ==
        batch'[p].step = "enqueueing" =>
            /\ batch'[p].items \in Batches
            /\ request'[p].step \in {"checked", "linked"}
            /\ request'[p].input = [kind |-> "post", payload |-> Manifests[batch'[p].items]]
    Kept(p) ==
        /\ batch'[p].step \in {"enqueued", "answered"} =>
               /\ batch'[p].items \in Batches
               /\ \E a \in artifacts' :
                     a.id = batch'[p].artifact /\ a.payload = Manifests[batch'[p].items]
        /\ batch'[p].step = "answered" => \E m \in manifests' : m.artifact = batch'[p].artifact
<1> USE DEF BatchInv, MerkleTypeOK
<1>1. SUFFICES \A p \in Requests : Posted(p) /\ Kept(p)
  BY DEF BatchesFollowed, BatchAt, ManifestOf, Stored
<1>2. \A id, payload : Stored(id, payload) => Stored(id, payload)'
  BY BatchStepIsGateStep, StoredStays DEF GateInv
<1>3. manifests \subseteq manifests'
  BY DEF ArtifactNext, artifactVars, merkleVars, PostBatch, EnqueueBatch, InsertManifest, LoseBatch
<1>4. ASSUME NEW p \in Requests, batch'[p] = batch[p] PROVE Kept(p)
  <2>1. BatchAt(p, "answered") => \E m \in manifests : m.artifact = batch[p].artifact
    BY DEF BatchesFollowed, ManifestOf
  <2>2. ASSUME batch[p].step \in {"enqueued", "answered"}
        PROVE  /\ batch[p].items \in Batches
               /\ \E a \in artifacts' :
                     a.id = batch[p].artifact /\ a.payload = Manifests[batch[p].items]
    <3>1. /\ batch[p].items \in Batches
          /\ Stored(batch[p].artifact, Manifests[batch[p].items])
      BY <2>2 DEF BatchesFollowed
    <3>2. PICK id, payload : id = batch[p].artifact /\ payload = Manifests[batch[p].items]
      OBVIOUS
    <3>3. Stored(id, payload)'
      BY <1>2, <3>1, <3>2
    <3> QED BY <3>1, <3>2, <3>3 DEF Stored
  <2> QED BY <1>3, <1>4, <2>1, <2>2 DEF BatchAt
<1>5. ASSUME NEW p \in Requests, batch'[p] = batch[p],
             \/ \E q \in Requests : GateStep(q)
             \/ \E q \in Requests \ {p} : Start(q) \/ InsertArtifact(q) \/ Fail(q)
             \/ \E a \in artifacts : Confirm(a)
             \/ UNCHANGED vars
      PROVE  Posted(p)
  BY <1>5, EnqueueingStays DEF BatchesFollowed, BatchAt
<1>6. CASE \/ \E q \in Requests : GateStep(q) /\ UNCHANGED merkleVars
           \/ \E a \in artifacts : Confirm(a) /\ UNCHANGED merkleVars
           \/ UNCHANGED artifactVars
  BY <1>4, <1>5, <1>6 DEF merkleVars, artifactVars
<1>7. ASSUME NEW q \in Requests, NEW items \in Batches, PostBatch(q, items)
      PROVE  \A p \in Requests : Posted(p) /\ Kept(p)
  <2> DEFINE input == [kind |-> "post", payload |-> Manifests[items]]
  <2>1. /\ batch'[q].step = "enqueueing" /\ batch'[q].items = items
        /\ \A p \in Requests \ {q} : batch'[p] = batch[p]
    BY <1>7 DEF PostBatch, NoBatch
  <2>2. StartPost(q, input)
    BY <1>7 DEF PostBatch
  <2>3. Start(q)
    <3>1. input \in Posts
      BY BatchAssumption DEF Posts
    <3> QED BY <2>2, <3>1 DEF Start
  <2>4. request'[q].step = "checked" /\ request'[q].input = input
    BY <2>2 DEF StartPost, GateInv, ReleaseGateTypeOK, RequestState
  <2>5. Posted(q) /\ Kept(q)
    BY <2>1, <2>4
  <2> HIDE DEF Posted, Kept
  <2> QED BY <1>4, <1>5, <2>1, <2>3, <2>5
<1>8. ASSUME NEW q \in Requests, EnqueueBatch(q)
      PROVE  \A p \in Requests : Posted(p) /\ Kept(p)
  <2>1. PICK a \in request[q].row :
          batch' = [batch EXCEPT ![q].step = "enqueued", ![q].artifact = a.id]
    BY <1>8 DEF EnqueueBatch
  <2>2. /\ batch'[q].step = "enqueued" /\ batch'[q].artifact = a.id
        /\ batch'[q].items = batch[q].items
        /\ \A p \in Requests \ {q} : batch'[p] = batch[p]
    BY <2>1 DEF BatchState
  <2>3. /\ batch[q].items \in Batches
        /\ request[q].input = [kind |-> "post", payload |-> Manifests[batch[q].items]]
        /\ At(q, "linked") /\ InsertArtifact(q)
    BY <1>8 DEF EnqueueBatch, InsertArtifact, BatchesFollowed
  <2>4. PayloadFor(request[q].input) = Manifests[batch[q].items]
    BY <2>3 DEF PayloadFor
  <2>5. \E b \in artifacts' : b.id = a.id /\ b.payload = Manifests[batch[q].items]
    <3>1. /\ a.payload = PayloadFor(request[q].input)
          /\ a.id = q \/ Stored(a.id, a.payload)
      BY <2>3 DEF RowsLinked
    <3>2. a.id = q => a \in artifacts'
      BY <2>3 DEF InsertArtifact
    <3>3. Stored(a.id, a.payload)'
      BY <1>2, <3>1, <3>2 DEF Stored
    <3>4. a.payload = Manifests[batch[q].items]
      BY <2>4, <3>1
    <3> QED BY <3>3, <3>4 DEF Stored
  <2>6. Posted(q) /\ Kept(q)
    BY <2>2, <2>3, <2>5 DEF Stored
  <2> HIDE DEF Posted, Kept
  <2> QED BY <1>4, <1>5, <2>2, <2>3, <2>6
<1>9. ASSUME NEW q \in Requests, InsertManifest(q)
      PROVE  \A p \in Requests : Posted(p) /\ Kept(p)
  <2>1. /\ batch'[q].step = "answered" /\ batch'[q].artifact = batch[q].artifact
        /\ batch'[q].items = batch[q].items
        /\ \A p \in Requests \ {q} : batch'[p] = batch[p]
        /\ UNCHANGED vars
    BY <1>9 DEF InsertManifest, BatchState
  <2>2. batch[q].items \in Batches /\ Stored(batch[q].artifact, Manifests[batch[q].items])
    BY <1>9 DEF InsertManifest, BatchesFollowed, BatchAt
  <2>3. \E m \in manifests' : m.artifact = batch[q].artifact
    <3>1. CASE ManifestOf(batch[q].artifact) # {}
      BY <1>3, <3>1 DEF ManifestOf
    <3>2. CASE ManifestOf(batch[q].artifact) = {}
      <4>1. [artifact |-> batch[q].artifact, rootHash |-> Manifests[batch[q].items].rootHash,
             leaves |-> batch[q].items] \in manifests'
        BY <1>9, <3>2 DEF InsertManifest
      <4> QED BY <4>1
    <3> QED BY <3>1, <3>2
  <2>4. Posted(q) /\ Kept(q)
    BY <2>1, <2>2, <2>3 DEF vars, Stored
  <2> HIDE DEF Posted, Kept
  <2> QED BY <1>4, <1>5, <2>1, <2>4
<1>10. ASSUME NEW q \in Requests, LoseBatch(q)
       PROVE  \A p \in Requests : Posted(p) /\ Kept(p)
  <2>1. /\ batch'[q].step = "lost"
        /\ \A p \in Requests \ {q} : batch'[p] = batch[p]
        /\ Fail(q) \/ UNCHANGED vars
    BY <1>10 DEF LoseBatch, NoBatch
  <2>2. Posted(q) /\ Kept(q)
    BY <2>1
  <2> HIDE DEF Posted, Kept
  <2> QED BY <1>4, <1>5, <2>1, <2>2
<1> HIDE DEF Posted, Kept
<1> QED BY <1>6, <1>7, <1>8, <1>9, <1>10 DEF ArtifactNext

LEMMA InitEstablishesBatches == ArtifactInit => BatchInv
<1> SUFFICES ASSUME ArtifactInit PROVE BatchInv
  OBVIOUS
<1>1. NoBatch \in BatchState
  BY DEF NoBatch, BatchState
<1>2. MerkleTypeOK
  BY <1>1 DEF ArtifactInit, MerkleTypeOK
<1>3. ArtifactsOwned
  BY ReleaseGateAssumption DEF ArtifactInit, Init, ArtifactsOwned
<1>4. RowsLinked
  BY DEF ArtifactInit, Init, RowsLinked, Idle, At
<1>5. BatchesFollowed /\ ManifestsStored
  BY DEF ArtifactInit, BatchesFollowed, ManifestsStored, BatchAt, NoBatch
<1> QED BY <1>2, <1>3, <1>4, <1>5 DEF BatchInv

LEMMA BatchInvariant == ArtifactSpec => [](GateInv /\ BatchInv)
<1>1. ArtifactSpec => []GateInv
  BY BatchesKeepTheGate, GateInvariant, PTL
<1>2. ASSUME GateInv, BatchInv, [ArtifactNext]_artifactVars
      PROVE  BatchInv'
  <2>1. [Next]_vars
    BY <1>2, BatchStepIsGateStep
  <2>2. MerkleTypeOK'
    BY <1>2, BatchTypes DEF BatchInv
  <2>3. ArtifactsOwned' /\ RowsLinked'
    BY <1>2, <2>1, ArtifactsOwnedPreserved, RowsLinkedPreserved DEF BatchInv
  <2>4. ManifestsStored'
    BY <1>2, ManifestsStoredPreserved DEF BatchInv
  <2> QED BY <1>2, <2>2, <2>3, <2>4, BatchesFollowedPreserved DEF BatchInv
<1> QED BY <1>1, <1>2, InitEstablishesBatches, PTL DEF ArtifactSpec

\* A batch that was answered can be proved item by item against the root in the
\* artifact it was answered with, and no proof of one batch convinces of another:
\* whichever request inserted the artifact and whichever stored the leaves, and
\* wherever requests were lost between the two.
THEOREM BatchesStayProvable ==
    ASSUME TreesAreSound(Batches)
    PROVE  ArtifactSpec => []BatchesAreProvable
<1>1. ASSUME GateInv, BatchInv PROVE AnsweredIsProvable
  <2>1. SUFFICES ASSUME NEW q \in Requests, BatchAt(q, "answered")
                 PROVE  \E m \in ManifestOf(batch[q].artifact), a \in artifacts :
                           /\ m.leaves = batch[q].items
                           /\ a.id = m.artifact
                           /\ ProvedLeaves[a.payload.rootHash][m.leaves] = 0 .. Len(m.leaves) - 1
    BY DEF AnsweredIsProvable
  <2>2. /\ batch[q].items \in Batches
        /\ Stored(batch[q].artifact, Manifests[batch[q].items])
        /\ ManifestOf(batch[q].artifact) # {}
    BY <1>1, <2>1 DEF BatchInv, BatchesFollowed, BatchAt
  <2>3. PICK m \in ManifestOf(batch[q].artifact) : TRUE
    BY <2>2
  <2>4. m \in manifests /\ m.artifact = batch[q].artifact /\ m.leaves \in Batches
    BY <1>1, <2>3 DEF ManifestOf, BatchInv, MerkleTypeOK, ManifestRow
  <2>5. PICK a \in artifacts : a.id = m.artifact /\ a.payload = Manifests[m.leaves]
    BY <1>1, <2>4 DEF BatchInv, ManifestsStored, Stored
  <2>6. a.payload = Manifests[batch[q].items]
    BY <1>1, <2>2, <2>4, <2>5 DEF Stored, BatchInv, ArtifactsOwned
  <2>7. m.leaves = batch[q].items
    BY <2>2, <2>4, <2>5, <2>6 DEF TreesAreSound, Manifests
  <2>8. a.payload.rootHash = Root(m.leaves)
    BY <2>4, <2>5 DEF Manifests, Manifest
  <2>9. ProvedLeaves[a.payload.rootHash][m.leaves] = 0 .. Len(m.leaves) - 1
    BY <2>4, <2>8 DEF TreesAreSound, ProvedLeaves, Roots
  <2> QED BY <2>3, <2>5, <2>7, <2>9
<1>2. ASSUME BatchInv PROVE ProofsAreSound
  <2>1. \A m \in manifests : m.leaves \in Batches /\ m.rootHash = Root(m.leaves)
    BY <1>2 DEF BatchInv, MerkleTypeOK, ManifestRow, ManifestsStored
  <2>2. \A x, y \in Batches : ProvedLeaves[Root(x)][y] = Proved(Root(x), y)
    BY DEF ProvedLeaves, Roots
  <2> QED BY <2>1, <2>2 DEF ProofsAreSound, TreesAreSound
<1>3. GateInv /\ BatchInv => BatchesAreProvable
  BY <1>1, <1>2 DEF BatchInv, BatchesAreProvable
<1> QED BY <1>3, BatchInvariant, PTL
=============================================================================
