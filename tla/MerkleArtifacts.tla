--------------------------- MODULE MerkleArtifacts ---------------------------
(***************************************************************************)
(* Merkle batches among the artifacts: enqueueMerkleIntegrityArtifact and  *)
(* getMerkleIntegrityProof of backend/src/integrity/artifactRepository.ts, *)
(* and merkle.ts.                                                          *)
(*                                                                         *)
(* A batch is an artifact whose payload is the root and the number of its  *)
(* leaves.  It is enqueued like any other (StartPost, LinkArtifact and     *)
(* InsertArtifact of ReleaseGate, here for the external id that all        *)
(* requests name), and only then, in a transaction of its own, are its     *)
(* leaves stored: a crash between the two leaves an artifact without       *)
(* leaves.  A post that is no batch is a batch that stops there.           *)
(*                                                                         *)
(* SHA-256 is the term it is applied to: leafNode and parentNode put       *)
(* different bytes before what they hash.  An item is its digest.          *)
(***************************************************************************)
EXTENDS ReleaseGate, Integers, Sequences

CONSTANTS
    Items,      \* digests of the items
    Batches,    \* sequences of items that are posted
    MaxBatches  \* bound on the batches posted

VARIABLES
    manifests,  \* rows of integrity_merkle_manifests
    batch       \* what a request to POST /artifacts/merkle holds in memory

merkleVars == <<manifests, batch>>
artifactVars == <<vars, merkleVars>>

-------------------------------------------------------------------------------
leafNode(item) == <<"leaf", item>>
parentNode(left, right) == <<"parent", left, right>>

\* The last node of an odd level is its own sibling.
Parents(level) ==
    [i \in 1 .. (Len(level) + 1) \div 2 |->
        parentNode(level[2 * i - 1], level[IF 2 * i <= Len(level) THEN 2 * i ELSE 2 * i - 1])]

\* The levels of the tree, from the leaves up to the root and on.
Levels(leaves) ==
    LET level[n \in 0 .. Len(leaves)] ==
            IF n = 0 THEN [i \in 1 .. Len(leaves) |-> leafNode(leaves[i])]
            ELSE LET below == level[n - 1] IN IF Len(below) = 1 THEN below ELSE Parents(below)
    IN  level

Root(leaves) == Levels(leaves)[Len(leaves)][1]
Height(leaves) == Cardinality({n \in 0 .. Len(leaves) : Len(Levels(leaves)[n]) > 1})

\* buildIntegrityMerkleProof: the sibling of every node on the way to the root.
Proof(leaves, leafIndex) ==
    [rootHash |-> Root(leaves), leafHash |-> leaves[leafIndex + 1],
     proof |-> [n \in 1 .. Height(leaves) |->
        LET level   == Levels(leaves)[n - 1]
            index   == leafIndex \div 2 ^ (n - 1)
            sibling == IF index % 2 = 0 THEN index + 1 ELSE index - 1 IN
        [position |-> IF index % 2 = 0 THEN "right" ELSE "left",
         hash     |-> level[IF sibling < Len(level) THEN sibling + 1 ELSE index + 1]]]]

\* verifyIntegrityMerkleProof: neither the index nor the number of leaves is looked at.
Verifies(p) ==
    LET node[n \in 0 .. Len(p.proof)] ==
            IF n = 0 THEN leafNode(p.leafHash)
            ELSE IF p.proof[n].position = "left" THEN parentNode(p.proof[n].hash, node[n - 1])
            ELSE parentNode(node[n - 1], p.proof[n].hash)
    IN  node[Len(p.proof)] = p.rootHash

Manifest(leaves) == [rootHash |-> Root(leaves), leafCount |-> Len(leaves)]

\* The leaves of a batch that their proofs prove against a root.
Proved(rootHash, leaves) ==
    {i \in 0 .. Len(leaves) - 1 : Verifies([Proof(leaves, i) EXCEPT !.rootHash = rootHash])}

\* What the trees are for: root and number of leaves tell batches apart, every leaf of
\* a batch has a proof against its root, and no other item has.
TreesAreSound(trees) ==
    \A x, y \in trees :
        /\ Manifest(x) = Manifest(y) => x = y
        /\ x = y => Proved(Root(x), y) = 0 .. Len(y) - 1
        /\ \A i \in Proved(Root(x), y) : \E j \in 1 .. Len(x) : x[j] = y[i + 1]

\* The trees of the batches, computed once.
Manifests == [leaves \in Batches |-> Manifest(leaves)]
Roots == {Root(leaves) : leaves \in Batches}
ProvedLeaves == [rootHash \in Roots |-> [leaves \in Batches |-> Proved(rootHash, leaves)]]

ASSUME BatchAssumption ==
    /\ Batches \subseteq Seq(Items) \ {<<>>}
    /\ Manifests \in [Batches -> Payloads]
    /\ MaxBatches \in Nat

-------------------------------------------------------------------------------
ManifestRow == [artifact : Subjects \cup Requests, rootHash : Roots, leaves : Batches]

\* artifact is the id that enqueueIntegrityArtifact returned.
BatchState == [step : {"none", "enqueueing", "enqueued", "answered", "lost"},
               items : Batches \cup {<<>>}, artifact : Subjects \cup Requests \cup {None}]
NoBatch == [step |-> "none", items |-> <<>>, artifact |-> None]

BatchAt(q, step) == batch[q].step = step

PostBatch(q, items) ==
    /\ Cardinality({p \in Requests : ~BatchAt(p, "none")}) < MaxBatches
    /\ StartPost(q, [kind |-> "post", payload |-> Manifests[items]])
    /\ batch' = [batch EXCEPT ![q] = [NoBatch EXCEPT !.step = "enqueueing", !.items = items]]
    /\ UNCHANGED manifests

\* enqueueIntegrityArtifact commits, and returns the artifact it inserted or found.
EnqueueBatch(q) ==
    /\ BatchAt(q, "enqueueing")
    /\ InsertArtifact(q)
    /\ \E a \in request[q].row :
        batch' = [batch EXCEPT ![q].step = "enqueued", ![q].artifact = a.id]
    /\ UNCHANGED manifests

ManifestOf(id) == {m \in manifests : m.artifact = id}

\* Mutant: the leaves are stored once per root.
InsertManifestPerRoot(q) ==
    /\ BatchAt(q, "enqueued")
    /\ manifests' =
           IF \E m \in manifests : m.rootHash = Manifests[batch[q].items].rootHash THEN manifests
           ELSE manifests \cup {[artifact |-> batch[q].artifact,
                                 rootHash |-> Manifests[batch[q].items].rootHash,
                                 leaves |-> batch[q].items]}
    /\ batch' = [batch EXCEPT ![q].step = "answered"]
    /\ UNCHANGED vars

\* INSERT ... ON CONFLICT (artifact_anchor_id) DO NOTHING, and the answer.
InsertManifest(q) ==
    /\ BatchAt(q, "enqueued")
    /\ manifests' =
           IF ManifestOf(batch[q].artifact) # {} THEN manifests
           ELSE manifests \cup {[artifact |-> batch[q].artifact,
                                 rootHash |-> Manifests[batch[q].items].rootHash,
                                 leaves |-> batch[q].items]}
    /\ batch' = [batch EXCEPT ![q].step = "answered"]
    /\ UNCHANGED vars

\* A violated constraint, a lost connection or a crash, in the first transaction or
\* between the two.
LoseBatch(q) ==
    /\ \/ BatchAt(q, "enqueueing") /\ Fail(q)
       \/ BatchAt(q, "enqueued") /\ UNCHANGED vars
    /\ batch' = [batch EXCEPT ![q] = [NoBatch EXCEPT !.step = "lost"]]
    /\ UNCHANGED manifests

-------------------------------------------------------------------------------
\* The requests about the gate, and those of a batch up to its insertion.
StartGate(q) ==
    \/ \E input \in Creations : StartCreate(q, input)
    \/ \E input \in Approvals : StartApprove(q, input)
    \/ \E input \in Attests : StartAttest(q, input)

GateStep(q) ==
    \/ StartGate(q) \/ LinkArtifact(q)
    \/ BatchAt(q, "none") /\ (InsertArtifact(q) \/ Fail(q))
    \/ InsertGate(q) \/ InsertAttestation(q) \/ InsertApproval(q)
    \/ Evaluate(q) \/ Answer(q)

ArtifactInit ==
    /\ Init
    /\ manifests = {}
    /\ batch = [q \in Requests |-> NoBatch]

ArtifactNext ==
    \/ \E q \in Requests : GateStep(q) /\ UNCHANGED merkleVars
    \/ \E a \in artifacts : Confirm(a) /\ UNCHANGED merkleVars
    \/ \E q \in Requests :
        \/ \E items \in Batches : PostBatch(q, items)
        \/ EnqueueBatch(q) \/ InsertManifest(q) \/ LoseBatch(q)

ArtifactSpec == ArtifactInit /\ [][ArtifactNext]_artifactVars

-------------------------------------------------------------------------------
MerkleTypeOK ==
    /\ manifests \subseteq ManifestRow
    /\ batch \in [Requests -> BatchState]

\* The leaves that a batch was answered with are the ones that were sent, whichever
\* request stored them, and every one of them has a proof against what is anchored.
AnsweredIsProvable ==
    \A q \in Requests : BatchAt(q, "answered") =>
        \E m \in ManifestOf(batch[q].artifact), a \in artifacts :
            /\ m.leaves = batch[q].items
            /\ a.id = m.artifact
            /\ ProvedLeaves[a.payload.rootHash][m.leaves] = 0 .. Len(m.leaves) - 1

\* A proof of one batch convinces nobody that its item is in another one.
ProofsAreSound ==
    \A m, n \in manifests : \A i \in ProvedLeaves[m.rootHash][n.leaves] :
        \E j \in 1 .. Len(m.leaves) : m.leaves[j] = n.leaves[i + 1]

\* A batch that was answered can be proved item by item against the anchored root,
\* and nothing else can: not after a crash between artifact and leaves, not when
\* batches overlap, are repeated, or have one root (<<a, b, c>> and <<a, b, c, c>>
\* have), in which case the number of leaves makes them two revisions.
BatchesAreProvable == MerkleTypeOK /\ AnsweredIsProvable /\ ProofsAreSound
=============================================================================
