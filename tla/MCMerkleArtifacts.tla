-------------------------- MODULE MCMerkleArtifacts --------------------------
(***************************************************************************)
(* TLC instance of MerkleArtifacts: the gate of MCReleaseGate, and batches *)
(* with odd levels that have one root.                                     *)
(***************************************************************************)
EXTENDS MerkleArtifacts, TLC

CONSTANTS k1, k2

GatePolicies == {[subject |-> s, required |-> 2, allowed |-> {k1, k2}] : s \in Subjects}

MCBatches == {<<"a", "b", "c">>, <<"a", "b", "c", "c">>}

MCPayloads == {Manifest(leaves) : leaves \in MCBatches}

\* The trees that TLC goes through, whatever is posted: all of one to five leaves.
Trees == UNION {[1 .. n -> {"a", "b"}] : n \in 1 .. 5}

ASSUME TreesOfFive == TreesAreSound(Trees \cup Batches)

ArtifactSymmetry ==
    Permutations(Requests) \cup Permutations({k1, k2})
=============================================================================
