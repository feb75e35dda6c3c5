--------------------------- MODULE MCReleaseGate ---------------------------
(***************************************************************************)
(* TLC instance of ReleaseGate: two allowed approvers, and policies that   *)
(* differ in the release subject.                                          *)
(***************************************************************************)
EXTENDS ReleaseGate, TLC

CONSTANTS k1, k2

PolicyFor(s) == [subject |-> s, required |-> 2, allowed |-> {k1, k2}]

GatePolicies == {PolicyFor(s) : s \in Subjects}

GateSymmetry ==
    Permutations(Requests) \cup Permutations({k1, k2}) \cup Permutations(Subjects)
        \cup Permutations(Signatures)
=============================================================================
