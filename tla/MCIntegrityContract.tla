------------------------- MODULE MCIntegrityContract -------------------------
(***************************************************************************)
(* TLC instance of IntegrityContract.  Hashes and addresses are only ever  *)
(* compared for equality, and no property is about liveness, so both sets  *)
(* are symmetric.                                                          *)
(***************************************************************************)
EXTENDS IntegrityContract, TLC

Symmetry == Permutations(Hashes) \cup Permutations(Addresses)
=============================================================================
