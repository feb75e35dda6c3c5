------------------------ MODULE MCIntegrityOperations ------------------------
(***************************************************************************)
(* TLC instance of IntegrityOperations.  No symmetry: it checks liveness.  *)
(***************************************************************************)
EXTENDS IntegrityOperations
=============================================================================
