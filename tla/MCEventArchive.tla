--------------------------- MODULE MCEventArchive ---------------------------
(***************************************************************************)
(* TLC instance of EventArchive.  The runs check liveness, so the          *)
(* ingestors are not declared symmetric.                                   *)
(***************************************************************************)
EXTENDS EventArchive
=============================================================================
