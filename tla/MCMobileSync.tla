----------------------------- MODULE MCMobileSync ------------------------------
(* A report with two attachments. *)
EXTENDS MobileSync, TLC

CONSTANT r1

MCEvidence == r1 :> <<"scan", "photo">>
=============================================================================
