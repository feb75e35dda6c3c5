--------------------------- MODULE MCFieldReports ---------------------------
(***************************************************************************)
(* TLC instances of FieldReports.  Requests are interchangeable, and so    *)
(* are the contents of a report.                                           *)
(***************************************************************************)
EXTENDS FieldReports, TLC

RequestSymmetry == Permutations(Requests) \cup Permutations(Contents)
=============================================================================
