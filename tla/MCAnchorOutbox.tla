---------------------------- MODULE MCAnchorOutbox ----------------------------
(***************************************************************************)
(* TLC instances of AnchorOutbox.                                          *)
(***************************************************************************)
EXTENDS AnchorOutbox, TLC

WorkerSymmetry == Permutations(Workers)

(* Contents are interchangeable and a row never changes its own: one of    *)
(* them is enough for the first revision.                                  *)
FirstContent == CHOOSE h \in Hashes : TRUE
FirstContentGiven == \A k \in Keys : outbox[<<k, 1>>].content \in {NoHash, FirstContent}
===============================================================================
