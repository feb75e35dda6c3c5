--------------------------- MODULE AnchorLifecycle ---------------------------
(***************************************************************************)
(* What the anchoring pipeline promises about every revision of a report,  *)
(* without outbox rows, locks, attempts, transactions or worker processes: *)
(*                                                                         *)
(*   - a revision is requested once, after its predecessor, with a content *)
(*     that never changes;                                                 *)
(*   - it reaches the chain at most once, with that content, and only      *)
(*     after its predecessor was acknowledged;                             *)
(*   - it is acknowledged only when it is on the chain, and for good;      *)
(*   - it may be given up, even when it is on the chain already, and an    *)
(*     operator may then requeue it.                                       *)
(*                                                                         *)
(* AnchorOutbox with one worker process implements this specification.     *)
(***************************************************************************)
EXTENDS Naturals

CONSTANTS Keys, Revs, Hashes

VARIABLES
    requested,   \* contents requested: records [key, revision, content]
    onChain,     \* contents on the chain, as records of the same kind
    status       \* status[k][r]: "none", "queued", "failed" or "confirmed"

lifecycleVars == <<requested, onChain, status>>

Item == [key : Keys, revision : Revs, content : Hashes]

TypeOK ==
    /\ requested \subseteq Item
    /\ onChain \subseteq Item
    /\ status \in [Keys -> [Revs -> {"none", "queued", "failed", "confirmed"}]]

Init ==
    /\ requested = {}
    /\ onChain = {}
    /\ status = [k \in Keys |-> [r \in Revs |-> "none"]]

Request(k, r, h) ==
    /\ status[k][r] = "none"
    /\ r > 1 => status[k][r - 1] # "none"
    /\ requested' = requested \cup {[key |-> k, revision |-> r, content |-> h]}
    /\ status' = [status EXCEPT ![k][r] = "queued"]
    /\ UNCHANGED onChain

Anchor(k, r, h) ==
    /\ [key |-> k, revision |-> r, content |-> h] \in requested
    /\ status[k][r] \in {"queued", "failed"}
    /\ r > 1 => status[k][r - 1] = "confirmed"
    /\ \A i \in onChain : ~(i.key = k /\ i.revision = r)
    /\ onChain' = onChain \cup {[key |-> k, revision |-> r, content |-> h]}
    /\ UNCHANGED <<requested, status>>

Acknowledge(k, r) ==
    /\ status[k][r] = "queued"
    /\ \E i \in onChain : i.key = k /\ i.revision = r
    /\ status' = [status EXCEPT ![k][r] = "confirmed"]
    /\ UNCHANGED <<requested, onChain>>

GiveUp(k, r) ==
    /\ status[k][r] = "queued"
    /\ status' = [status EXCEPT ![k][r] = "failed"]
    /\ UNCHANGED <<requested, onChain>>

Requeue(k) ==
    /\ \E r \in Revs : status[k][r] = "failed"
    /\ status' = [status EXCEPT ![k] =
           [r \in Revs |-> IF @[r] = "failed" THEN "queued" ELSE @[r]]]
    /\ UNCHANGED <<requested, onChain>>

Next ==
    \E k \in Keys :
        \/ \E r \in Revs : \/ \E h \in Hashes : Request(k, r, h) \/ Anchor(k, r, h)
                           \/ Acknowledge(k, r)
                           \/ GiveUp(k, r)
        \/ Requeue(k)

Spec == Init /\ [][Next]_lifecycleVars
=============================================================================
