------------------------------ MODULE HashChain ------------------------------
(***************************************************************************)
(* What the on-chain registry promises about one report key, with every    *)
(* detail of storage keys, authorisation, TTLs and ledgers left out: per   *)
(* key there is one chain of content hashes, it only ever grows at its     *)
(* end, one hash per step, and nothing already in it changes.              *)
(*                                                                         *)
(* IntegrityContract implements this specification.                        *)
(***************************************************************************)
EXTENDS Naturals, Sequences

CONSTANTS Keys,     \* report keys
          Hashes    \* content hashes

VARIABLE chain      \* chain[k]: the content hashes anchored for k, oldest first

TypeOK == chain \in [Keys -> Seq(Hashes)]

Init == chain = [k \in Keys |-> <<>>]

Extend(k, h) == chain' = [chain EXCEPT ![k] = Append(@, h)]

Next == \E k \in Keys, h \in Hashes : Extend(k, h)

Spec == Init /\ [][Next]_chain
=============================================================================
