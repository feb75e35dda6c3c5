--------------------------- MODULE IntegrityContract ---------------------------
(***************************************************************************)
(* The Soroban contract ReportIntegrityRegistry                            *)
(* (contracts/report-integrity/src/lib.rs).                                *)
(*                                                                         *)
(* Persistent storage holds two families of entries, DataKey::Anchor and   *)
(* DataKey::Revision, both indexed by (report key, revision).  They are    *)
(* modelled as two sets of records, so that "one entry per storage key" is *)
(* a property of the contract and not of the model's data structure.       *)
(* An invocation either succeeds as a whole or leaves storage unchanged;   *)
(* which error a refused invocation returns is left out, since no caller   *)
(* distinguishes them.                                                     *)
(*                                                                         *)
(* Every entry has a live-until ledger.  An entry whose TTL has run out is *)
(* archived, not deleted: an invocation that touches it traps until the    *)
(* entry is restored.                                                      *)
(***************************************************************************)
EXTENDS Integers, Sequences, FiniteSets

CONSTANTS
    Keys,            \* report keys (BytesN<32>)
    Hashes,          \* content hashes (BytesN<32>)
    Addresses,       \* accounts that may call the contract
    Kinds,           \* kind arguments: 0 evidence revision, 1 review attestation
    MaxRevision,     \* bound on the revision argument (u32 in the code)
    MaxLedger,       \* bound on the ledger sequence
    MinTtl,          \* the network's TTL of a newly created persistent entry
    Threshold,       \* RECORD_TTL_THRESHOLD
    ExtendTo         \* RECORD_TTL_EXTEND_TO

ASSUME RevisionAssumption == MaxRevision \in Nat \ {0}
ASSUME KindAssumption     == Kinds \subseteq Nat
ASSUME LedgerAssumption   == MaxLedger \in Nat
ASSUME TtlAssumption      == /\ MinTtl \in Nat \ {0}
                             /\ Threshold \in Nat
                             /\ ExtendTo \in Nat
                             /\ Threshold <= ExtendTo

VARIABLES
    admin, writer,   \* instance storage
    ledger,          \* sequence of the ledger being closed
    anchors,         \* entries under DataKey::Anchor(key, revision)
    revisions,       \* entries under DataKey::Revision(key, revision)
    liveUntil,       \* live-until ledger of every storage key, 0 if never set
    instanceUntil    \* live-until ledger of the contract instance

contractVars ==
    <<admin, writer, ledger, anchors, revisions, liveUntil, instanceUntil>>

-------------------------------------------------------------------------------
RevisionArgs == 0 .. MaxRevision
SchemaArgs   == 0 .. 1

AnchorEntry == [key : Keys, revision : 1 .. MaxRevision, content : Hashes,
                schema : {1}, ledger : Nat]

RevisionEntry == [key : Keys, revision : 2 .. MaxRevision, content : Hashes,
                  previous : Hashes, schema : {1}, kind : Kinds \cap {0, 1},
                  ledger : Nat]

AnchorKey(k, r)   == <<"Anchor", k, r>>
RevisionKey(k, r) == <<"Revision", k, r>>
StorageKeys == {"Anchor", "Revision"} \X Keys \X RevisionArgs

HasAnchor(k, r)   == \E a \in anchors : a.key = k /\ a.revision = r
HasRevision(k, r) == \E v \in revisions : v.key = k /\ v.revision = r

\* The entry at which the chain of key k stands at revision r: revision 1
\* lives under DataKey::Anchor, later ones under DataKey::Revision.
Links(k, r) == {a \in anchors   : r = 1 /\ a.key = k /\ a.revision = 1}
                 \cup {v \in revisions : r > 1 /\ v.key = k /\ v.revision = r}

ContractTypeOK ==
    /\ admin \in Addresses
    /\ writer \in Addresses
    /\ ledger \in Nat
    /\ anchors \subseteq AnchorEntry
    /\ revisions \subseteq RevisionEntry
    /\ liveUntil \in [StorageKeys -> Nat]
    /\ instanceUntil \in Nat

-------------------------------------------------------------------------------
\* extend_ttl(threshold, extend_to) at ledger seq
Extended(until, seq) ==
    IF until - seq < Threshold THEN seq + ExtendTo ELSE until

\* TTL of an entry set, then extended, at ledger seq
Created(seq) == Extended(seq + MinTtl - 1, seq)

\* A footprint with an archived entry makes the invocation trap.
Archived(sk, seq) == liveUntil[sk] # 0 /\ liveUntil[sk] < seq
InstanceLive(seq) == seq <= instanceUntil

\* require_auth succeeds for the caller itself; the address is then compared
\* with the configured writer (or admin).
IsWriter(caller) == caller = writer
IsAdmin(caller)  == caller = admin

__constructor(a, w) ==
    /\ admin = a
    /\ writer = w
    /\ ledger = 1
    /\ anchors = {}
    /\ revisions = {}
    /\ liveUntil = [sk \in StorageKeys |-> 0]
    /\ instanceUntil = Created(1)

-------------------------------------------------------------------------------
AnchorAccepted(caller, k, r, schema, seq) ==
    /\ InstanceLive(seq)
    /\ r # 0
    /\ schema # 0
    /\ IsWriter(caller)
    /\ ~Archived(AnchorKey(k, r), seq)
    /\ ~HasAnchor(k, r)

anchor(caller, k, r, h, schema, seq) ==
    /\ AnchorAccepted(caller, k, r, schema, seq)
    /\ anchors' = anchors \cup {[key |-> k, revision |-> r, content |-> h,
                                 schema |-> schema, ledger |-> seq]}
    /\ liveUntil' = [liveUntil EXCEPT ![AnchorKey(k, r)] = Created(seq)]
    /\ instanceUntil' = Extended(instanceUntil, seq)
    /\ ledger' = seq
    /\ UNCHANGED <<admin, writer, revisions>>

\* The storage key anchor_revision reads the expected previous hash from.
PreviousKey(k, r) == IF r = 2 THEN AnchorKey(k, 1) ELSE RevisionKey(k, r - 1)

\* Mutant: a missing predecessor is accepted.
RevisionWithoutPredecessor(caller, k, r, prev, schema, kind, seq) ==
    /\ InstanceLive(seq)
    /\ r >= 2
    /\ schema # 0
    /\ kind <= 1
    /\ IsWriter(caller)
    /\ ~HasRevision(k, r)
    /\ \A p \in Links(k, r - 1) : p.content = prev

\* Mutant: an existing revision is overwritten.
RevisionOverwrites(caller, k, r, prev, schema, kind, seq) ==
    /\ InstanceLive(seq)
    /\ r >= 2
    /\ schema # 0
    /\ kind <= 1
    /\ IsWriter(caller)
    /\ \E p \in Links(k, r - 1) : p.content = prev

RevisionAccepted(caller, k, r, prev, schema, kind, seq) ==
    /\ InstanceLive(seq)
    /\ r >= 2
    /\ schema # 0
    /\ kind <= 1
    /\ IsWriter(caller)
    /\ ~Archived(RevisionKey(k, r), seq)
    /\ ~HasRevision(k, r)
    /\ ~Archived(PreviousKey(k, r), seq)
    /\ \E p \in Links(k, r - 1) : p.content = prev

anchor_revision(caller, k, r, h, prev, schema, kind, seq) ==
    /\ RevisionAccepted(caller, k, r, prev, schema, kind, seq)
    /\ revisions' = revisions \cup
           {[key |-> k, revision |-> r, content |-> h, previous |-> prev,
             schema |-> schema, kind |-> kind, ledger |-> seq]}
    /\ liveUntil' = [liveUntil EXCEPT ![RevisionKey(k, r)] = Created(seq)]
    /\ instanceUntil' = Extended(instanceUntil, seq)
    /\ ledger' = seq
    /\ UNCHANGED <<admin, writer, anchors>>

\* get_anchor and get_revision, when submitted as transactions: the record is
\* kept alive, the contract instance is not.
get_record(sk, seq) ==
    /\ InstanceLive(seq)
    /\ liveUntil[sk] # 0
    /\ ~Archived(sk, seq)
    /\ sk[1] = "Revision" => sk[3] >= 2
    /\ liveUntil' = [liveUntil EXCEPT ![sk] = Extended(@, seq)]
    /\ ledger' = seq
    /\ UNCHANGED <<admin, writer, anchors, revisions, instanceUntil>>

touch_anchor(caller, k, r, seq) ==
    LET sk == IF r = 1 THEN AnchorKey(k, r) ELSE RevisionKey(k, r) IN
    /\ InstanceLive(seq)
    /\ IsWriter(caller)
    /\ liveUntil[sk] # 0
    /\ ~Archived(sk, seq)
    /\ liveUntil' = [liveUntil EXCEPT ![sk] = Extended(@, seq)]
    /\ instanceUntil' = Extended(instanceUntil, seq)
    /\ ledger' = seq
    /\ UNCHANGED <<admin, writer, anchors, revisions>>

rotate_writer(caller, new, seq) ==
    /\ InstanceLive(seq)
    /\ IsAdmin(caller)
    /\ writer' = new
    /\ ledger' = seq
    /\ UNCHANGED <<admin, anchors, revisions, liveUntil, instanceUntil>>

rotate_admin(caller, new, seq) ==
    /\ InstanceLive(seq)
    /\ IsAdmin(caller)
    /\ admin' = new
    /\ ledger' = seq
    /\ UNCHANGED <<writer, anchors, revisions, liveUntil, instanceUntil>>

\* Replaces the contract's code by a version assumed to keep this interface;
\* what the contract stores, and its TTLs, stay as they are.
upgrade(caller, seq) ==
    /\ InstanceLive(seq)
    /\ IsAdmin(caller)
    /\ ledger' = seq
    /\ UNCHANGED <<admin, writer, anchors, revisions, liveUntil, instanceUntil>>

\* The network's RestoreFootprint operation, as restoreArchivedReportAnchor
\* submits it: the entry comes back as it was, with a new entry's TTL.
restore(sk, seq) ==
    /\ Archived(sk, seq)
    /\ liveUntil' = [liveUntil EXCEPT ![sk] = seq + MinTtl - 1]
    /\ ledger' = seq
    /\ UNCHANGED <<admin, writer, anchors, revisions, instanceUntil>>

\* A ledger without a successful invocation: refused invocations change nothing.
CloseLedger(seq) ==
    /\ ledger' = seq
    /\ UNCHANGED <<admin, writer, anchors, revisions, liveUntil, instanceUntil>>

Invocation(seq) ==
    \/ \E c \in Addresses, k \in Keys, r \in RevisionArgs :
          \/ \E h \in Hashes, s \in SchemaArgs : anchor(c, k, r, h, s, seq)
          \/ \E h, p \in Hashes, s \in SchemaArgs, kind \in Kinds :
                anchor_revision(c, k, r, h, p, s, kind, seq)
          \/ touch_anchor(c, k, r, seq)
    \/ \E sk \in StorageKeys : get_record(sk, seq) \/ restore(sk, seq)
    \/ \E c, new \in Addresses : rotate_writer(c, new, seq) \/ rotate_admin(c, new, seq)
    \/ \E c \in Addresses : upgrade(c, seq)
    \/ CloseLedger(seq)

\* Ledger sequences advance by one; several invocations may share a ledger.
ContractNext == \E seq \in {ledger, ledger + 1} : seq <= MaxLedger /\ Invocation(seq)

ContractInit == \E a, w \in Addresses : __constructor(a, w)

ContractSpec == ContractInit /\ [][ContractNext]_contractVars

-------------------------------------------------------------------------------
(***************************************************************************)
(* Correctness.                                                            *)
(***************************************************************************)

\* Immutability ("DuplicateAnchor"): a storage key never holds two different
\* records, whatever is archived, restored, rotated or retried in between.
OneRecordPerKey ==
    /\ \A a, b \in anchors : a.key = b.key /\ a.revision = b.revision => a = b
    /\ \A u, v \in revisions : u.key = v.key /\ u.revision = v.revision => u = v

\* The chain behind a revision is complete and intact: revision 1 and every
\* revision in between exist, and each one's previous_hash is the content of
\* the one before it.
ChainIntact ==
    \A v \in revisions :
        /\ v.revision >= 2
        /\ \A r \in 1 .. v.revision - 1 : Links(v.key, r) # {}
        /\ \E p \in Links(v.key, v.revision - 1) : p.content = v.previous

\* Along a chain the recorded ledgers never decrease: the registry cannot be
\* made to show a successor as older than what it succeeds.
LedgersOrdered ==
    \A v \in revisions : \A r \in 1 .. v.revision - 1 :
        \A p \in Links(v.key, r) : p.ledger <= v.ledger

\* A storage key has a TTL exactly when it holds a record, so that "archived"
\* is never mistaken for "absent".
TtlTracksRecords ==
    \A k \in Keys, r \in RevisionArgs :
        /\ liveUntil[AnchorKey(k, r)] # 0 <=> HasAnchor(k, r)
        /\ liveUntil[RevisionKey(k, r)] # 0 <=> HasRevision(k, r)

\* What the registry holds can be relied on: immutable records, complete chains
\* in ledger order and TTLs that tell "archived" from "absent", through rotation,
\* upgrade, expiry, restoration and any mix of refused and repeated invocations.
RegistryIsSound ==
    /\ ContractTypeOK
    /\ OneRecordPerKey
    /\ ChainIntact
    /\ LedgersOrdered
    /\ TtlTracksRecords

\* The chain of key k as HashChain sees it.
ChainLength(k) ==
    Cardinality({r \in 1 .. MaxRevision : Links(k, r) # {}})

Chain(k) ==
    [r \in 1 .. ChainLength(k) |-> (CHOOSE p \in Links(k, r) : TRUE).content]

Abstract == INSTANCE HashChain WITH chain <- [k \in Keys |-> Chain(k)]

\* The registry implements an append-only chain of hashes per report key.
AppendOnlyChain == Abstract!Spec
===============================================================================
