-------------------------- MODULE AnchorOutboxProofs --------------------------
(***************************************************************************)
(* Proofs about IntegrityContract, for every set of keys, hashes,          *)
(* addresses and kinds, and every value of the bounds and TTL parameters,  *)
(* and about AnchorOutbox, for any number of worker processes, crashes,    *)
(* lock expiries, retries, reports and revisions.                          *)
(*                                                                         *)
(* The contract's invariants are inductive together with one more fact:    *)
(* the ledger sequence is positive and no record is younger than it.  With *)
(* them a chain has no gap, so its revisions are its length's first ones,  *)
(* and every accepted invocation is a step of HashChain.                   *)
(*                                                                         *)
(* Those of the pipeline are not: what makes them hold is that a row's     *)
(* content never changes once it exists, that every hash a row or a worker *)
(* holds belongs to a transaction of that very job, that only the process  *)
(* that built a transaction can broadcast it, and that a transaction that  *)
(* succeeded left its job's record in the registry.  OutboxInv adds these. *)
(*                                                                         *)
(* What is promised of one worker process needs more: its attempt is alone *)
(* in knowing the row, so the row holds the hash of every transaction that *)
(* may still succeed.  OneProcessInv adds that, and with it the pipeline   *)
(* implements AnchorLifecycle.                                             *)
(***************************************************************************)
EXTENDS AnchorOutbox, FiniteSetTheorems, SequenceTheorems, TLAPS

\* Records were written in ledgers that have been closed.
RecordedByNow ==
    /\ ledger >= 1
    /\ \A a \in anchors : a.ledger <= ledger
    /\ \A v \in revisions : v.ledger <= ledger

ContractInv ==
    /\ ContractTypeOK
    /\ RecordedByNow
    /\ OneRecordPerKey
    /\ ChainIntact
    /\ LedgersOrdered
    /\ TtlTracksRecords

-------------------------------------------------------------------------------
\* extend_ttl never shortens a TTL to nothing.
LEMMA ExtendedType ==
    ASSUME NEW until \in Nat, NEW seq \in Nat, until # 0, seq # 0
    PROVE  /\ Extended(until, seq) \in Nat
           /\ Extended(until, seq) # 0
BY TtlAssumption DEF Extended

LEMMA CreatedType ==
    ASSUME NEW seq \in Nat, seq # 0
    PROVE  /\ Created(seq) \in Nat
           /\ Created(seq) # 0
BY TtlAssumption DEF Created, Extended

\* The two families of storage keys do not overlap, and a key determines the
\* report key and the revision.
LEMMA StorageKeyType ==
    ASSUME NEW k \in Keys, NEW r \in RevisionArgs
    PROVE  AnchorKey(k, r) \in StorageKeys /\ RevisionKey(k, r) \in StorageKeys
BY DEF AnchorKey, RevisionKey, StorageKeys

LEMMA StorageKeysDiffer ==
    ASSUME NEW k \in Keys, NEW r \in RevisionArgs, NEW l \in Keys, NEW s \in RevisionArgs
    PROVE  /\ AnchorKey(k, r) # RevisionKey(l, s)
           /\ AnchorKey(k, r) = AnchorKey(l, s) => k = l /\ r = s
           /\ RevisionKey(k, r) = RevisionKey(l, s) => k = l /\ r = s
BY DEF AnchorKey, RevisionKey

\* A refused or read-only invocation keeps everything that is about records.
LEMMA RecordsUntouched ==
    ASSUME ContractInv, UNCHANGED <<anchors, revisions>>,
           ledger' \in {ledger, ledger + 1}
    PROVE  RecordedByNow' /\ OneRecordPerKey' /\ ChainIntact' /\ LedgersOrdered'
<1>1. ledger' \in Nat /\ ledger' >= ledger /\ ledger \in Nat
  BY DEF ContractInv, ContractTypeOK
<1>2. RecordedByNow'
  BY <1>1 DEF ContractInv, RecordedByNow, ContractTypeOK, AnchorEntry, RevisionEntry
<1>3. OneRecordPerKey'
  BY DEF ContractInv, OneRecordPerKey
<1>4. ChainIntact'
  BY DEF ContractInv, ChainIntact, Links
<1>5. LedgersOrdered'
  BY DEF ContractInv, LedgersOrdered, Links
<1> QED BY <1>2, <1>3, <1>4, <1>5

\* An invocation that only extends TTLs of entries that have one.
LEMMA TtlExtended ==
    ASSUME ContractInv, UNCHANGED <<anchors, revisions>>,
           NEW sk \in StorageKeys, liveUntil[sk] # 0,
           NEW until \in Nat, until # 0,
           liveUntil' = [liveUntil EXCEPT ![sk] = until]
    PROVE  liveUntil' \in [StorageKeys -> Nat] /\ TtlTracksRecords'
<1>1. liveUntil' \in [StorageKeys -> Nat]
  BY DEF ContractInv, ContractTypeOK
<1>2. \A x \in StorageKeys : liveUntil'[x] # 0 <=> liveUntil[x] # 0
  BY DEF ContractInv, ContractTypeOK
<1>3. TtlTracksRecords'
  BY <1>2, StorageKeyType DEF ContractInv, TtlTracksRecords, HasAnchor, HasRevision
<1> QED BY <1>1, <1>3

-------------------------------------------------------------------------------
LEMMA InitEstablishes == ContractInit => ContractInv
<1> SUFFICES ASSUME NEW a \in Addresses, NEW w \in Addresses, __constructor(a, w)
             PROVE  ContractInv
  BY DEF ContractInit
<1>1. Created(1) \in Nat
  BY CreatedType
<1>2. ContractTypeOK
  BY <1>1 DEF __constructor, ContractTypeOK
<1>3. TtlTracksRecords
  BY StorageKeyType DEF __constructor, TtlTracksRecords, HasAnchor, HasRevision
<1> QED
  BY <1>2, <1>3 DEF __constructor, ContractInv, RecordedByNow, OneRecordPerKey,
                    ChainIntact, LedgersOrdered

-------------------------------------------------------------------------------
LEMMA AnchorPreserves ==
    ASSUME ContractInv,
           NEW c \in Addresses, NEW k \in Keys, NEW r \in RevisionArgs,
           NEW h \in Hashes, NEW s \in SchemaArgs,
           NEW seq \in {ledger, ledger + 1},
           anchor(c, k, r, h, s, seq)
    PROVE  ContractInv'
<1> DEFINE new == [key |-> k, revision |-> r, content |-> h, schema |-> s, ledger |-> seq]
<1> USE DEF ContractInv
<1>0. seq \in Nat /\ seq # 0 /\ seq >= ledger /\ ledger \in Nat
  BY DEF ContractTypeOK, RecordedByNow
<1>1. /\ anchors' = anchors \cup {new}
      /\ revisions' = revisions
      /\ ledger' = seq
      /\ liveUntil' = [liveUntil EXCEPT ![AnchorKey(k, r)] = Created(seq)]
      /\ instanceUntil' = Extended(instanceUntil, seq)
      /\ admin' = admin /\ writer' = writer
      /\ ~HasAnchor(k, r) /\ r # 0 /\ s # 0 /\ instanceUntil >= seq
  BY DEF anchor, AnchorAccepted, InstanceLive
<1>2. new \in AnchorEntry
  BY <1>0, <1>1, RevisionAssumption DEF AnchorEntry, RevisionArgs, SchemaArgs
<1>3. Created(seq) \in Nat /\ Created(seq) # 0
  BY <1>0, CreatedType
<1>4. instanceUntil' \in Nat
  BY <1>0, <1>1, ExtendedType DEF ContractTypeOK
<1>5. ContractTypeOK'
  BY <1>0, <1>1, <1>2, <1>3, <1>4 DEF ContractTypeOK
<1>6. RecordedByNow'
  BY <1>0, <1>1 DEF RecordedByNow, ContractTypeOK, AnchorEntry, RevisionEntry
<1>7. OneRecordPerKey'
  BY <1>1 DEF OneRecordPerKey, HasAnchor
<1>8. \A v \in revisions : v.key = k => r # 1
  BY <1>1 DEF ChainIntact, Links, HasAnchor, ContractTypeOK, RevisionEntry
<1>9. \A l, n : Links(l, n) \subseteq Links(l, n)'
  BY <1>1 DEF Links
<1>10. \A v \in revisions : \A n : Links(v.key, n)' = Links(v.key, n)
  BY <1>1, <1>8 DEF Links
<1>11. ChainIntact'
  BY <1>1, <1>10 DEF ChainIntact
<1>12. LedgersOrdered'
  BY <1>1, <1>10 DEF LedgersOrdered
<1>13. TtlTracksRecords'
  <2> SUFFICES ASSUME NEW l \in Keys, NEW n \in RevisionArgs
               PROVE  /\ liveUntil'[AnchorKey(l, n)] # 0 <=> HasAnchor(l, n)'
                      /\ liveUntil'[RevisionKey(l, n)] # 0 <=> HasRevision(l, n)'
    BY DEF TtlTracksRecords
  <2>0. new \in anchors' /\ new.key = k /\ new.revision = r
    BY <1>1
  <2>1. HasAnchor(l, n)' <=> HasAnchor(l, n) \/ (l = k /\ n = r)
    <3> HIDE DEF new
    <3> QED BY <1>1, <2>0 DEF HasAnchor
  <2>2. HasRevision(l, n)' <=> HasRevision(l, n)
    BY <1>1 DEF HasRevision
  <2>3. liveUntil'[RevisionKey(l, n)] = liveUntil[RevisionKey(l, n)]
    BY <1>1, StorageKeyType, StorageKeysDiffer DEF ContractTypeOK
  <2>4. liveUntil'[AnchorKey(l, n)] =
          IF l = k /\ n = r THEN Created(seq) ELSE liveUntil[AnchorKey(l, n)]
    BY <1>1, StorageKeyType, StorageKeysDiffer DEF ContractTypeOK
  <2> QED BY <1>3, <2>1, <2>2, <2>3, <2>4 DEF TtlTracksRecords
<1> QED BY <1>5, <1>6, <1>7, <1>11, <1>12, <1>13

LEMMA RevisionPreserves ==
    ASSUME ContractInv,
           NEW c \in Addresses, NEW k \in Keys, NEW r \in RevisionArgs,
           NEW h \in Hashes, NEW prev \in Hashes, NEW s \in SchemaArgs, NEW kind \in Kinds,
           NEW seq \in {ledger, ledger + 1},
           anchor_revision(c, k, r, h, prev, s, kind, seq)
    PROVE  ContractInv'
<1> DEFINE new == [key |-> k, revision |-> r, content |-> h, previous |-> prev,
                   schema |-> s, kind |-> kind, ledger |-> seq]
<1> USE DEF ContractInv
<1>0. seq \in Nat /\ seq # 0 /\ seq >= ledger /\ ledger \in Nat
  BY DEF ContractTypeOK, RecordedByNow
<1>1. /\ anchors' = anchors
      /\ revisions' = revisions \cup {new}
      /\ ledger' = seq
      /\ liveUntil' = [liveUntil EXCEPT ![RevisionKey(k, r)] = Created(seq)]
      /\ instanceUntil' = Extended(instanceUntil, seq)
      /\ admin' = admin /\ writer' = writer
      /\ ~HasRevision(k, r) /\ r >= 2 /\ s # 0 /\ kind <= 1 /\ instanceUntil >= seq
      /\ \E p \in Links(k, r - 1) : p.content = prev
  BY DEF anchor_revision, RevisionAccepted, InstanceLive
<1>2. new \in RevisionEntry
  BY <1>0, <1>1, RevisionAssumption, KindAssumption DEF RevisionEntry, RevisionArgs, SchemaArgs
<1>3. Created(seq) \in Nat /\ Created(seq) # 0
  BY <1>0, CreatedType
<1>4. instanceUntil' \in Nat
  BY <1>0, <1>1, ExtendedType DEF ContractTypeOK
<1>5. ContractTypeOK'
  BY <1>0, <1>1, <1>2, <1>3, <1>4 DEF ContractTypeOK
<1>6. RecordedByNow'
  BY <1>0, <1>1 DEF RecordedByNow, ContractTypeOK, AnchorEntry, RevisionEntry
<1>7. OneRecordPerKey'
  BY <1>1 DEF OneRecordPerKey, HasRevision
<1>r. r \in Nat
  BY RevisionAssumption DEF RevisionArgs
\* no revision above r exists yet
<1>8. \A v \in revisions : v.key = k => v.revision < r
  <2> SUFFICES ASSUME NEW v \in revisions, v.key = k, ~(v.revision < r)
               PROVE  FALSE
    OBVIOUS
  <2>1. v.revision \in Nat
    BY RevisionAssumption DEF ContractTypeOK, RevisionEntry
  <2>2. v.revision # r
    BY <1>1 DEF HasRevision
  <2>3. r \in 1 .. v.revision - 1
    BY <1>1, <1>r, <2>1, <2>2
  <2>4. Links(k, r) # {}
    BY <2>3 DEF ChainIntact
  <2> QED BY <1>1, <2>4 DEF Links, HasRevision
<1>9. \A l, n : Links(l, n)' = IF l = k /\ n = r THEN Links(l, n) \cup {new} ELSE Links(l, n)
  BY <1>1, <1>r DEF Links
<1>10. \A n \in 1 .. r - 1 : Links(k, n) # {}
  <2>1. PICK p \in Links(k, r - 1) : p.content = prev
    BY <1>1
  <2> SUFFICES ASSUME NEW n \in 1 .. r - 1
               PROVE  Links(k, n) # {}
    OBVIOUS
  <2>2. CASE n = r - 1
    BY <2>1, <2>2
  <2>3. CASE n # r - 1
    <3>1. r - 1 > 1
      BY <1>r, <2>3
    <3>2. p \in revisions /\ p.key = k /\ p.revision = r - 1
      BY <2>1, <3>1 DEF Links
    <3>3. n \in 1 .. p.revision - 1
      BY <1>r, <2>3, <3>2
    <3> QED BY <3>2, <3>3 DEF ChainIntact
  <2> QED BY <2>2, <2>3
<1>11. ChainIntact'
  <2> SUFFICES ASSUME NEW v \in revisions'
               PROVE  /\ v.revision >= 2
                      /\ \A n \in 1 .. v.revision - 1 : Links(v.key, n)' # {}
                      /\ \E p \in Links(v.key, v.revision - 1)' : p.content = v.previous
    BY DEF ChainIntact
  <2>1. CASE v \in revisions
    BY <1>9, <2>1 DEF ChainIntact
  <2>2. CASE v = new
    <3>1. Links(k, r - 1)' = Links(k, r - 1)
      BY <1>9, <1>r
    <3>2. \A n \in 1 .. r - 1 : Links(k, n)' # {}
      BY <1>9, <1>10, <1>r
    <3> QED BY <1>1, <2>2, <3>1, <3>2
  <2> QED BY <1>1, <2>1, <2>2
<1>12. LedgersOrdered'
  <2> SUFFICES ASSUME NEW v \in revisions', NEW n \in 1 .. v.revision - 1,
                      NEW p \in Links(v.key, n)'
               PROVE  p.ledger <= v.ledger
    BY DEF LedgersOrdered
  <2>1. CASE v \in revisions
    <3>1. v.revision \in Nat
      BY <2>1, RevisionAssumption DEF ContractTypeOK, RevisionEntry
    <3>2. v.key = k => n # r
      BY <1>8, <1>r, <2>1, <3>1
    <3>3. p \in Links(v.key, n)
      BY <1>9, <3>2
    <3> QED BY <2>1, <3>3 DEF LedgersOrdered
  <2>2. CASE v = new
    <3>1. p \in Links(k, n)
      BY <1>9, <1>r, <2>2
    <3>2. p.ledger \in Nat /\ p.ledger <= ledger
      BY <3>1 DEF Links, RecordedByNow, ContractTypeOK, AnchorEntry, RevisionEntry
    <3> QED BY <1>0, <2>2, <3>2
  <2> QED BY <1>1, <2>1, <2>2
<1>13. TtlTracksRecords'
  <2> SUFFICES ASSUME NEW l \in Keys, NEW n \in RevisionArgs
               PROVE  /\ liveUntil'[AnchorKey(l, n)] # 0 <=> HasAnchor(l, n)'
                      /\ liveUntil'[RevisionKey(l, n)] # 0 <=> HasRevision(l, n)'
    BY DEF TtlTracksRecords
  <2>0. new \in revisions' /\ new.key = k /\ new.revision = r
    BY <1>1
  <2>1. HasRevision(l, n)' <=> HasRevision(l, n) \/ (l = k /\ n = r)
    <3> HIDE DEF new
    <3> QED BY <1>1, <2>0 DEF HasRevision
  <2>2. HasAnchor(l, n)' <=> HasAnchor(l, n)
    BY <1>1 DEF HasAnchor
  <2>3. liveUntil'[AnchorKey(l, n)] = liveUntil[AnchorKey(l, n)]
    BY <1>1, StorageKeyType, StorageKeysDiffer DEF ContractTypeOK
  <2>4. liveUntil'[RevisionKey(l, n)] =
          IF l = k /\ n = r THEN Created(seq) ELSE liveUntil[RevisionKey(l, n)]
    BY <1>1, StorageKeyType, StorageKeysDiffer DEF ContractTypeOK
  <2> QED BY <1>3, <2>1, <2>2, <2>3, <2>4 DEF TtlTracksRecords
<1> QED BY <1>5, <1>6, <1>7, <1>11, <1>12, <1>13

-------------------------------------------------------------------------------
\* Every invocation, and a ledger without one, keeps the invariant.
LEMMA InvocationPreserves ==
    ASSUME ContractInv, NEW seq \in {ledger, ledger + 1}, Invocation(seq)
    PROVE  ContractInv'
<1>0. seq \in Nat /\ seq # 0 /\ ledger \in Nat
  BY DEF ContractInv, ContractTypeOK, RecordedByNow
<1>1. ASSUME NEW c \in Addresses, NEW k \in Keys, NEW r \in RevisionArgs,
             NEW h \in Hashes, NEW s \in SchemaArgs, anchor(c, k, r, h, s, seq)
      PROVE  ContractInv'
  BY <1>1, AnchorPreserves
<1>2. ASSUME NEW c \in Addresses, NEW k \in Keys, NEW r \in RevisionArgs,
             NEW h \in Hashes, NEW p \in Hashes, NEW s \in SchemaArgs,
             NEW kind \in Kinds, anchor_revision(c, k, r, h, p, s, kind, seq)
      PROVE  ContractInv'
  BY <1>2, RevisionPreserves
<1>3. ASSUME NEW sk \in StorageKeys, get_record(sk, seq)
      PROVE  ContractInv'
  <2>1. liveUntil[sk] # 0 /\ liveUntil[sk] \in Nat
    BY <1>3 DEF get_record, ContractInv, ContractTypeOK
  <2>2. Extended(liveUntil[sk], seq) \in Nat /\ Extended(liveUntil[sk], seq) # 0
    BY <1>0, <2>1, ExtendedType
  <2>3. liveUntil' \in [StorageKeys -> Nat] /\ TtlTracksRecords'
    BY <1>3, <2>1, <2>2, TtlExtended DEF get_record
  <2>4. RecordedByNow' /\ OneRecordPerKey' /\ ChainIntact' /\ LedgersOrdered'
    BY <1>3, RecordsUntouched DEF get_record
  <2> QED BY <1>0, <1>3, <2>3, <2>4 DEF get_record, ContractInv, ContractTypeOK
<1>4. ASSUME NEW c \in Addresses, NEW k \in Keys, NEW r \in RevisionArgs,
             touch_anchor(c, k, r, seq)
      PROVE  ContractInv'
  <2> DEFINE sk == IF r = 1 THEN AnchorKey(k, r) ELSE RevisionKey(k, r)
  <2>0. sk \in StorageKeys
    BY StorageKeyType
  <2>1. /\ liveUntil[sk] # 0
        /\ liveUntil' = [liveUntil EXCEPT ![sk] = Extended(liveUntil[sk], seq)]
        /\ instanceUntil' = Extended(instanceUntil, seq)
        /\ instanceUntil >= seq
        /\ ledger' = seq
        /\ UNCHANGED <<admin, writer, anchors, revisions>>
    BY <1>4, <2>0 DEF touch_anchor, InstanceLive, ContractInv, ContractTypeOK
  <2> HIDE DEF sk
  <2>2. Extended(liveUntil[sk], seq) \in Nat /\ Extended(liveUntil[sk], seq) # 0
    BY <1>0, <2>0, <2>1, ExtendedType DEF ContractInv, ContractTypeOK
  <2>3. liveUntil' \in [StorageKeys -> Nat] /\ TtlTracksRecords'
    BY <2>0, <2>1, <2>2, TtlExtended
  <2>4. RecordedByNow' /\ OneRecordPerKey' /\ ChainIntact' /\ LedgersOrdered'
    BY <2>1, RecordsUntouched
  <2>5. instanceUntil' \in Nat
    BY <1>0, <2>1, ExtendedType DEF ContractInv, ContractTypeOK
  <2> QED BY <1>0, <2>1, <2>3, <2>4, <2>5 DEF ContractInv, ContractTypeOK
<1>5. ASSUME NEW sk \in StorageKeys, restore(sk, seq)
      PROVE  ContractInv'
  <2>1. seq + MinTtl - 1 \in Nat /\ seq + MinTtl - 1 # 0
    BY <1>0, TtlAssumption
  <2>2. liveUntil[sk] # 0
    BY <1>5 DEF restore, Archived
  <2>3. liveUntil' \in [StorageKeys -> Nat] /\ TtlTracksRecords'
    BY <1>5, <2>1, <2>2, TtlExtended DEF restore
  <2>4. RecordedByNow' /\ OneRecordPerKey' /\ ChainIntact' /\ LedgersOrdered'
    BY <1>5, RecordsUntouched DEF restore
  <2> QED BY <1>0, <1>5, <2>3, <2>4 DEF restore, ContractInv, ContractTypeOK
<1>6. ASSUME /\ ledger' = seq
             /\ admin' \in Addresses
             /\ writer' \in Addresses
             /\ UNCHANGED <<anchors, revisions, liveUntil, instanceUntil>>
      PROVE  ContractInv'
  <2>1. RecordedByNow' /\ OneRecordPerKey' /\ ChainIntact' /\ LedgersOrdered'
    BY <1>6, RecordsUntouched
  <2>2. TtlTracksRecords'
    BY <1>6 DEF ContractInv, TtlTracksRecords, HasAnchor, HasRevision
  <2> QED BY <1>0, <1>6, <2>1, <2>2 DEF ContractInv, ContractTypeOK
<1>7. ASSUME NEW c \in Addresses, NEW new \in Addresses,
             rotate_writer(c, new, seq) \/ rotate_admin(c, new, seq)
      PROVE  ContractInv'
  BY <1>6, <1>7 DEF rotate_writer, rotate_admin, ContractInv, ContractTypeOK
<1>8. ASSUME CloseLedger(seq) \/ \E c \in Addresses : upgrade(c, seq)
      PROVE  ContractInv'
  BY <1>6, <1>8 DEF CloseLedger, upgrade, ContractInv, ContractTypeOK
<1> QED
  BY <1>1, <1>2, <1>3, <1>4, <1>5, <1>7, <1>8 DEF Invocation

LEMMA ContractStepPreserves ==
    ContractInv /\ [ContractNext]_contractVars => ContractInv'
<1>1. CASE ContractInv /\ ContractNext
  BY <1>1, InvocationPreserves DEF ContractNext
<1>2. CASE ContractInv /\ UNCHANGED contractVars
  BY <1>2 DEF contractVars, ContractInv, ContractTypeOK, RecordedByNow, OneRecordPerKey,
              ChainIntact, LedgersOrdered, TtlTracksRecords, Links, HasAnchor, HasRevision
<1> QED BY <1>1, <1>2

LEMMA ContractInvariant == ContractSpec => []ContractInv
BY InitEstablishes, ContractStepPreserves, PTL DEF ContractSpec

\* The variables of the registry keep their types, in every configuration.
THEOREM ContractTypeCorrect == ContractSpec => []ContractTypeOK
<1>1. ContractInv => ContractTypeOK
  BY DEF ContractInv
<1> QED BY <1>1, ContractInvariant, PTL

\* Immutability: no invocation, TTL event, restoration or key rotation makes a
\* storage key hold two different records.
THEOREM RecordsAreImmutable == ContractSpec => []OneRecordPerKey
<1>1. ContractInv => OneRecordPerKey
  BY DEF ContractInv
<1> QED BY <1>1, ContractInvariant, PTL

\* The chain behind every revision is complete and its links are intact.
THEOREM ChainsAreIntact == ContractSpec => []ChainIntact
<1>1. ContractInv => ChainIntact
  BY DEF ContractInv
<1> QED BY <1>1, ContractInvariant, PTL

\* No successor is recorded in an earlier ledger than what it succeeds.
THEOREM LedgersAreOrdered == ContractSpec => []LedgersOrdered
<1>1. ContractInv => LedgersOrdered
  BY DEF ContractInv
<1> QED BY <1>1, ContractInvariant, PTL

\* A storage key has a TTL exactly when it holds a record.
THEOREM TtlsTrackRecords == ContractSpec => []TtlTracksRecords
<1>1. ContractInv => TtlTracksRecords
  BY DEF ContractInv
<1> QED BY <1>1, ContractInvariant, PTL

\* All of it together: what a client of the registry may rely on.
THEOREM RegistryStaysSound == ContractSpec => []RegistryIsSound
BY ContractTypeCorrect, RecordsAreImmutable, ChainsAreIntact, LedgersAreOrdered,
   TtlsTrackRecords, PTL DEF RegistryIsSound

-------------------------------------------------------------------------------
(***************************************************************************)
(* The registry implements HashChain.                                      *)
(***************************************************************************)

\* An initial segment of the positive numbers is as long as it has elements.
LEMMA InitialSegment ==
    ASSUME NEW n \in Nat, NEW D \in SUBSET (1 .. n), \A r \in D : 1 .. r - 1 \subseteq D
    PROVE  Cardinality(D) \in 0 .. n /\ D = 1 .. Cardinality(D)
<1>1. IsFiniteSet(1 .. n) /\ Cardinality(1 .. n) = n
  BY FS_Interval
<1>2. IsFiniteSet(D) /\ Cardinality(D) \in Nat /\ Cardinality(D) <= n
  BY <1>1, FS_Subset, FS_CardinalityType
<1>3. ASSUME NEW r \in D
      PROVE  r <= Cardinality(D)
  <2>1. 1 .. r \subseteq D /\ r \in Nat
    BY <1>3
  <2>2. Cardinality(1 .. r) = r
    BY <2>1, FS_Interval
  <2> QED BY <1>2, <2>1, <2>2, FS_Subset
<1>4. IsFiniteSet(1 .. Cardinality(D)) /\ Cardinality(1 .. Cardinality(D)) = Cardinality(D)
  BY <1>2, FS_Interval
<1>5. D \subseteq 1 .. Cardinality(D)
  BY <1>3
<1>6. D = 1 .. Cardinality(D)
  <2> DEFINE S == 1 .. Cardinality(D)
  <2>1. IsFiniteSet(S) /\ D \in SUBSET S /\ Cardinality(S) = Cardinality(D)
    BY <1>4, <1>5
  <2> HIDE DEF S
  <2>2. S = D
    BY <2>1, FS_Subset
  <2> QED BY <2>2 DEF S
<1> QED BY <1>2, <1>6

\* The revisions of a key that exist are the first ChainLength(k) ones.
Gapless(k) ==
    /\ ChainLength(k) \in 0 .. MaxRevision
    /\ \A r \in 1 .. MaxRevision : Links(k, r) # {} <=> r <= ChainLength(k)

LEMMA ChainHasNoGap ==
    ASSUME ContractTypeOK, ChainIntact, NEW k \in Keys
    PROVE  Gapless(k)
<1> DEFINE D == {r \in 1 .. MaxRevision : Links(k, r) # {}}
<1>1. ASSUME NEW r \in D, NEW n \in 1 .. r - 1
      PROVE  n \in D
  <2>1. r \in 1 .. MaxRevision /\ n \in 1 .. MaxRevision /\ r > 1
    BY RevisionAssumption
  <2>2. PICK v \in revisions : v.key = k /\ v.revision = r
    BY <2>1 DEF Links
  <2> QED BY <2>1, <2>2 DEF ChainIntact
<1>2. MaxRevision \in Nat /\ D \in SUBSET (1 .. MaxRevision)
  BY RevisionAssumption
<1>3. D = 1 .. Cardinality(D) /\ Cardinality(D) \in 0 .. MaxRevision
  <2> HIDE DEF D
  <2> QED BY <1>1, <1>2, InitialSegment
<1>4. Cardinality(D) = ChainLength(k)
  BY DEF ChainLength
<1>5. \A r \in 1 .. MaxRevision : Links(k, r) # {} <=> r \in D
  OBVIOUS
<1> HIDE DEF D
<1> QED BY <1>2, <1>3, <1>4, <1>5 DEF Gapless

\* Chain in terms of an operator on sets of links.
AnyOf(S) == CHOOSE p \in S : TRUE

LEMMA ChainContents ==
    ASSUME NEW k \in Keys
    PROVE  /\ Chain(k) = [r \in 1 .. ChainLength(k) |-> AnyOf(Links(k, r)).content]
           /\ Chain(k)' = [r \in 1 .. ChainLength(k)' |-> AnyOf(Links(k, r)').content]
BY Zenon DEF Chain, AnyOf

LEMMA OnlyOneOf == \A p : AnyOf({p}) = p
BY DEF AnyOf

\* Append, for a sequence given as a function.
LEMMA AppendedFunction ==
    ASSUME NEW n \in Nat, NEW s, s = [i \in 1 .. n |-> s[i]], NEW h
    PROVE  Append(s, h) = [i \in 1 .. n + 1 |-> IF i <= n THEN s[i] ELSE h]
<1> DEFINE C == {s[i] : i \in 1 .. n} \cup {h}
<1>1. s \in Seq(C) /\ h \in C /\ Len(s) = n
  OBVIOUS
<1> HIDE DEF C
<1>2. /\ Append(s, h) \in Seq(C) /\ Len(Append(s, h)) = n + 1
      /\ \A i \in 1 .. n : Append(s, h)[i] = s[i]
      /\ Append(s, h)[n + 1] = h
  BY <1>1
<1>3. PICK t \in Seq(C) : t = Append(s, h) /\ Len(t) = n + 1
  BY <1>2
<1>4. t = [i \in 1 .. n + 1 |-> t[i]]
  BY <1>3, LenProperties
<1>5. \A i \in 1 .. n + 1 : t[i] = IF i <= n THEN s[i] ELSE h
  BY <1>2, <1>3
<1> QED BY <1>3, <1>4, <1>5

\* Whatever leaves the records alone leaves the chains alone.
LEMMA SameRecordsSameChains ==
    ASSUME UNCHANGED <<anchors, revisions>>
    PROVE  UNCHANGED [k \in Keys |-> Chain(k)]
BY DEF Chain, ChainLength, Links

\* A record added at the end of the chain of k appends its content.
LEMMA LinkAppends ==
    ASSUME \A l \in Keys : Gapless(l) /\ Gapless(l)',
           NEW k \in Keys, NEW r \in 1 .. MaxRevision,
           NEW h \in Hashes, NEW new, new.content = h,
           r = ChainLength(k) + 1,
           \A l \in Keys, n \in 1 .. MaxRevision :
               Links(l, n)' = IF l = k /\ n = r THEN {new} ELSE Links(l, n)
    PROVE  Abstract!Extend(k, h)
<1>1. \A l \in Keys : l # k => Chain(l)' = Chain(l)
  <2> SUFFICES ASSUME NEW l \in Keys, l # k
               PROVE  Chain(l)' = Chain(l)
    OBVIOUS
  <2>1. ChainLength(l)' = ChainLength(l)
    BY DEF ChainLength
  <2>2. ChainLength(l) \in 0 .. MaxRevision
    BY DEF Gapless
  <2>3. \A n \in 1 .. ChainLength(l) : Links(l, n)' = Links(l, n)
    BY <2>2, RevisionAssumption
  <2> QED BY <2>1, <2>3, ChainContents, ZenonT(60)
<1>2. ChainLength(k)' = ChainLength(k) + 1
  <2>1. ChainLength(k)' \in 0 .. MaxRevision /\ ChainLength(k) \in 0 .. MaxRevision
    BY DEF Gapless
  <2>2. \A n \in 1 .. MaxRevision : n <= ChainLength(k)' <=> n <= ChainLength(k) \/ n = r
    <3>1. \A n \in 1 .. MaxRevision : Links(k, n)' # {} <=> n <= ChainLength(k)'
      BY DEF Gapless
    <3>2. \A n \in 1 .. MaxRevision : Links(k, n) # {} <=> n <= ChainLength(k)
      BY DEF Gapless
    <3> QED BY <3>1, <3>2
  <2> QED BY <2>1, <2>2, RevisionAssumption
<1>3. Chain(k)' = Append(Chain(k), h)
  <2>1. PICK n : n = ChainLength(k) /\ n \in 0 .. MaxRevision
    BY DEF Gapless
  <2>2. \A i \in 1 .. n : Links(k, i)' = Links(k, i)
    BY <2>1, RevisionAssumption
  <2>3. AnyOf(Links(k, r)') = new
    BY OnlyOneOf
  <2>4. Chain(k)' = [i \in 1 .. n + 1 |-> AnyOf(Links(k, i)').content]
    BY <1>2, <2>1, ChainContents
  <2>5. Chain(k) = [i \in 1 .. n |-> AnyOf(Links(k, i)).content]
    BY <2>1, ChainContents
  <2>6. \A i \in 1 .. n + 1 : AnyOf(Links(k, i)').content = IF i <= n THEN Chain(k)[i] ELSE h
    BY <2>1, <2>2, <2>3, <2>5
  <2>7. PICK s : s = Chain(k)
    OBVIOUS
  <2>8. Append(s, h) = [i \in 1 .. n + 1 |-> IF i <= n THEN s[i] ELSE h]
    <3>1. s = [i \in 1 .. n |-> s[i]] /\ n \in Nat
      BY <2>1, <2>5, <2>7
    <3> QED BY <3>1, AppendedFunction
  <2> QED BY <2>4, <2>6, <2>7, <2>8
<1> QED BY <1>1, <1>3 DEF Abstract!Extend

\* Every invocation extends one chain by one hash, or none.
LEMMA InvocationExtends ==
    ASSUME ContractInv, \A k \in Keys : Gapless(k) /\ Gapless(k)',
           NEW seq \in {ledger, ledger + 1}, Invocation(seq)
    PROVE  Abstract!Next \/ UNCHANGED [k \in Keys |-> Chain(k)]
<1>1. ASSUME NEW c \in Addresses, NEW k \in Keys, NEW r \in RevisionArgs,
             NEW h \in Hashes, NEW s \in SchemaArgs, anchor(c, k, r, h, s, seq)
      PROVE  Abstract!Next \/ UNCHANGED [x \in Keys |-> Chain(x)]
  <2>1. PICK new : new = [key |-> k, revision |-> r, content |-> h, schema |-> s, ledger |-> seq]
    OBVIOUS
  <2>2. /\ anchors' = anchors \cup {new} /\ revisions' = revisions /\ ~HasAnchor(k, r)
        /\ new.key = k /\ new.revision = r /\ new.content = h
    BY <1>1, <2>1 DEF anchor, AnchorAccepted
  <2>3. CASE r = 1
    <3>1. \A l \in Keys, n \in 1 .. MaxRevision :
            Links(l, n)' = IF l = k /\ n = r THEN {new} ELSE Links(l, n)
      BY <2>2, <2>3 DEF Links, HasAnchor
    <3>2. ChainLength(k) = 0
      <4>1. 1 \in 1 .. MaxRevision /\ Links(k, 1) = {}
        BY <2>2, <2>3, RevisionAssumption DEF Links, HasAnchor
      <4> QED BY <4>1, RevisionAssumption DEF Gapless
    <3>3. r \in 1 .. MaxRevision /\ r = ChainLength(k) + 1
      BY <2>3, <3>2, RevisionAssumption
    <3>4. Abstract!Extend(k, h)
      BY <2>2, <3>1, <3>3, LinkAppends
    <3> QED BY <3>4 DEF Abstract!Next
  <2>4. CASE r # 1
    <3>1. \A l, n : Links(l, n)' = Links(l, n)
      BY <2>2, <2>4 DEF Links
    <3>2. \A l \in Keys : ChainLength(l)' = ChainLength(l)
      BY <3>1 DEF ChainLength
    <3>3. \A l \in Keys : Chain(l)' = Chain(l)
      BY <3>1, <3>2, ChainContents, ZenonT(60)
    <3> QED BY <3>3
  <2> QED BY <2>3, <2>4
<1>2. ASSUME NEW c \in Addresses, NEW k \in Keys, NEW r \in RevisionArgs,
             NEW h \in Hashes, NEW p \in Hashes, NEW s \in SchemaArgs,
             NEW kind \in Kinds, anchor_revision(c, k, r, h, p, s, kind, seq)
      PROVE  Abstract!Next
  <2>1. PICK new : new = [key |-> k, revision |-> r, content |-> h, previous |-> p,
                          schema |-> s, kind |-> kind, ledger |-> seq]
    OBVIOUS
  <2>2. /\ anchors' = anchors /\ revisions' = revisions \cup {new} /\ ~HasRevision(k, r)
        /\ new.key = k /\ new.revision = r /\ new.content = h
        /\ r >= 2 /\ Links(k, r - 1) # {}
    BY <1>2, <2>1 DEF anchor_revision, RevisionAccepted
  <2>3. r \in 1 .. MaxRevision /\ r - 1 \in 1 .. MaxRevision
    BY <2>2, RevisionAssumption DEF RevisionArgs
  <2>4. Links(k, r) = {}
    BY <2>2, <2>3 DEF Links, HasRevision
  <2>5. r = ChainLength(k) + 1
    BY <2>2, <2>3, <2>4, RevisionAssumption DEF Gapless
  <2>6. \A l \in Keys, n \in 1 .. MaxRevision :
          Links(l, n)' = IF l = k /\ n = r THEN {new} ELSE Links(l, n)
    BY <2>2, <2>4 DEF Links
  <2>7. Abstract!Extend(k, h)
    BY <2>2, <2>3, <2>5, <2>6, LinkAppends
  <2> QED BY <2>7 DEF Abstract!Next
<1>3. ASSUME UNCHANGED <<anchors, revisions>>
      PROVE  UNCHANGED [k \in Keys |-> Chain(k)]
  BY <1>3, SameRecordsSameChains
<1> QED BY <1>1, <1>2, <1>3 DEF Invocation, touch_anchor, get_record, restore, rotate_writer,
     rotate_admin, upgrade, CloseLedger

LEMMA InitIsEmptyChains == ContractInit => Abstract!Init
<1> SUFFICES ASSUME ContractInit PROVE Abstract!Init
  OBVIOUS
<1>1. \A k \in Keys, r \in 1 .. MaxRevision : Links(k, r) = {}
  BY DEF ContractInit, __constructor, Links
<1>2. \A k \in Keys : ChainLength(k) = 0
  <2> SUFFICES ASSUME NEW k \in Keys PROVE ChainLength(k) = 0
    OBVIOUS
  <2>1. {r \in 1 .. MaxRevision : Links(k, r) # {}} = {}
    BY <1>1
  <2> QED BY <2>1, FS_EmptySet DEF ChainLength
<1>3. \A k \in Keys : Chain(k) = <<>>
  BY <1>2, ChainContents
<1> QED BY <1>3 DEF Abstract!Init

\* The registry is an append-only chain of hashes per report key: anchor starts
\* it, anchor_revision extends it by one, and no other invocation, expiry,
\* restoration or rotation changes it.
THEOREM RegistryIsAppendOnly == ContractSpec => AppendOnlyChain
<1>1. ContractInv => \A k \in Keys : Gapless(k)
  BY ChainHasNoGap DEF ContractInv
<1>2. /\ ContractInv
      /\ (\A k \in Keys : Gapless(k)) /\ (\A k \in Keys : Gapless(k))'
      /\ [ContractNext]_contractVars
      => [Abstract!Next]_([k \in Keys |-> Chain(k)])
  BY InvocationExtends, SameRecordsSameChains DEF ContractNext, contractVars
<1> QED
  BY <1>1, <1>2, InitIsEmptyChains, ContractInvariant, PTL
  DEF ContractSpec, AppendOnlyChain, Abstract!Spec

-------------------------------------------------------------------------------
(***************************************************************************)
(* The outbox, its workers and the network.                                *)
(***************************************************************************)
\* A row has a content exactly when it exists.
RowsHaveContent ==
    \A j \in Jobs : Absent(j) <=> outbox[j].content = NoHash

\* The first transactions, as many as were built, are about existing rows.
TxsOfJobs ==
    \A t \in TxIds :
        /\ t <= built => /\ txs[t].state # "none"
                         /\ txs[t].job \in Jobs
                         /\ ~Absent(txs[t].job)
        /\ t > built => txs[t].state = "none"

\* The hash a row holds is that of a transaction of the row's job.
HashesOfJobs ==
    \A j \in Jobs : outbox[j].hash # NoTx =>
        /\ outbox[j].hash <= built
        /\ txs[outbox[j].hash].job = j

\* What a worker holds in memory is about its job; what it has not broadcast
\* nobody has, and what it is about to confirm has succeeded.
HoldsItsOwn(w) ==
    /\ worker[w].step # "idle" => worker[w].job \in Jobs /\ ~Absent(worker[w].job)
    /\ worker[w].tx # NoTx => /\ worker[w].tx <= built
                              /\ txs[worker[w].tx].job = worker[w].job
    /\ worker[w].step \in {"inspect", "persist", "send", "poll", "confirm"} =>
           worker[w].tx # NoTx
    /\ worker[w].step \in {"persist", "send"} => txs[worker[w].tx].state = "built"
    /\ worker[w].step = "confirm" => txs[worker[w].tx].state = "applied"

WorkersHoldTheirOwn == \A w \in Workers : HoldsItsOwn(w)

\* Two workers never hold the same transaction for broadcasting.
Broadcasting(w) == worker[w].step \in {"persist", "send"}

OneBroadcaster ==
    \A v, w \in Workers :
        v # w /\ Broadcasting(v) /\ Broadcasting(w) => worker[v].tx # worker[w].tx

\* A transaction that succeeded left its job's record in the registry.
Receipts ==
    \A t \in TxIds : txs[t].state = "applied" =>
        \E p \in Links(txs[t].job[1], txs[t].job[2]) :
            /\ p.content = outbox[txs[t].job].content
            /\ p.ledger = txs[t].ledger

OutboxInv ==
    /\ OutboxTypeOK
    /\ ContractInv
    /\ RowsHaveContent
    /\ TxsOfJobs
    /\ HashesOfJobs
    /\ WorkersHoldTheirOwn
    /\ OneBroadcaster
    /\ Receipts
    /\ RegistryMatchesOutbox
    /\ ConfirmedIsAnchored
    /\ AppliedOnce

-------------------------------------------------------------------------------
(***************************************************************************)
(* Facts about the data.                                                   *)
(***************************************************************************)
LEMMA JobType ==
    ASSUME NEW j \in Jobs
    PROVE  /\ j = <<j[1], j[2]>> /\ j[1] \in Keys /\ j[2] \in Revs
           /\ j[2] \in Nat /\ j[2] >= 1 /\ j[2] <= MaxRevision
           /\ j # NoJob
           /\ j[2] > 1 => Prev(j) \in Jobs
BY RevisionAssumption DEF Jobs, Revs, Prev, NoJob

LEMMA NoTxIsNoId == NoTx \notin TxIds /\ NoTx = 0
BY OutboxAssumption DEF NoTx, TxIds

LEMMA InitEstablishesOutbox == Init => OutboxInv
<1> SUFFICES ASSUME Init PROVE OutboxInv
  OBVIOUS
<1>1. ContractInv
  BY InitEstablishes DEF Init
<1>2. anchors = {} /\ revisions = {}
  BY DEF Init, ContractInit, __constructor
<1>3. OutboxTypeOK
  BY <1>1, OutboxAssumption
  DEF Init, OutboxTypeOK, ContractInv, NoRow, NoAnchorRow, NotBuilt, Idle, OutboxRow,
      AnchorRow, Tx, WorkerState, Steps, TxStates, Statuses, NoTx
<1>4. RowsHaveContent /\ HashesOfJobs /\ TxsOfJobs
  BY OutboxAssumption
  DEF Init, RowsHaveContent, HashesOfJobs, TxsOfJobs, Absent, NoRow, NotBuilt, TxIds
<1>5. WorkersHoldTheirOwn /\ OneBroadcaster
  BY DEF Init, WorkersHoldTheirOwn, HoldsItsOwn, OneBroadcaster, Broadcasting, Idle
<1>6. Receipts /\ AppliedOnce
  BY DEF Init, Receipts, AppliedOnce, NotBuilt
<1>7. RegistryMatchesOutbox
  BY <1>2 DEF RegistryMatchesOutbox
<1>8. ConfirmedIsAnchored
  BY DEF Init, ConfirmedIsAnchored, NoAnchorRow
<1> QED BY <1>1, <1>3, <1>4, <1>5, <1>6, <1>7, <1>8 DEF OutboxInv

-------------------------------------------------------------------------------
(***************************************************************************)
(* Steps that leave the transactions and the registry alone.               *)
(***************************************************************************)

\* No row appears, disappears or changes its content or its link.
RowsKeepContent ==
    \A j \in Jobs : /\ Absent(j)' <=> Absent(j)
                    /\ outbox'[j].content = outbox[j].content
                    /\ outbox'[j].previous = outbox[j].previous

LEMMA QuietStep ==
    ASSUME OutboxInv, UNCHANGED unchangedChain, RowsKeepContent
    PROVE  /\ ContractInv' /\ RowsHaveContent' /\ TxsOfJobs'
           /\ Receipts' /\ RegistryMatchesOutbox' /\ AppliedOnce'
           /\ \A k, r : Links(k, r)' = Links(k, r)
<1>1. UNCHANGED contractVars /\ UNCHANGED <<txs, built>>
  BY DEF unchangedChain
<1>2. \A k, r : Links(k, r)' = Links(k, r)
  BY <1>1 DEF contractVars, Links
<1>3. ContractInv'
  BY <1>1, ContractStepPreserves DEF OutboxInv
<1>4. RowsHaveContent'
  BY DEF OutboxInv, RowsHaveContent, RowsKeepContent
<1>5. TxsOfJobs'
  BY <1>1 DEF OutboxInv, TxsOfJobs, RowsKeepContent
<1>6. \A t \in TxIds : txs[t].state = "applied" => txs[t].job \in Jobs
  BY OutboxAssumption DEF OutboxInv, TxsOfJobs, OutboxTypeOK, TxIds
<1>7. Receipts'
  BY <1>1, <1>2, <1>6 DEF OutboxInv, Receipts, RowsKeepContent
<1>8. RegistryMatchesOutbox'
  <2>1. \A a \in anchors : <<a.key, 1>> \in Jobs
    BY RevisionAssumption DEF OutboxInv, ContractInv, ContractTypeOK, AnchorEntry, Jobs, Revs
  <2>2. \A v \in revisions : <<v.key, v.revision>> \in Jobs
    BY RevisionAssumption DEF OutboxInv, ContractInv, ContractTypeOK, RevisionEntry, Jobs, Revs
  <2> QED BY <1>1, <2>1, <2>2 DEF contractVars, OutboxInv, RegistryMatchesOutbox, RowsKeepContent
<1>9. AppliedOnce'
  BY <1>1 DEF OutboxInv, AppliedOnce
<1> QED BY <1>2, <1>3, <1>4, <1>5, <1>7, <1>8, <1>9

\* Such a step of one worker keeps what every other worker holds.
LEMMA OthersKeep ==
    ASSUME OutboxInv, UNCHANGED unchangedChain, RowsKeepContent,
           NEW v \in Workers, worker'[v] = worker[v]
    PROVE  HoldsItsOwn(v)'
BY DEF OutboxInv, WorkersHoldTheirOwn, HoldsItsOwn, RowsKeepContent, unchangedChain

LEMMA GotoIs ==
    ASSUME OutboxInv, NEW w \in Workers, NEW s \in Steps, Goto(w, s)
    PROVE  /\ worker' \in [Workers -> WorkerState]
           /\ worker'[w].step = s
           /\ worker'[w].job = worker[w].job
           /\ worker'[w].tx = worker[w].tx
           /\ \A v \in Workers : v # w => worker'[v] = worker[v]
BY DEF Goto, OutboxInv, OutboxTypeOK, WorkerState

LEMMA ReleaseIs ==
    ASSUME OutboxInv, NEW w \in Workers, Release(w)
    PROVE  /\ worker' \in [Workers -> WorkerState]
           /\ worker'[w] = Idle
           /\ \A v \in Workers : v # w => worker'[v] = worker[v]
BY DEF Release, OutboxInv, OutboxTypeOK, WorkerState, Idle, Steps

\* A worker that moves on to a step that broadcasts nothing and needs nothing,
\* or becomes idle.
LEMMA MovesOn ==
    ASSUME OutboxInv, UNCHANGED unchangedChain, RowsKeepContent, NEW w \in Workers,
           worker[w].step # "idle",
           \/ Release(w)
           \/ \E s \in {"prepare", "defer", "clear", "fail", "report"} : Goto(w, s)
    PROVE  /\ worker' \in [Workers -> WorkerState]
           /\ WorkersHoldTheirOwn' /\ OneBroadcaster'
<1>1. CASE Release(w)
  <2>1. HoldsItsOwn(w)'
    BY <1>1, ReleaseIs DEF HoldsItsOwn, Idle
  <2>2. WorkersHoldTheirOwn'
    BY <1>1, <2>1, ReleaseIs, OthersKeep DEF WorkersHoldTheirOwn
  <2>3. OneBroadcaster'
    BY <1>1, ReleaseIs DEF OutboxInv, OneBroadcaster, Broadcasting, Idle
  <2> QED BY <1>1, <2>2, <2>3, ReleaseIs
<1>2. CASE \E s \in {"prepare", "defer", "clear", "fail", "report"} : Goto(w, s)
  <2>1. PICK s \in {"prepare", "defer", "clear", "fail", "report"} : Goto(w, s)
    BY <1>2
  <2>2. s \in Steps
    BY DEF Steps
  <2>3. HoldsItsOwn(w)'
    BY <2>1, <2>2, GotoIs
    DEF OutboxInv, WorkersHoldTheirOwn, HoldsItsOwn, RowsKeepContent, unchangedChain
  <2>4. WorkersHoldTheirOwn'
    BY <2>1, <2>2, <2>3, GotoIs, OthersKeep DEF WorkersHoldTheirOwn
  <2>5. OneBroadcaster'
    BY <2>1, <2>2, GotoIs DEF OutboxInv, OneBroadcaster, Broadcasting
  <2> QED BY <2>1, <2>2, <2>4, <2>5, GotoIs
<1> QED BY <1>1, <1>2

\* Rows that stay confirmed stay as they are.
ConfirmedRowsKeep ==
    \A j \in Jobs : anchorRow'[j].status = "confirmed" =>
        /\ anchorRow[j].status = "confirmed"
        /\ anchorRow'[j].ledger = anchorRow[j].ledger

HashesKeep ==
    \A j \in Jobs : outbox'[j].hash \in {outbox[j].hash, NoTx}

\* What remains to be shown of such a step.
LEMMA QuietStepPreserves ==
    ASSUME OutboxInv, UNCHANGED unchangedChain, RowsKeepContent,
           outbox' \in [Jobs -> OutboxRow], anchorRow' \in [Jobs -> AnchorRow],
           worker' \in [Workers -> WorkerState], incidents' \subseteq Jobs,
           crashes' \in 0 .. MaxCrashes,
           HashesOfJobs', WorkersHoldTheirOwn', OneBroadcaster', ConfirmedIsAnchored'
    PROVE  OutboxInv'
<1>1. OutboxTypeOK'
  BY QuietStep DEF OutboxInv, OutboxTypeOK, ContractInv, unchangedChain
<1> QED BY <1>1, QuietStep DEF OutboxInv

LEMMA ConfirmedRowsKept ==
    ASSUME OutboxInv, UNCHANGED unchangedChain, RowsKeepContent, ConfirmedRowsKeep
    PROVE  ConfirmedIsAnchored'
BY QuietStep DEF OutboxInv, ConfirmedIsAnchored, RowsKeepContent, ConfirmedRowsKeep

LEMMA HashesKept ==
    ASSUME OutboxInv, UNCHANGED unchangedChain, HashesKeep
    PROVE  HashesOfJobs'
BY DEF OutboxInv, HashesOfJobs, HashesKeep, unchangedChain

LEMMA BusyWorker ==
    ASSUME OutboxInv, NEW w \in Workers, worker[w].step # "idle"
    PROVE  /\ worker[w].job \in Jobs /\ ~Absent(worker[w].job)
           /\ outbox[worker[w].job] \in OutboxRow
           /\ anchorRow[worker[w].job] \in AnchorRow
           /\ worker[w] \in WorkerState
BY DEF OutboxInv, OutboxTypeOK, WorkersHoldTheirOwn, HoldsItsOwn

-------------------------------------------------------------------------------
(***************************************************************************)
(* The API's retry, time and crashes.                                      *)
(***************************************************************************)
LEMMA RetryPreserves ==
    ASSUME OutboxInv, NEW k \in Keys, Retry(k)
    PROVE  OutboxInv'
<1>1. UNCHANGED unchangedChain /\ UNCHANGED <<worker, incidents, crashes>>
  BY DEF Retry, unchangedChain
<1>2. outbox' \in [Jobs -> OutboxRow] /\ anchorRow' \in [Jobs -> AnchorRow]
  <2>1. \A i \in Jobs :
          [outbox[i] EXCEPT !.status = "pending", !.due = TRUE, !.lock = "none"] \in OutboxRow
    BY ZenonT(60) DEF OutboxInv, OutboxTypeOK, OutboxRow, Statuses
  <2>2. \A i \in Jobs : [anchorRow[i] EXCEPT !.status = "pending"] \in AnchorRow
    BY DEF OutboxInv, OutboxTypeOK, AnchorRow, Statuses
  <2> QED BY <2>1, <2>2 DEF Retry, OutboxInv, OutboxTypeOK
<1>3. RowsKeepContent
  BY ZenonT(60) DEF Retry, FailedJobs, RowsKeepContent, Absent, OutboxInv, OutboxTypeOK, OutboxRow
<1>4. ConfirmedRowsKeep
  BY DEF Retry, ConfirmedRowsKeep, OutboxInv, OutboxTypeOK, AnchorRow
<1>5. HashesKeep
  BY DEF Retry, HashesKeep, OutboxInv, OutboxTypeOK, OutboxRow
<1>6. WorkersHoldTheirOwn' /\ OneBroadcaster'
  BY <1>1, <1>3, OthersKeep
  DEF WorkersHoldTheirOwn, OneBroadcaster, Broadcasting, OutboxInv
<1> QED
  BY <1>1, <1>2, <1>3, <1>4, <1>5, <1>6, ConfirmedRowsKept, HashesKept, QuietStepPreserves
  DEF OutboxInv, OutboxTypeOK

LEMMA TimePreserves ==
    ASSUME OutboxInv, NEW j \in Jobs, LockExpires(j) \/ BecomesDue(j)
    PROVE  OutboxInv'
<1>1. UNCHANGED unchangedChain /\ UNCHANGED <<worker, incidents, crashes, anchorRow>>
  BY DEF LockExpires, BecomesDue, unchangedButOutbox, unchangedChain
<1>2. outbox' \in [Jobs -> OutboxRow]
  <2>1. /\ [outbox[j] EXCEPT !.lock = "expired"] \in OutboxRow
        /\ [outbox[j] EXCEPT !.due = TRUE] \in OutboxRow
    BY DEF OutboxInv, OutboxTypeOK, OutboxRow
  <2> QED BY <2>1 DEF LockExpires, BecomesDue, OutboxInv, OutboxTypeOK
<1>3. RowsKeepContent
  BY DEF LockExpires, BecomesDue, RowsKeepContent, Absent, OutboxInv, OutboxTypeOK, OutboxRow
<1>4. ConfirmedRowsKeep
  BY <1>1 DEF ConfirmedRowsKeep
<1>5. HashesKeep
  BY DEF LockExpires, BecomesDue, HashesKeep, OutboxInv, OutboxTypeOK, OutboxRow
<1>6. WorkersHoldTheirOwn' /\ OneBroadcaster'
  BY <1>1, <1>3, OthersKeep
  DEF WorkersHoldTheirOwn, OneBroadcaster, Broadcasting, OutboxInv
<1> QED
  BY <1>1, <1>2, <1>3, <1>4, <1>5, <1>6, ConfirmedRowsKept, HashesKept, QuietStepPreserves
  DEF OutboxInv, OutboxTypeOK

LEMMA CrashPreserves ==
    ASSUME OutboxInv, NEW w \in Workers, Crash(w)
    PROVE  OutboxInv'
<1>1. UNCHANGED unchangedChain /\ UNCHANGED <<outbox, anchorRow, incidents>> /\ Release(w)
  BY DEF Crash
<1>2. crashes' \in 0 .. MaxCrashes
  BY OutboxAssumption DEF Crash, OutboxInv, OutboxTypeOK
<1>3. RowsKeepContent /\ ConfirmedRowsKeep /\ HashesKeep
  BY <1>1 DEF RowsKeepContent, ConfirmedRowsKeep, HashesKeep, Absent
<1>4. /\ worker' \in [Workers -> WorkerState]
      /\ WorkersHoldTheirOwn' /\ OneBroadcaster'
  BY <1>1, <1>3, MovesOn DEF Crash, At
<1> QED
  BY <1>1, <1>2, <1>3, <1>4, ConfirmedRowsKept, HashesKept, QuietStepPreserves
  DEF OutboxInv, OutboxTypeOK

-------------------------------------------------------------------------------
(***************************************************************************)
(* The worker's steps that neither build nor broadcast.                    *)
(***************************************************************************)
LEMMA ClaimPreserves ==
    ASSUME OutboxInv, NEW w \in Workers, Claim(w)
    PROVE  OutboxInv'
<1>1. PICK j \in Jobs :
        /\ Claimable(j)
        /\ outbox' = [outbox EXCEPT ![j].status = "submitting",
                                    ![j].attempts = @ + 1,
                                    ![j].lock = "held"]
        /\ worker' = [worker EXCEPT ![w] =
               [step |-> "mark", job |-> j, attempts |-> outbox[j].attempts + 1,
                tx |-> outbox[j].hash]]
  BY DEF Claim
<1>2. UNCHANGED unchangedChain /\ UNCHANGED <<anchorRow, incidents, crashes>>
  BY DEF Claim
<1>3. outbox[j] \in OutboxRow /\ ~Absent(j)
  BY <1>1 DEF OutboxInv, OutboxTypeOK, Claimable, Absent
<1>4. outbox' \in [Jobs -> OutboxRow]
  BY <1>1, <1>3 DEF OutboxInv, OutboxTypeOK, OutboxRow, Statuses
<1>5. RowsKeepContent /\ HashesKeep
  BY <1>1, <1>3 DEF OutboxInv, OutboxTypeOK, RowsKeepContent, HashesKeep, Absent, OutboxRow
<1>6. ConfirmedRowsKeep
  BY <1>2 DEF ConfirmedRowsKeep
<1>7. worker' \in [Workers -> WorkerState]
  BY <1>1, <1>3 DEF OutboxInv, OutboxTypeOK, OutboxRow, WorkerState, Steps
<1>8. HoldsItsOwn(w)'
  BY <1>1, <1>2, <1>3, <1>5
  DEF OutboxInv, OutboxTypeOK, HashesOfJobs, HoldsItsOwn, RowsKeepContent, unchangedChain
<1>9. WorkersHoldTheirOwn' /\ OneBroadcaster'
  BY <1>1, <1>2, <1>5, <1>8, OthersKeep
  DEF WorkersHoldTheirOwn, OneBroadcaster, Broadcasting, OutboxInv, OutboxTypeOK
<1> QED
  BY <1>2, <1>4, <1>5, <1>6, <1>7, <1>9, ConfirmedRowsKept, HashesKept, QuietStepPreserves
  DEF OutboxInv, OutboxTypeOK

LEMMA MarkPreserves ==
    ASSUME OutboxInv, NEW w \in Workers, Mark(w)
    PROVE  OutboxInv'
<1> DEFINE j == worker[w].job
           s == IF worker[w].tx = NoTx THEN "prepare" ELSE "inspect"
<1>0. worker[w].step # "idle" /\ j \in Jobs /\ anchorRow[j] \in AnchorRow
  BY BusyWorker DEF Mark, At
<1>1. UNCHANGED unchangedChain /\ UNCHANGED <<outbox, incidents, crashes>>
  BY DEF Mark
<1>2. anchorRow' \in [Jobs -> AnchorRow] /\ ConfirmedRowsKeep
  BY <1>0 DEF Mark, OutboxInv, OutboxTypeOK, AnchorRow, Statuses, ConfirmedRowsKeep
<1>3. RowsKeepContent /\ HashesKeep
  BY <1>1 DEF RowsKeepContent, HashesKeep, Absent
<1>4. s \in Steps /\ Goto(w, s)
  BY DEF Mark, Steps
<1>5. HoldsItsOwn(w)'
  BY <1>0, <1>1, <1>3, <1>4, GotoIs
  DEF OutboxInv, WorkersHoldTheirOwn, HoldsItsOwn, RowsKeepContent, unchangedChain
<1>6. worker' \in [Workers -> WorkerState] /\ WorkersHoldTheirOwn' /\ OneBroadcaster'
  BY <1>1, <1>3, <1>4, <1>5, GotoIs, OthersKeep
  DEF WorkersHoldTheirOwn, OneBroadcaster, Broadcasting, OutboxInv
<1> QED
  BY <1>1, <1>2, <1>3, <1>6, ConfirmedRowsKept, HashesKept, QuietStepPreserves
  DEF OutboxInv, OutboxTypeOK

\* Inspect and Poll: the only way to "confirm" is a transaction that succeeded.
LEMMA OutcomePreserves ==
    ASSUME OutboxInv, NEW w \in Workers, Inspect(w) \/ Poll(w)
    PROVE  OutboxInv'
<1>0. worker[w].step \in {"inspect", "poll"}
  BY DEF Inspect, Poll, At
<1>1. UNCHANGED unchangedChain /\ UNCHANGED <<outbox, anchorRow, incidents, crashes>>
  BY DEF Inspect, Poll
<1>2. RowsKeepContent /\ ConfirmedRowsKeep /\ HashesKeep
  BY <1>1 DEF RowsKeepContent, ConfirmedRowsKeep, HashesKeep, Absent
<1>3. /\ worker' \in [Workers -> WorkerState]
      /\ WorkersHoldTheirOwn' /\ OneBroadcaster'
  <2>1. CASE \E s \in {"prepare", "defer", "clear", "fail", "report"} : Goto(w, s)
    BY <1>0, <1>1, <1>2, <2>1, MovesOn
  <2>2. CASE Goto(w, "confirm") /\ txs[worker[w].tx].state = "applied"
    <3>1. "confirm" \in Steps
      BY DEF Steps
    <3>2. HoldsItsOwn(w)'
      BY <1>0, <1>1, <1>2, <2>2, <3>1, GotoIs
      DEF OutboxInv, WorkersHoldTheirOwn, HoldsItsOwn, RowsKeepContent, unchangedChain
    <3> QED
      BY <1>1, <1>2, <2>2, <3>1, <3>2, GotoIs, OthersKeep
      DEF WorkersHoldTheirOwn, OneBroadcaster, Broadcasting, OutboxInv
  <2> QED BY <2>1, <2>2 DEF Inspect, Poll
<1> QED
  BY <1>1, <1>2, <1>3, ConfirmedRowsKept, HashesKept, QuietStepPreserves
  DEF OutboxInv, OutboxTypeOK

LEMMA ConfirmPreserves ==
    ASSUME OutboxInv, NEW w \in Workers, Confirm(w)
    PROVE  OutboxInv'
<1> DEFINE j == worker[w].job
           t == worker[w].tx
<1>0. /\ worker[w].step = "confirm" /\ j \in Jobs /\ ~Absent(j)
      /\ outbox[j] \in OutboxRow /\ anchorRow[j] \in AnchorRow
  BY BusyWorker DEF Confirm, At
<1>1. UNCHANGED unchangedChain /\ UNCHANGED <<incidents, crashes>> /\ Release(w)
  BY DEF Confirm
<1>2. t \in TxIds /\ txs[t].state = "applied" /\ txs[t].job = j /\ txs[t].ledger \in Nat
  BY <1>0 DEF OutboxInv, OutboxTypeOK, WorkersHoldTheirOwn, HoldsItsOwn, WorkerState, Tx
<1>3. outbox' \in [Jobs -> OutboxRow] /\ anchorRow' \in [Jobs -> AnchorRow]
  BY <1>0, <1>2 DEF Confirm, OutboxInv, OutboxTypeOK, OutboxRow, AnchorRow, Statuses
<1>4. RowsKeepContent /\ HashesKeep
  BY <1>0 DEF Confirm, RowsKeepContent, HashesKeep, Absent, OutboxInv, OutboxTypeOK, OutboxRow
<1>5. ConfirmedIsAnchored'
  <2> SUFFICES ASSUME NEW i \in Jobs, anchorRow'[i].status = "confirmed"
               PROVE  \E p \in Links(i[1], i[2])' : /\ p.content = outbox'[i].content
                                                    /\ p.ledger = anchorRow'[i].ledger
    BY DEF ConfirmedIsAnchored
  <2>1. Links(i[1], i[2])' = Links(i[1], i[2]) /\ outbox'[i].content = outbox[i].content
    BY <1>1, <1>4, QuietStep DEF RowsKeepContent
  <2>2. CASE i = j
    <3>1. anchorRow'[i].ledger = txs[t].ledger
      BY <1>0, <2>2 DEF Confirm, OutboxInv, OutboxTypeOK
    <3> QED BY <1>2, <2>1, <2>2, <3>1 DEF OutboxInv, Receipts
  <2>3. CASE i # j
    <3>1. anchorRow'[i] = anchorRow[i]
      BY <2>3 DEF Confirm, OutboxInv, OutboxTypeOK
    <3> QED BY <2>1, <3>1 DEF OutboxInv, ConfirmedIsAnchored
  <2> QED BY <2>2, <2>3
<1>6. /\ worker' \in [Workers -> WorkerState]
      /\ WorkersHoldTheirOwn' /\ OneBroadcaster'
  BY <1>0, <1>1, <1>4, MovesOn
<1> QED
  BY <1>1, <1>3, <1>4, <1>5, <1>6, HashesKept, QuietStepPreserves DEF OutboxInv, OutboxTypeOK

\* Defer, Clear, Fail and Report: the attempt ends without a confirmation.
LEMMA EndOfAttemptPreserves ==
    ASSUME OutboxInv, NEW w \in Workers, Defer(w) \/ Clear(w) \/ Fail(w) \/ Report(w)
    PROVE  OutboxInv'
<1> DEFINE j == worker[w].job
<1>0. /\ worker[w].step # "idle" /\ j \in Jobs /\ ~Absent(j)
      /\ outbox[j] \in OutboxRow /\ anchorRow[j] \in AnchorRow
  BY BusyWorker DEF Defer, Clear, Fail, Report, At
<1>1. UNCHANGED unchangedChain /\ UNCHANGED crashes
  BY DEF Defer, Clear, Fail, Report
<1>2. outbox' \in [Jobs -> OutboxRow] /\ RowsKeepContent /\ HashesKeep
  <2>1. CASE Defer(w)
    <3>1. outbox' \in [Jobs -> OutboxRow]
      <4> DEFINE left == IF outbox[j].attempts = 0 THEN 0 ELSE outbox[j].attempts - 1
                 row == [outbox[j] EXCEPT !.status = "pending", !.due = FALSE, !.lock = "none",
                                          !.attempts = left]
      <4>1. left \in Nat
        BY <1>0 DEF OutboxRow
      <4>2. row \in OutboxRow
        BY <1>0, <4>1 DEF OutboxRow, Statuses
      <4>3. outbox' = [outbox EXCEPT ![j] = row]
        BY <1>0, <2>1 DEF Defer, OutboxInv, OutboxTypeOK
      <4> HIDE DEF row
      <4> QED BY <4>2, <4>3 DEF OutboxInv, OutboxTypeOK
    <3>2. RowsKeepContent
      BY <1>0, <2>1 DEF Defer, OutboxInv, OutboxTypeOK, OutboxRow, RowsKeepContent, Absent
    <3>3. HashesKeep
      BY <1>0, <2>1 DEF Defer, OutboxInv, OutboxTypeOK, OutboxRow, HashesKeep, Absent
    <3> QED BY <3>1, <3>2, <3>3
  <2>2. CASE Clear(w)
    <3>1. outbox' \in [Jobs -> OutboxRow]
      BY <1>0, <2>2 DEF Clear, OutboxInv, OutboxTypeOK, OutboxRow, Statuses
    <3>2. RowsKeepContent
      BY <1>0, <2>2 DEF Clear, OutboxInv, OutboxTypeOK, OutboxRow, RowsKeepContent, Absent
    <3>3. HashesKeep
      BY <1>0, <2>2 DEF Clear, OutboxInv, OutboxTypeOK, OutboxRow, HashesKeep, Absent
    <3> QED BY <3>1, <3>2, <3>3
  <2>3. CASE Fail(w)
    <3>1. outbox' \in [Jobs -> OutboxRow]
      BY <1>0, <2>3 DEF Fail, OutboxInv, OutboxTypeOK, OutboxRow, Statuses
    <3>2. RowsKeepContent
      BY <1>0, <2>3 DEF Fail, OutboxInv, OutboxTypeOK, OutboxRow, RowsKeepContent, Absent
    <3>3. HashesKeep
      BY <1>0, <2>3 DEF Fail, OutboxInv, OutboxTypeOK, OutboxRow, HashesKeep, Absent
    <3> QED BY <3>1, <3>2, <3>3
  <2>4. CASE Report(w)
    BY <2>4 DEF Report, OutboxInv, OutboxTypeOK, RowsKeepContent, HashesKeep, Absent
  <2> QED BY <2>1, <2>2, <2>3, <2>4
<1>3. anchorRow' \in [Jobs -> AnchorRow] /\ ConfirmedRowsKeep
  <2>1. CASE UNCHANGED anchorRow
    BY <2>1 DEF OutboxInv, OutboxTypeOK, ConfirmedRowsKeep
  <2>2. CASE Clear(w)
    BY <1>0, <2>2 DEF Clear, OutboxInv, OutboxTypeOK, AnchorRow, ConfirmedRowsKeep
  <2>3. CASE Fail(w)
    <3>1. PICK status \in {"failed", "pending"} :
             anchorRow' = [anchorRow EXCEPT ![j].status = status]
      BY <2>3 DEF Fail
    <3> QED BY <1>0, <3>1 DEF OutboxInv, OutboxTypeOK, AnchorRow, Statuses, ConfirmedRowsKeep
  <2> QED BY <2>1, <2>2, <2>3 DEF Defer, Report
<1>4. incidents' \subseteq Jobs
  BY <1>0 DEF Defer, Clear, Fail, Report, OutboxInv, OutboxTypeOK
<1>5. /\ worker' \in [Workers -> WorkerState]
      /\ WorkersHoldTheirOwn' /\ OneBroadcaster'
  <2>1. \/ Release(w)
        \/ \E s \in {"prepare", "defer", "clear", "fail", "report"} : Goto(w, s)
    BY DEF Defer, Clear, Fail, Report
  <2> QED BY <1>0, <1>1, <1>2, <2>1, MovesOn
<1> QED
  BY <1>1, <1>2, <1>3, <1>4, <1>5, ConfirmedRowsKept, HashesKept, QuietStepPreserves
  DEF OutboxInv, OutboxTypeOK

\* Persist: the row takes over the hash the worker built for it.
LEMMA PersistPreserves ==
    ASSUME OutboxInv, NEW w \in Workers, Persist(w)
    PROVE  OutboxInv'
<1> DEFINE j == worker[w].job
           t == worker[w].tx
<1>0. /\ worker[w].step = "persist" /\ j \in Jobs /\ ~Absent(j)
      /\ outbox[j] \in OutboxRow /\ anchorRow[j] \in AnchorRow
  BY BusyWorker DEF Persist, At
<1>1. UNCHANGED unchangedChain /\ UNCHANGED <<incidents, crashes>>
  BY DEF Persist
<1>2. t \in TxIds /\ t <= built /\ txs[t].job = j
  BY <1>0 DEF OutboxInv, OutboxTypeOK, WorkersHoldTheirOwn, HoldsItsOwn, WorkerState
<1>3. outbox' = [outbox EXCEPT ![j].hash = t, ![j].status = "submitting"]
  BY DEF Persist
<1>4. outbox' \in [Jobs -> OutboxRow] /\ RowsKeepContent
  BY <1>0, <1>2, <1>3 DEF OutboxInv, OutboxTypeOK, OutboxRow, Statuses, RowsKeepContent, Absent
<1>5. anchorRow' \in [Jobs -> AnchorRow] /\ ConfirmedRowsKeep
  BY <1>0, <1>2 DEF Persist, OutboxInv, OutboxTypeOK, AnchorRow, Statuses, ConfirmedRowsKeep
<1>6. HashesOfJobs'
  BY <1>0, <1>1, <1>2, <1>3
  DEF OutboxInv, OutboxTypeOK, OutboxRow, HashesOfJobs, unchangedChain
<1>7. "send" \in Steps /\ Goto(w, "send")
  BY DEF Persist, Steps
<1>8. HoldsItsOwn(w)'
  BY <1>0, <1>1, <1>4, <1>7, GotoIs
  DEF OutboxInv, WorkersHoldTheirOwn, HoldsItsOwn, RowsKeepContent, unchangedChain
<1>9. worker' \in [Workers -> WorkerState] /\ WorkersHoldTheirOwn' /\ OneBroadcaster'
  BY <1>0, <1>1, <1>4, <1>7, <1>8, GotoIs, OthersKeep
  DEF WorkersHoldTheirOwn, OneBroadcaster, Broadcasting, OutboxInv
<1> QED
  BY <1>1, <1>4, <1>5, <1>6, <1>9, ConfirmedRowsKept, QuietStepPreserves
  DEF OutboxInv, OutboxTypeOK

-------------------------------------------------------------------------------
(***************************************************************************)
(* Steps that change transactions and leave rows and records alone.        *)
(***************************************************************************)
TxsKeep ==
    \A t \in TxIds :
        /\ txs'[t].state = "none" <=> txs[t].state = "none"
        /\ txs'[t].state = "applied" <=> txs[t].state = "applied"
        /\ txs'[t].job = txs[t].job
        /\ txs[t].state = "applied" => txs'[t].ledger = txs[t].ledger

LEMMA TxStepPreserves ==
    ASSUME OutboxInv, UNCHANGED <<outbox, anchorRow, incidents, crashes, built>>,
           UNCHANGED <<anchors, revisions>>, ContractInv',
           TxsKeep, txs' \in [TxIds -> Tx], accountSeq' \in Nat,
           worker' \in [Workers -> WorkerState],
           WorkersHoldTheirOwn', OneBroadcaster'
    PROVE  OutboxInv'
<1>1. OutboxTypeOK'
  BY DEF OutboxInv, OutboxTypeOK, ContractInv
<1>2. \A k, r : Links(k, r)' = Links(k, r)
  BY DEF Links
<1>3. RowsHaveContent' /\ ConfirmedIsAnchored' /\ RegistryMatchesOutbox'
  BY <1>2 DEF OutboxInv, RowsHaveContent, Absent, ConfirmedIsAnchored, RegistryMatchesOutbox
<1>4. TxsOfJobs'
  BY DEF OutboxInv, TxsOfJobs, TxsKeep, Absent
<1>5. HashesOfJobs'
  BY DEF OutboxInv, OutboxTypeOK, OutboxRow, HashesOfJobs, TxsKeep, NoTx
<1>6. Receipts'
  BY <1>2 DEF OutboxInv, Receipts, TxsKeep
<1>7. AppliedOnce'
  BY DEF OutboxInv, AppliedOnce, TxsKeep
<1> QED BY <1>1, <1>3, <1>4, <1>5, <1>6, <1>7 DEF OutboxInv

LEMMA SameContract == OutboxInv /\ UNCHANGED contractVars => ContractInv'
BY ContractStepPreserves DEF OutboxInv

LEMMA SendPreserves ==
    ASSUME OutboxInv, NEW w \in Workers, Send(w)
    PROVE  OutboxInv'
<1> DEFINE t == worker[w].tx
<1>0. worker[w].step = "send"
  BY DEF Send, At
<1>1. /\ UNCHANGED <<outbox, anchorRow, incidents, crashes, built, accountSeq>>
      /\ UNCHANGED contractVars
  BY DEF Send
<1>2. t \in TxIds /\ t <= built /\ txs[t].state = "built" /\ txs[t] \in Tx
  BY <1>0 DEF OutboxInv, OutboxTypeOK, WorkersHoldTheirOwn, HoldsItsOwn, WorkerState
<1>3. txs' = [txs EXCEPT ![t].state = "sent"] \/ txs' = txs
  BY DEF Send
<1>4. txs' \in [TxIds -> Tx] /\ TxsKeep
  BY <1>2, <1>3 DEF OutboxInv, OutboxTypeOK, Tx, TxStates, TxsKeep
<1>5. PICK s \in {"poll", "defer", "clear"} : Goto(w, s)
  BY DEF Send
<1>6. s \in Steps
  BY DEF Steps
<1>7. HoldsItsOwn(w)'
  BY <1>0, <1>1, <1>2, <1>4, <1>5, <1>6, GotoIs
  DEF OutboxInv, WorkersHoldTheirOwn, HoldsItsOwn, TxsKeep, Absent
<1>8. ASSUME NEW v \in Workers, v # w
      PROVE  HoldsItsOwn(v)'
  <2>1. worker'[v] = worker[v] /\ worker[v] \in WorkerState
    BY <1>5, <1>6, <1>8, GotoIs DEF OutboxInv, OutboxTypeOK
  <2>2. worker[v].step \in {"persist", "send"} => worker[v].tx # t
    BY <1>0, <1>8 DEF OutboxInv, OneBroadcaster, Broadcasting
  <2>3. worker[v].tx \in TxIds /\ worker[v].tx # t => txs'[worker[v].tx] = txs[worker[v].tx]
    BY <1>3, <1>2 DEF OutboxInv, OutboxTypeOK
  <2>4. HoldsItsOwn(v) /\ worker[v].tx \in TxIds \cup {NoTx}
    BY <2>1 DEF OutboxInv, WorkersHoldTheirOwn, WorkerState
  <2>5. worker[v].tx # NoTx => /\ txs'[worker[v].tx].job = txs[worker[v].tx].job
                               /\ txs[worker[v].tx].state = "applied" =>
                                      txs'[worker[v].tx].state = "applied"
    BY <1>4, <2>4 DEF TxsKeep
  <2> QED
    BY <1>1, <2>1, <2>2, <2>3, <2>4, <2>5 DEF HoldsItsOwn, Absent
<1>9. worker' \in [Workers -> WorkerState] /\ WorkersHoldTheirOwn' /\ OneBroadcaster'
  BY <1>5, <1>6, <1>7, <1>8, GotoIs
  DEF WorkersHoldTheirOwn, OneBroadcaster, Broadcasting, OutboxInv
<1> QED
  BY <1>1, <1>4, <1>9, SameContract, TxStepPreserves
  DEF OutboxInv, OutboxTypeOK, contractVars

\* Settle and Reject: no worker is affected.
LEMMA WorkersUnaffected ==
    ASSUME OutboxInv, UNCHANGED <<outbox, worker, built>>, TxsKeep,
           \A t \in TxIds : txs[t].state = "built" => txs'[t].state = "built"
    PROVE  /\ worker' \in [Workers -> WorkerState]
           /\ WorkersHoldTheirOwn' /\ OneBroadcaster'
BY DEF OutboxInv, OutboxTypeOK, WorkersHoldTheirOwn, HoldsItsOwn, OneBroadcaster, Broadcasting,
       TxsKeep, Absent, WorkerState, NoTx

LEMMA SettlePreserves ==
    ASSUME OutboxInv, NEW t \in TxIds, Settle(t)
    PROVE  OutboxInv'
<1>1. /\ UNCHANGED <<outbox, anchorRow, worker, built, accountSeq, incidents, crashes>>
      /\ UNCHANGED contractVars
  BY DEF Settle
<1>2. /\ txs' \in [TxIds -> Tx] /\ TxsKeep
      /\ \A u \in TxIds : txs[u].state = "built" => txs'[u].state = "built"
  BY DEF Settle, OutboxInv, OutboxTypeOK, Tx, TxsKeep
<1> QED
  BY <1>1, <1>2, WorkersUnaffected, SameContract, TxStepPreserves
  DEF OutboxInv, OutboxTypeOK, contractVars

LEMMA RejectPreserves ==
    ASSUME OutboxInv, NEW t \in TxIds, Reject(t)
    PROVE  OutboxInv'
<1>1. /\ UNCHANGED <<outbox, anchorRow, worker, built, incidents, crashes>>
      /\ UNCHANGED <<anchors, revisions>>
      /\ accountSeq' \in Nat
  BY DEF Reject, Included, CloseLedger, OutboxInv, OutboxTypeOK
<1>2. NextLedger \in {ledger, ledger + 1} /\ NextLedger \in Nat
  BY DEF NextLedger, OutboxInv, ContractInv, ContractTypeOK
<1>3. ContractInv'
  <2>1. Invocation(NextLedger)
    BY DEF Reject, Invocation
  <2> QED BY <1>2, <2>1, InvocationPreserves DEF OutboxInv
<1>4. txs[t].state = "sent" /\ txs[t] \in Tx
  BY DEF Reject, Includable, OutboxInv, OutboxTypeOK
<1>5. txs' = [txs EXCEPT ![t].state = "rejected", ![t].ledger = NextLedger]
  BY DEF Reject, Included
<1>6. /\ txs' \in [TxIds -> Tx] /\ TxsKeep
      /\ \A u \in TxIds : txs[u].state = "built" => txs'[u].state = "built"
  BY <1>2, <1>4, <1>5 DEF OutboxInv, OutboxTypeOK, Tx, TxStates, TxsKeep
<1> QED
  BY <1>1, <1>3, <1>6, WorkersUnaffected, TxStepPreserves

-------------------------------------------------------------------------------
(***************************************************************************)
(* Building a transaction, applying one, and a new row.                    *)
(***************************************************************************)
LEMMA PreparePreserves ==
    ASSUME OutboxInv, NEW w \in Workers, Prepare(w)
    PROVE  OutboxInv'
<1> DEFINE j == worker[w].job
           t == built + 1
<1>0. worker[w].step = "prepare" /\ j \in Jobs /\ ~Absent(j) /\ worker[w] \in WorkerState
  BY BusyWorker DEF Prepare, At
<1>1. /\ UNCHANGED <<outbox, anchorRow, incidents, crashes, accountSeq>>
      /\ UNCHANGED contractVars
  BY DEF Prepare
<1>2. CASE Goto(w, "fail") /\ UNCHANGED <<built, txs>>
  <2>1. UNCHANGED unchangedChain
    BY <1>1, <1>2 DEF unchangedChain
  <2>2. RowsKeepContent /\ ConfirmedRowsKeep /\ HashesKeep
    BY <1>1 DEF RowsKeepContent, ConfirmedRowsKeep, HashesKeep, Absent
  <2>3. /\ worker' \in [Workers -> WorkerState]
        /\ WorkersHoldTheirOwn' /\ OneBroadcaster'
    BY <1>0, <1>2, <2>1, <2>2, MovesOn
  <2> QED
    BY <1>1, <2>1, <2>2, <2>3, ConfirmedRowsKept, HashesKept, QuietStepPreserves
    DEF OutboxInv, OutboxTypeOK
<1>3. CASE /\ built < MaxTx
           /\ built' = t
           /\ txs' = [txs EXCEPT ![t] =
                  [job |-> j, seq |-> accountSeq + 1, state |-> "built",
                   settled |-> FALSE, ledger |-> 0]]
           /\ worker' = [worker EXCEPT ![w].step = "persist", ![w].tx = t]
  <2>1. /\ t \in TxIds /\ built \in Nat /\ txs[t].state = "none"
        /\ t # NoTx /\ built' \in 0 .. MaxTx
    BY <1>3, OutboxAssumption DEF OutboxInv, OutboxTypeOK, TxsOfJobs, TxIds, NoTx
  <2>2. txs' \in [TxIds -> Tx]
    BY <1>0, <1>3, <2>1 DEF OutboxInv, OutboxTypeOK, Tx, TxStates
  <2>3. worker' \in [Workers -> WorkerState]
    BY <1>3, <2>1, ZenonT(60) DEF OutboxInv, OutboxTypeOK, WorkerState, Steps
  <2>4. /\ txs'[t].job = j /\ txs'[t].state = "built"
        /\ \A u \in TxIds : u # t => txs'[u] = txs[u]
    BY <1>3, <2>1 DEF OutboxInv, OutboxTypeOK
  <2>5. OutboxTypeOK'
    BY <1>1, <2>1, <2>2, <2>3, SameContract DEF OutboxInv, OutboxTypeOK, ContractInv
  <2>6. \A k, r : Links(k, r)' = Links(k, r)
    BY <1>1 DEF Links, contractVars
  <2>7. RowsHaveContent' /\ ConfirmedIsAnchored' /\ RegistryMatchesOutbox'
    BY <1>1, <2>6
    DEF OutboxInv, RowsHaveContent, Absent, ConfirmedIsAnchored, RegistryMatchesOutbox, contractVars
  <2>8. TxsOfJobs'
    BY <1>0, <1>1, <1>3, <2>1, <2>4 DEF OutboxInv, TxsOfJobs, TxIds, Absent
  <2>9. HashesOfJobs'
    <3> SUFFICES ASSUME NEW i \in Jobs, outbox[i].hash # NoTx
                 PROVE  outbox[i].hash <= t /\ txs'[outbox[i].hash].job = i
      BY <1>1, <1>3 DEF HashesOfJobs
    <3>1. outbox[i].hash \in TxIds /\ outbox[i].hash <= built /\ txs[outbox[i].hash].job = i
      BY DEF OutboxInv, OutboxTypeOK, OutboxRow, HashesOfJobs
    <3> QED BY <2>1, <2>4, <3>1 DEF TxIds
  <2>10. Receipts' /\ AppliedOnce'
    <3>1. \A u \in TxIds : txs'[u].state = "applied" => u # t /\ txs'[u] = txs[u]
      BY <2>4
    <3> QED BY <1>1, <2>6, <3>1 DEF OutboxInv, Receipts, AppliedOnce
  <2>11. /\ worker'[w].step = "persist" /\ worker'[w].tx = t /\ worker'[w].job = j
         /\ \A v \in Workers : v # w => worker'[v] = worker[v]
    BY <1>3 DEF OutboxInv, OutboxTypeOK, WorkerState
  <2>12. ASSUME NEW v \in Workers
         PROVE  worker[v].tx # NoTx => /\ worker[v].tx <= built
                                       /\ worker[v].tx # t
                                       /\ txs'[worker[v].tx] = txs[worker[v].tx]
    <3>1. worker[v].tx \in TxIds \cup {NoTx} /\ (worker[v].tx # NoTx => worker[v].tx <= built)
      BY DEF OutboxInv, OutboxTypeOK, WorkersHoldTheirOwn, HoldsItsOwn, WorkerState
    <3> QED BY <2>1, <2>4, <3>1 DEF TxIds
  <2>13. WorkersHoldTheirOwn'
    <3>1. HoldsItsOwn(w)'
      BY <1>0, <1>1, <1>3, <2>1, <2>4, <2>11 DEF HoldsItsOwn, Absent
    <3>2. ASSUME NEW v \in Workers, v # w
          PROVE  HoldsItsOwn(v)'
      <4>1. HoldsItsOwn(v) /\ worker'[v] = worker[v]
        BY <2>11, <3>2 DEF OutboxInv, WorkersHoldTheirOwn
      <4>2. worker[v].tx # NoTx => worker[v].tx <= t
        <5>1. worker[v].tx \in TxIds \cup {NoTx}
          BY DEF OutboxInv, OutboxTypeOK, WorkerState
        <5> QED BY <2>1, <2>12, <5>1 DEF TxIds
      <4> QED BY <1>1, <1>3, <2>12, <4>1, <4>2 DEF HoldsItsOwn, Absent
    <3> QED BY <3>1, <3>2 DEF WorkersHoldTheirOwn
  <2>14. OneBroadcaster'
    <3>1. \A v \in Workers : v # w /\ Broadcasting(v) => worker[v].tx # t
      BY <2>12 DEF OutboxInv, WorkersHoldTheirOwn, HoldsItsOwn, Broadcasting
    <3> QED BY <2>11, <3>1 DEF OutboxInv, OneBroadcaster, Broadcasting
  <2> QED
    BY <1>1, <2>5, <2>7, <2>8, <2>9, <2>10, <2>13, <2>14, SameContract DEF OutboxInv
<1> QED BY <1>2, <1>3 DEF Prepare

LEMMA ApplyPreserves ==
    ASSUME OutboxInv, NEW t \in TxIds, Apply(t)
    PROVE  OutboxInv'
<1>j. /\ txs[t].state = "sent" /\ txs[t] \in Tx
      /\ txs[t].job \in Jobs /\ ~Absent(txs[t].job)
      /\ outbox[txs[t].job].content \in Hashes
  <2>1. txs[t].state = "sent" /\ txs[t] \in Tx
    BY DEF Apply, Includable, OutboxInv, OutboxTypeOK
  <2>2. t <= built
    BY <2>1, OutboxAssumption DEF OutboxInv, OutboxTypeOK, TxsOfJobs, TxIds
  <2> QED
    BY <2>1, <2>2 DEF OutboxInv, OutboxTypeOK, OutboxRow, TxsOfJobs, RowsHaveContent
<1>0. PICK j \in Jobs : /\ j = txs[t].job /\ txs[t].state = "sent" /\ txs[t] \in Tx
                        /\ ~Absent(j) /\ outbox[j].content \in Hashes
  BY <1>j
<1>1. /\ UNCHANGED <<outbox, anchorRow, worker, built, incidents, crashes>>
      /\ accountSeq' \in Nat
      /\ txs' = [txs EXCEPT ![t].state = "applied", ![t].ledger = NextLedger]
  BY DEF Apply, Included, OutboxInv, OutboxTypeOK
<1>2. /\ NextLedger \in {ledger, ledger + 1} /\ NextLedger \in Nat
      /\ writer \in Addresses
  BY DEF NextLedger, OutboxInv, ContractInv, ContractTypeOK
<1>3. /\ ContractInv'
      /\ Links(j[1], j[2]) = {}
      /\ \A k, r : ~(k = j[1] /\ r = j[2]) => Links(k, r)' = Links(k, r)
      /\ \E p \in Links(j[1], j[2])' : p.content = outbox[j].content /\ p.ledger = NextLedger
      /\ RegistryMatchesOutbox'
  <2>0. j[1] \in Keys /\ j[2] \in RevisionArgs /\ j[2] \in Nat /\ j[2] >= 1 /\ j = <<j[1], j[2]>>
    BY <1>0, JobType DEF RevisionArgs
  <2>1. CASE j[2] = 1
    <3> DEFINE new == [key |-> j[1], revision |-> 1, content |-> outbox[j].content,
                       schema |-> 1, ledger |-> NextLedger]
    <3>1. anchor(writer, j[1], 1, outbox[j].content, 1, NextLedger)
      BY <1>0, <2>1 DEF Apply
    <3>2. 1 \in RevisionArgs /\ 1 \in SchemaArgs
      BY RevisionAssumption DEF RevisionArgs, SchemaArgs
    <3>3. ContractInv'
      BY <1>0, <1>2, <2>0, <3>1, <3>2, AnchorPreserves DEF OutboxInv
    <3>4. anchors' = anchors \cup {new} /\ revisions' = revisions /\ ~HasAnchor(j[1], 1)
      BY <3>1 DEF anchor, AnchorAccepted
    <3>5. Links(j[1], j[2]) = {}
      BY <2>1, <3>4 DEF Links, HasAnchor
    <3>6. \A k, r : Links(k, r)' = IF k = j[1] /\ r = 1 THEN Links(k, r) \cup {new} ELSE Links(k, r)
      BY <3>4 DEF Links
    <3>7. new \in Links(j[1], j[2])' /\ new.content = outbox[j].content /\ new.ledger = NextLedger
      BY <2>1, <3>6
    <3>8. RegistryMatchesOutbox'
      BY <1>1, <2>0, <2>1, <3>4 DEF OutboxInv, RegistryMatchesOutbox
    <3> QED BY <2>1, <3>3, <3>5, <3>6, <3>7, <3>8
  <2>2. CASE j[2] # 1
    <3> DEFINE prev == outbox[j].previous
               new == [key |-> j[1], revision |-> j[2], content |-> outbox[j].content,
                       previous |-> prev, schema |-> 1, kind |-> 0, ledger |-> NextLedger]
    <3>1. anchor_revision(writer, j[1], j[2], outbox[j].content, prev, 1, 0, NextLedger)
      BY <1>0, <2>2 DEF Apply
    <3>2. 1 \in SchemaArgs /\ 0 \in Kinds
      BY OutboxAssumption DEF SchemaArgs
    <3>3. prev \in Hashes
      <4>1. PICK p \in Links(j[1], j[2] - 1) : p.content = prev
        BY <3>1 DEF anchor_revision, RevisionAccepted
      <4> QED BY <4>1 DEF Links, OutboxInv, ContractInv, ContractTypeOK, AnchorEntry, RevisionEntry
    <3>4. ContractInv'
      BY <1>0, <1>2, <2>0, <3>1, <3>2, <3>3, RevisionPreserves DEF OutboxInv
    <3>5. anchors' = anchors /\ revisions' = revisions \cup {new} /\ ~HasRevision(j[1], j[2])
      BY <3>1 DEF anchor_revision, RevisionAccepted
    <3>6. Links(j[1], j[2]) = {}
      BY <2>2, <3>5 DEF Links, HasRevision
    <3>7. \A k, r : Links(k, r)' =
             IF k = j[1] /\ r = j[2] THEN Links(k, r) \cup {new} ELSE Links(k, r)
      BY <2>0, <2>2, <3>5 DEF Links
    <3>8. new \in Links(j[1], j[2])' /\ new.content = outbox[j].content /\ new.ledger = NextLedger
      BY <3>7
    <3>9. RegistryMatchesOutbox'
      <4>1. j[2] \in Revs
        BY <1>0, JobType
      <4> QED BY <1>1, <2>0, <3>5, <4>1 DEF OutboxInv, RegistryMatchesOutbox
    <3> QED BY <3>4, <3>6, <3>7, <3>8, <3>9
  <2> QED BY <2>1, <2>2
<1>4. txs' \in [TxIds -> Tx]
  BY <1>0, <1>1, <1>2 DEF OutboxInv, OutboxTypeOK, Tx, TxStates
<1>5. /\ txs'[t].state = "applied" /\ txs'[t].job = j /\ txs'[t].ledger = NextLedger
      /\ \A u \in TxIds : u # t => txs'[u] = txs[u]
  BY <1>0, <1>1 DEF OutboxInv, OutboxTypeOK, Tx
<1>6. OutboxTypeOK'
  BY <1>1, <1>3, <1>4 DEF OutboxInv, OutboxTypeOK, ContractInv
<1>7. \A k, r : Links(k, r) \subseteq Links(k, r)'
  BY <1>3
<1>8. RowsHaveContent'
  BY <1>1 DEF OutboxInv, RowsHaveContent, Absent
<1>9. TxsOfJobs'
  BY <1>0, <1>1, <1>5 DEF OutboxInv, TxsOfJobs, Absent
<1>10. HashesOfJobs'
  BY <1>1, <1>5 DEF OutboxInv, OutboxTypeOK, OutboxRow, HashesOfJobs
<1>11. WorkersHoldTheirOwn'
  <2> SUFFICES ASSUME NEW v \in Workers PROVE HoldsItsOwn(v)'
    BY DEF WorkersHoldTheirOwn
  <2>1. HoldsItsOwn(v) /\ worker[v].tx \in TxIds \cup {NoTx}
    BY DEF OutboxInv, OutboxTypeOK, WorkersHoldTheirOwn, WorkerState
  <2>2. worker[v].tx # NoTx =>
          /\ txs'[worker[v].tx].job = txs[worker[v].tx].job
          /\ txs[worker[v].tx].state \in {"built", "applied"} =>
                txs'[worker[v].tx].state = txs[worker[v].tx].state
    BY <1>0, <1>5, <2>1
  <2> QED BY <1>1, <2>1, <2>2 DEF HoldsItsOwn, Absent
<1>12. OneBroadcaster'
  BY <1>1 DEF OutboxInv, OneBroadcaster, Broadcasting
<1>13. Receipts'
  <2>1. ASSUME NEW u \in TxIds, txs'[u].state = "applied", NEW i, i = txs[u].job
        PROVE  \E p \in Links(i[1], i[2])' : /\ p.content = outbox[i].content
                                             /\ p.ledger = txs'[u].ledger
    <3>1. CASE u = t
      BY <1>0, <1>3, <1>5, <2>1, <3>1
    <3>2. CASE u # t
      BY <1>5, <1>7, <2>1, <3>2 DEF OutboxInv, Receipts
    <3> QED BY <3>1, <3>2
  <2>2. \A u \in TxIds : txs'[u].job = txs[u].job
    BY <1>0, <1>5
  <2> QED BY <1>1, <2>1, <2>2, ZenonT(60) DEF Receipts, Links
<1>14. ConfirmedIsAnchored'
  BY <1>1, <1>7 DEF OutboxInv, ConfirmedIsAnchored
<1>15. AppliedOnce'
  <2>1. \A u \in TxIds : txs[u].state = "applied" => txs[u].job # j
    BY <1>3 DEF OutboxInv, Receipts
  <2> QED BY <1>5, <2>1 DEF OutboxInv, AppliedOnce
<1> QED
  BY <1>3, <1>6, <1>8, <1>9, <1>10, <1>11, <1>12, <1>13, <1>14, <1>15 DEF OutboxInv

LEMMA EnqueuePreserves ==
    ASSUME OutboxInv, NEW j \in Jobs, NEW h \in Hashes, Enqueue(j, h)
    PROVE  OutboxInv'
<1> DEFINE n == Cardinality({i \in Jobs : ~Absent(i)})
           row == [status |-> "pending", attempts |-> 0, hash |-> NoTx, lock |-> "none",
                   due |-> TRUE, content |-> h,
                   previous |-> IF j[2] = 1 THEN NoHash ELSE outbox[Prev(j)].content,
                   createdAt |-> n]
<1>1. /\ UNCHANGED <<worker, txs, built, accountSeq, incidents, crashes>>
      /\ UNCHANGED contractVars
      /\ Absent(j)
      /\ outbox' = [outbox EXCEPT ![j] = row]
      /\ anchorRow' = [anchorRow EXCEPT ![j].status = "pending"]
  BY DEF Enqueue
<1>2. n \in Nat
  <2>1. IsFiniteSet(Revs)
    BY RevisionAssumption, FS_Interval DEF Revs
  <2>2. IsFiniteSet(Jobs)
    BY <2>1, OutboxAssumption, FS_Product DEF Jobs
  <2>3. IsFiniteSet({i \in Jobs : ~Absent(i)})
    BY <2>2, FS_Subset
  <2> QED BY <2>3, FS_CardinalityType
<1> HIDE DEF n
<1>3. row \in OutboxRow
  <2>1. j[2] # 1 => outbox[Prev(j)].content \in Hashes \cup {NoHash}
    BY JobType DEF OutboxInv, OutboxTypeOK, OutboxRow
  <2> QED BY <1>2, <2>1 DEF OutboxRow, Statuses
<1>4. /\ outbox'[j] = row
      /\ \A i \in Jobs : i # j => outbox'[i] = outbox[i]
      /\ anchorRow'[j].status = "pending"
      /\ \A i \in Jobs : i # j => anchorRow'[i] = anchorRow[i]
  BY <1>1 DEF OutboxInv, OutboxTypeOK, AnchorRow
<1>5. outbox' \in [Jobs -> OutboxRow] /\ anchorRow' \in [Jobs -> AnchorRow]
  BY <1>1, <1>3 DEF OutboxInv, OutboxTypeOK, AnchorRow, Statuses
<1>6. ContractInv' /\ \A k, r : Links(k, r)' = Links(k, r)
  BY <1>1, SameContract DEF Links, contractVars
<1>7. OutboxTypeOK'
  BY <1>1, <1>5, <1>6 DEF OutboxInv, OutboxTypeOK, ContractInv
<1>8. ~Absent(j)' /\ (\A i \in Jobs : i # j => (Absent(i)' <=> Absent(i)))
  BY <1>4 DEF Absent
<1>9. RowsHaveContent'
  BY <1>4, <1>8, OutboxAssumption DEF OutboxInv, RowsHaveContent
<1>10. TxsOfJobs'
  BY <1>1, <1>8 DEF OutboxInv, TxsOfJobs
<1>11. HashesOfJobs'
  BY <1>1, <1>4 DEF OutboxInv, HashesOfJobs
<1>12. WorkersHoldTheirOwn' /\ OneBroadcaster'
  BY <1>1, <1>8
  DEF OutboxInv, WorkersHoldTheirOwn, HoldsItsOwn, OneBroadcaster, Broadcasting
<1>13. outbox[j].content = NoHash /\ NoHash \notin Hashes
  BY <1>1, OutboxAssumption DEF OutboxInv, RowsHaveContent
<1>14. Receipts' /\ AppliedOnce'
  <2>1. \A t \in TxIds : txs[t].state = "applied" => txs[t].job \in Jobs /\ txs[t].job # j
    BY <1>1, OutboxAssumption, SMTT(30) DEF OutboxInv, OutboxTypeOK, TxsOfJobs, TxIds
  <2> QED BY <1>1, <1>4, <1>6, <2>1 DEF OutboxInv, Receipts, AppliedOnce
<1>15. RegistryMatchesOutbox'
  <2>1. UNCHANGED <<anchors, revisions>>
    BY <1>1 DEF contractVars
  <2>2. \A a \in anchors : <<a.key, 1>> \in Jobs /\ <<a.key, 1>> # j
    BY <1>13, RevisionAssumption
    DEF OutboxInv, RegistryMatchesOutbox, ContractInv, ContractTypeOK, AnchorEntry, Jobs, Revs
  <2>3. \A v \in revisions : <<v.key, v.revision>> \in Jobs /\ <<v.key, v.revision>> # j
    BY <1>13, RevisionAssumption, ZenonT(60)
    DEF OutboxInv, RegistryMatchesOutbox, ContractInv, ContractTypeOK, RevisionEntry, Jobs, Revs
  <2> QED BY <1>4, <2>1, <2>2, <2>3 DEF OutboxInv, RegistryMatchesOutbox
<1>16. ConfirmedIsAnchored'
  BY <1>4, <1>6 DEF OutboxInv, ConfirmedIsAnchored
<1> QED
  BY <1>6, <1>7, <1>9, <1>10, <1>11, <1>12, <1>14, <1>15, <1>16 DEF OutboxInv

-------------------------------------------------------------------------------
LEMMA OutboxStepPreserves == OutboxInv /\ [Next]_vars => OutboxInv'
<1> SUFFICES ASSUME OutboxInv, [Next]_vars PROVE OutboxInv'
  OBVIOUS
<1>1. ASSUME NEW w \in Workers, WorkerStep(w)
      PROVE  OutboxInv'
  BY <1>1, ClaimPreserves, MarkPreserves, OutcomePreserves, PreparePreserves,
     PersistPreserves, SendPreserves, ConfirmPreserves, EndOfAttemptPreserves DEF WorkerStep
<1>2. CASE Next
  BY <1>1, <1>2, EnqueuePreserves, RetryPreserves, CrashPreserves, TimePreserves,
     SettlePreserves, RejectPreserves, ApplyPreserves DEF Next
<1>3. CASE UNCHANGED vars
  <2>1. UNCHANGED unchangedChain /\ UNCHANGED <<outbox, anchorRow, worker, incidents, crashes>>
    BY <1>3 DEF vars, outboxVars, unchangedChain
  <2>2. RowsKeepContent /\ ConfirmedRowsKeep /\ HashesKeep
    BY <2>1 DEF RowsKeepContent, ConfirmedRowsKeep, HashesKeep, Absent
  <2>3. WorkersHoldTheirOwn' /\ OneBroadcaster'
    BY <2>1, <2>2, OthersKeep DEF OutboxInv, WorkersHoldTheirOwn, OneBroadcaster, Broadcasting
  <2> QED
    BY <2>1, <2>2, <2>3, ConfirmedRowsKept, HashesKept, QuietStepPreserves
    DEF OutboxInv, OutboxTypeOK
<1> QED BY <1>2, <1>3

LEMMA OutboxInvariant == Spec => []OutboxInv
BY InitEstablishesOutbox, OutboxStepPreserves, PTL DEF Spec

\* The tables, the workers and the transactions keep their types.
THEOREM OutboxTypeCorrect == Spec => []OutboxTypeOK
<1>1. OutboxInv => OutboxTypeOK
  BY DEF OutboxInv
<1> QED BY <1>1, OutboxInvariant, PTL

\* However many processes claim, reclaim, rebuild and rebroadcast a job, the
\* registry holds what the outbox row says and nothing else.
THEOREM RegistryHoldsTheOutbox == Spec => []RegistryMatchesOutbox
<1>1. OutboxInv => RegistryMatchesOutbox
  BY DEF OutboxInv
<1> QED BY <1>1, OutboxInvariant, PTL

\* A row is marked confirmed only when the registry holds its content, at the
\* recorded ledger.
THEOREM ConfirmationIsTrue == Spec => []ConfirmedIsAnchored
<1>1. OutboxInv => ConfirmedIsAnchored
  BY DEF OutboxInv
<1> QED BY <1>1, OutboxInvariant, PTL

\* At most one transaction per job succeeds.
THEOREM JobsApplyOnce == Spec => []AppliedOnce
<1>1. OutboxInv => AppliedOnce
  BY DEF OutboxInv
<1> QED BY <1>1, OutboxInvariant, PTL

-------------------------------------------------------------------------------
(***************************************************************************)
(* One worker process, as the service is deployed.  A second one could     *)
(* confirm, reclaim or requeue the row of the first one's attempt (the run *)
(* outbox_lost_anchor shows it).  With one, a row that is being worked on  *)
(* is "submitting" and holds the hash its worker holds, so no other        *)
(* transaction of the job can still succeed when that hash is forgotten.   *)
(***************************************************************************)
OneProcess == \A v, w \in Workers : v = w

\* The transaction succeeded, or the network may still include it.
MayApply(tx) == tx.state = "applied" \/ (tx.state = "sent" /\ ~tx.settled)
CanApply(t) == MayApply(txs[t])

\* The revision before a job's is confirmed.
HasTurn(j) == j[2] > 1 => outbox[Prev(j)].status = "confirmed"

Engaged(w) == worker[w].step \notin {"idle", "report"}

\* What an attempt knows of the row it works on.
HoldsItsRow(w) ==
    Engaged(w) =>
        /\ HasTurn(worker[w].job)
        /\ outbox[worker[w].job].status = "submitting"
        /\ worker[w].step \in {"mark", "inspect", "send", "poll", "confirm", "clear"} =>
               outbox[worker[w].job].hash = worker[w].tx
        /\ worker[w].step \in {"prepare", "persist"} => outbox[worker[w].job].hash = NoTx
        /\ worker[w].step = "clear" => worker[w].tx # NoTx /\ ~CanApply(worker[w].tx)

AttemptsHoldTheirRows == \A w \in Workers : HoldsItsRow(w)

\* A transaction that may succeed is remembered before it does.
SubmissionsAreRemembered ==
    \A t \in TxIds : CanApply(t) =>
        \/ outbox[txs[t].job].status = "confirmed"
        \/ outbox[txs[t].job].hash = t

TxsHaveTurns == \A t \in TxIds : t <= built => HasTurn(txs[t].job)

SubmittingIsLocked ==
    \A j \in Jobs : outbox[j].status = "submitting" => outbox[j].lock # "none"

RowsInv ==
    /\ SubmissionsAreRemembered
    /\ TxsHaveTurns
    /\ SubmittingIsLocked
    /\ TablesAgree
    /\ ConfirmedHasReceipt

OneProcessInv == OutboxInv /\ AttemptsHoldTheirRows /\ RowsInv

LEMMA InitEstablishesOneProcess == Init => OneProcessInv
<1> SUFFICES ASSUME Init PROVE OneProcessInv
  OBVIOUS
<1>1. OutboxInv
  BY InitEstablishesOutbox
<1>2. AttemptsHoldTheirRows
  BY DEF Init, AttemptsHoldTheirRows, HoldsItsRow, Engaged, Idle
<1>3. RowsInv
  BY OutboxAssumption
  DEF Init, RowsInv, SubmissionsAreRemembered, TxsHaveTurns, SubmittingIsLocked, TablesAgree,
      ConfirmedHasReceipt, CanApply, MayApply, NoRow, NoAnchorRow, NotBuilt, TxIds
<1> QED BY <1>1, <1>2, <1>3 DEF OneProcessInv

\* A transaction that may succeed has been built, for a row that exists.
LEMMA SubmittedIsBuilt ==
    ASSUME OutboxInv, NEW t \in TxIds
    PROVE  /\ CanApply(t) => t <= built
           /\ t <= built => txs[t].job \in Jobs /\ ~Absent(txs[t].job)
BY OutboxAssumption DEF OutboxInv, OutboxTypeOK, TxsOfJobs, CanApply, MayApply, TxIds

\* A step that changes one row that is not confirmed.
LEMMA RowStep ==
    ASSUME OneProcessInv, NEW j \in Jobs, UNCHANGED <<txs, built>>,
           outbox[j].status # "confirmed",
           \A i \in Jobs : i # j => outbox'[i] = outbox[i] /\ anchorRow'[i] = anchorRow[i],
           \A s \in {"confirmed", "failed"} :
               outbox'[j].status = s <=> anchorRow'[j].status = s,
           outbox'[j].status = "submitting" => outbox'[j].lock # "none",
           anchorRow'[j].status = "confirmed" =>
               \E t \in TxIds : anchorRow'[j].tx = t /\ txs[t].job = j /\ txs[t].state = "applied",
           \A t \in TxIds : CanApply(t) /\ txs[t].job = j =>
               outbox'[j].status = "confirmed" \/ outbox'[j].hash = t
    PROVE  /\ RowsInv'
           /\ \A i \in Jobs : HasTurn(i) => HasTurn(i)'
<1>1. \A i \in Jobs : HasTurn(i) => HasTurn(i)'
  <2> SUFFICES ASSUME NEW i \in Jobs, HasTurn(i), i[2] > 1
               PROVE  outbox'[Prev(i)].status = "confirmed"
    BY DEF HasTurn
  <2>1. Prev(i) \in Jobs
    BY JobType
  <2>2. outbox[Prev(i)].status = "confirmed"
    BY DEF HasTurn
  <2> QED BY <2>1, <2>2
<1>2. SubmissionsAreRemembered'
  <2> SUFFICES ASSUME NEW t \in TxIds, CanApply(t)
               PROVE  \/ outbox'[txs[t].job].status = "confirmed"
                      \/ outbox'[txs[t].job].hash = t
    BY DEF SubmissionsAreRemembered, CanApply, MayApply
  <2>1. txs[t].job \in Jobs
    BY SubmittedIsBuilt DEF OneProcessInv
  <2>2. CASE txs[t].job = j
    BY <2>2
  <2>3. CASE txs[t].job # j
    BY <2>1, <2>3 DEF OneProcessInv, RowsInv, SubmissionsAreRemembered
  <2> QED BY <2>2, <2>3
<1>3. TxsHaveTurns'
  <2>1. \A t \in TxIds : t <= built => txs[t].job \in Jobs
    BY SubmittedIsBuilt DEF OneProcessInv
  <2>2. \A t \in TxIds : t <= built => HasTurn(txs[t].job)
    BY DEF OneProcessInv, RowsInv, TxsHaveTurns
  <2> SUFFICES ASSUME NEW t \in TxIds, t <= built'
               PROVE  HasTurn(txs[t].job)'
    BY DEF TxsHaveTurns
  <2> DEFINE i == txs[t].job
  <2>3. i \in Jobs /\ HasTurn(i)
    BY <2>1, <2>2
  <2>4. \A k \in {i} : HasTurn(k)'
    BY <1>1, <2>3
  <2> QED BY <2>4 DEF HasTurn
<1>4. SubmittingIsLocked'
  BY DEF OneProcessInv, RowsInv, SubmittingIsLocked
<1>5. TablesAgree'
  BY DEF OneProcessInv, RowsInv, TablesAgree
<1>6. ConfirmedHasReceipt'
  BY DEF OneProcessInv, RowsInv, ConfirmedHasReceipt
<1> QED BY <1>1, <1>2, <1>3, <1>4, <1>5, <1>6 DEF RowsInv

\* A step that changes at most the lock of a row, and when it is due.
RowsHold ==
    /\ UNCHANGED anchorRow
    /\ \A j \in Jobs : /\ outbox'[j].status = outbox[j].status
                       /\ outbox'[j].hash = outbox[j].hash
                       /\ outbox[j].lock # "none" => outbox'[j].lock # "none"

LEMMA RowsHeld ==
    ASSUME OneProcessInv, RowsHold, UNCHANGED <<txs, built>>
    PROVE  /\ RowsInv'
           /\ \A i \in Jobs : HasTurn(i) => HasTurn(i)'
<1>1. \A i \in Jobs : HasTurn(i) => HasTurn(i)'
  BY JobType DEF HasTurn, RowsHold
<1>2. SubmissionsAreRemembered'
  BY SubmittedIsBuilt
  DEF OneProcessInv, RowsInv, SubmissionsAreRemembered, CanApply, MayApply, RowsHold
<1>3. TxsHaveTurns'
  <2> SUFFICES ASSUME NEW t \in TxIds, t <= built' PROVE HasTurn(txs[t].job)'
    BY DEF TxsHaveTurns
  <2> DEFINE i == txs[t].job
  <2>1. i \in Jobs /\ HasTurn(i)
    BY SubmittedIsBuilt DEF OneProcessInv, RowsInv, TxsHaveTurns
  <2>2. \A k \in {i} : HasTurn(k)'
    BY <1>1, <2>1
  <2> QED BY <2>2 DEF HasTurn
<1>4. SubmittingIsLocked' /\ TablesAgree' /\ ConfirmedHasReceipt'
  BY DEF OneProcessInv, RowsInv, SubmittingIsLocked, TablesAgree, ConfirmedHasReceipt, RowsHold
<1> QED BY <1>1, <1>2, <1>3, <1>4 DEF RowsInv

\* What an attempt knows when it takes its next step.
LEMMA AttemptKnows ==
    ASSUME OneProcessInv, NEW w \in Workers, Engaged(w)
    PROVE  LET j == worker[w].job IN
           /\ j \in Jobs /\ HasTurn(j)
           /\ outbox[j].status = "submitting" /\ outbox[j].lock # "none"
           /\ anchorRow[j].status \notin {"confirmed", "failed"}
           /\ \A t \in TxIds : CanApply(t) /\ txs[t].job = j => outbox[j].hash = t
<1>1. worker[w].job \in Jobs
  BY BusyWorker DEF OneProcessInv, Engaged
<1>2. HasTurn(worker[w].job) /\ outbox[worker[w].job].status = "submitting"
  BY DEF OneProcessInv, AttemptsHoldTheirRows, HoldsItsRow
<1>3. outbox[worker[w].job].lock # "none"
  BY <1>1, <1>2 DEF OneProcessInv, RowsInv, SubmittingIsLocked
<1>4. anchorRow[worker[w].job].status \notin {"confirmed", "failed"}
  BY <1>1, <1>2 DEF OneProcessInv, RowsInv, TablesAgree
<1>5. \A t \in TxIds : CanApply(t) /\ txs[t].job = worker[w].job =>
          outbox[worker[w].job].hash = t
  BY <1>2 DEF OneProcessInv, RowsInv, SubmissionsAreRemembered
<1> QED BY <1>1, <1>2, <1>3, <1>4, <1>5

LEMMA ClaimHolds ==
    ASSUME OneProcess, OneProcessInv, NEW w \in Workers, Claim(w)
    PROVE  AttemptsHoldTheirRows' /\ RowsInv'
<1>1. PICK j \in Jobs :
        /\ Claimable(j)
        /\ outbox' = [outbox EXCEPT ![j].status = "submitting",
                                    ![j].attempts = @ + 1,
                                    ![j].lock = "held"]
        /\ worker' = [worker EXCEPT ![w] =
               [step |-> "mark", job |-> j, attempts |-> outbox[j].attempts + 1,
                tx |-> outbox[j].hash]]
  BY DEF Claim
<1>2. UNCHANGED <<txs, built, anchorRow>>
  BY DEF Claim, unchangedChain
<1>3. /\ outbox \in [Jobs -> OutboxRow] /\ worker \in [Workers -> WorkerState]
      /\ outbox[j] \in OutboxRow
  BY DEF OneProcessInv, OutboxInv, OutboxTypeOK
<1>4. HasTurn(j) /\ outbox[j].status \in {"pending", "submitting"}
  BY <1>1 DEF Claimable, HasTurn
<1>5. /\ outbox'[j].status = "submitting" /\ outbox'[j].lock = "held"
      /\ outbox'[j].hash = outbox[j].hash
      /\ \A i \in Jobs : i # j => outbox'[i] = outbox[i]
  BY <1>1, <1>3 DEF OutboxRow
<1>6. anchorRow[j].status \notin {"confirmed", "failed"}
  BY <1>4 DEF OneProcessInv, RowsInv, TablesAgree
<1>7. \A t \in TxIds : CanApply(t) /\ txs[t].job = j => outbox'[j].hash = t
  BY <1>4, <1>5 DEF OneProcessInv, RowsInv, SubmissionsAreRemembered
<1>8. RowsInv' /\ \A i \in Jobs : HasTurn(i) => HasTurn(i)'
  BY <1>2, <1>4, <1>5, <1>6, <1>7, RowStep
<1>9. worker'[w].step = "mark" /\ worker'[w].job = j /\ worker'[w].tx = outbox[j].hash
  BY <1>1, <1>3
<1>10. \A k \in {worker'[w].job} : HasTurn(k)'
  BY <1>4, <1>8, <1>9
<1>11. HoldsItsRow(w)'
  BY <1>5, <1>9, <1>10 DEF HoldsItsRow, HasTurn
<1> QED BY <1>8, <1>11 DEF OneProcess, AttemptsHoldTheirRows

\* The worker stays with its row, whose status stays "submitting".
LEMMA StaysWithItsRow ==
    ASSUME OneProcess, OneProcessInv, NEW w \in Workers, Engaged(w),
           NEW s \in {"prepare", "inspect", "send", "poll", "confirm", "defer", "clear", "fail"},
           Goto(w, s),
           \A i \in Jobs : HasTurn(i) => HasTurn(i)',
           outbox'[worker[w].job].status = "submitting",
           s \in {"inspect", "send", "poll", "confirm", "clear"} =>
               outbox'[worker[w].job].hash = worker[w].tx,
           s = "prepare" => outbox'[worker[w].job].hash = NoTx,
           s = "clear" => worker[w].tx # NoTx /\ ~MayApply(txs'[worker[w].tx])
    PROVE  AttemptsHoldTheirRows'
<1>1. /\ worker'[w].step = s /\ worker'[w].job = worker[w].job /\ worker'[w].tx = worker[w].tx
  BY GotoIs DEF OneProcessInv, Steps
<1>2. \A k \in {worker'[w].job} : HasTurn(k)'
  BY <1>1, AttemptKnows
<1>3. HoldsItsRow(w)'
  BY <1>1, <1>2 DEF HoldsItsRow, HasTurn, CanApply
<1> QED BY <1>3 DEF OneProcess, AttemptsHoldTheirRows

\* It lets go of it.
LEMMA LeavesItsRow ==
    ASSUME OneProcess, OneProcessInv, NEW w \in Workers, Release(w) \/ Goto(w, "report")
    PROVE  AttemptsHoldTheirRows'
<1>1. worker'[w].step \in {"idle", "report"}
  BY GotoIs, ReleaseIs DEF OneProcessInv, Steps, Idle
<1> QED BY <1>1 DEF OneProcess, AttemptsHoldTheirRows, HoldsItsRow, Engaged

LEMMA MarkHolds ==
    ASSUME OneProcess, OneProcessInv, NEW w \in Workers, Mark(w)
    PROVE  AttemptsHoldTheirRows' /\ RowsInv'
<1> DEFINE j == worker[w].job
           s == IF worker[w].tx = NoTx THEN "prepare" ELSE "inspect"
<1>1. Engaged(w) /\ worker[w].step = "mark"
  BY DEF Mark, At, Engaged
<1>2. UNCHANGED <<outbox, txs, built>>
  BY DEF Mark, unchangedChain
<1>3. /\ j \in Jobs /\ outbox[j].status = "submitting" /\ outbox[j].lock # "none"
      /\ \A t \in TxIds : CanApply(t) /\ txs[t].job = j => outbox[j].hash = t
      /\ outbox[j].hash = worker[w].tx
  BY <1>1, AttemptKnows DEF OneProcessInv, AttemptsHoldTheirRows, HoldsItsRow
<1>4. /\ anchorRow'[j].status = "submitting"
      /\ \A i \in Jobs : i # j => anchorRow'[i] = anchorRow[i]
  BY <1>3 DEF Mark, OneProcessInv, OutboxInv, OutboxTypeOK, AnchorRow
<1>5. RowsInv' /\ \A i \in Jobs : HasTurn(i) => HasTurn(i)'
  BY <1>2, <1>3, <1>4, RowStep
<1>6. Goto(w, s)
  BY DEF Mark
<1> HIDE DEF s
<1>7. s \in {"prepare", "inspect"} /\ (s = "prepare" => worker[w].tx = NoTx)
  BY DEF s
<1>8. AttemptsHoldTheirRows'
  BY <1>1, <1>2, <1>3, <1>5, <1>6, <1>7, StaysWithItsRow
<1> QED BY <1>5, <1>8

\* Inspect and Poll: a hash is about to be forgotten only when its
\* transaction can no longer succeed.
LEMMA OutcomeHolds ==
    ASSUME OneProcess, OneProcessInv, NEW w \in Workers, Inspect(w) \/ Poll(w)
    PROVE  AttemptsHoldTheirRows' /\ RowsInv'
<1> DEFINE j == worker[w].job
<1>1. Engaged(w) /\ worker[w].step \in {"inspect", "poll"}
  BY DEF Inspect, Poll, At, Engaged
<1>2. UNCHANGED <<outbox, anchorRow, txs, built>>
  BY DEF Inspect, Poll, unchangedChain
<1>3. RowsInv' /\ \A i \in Jobs : HasTurn(i) => HasTurn(i)'
  BY <1>2, RowsHeld DEF RowsHold
<1>4. /\ outbox[j].status = "submitting" /\ outbox[j].hash = worker[w].tx
      /\ worker[w].tx # NoTx
  BY <1>1 DEF OneProcessInv, AttemptsHoldTheirRows, HoldsItsRow, OutboxInv, WorkersHoldTheirOwn,
              HoldsItsOwn
<1>5. PICK s \in {"confirm", "clear", "defer", "fail"} :
          Goto(w, s) /\ (s = "clear" => ~MayApply(txs[worker[w].tx]))
  BY DEF Inspect, Poll, MayApply
<1>6. AttemptsHoldTheirRows'
  BY <1>1, <1>2, <1>3, <1>4, <1>5, StaysWithItsRow
<1> QED BY <1>3, <1>6

\* The row holds no hash when a new transaction is about to be recorded, so no
\* earlier one can succeed any more.
LEMMA PersistHolds ==
    ASSUME OneProcess, OneProcessInv, NEW w \in Workers, Persist(w)
    PROVE  AttemptsHoldTheirRows' /\ RowsInv'
<1> DEFINE j == worker[w].job
<1>1. Engaged(w) /\ worker[w].step = "persist"
  BY DEF Persist, At, Engaged
<1>2. UNCHANGED <<txs, built>>
  BY DEF Persist, unchangedChain
<1>3. /\ j \in Jobs /\ outbox[j].status = "submitting" /\ outbox[j].lock # "none"
      /\ \A t \in TxIds : CanApply(t) /\ txs[t].job = j => outbox[j].hash = t
      /\ outbox[j].hash = NoTx
  BY <1>1, AttemptKnows DEF OneProcessInv, AttemptsHoldTheirRows, HoldsItsRow
<1>4. ~\E t \in TxIds : CanApply(t) /\ txs[t].job = j
  BY <1>3, NoTxIsNoId
<1>5. /\ outbox'[j].status = "submitting" /\ outbox'[j].lock # "none"
      /\ outbox'[j].hash = worker[w].tx
      /\ \A i \in Jobs : i # j => outbox'[i] = outbox[i]
  BY <1>3 DEF Persist, OneProcessInv, OutboxInv, OutboxTypeOK, OutboxRow
<1>6. /\ anchorRow'[j].status = "submitting"
      /\ \A i \in Jobs : i # j => anchorRow'[i] = anchorRow[i]
  BY <1>3 DEF Persist, OneProcessInv, OutboxInv, OutboxTypeOK, AnchorRow
<1>7. RowsInv' /\ \A i \in Jobs : HasTurn(i) => HasTurn(i)'
  BY <1>2, <1>3, <1>4, <1>5, <1>6, RowStep
<1>8. Goto(w, "send")
  BY DEF Persist
<1>9. AttemptsHoldTheirRows'
  BY <1>1, <1>5, <1>7, <1>8, StaysWithItsRow
<1> QED BY <1>7, <1>9

\* Confirm, with the receipt of the transaction that succeeded.
LEMMA ConfirmHolds ==
    ASSUME OneProcess, OneProcessInv, NEW w \in Workers, Confirm(w)
    PROVE  AttemptsHoldTheirRows' /\ RowsInv'
<1> DEFINE j == worker[w].job
           t == worker[w].tx
<1>1. Engaged(w) /\ worker[w].step = "confirm"
  BY DEF Confirm, At, Engaged
<1>2. UNCHANGED <<txs, built>> /\ Release(w)
  BY DEF Confirm, unchangedChain
<1>3. j \in Jobs /\ outbox[j].status = "submitting"
  BY <1>1, AttemptKnows
<1>4. t \in TxIds /\ txs[t].job = j /\ txs[t].state = "applied"
  BY <1>1 DEF OneProcessInv, OutboxInv, OutboxTypeOK, WorkerState, WorkersHoldTheirOwn, HoldsItsOwn
<1>5. /\ outbox'[j].status = "confirmed"
      /\ \A i \in Jobs : i # j => outbox'[i] = outbox[i]
  BY <1>3 DEF Confirm, OneProcessInv, OutboxInv, OutboxTypeOK, OutboxRow
<1>6. /\ anchorRow'[j].status = "confirmed" /\ anchorRow'[j].tx = t
      /\ \A i \in Jobs : i # j => anchorRow'[i] = anchorRow[i]
  BY <1>3 DEF Confirm, OneProcessInv, OutboxInv, OutboxTypeOK, AnchorRow
<1>7. RowsInv'
  BY <1>2, <1>3, <1>4, <1>5, <1>6, RowStep
<1> QED BY <1>2, <1>7, LeavesItsRow

LEMMA DeferHolds ==
    ASSUME OneProcess, OneProcessInv, NEW w \in Workers, Defer(w)
    PROVE  AttemptsHoldTheirRows' /\ RowsInv'
<1> DEFINE j == worker[w].job
<1>1. Engaged(w)
  BY DEF Defer, At, Engaged
<1>2. UNCHANGED <<anchorRow, txs, built>> /\ Release(w)
  BY DEF Defer, unchangedChain
<1>3. /\ j \in Jobs /\ outbox[j].status = "submitting"
      /\ anchorRow[j].status \notin {"confirmed", "failed"}
      /\ \A t \in TxIds : CanApply(t) /\ txs[t].job = j => outbox[j].hash = t
  BY <1>1, AttemptKnows
<1>4. /\ outbox'[j].status = "pending" /\ outbox'[j].hash = outbox[j].hash
      /\ \A i \in Jobs : i # j => outbox'[i] = outbox[i]
  BY <1>3 DEF Defer, OneProcessInv, OutboxInv, OutboxTypeOK, OutboxRow
<1>5. RowsInv'
  BY <1>2, <1>3, <1>4, RowStep, SMTT(30)
<1> QED BY <1>2, <1>5, LeavesItsRow

LEMMA ClearHolds ==
    ASSUME OneProcess, OneProcessInv, NEW w \in Workers, Clear(w)
    PROVE  AttemptsHoldTheirRows' /\ RowsInv'
<1> DEFINE j == worker[w].job
<1>1. Engaged(w) /\ worker[w].step = "clear"
  BY DEF Clear, At, Engaged
<1>2. UNCHANGED <<txs, built>> /\ Goto(w, "fail")
  BY DEF Clear, unchangedChain
<1>3. /\ j \in Jobs /\ outbox[j].status = "submitting" /\ outbox[j].lock # "none"
      /\ anchorRow[j].status \notin {"confirmed", "failed"}
      /\ \A t \in TxIds : CanApply(t) /\ txs[t].job = j => outbox[j].hash = t
      /\ outbox[j].hash = worker[w].tx /\ ~CanApply(worker[w].tx)
  BY <1>1, AttemptKnows DEF OneProcessInv, AttemptsHoldTheirRows, HoldsItsRow
<1>4. ~\E t \in TxIds : CanApply(t) /\ txs[t].job = j
  BY <1>3
<1>5. /\ outbox'[j].status = "submitting" /\ outbox'[j].lock # "none"
      /\ \A i \in Jobs : i # j => outbox'[i] = outbox[i]
  BY <1>3 DEF Clear, OneProcessInv, OutboxInv, OutboxTypeOK, OutboxRow
<1>6. /\ anchorRow'[j].status \notin {"confirmed", "failed"}
      /\ \A i \in Jobs : i # j => anchorRow'[i] = anchorRow[i]
  BY <1>3 DEF Clear, OneProcessInv, OutboxInv, OutboxTypeOK, AnchorRow
<1>7. RowsInv' /\ \A i \in Jobs : HasTurn(i) => HasTurn(i)'
  BY <1>2, <1>3, <1>4, <1>5, <1>6, RowStep
<1>8. AttemptsHoldTheirRows'
  BY <1>1, <1>2, <1>5, <1>7, StaysWithItsRow
<1> QED BY <1>7, <1>8

LEMMA FailHolds ==
    ASSUME OneProcess, OneProcessInv, NEW w \in Workers, Fail(w)
    PROVE  AttemptsHoldTheirRows' /\ RowsInv'
<1> DEFINE j == worker[w].job
<1>1. Engaged(w)
  BY DEF Fail, At, Engaged
<1>2. UNCHANGED <<txs, built>>
  BY DEF Fail, unchangedChain
<1>3. /\ j \in Jobs /\ outbox[j].status = "submitting"
      /\ \A t \in TxIds : CanApply(t) /\ txs[t].job = j => outbox[j].hash = t
  BY <1>1, AttemptKnows
<1>4. PICK status \in {"failed", "pending"} :
        /\ outbox' = [outbox EXCEPT ![j].status = status, ![j].due = FALSE, ![j].lock = "none"]
        /\ anchorRow' = [anchorRow EXCEPT ![j].status = status]
  BY DEF Fail
<1>5. /\ outbox'[j].status = status /\ outbox'[j].hash = outbox[j].hash
      /\ \A i \in Jobs : i # j => outbox'[i] = outbox[i]
  BY <1>3, <1>4 DEF OneProcessInv, OutboxInv, OutboxTypeOK, OutboxRow
<1>6. /\ anchorRow'[j].status = status
      /\ \A i \in Jobs : i # j => anchorRow'[i] = anchorRow[i]
  BY <1>3, <1>4 DEF OneProcessInv, OutboxInv, OutboxTypeOK, AnchorRow
<1>7. RowsInv'
  BY <1>2, <1>3, <1>5, <1>6, RowStep
<1>8. Release(w) \/ Goto(w, "report")
  BY DEF Fail
<1> QED BY <1>7, <1>8, LeavesItsRow

LEMMA ReportOrCrashHolds ==
    ASSUME OneProcess, OneProcessInv, NEW w \in Workers, Report(w) \/ Crash(w)
    PROVE  AttemptsHoldTheirRows' /\ RowsInv'
<1>1. UNCHANGED <<outbox, anchorRow, txs, built>> /\ Release(w)
  BY DEF Report, Crash, unchangedChain
<1>2. RowsInv'
  BY <1>1, RowsHeld DEF RowsHold
<1> QED BY <1>1, <1>2, LeavesItsRow
-------------------------------------------------------------------------------
\* A step that changes transactions only.  What becomes able to succeed is the
\* transaction a row remembers; what is built is about a job that has its turn.
LEMMA TxStep ==
    ASSUME OneProcessInv, UNCHANGED <<outbox, anchorRow>>, TxsHaveTurns',
           \A t \in TxIds :
               /\ MayApply(txs'[t]) =>
                      \/ MayApply(txs[t]) /\ txs'[t].job = txs[t].job
                      \/ outbox[txs'[t].job].hash = t
               /\ txs[t].state = "applied" =>
                      txs'[t].state = "applied" /\ txs'[t].job = txs[t].job
    PROVE  RowsInv'
<1>1. SubmissionsAreRemembered'
  BY DEF OneProcessInv, RowsInv, SubmissionsAreRemembered, CanApply
<1>2. SubmittingIsLocked' /\ TablesAgree' /\ ConfirmedHasReceipt'
  BY DEF OneProcessInv, RowsInv, SubmittingIsLocked, TablesAgree, ConfirmedHasReceipt
<1> QED BY <1>1, <1>2 DEF RowsInv

LEMMA SameTurns ==
    ASSUME OneProcessInv, UNCHANGED <<outbox, built>>,
           \A t \in TxIds : txs'[t].job = txs[t].job
    PROVE  TxsHaveTurns'
BY DEF OneProcessInv, RowsInv, TxsHaveTurns, HasTurn, Prev

LEMMA PrepareHolds ==
    ASSUME OneProcess, OneProcessInv, NEW w \in Workers, Prepare(w)
    PROVE  AttemptsHoldTheirRows' /\ RowsInv'
<1> DEFINE j == worker[w].job
           t == built + 1
<1>1. Engaged(w) /\ worker[w].step = "prepare"
  BY DEF Prepare, At, Engaged
<1>2. UNCHANGED <<outbox, anchorRow>>
  BY DEF Prepare
<1>3. j \in Jobs /\ HasTurn(j) /\ outbox[j].status = "submitting" /\ outbox[j].hash = NoTx
  BY <1>1, AttemptKnows DEF OneProcessInv, AttemptsHoldTheirRows, HoldsItsRow
<1>4. CASE Goto(w, "fail") /\ UNCHANGED <<built, txs>>
  <2>1. RowsInv' /\ \A i \in Jobs : HasTurn(i) => HasTurn(i)'
    BY <1>2, <1>4, RowsHeld DEF RowsHold
  <2>2. AttemptsHoldTheirRows'
    BY <1>1, <1>2, <1>3, <1>4, <2>1, StaysWithItsRow
  <2> QED BY <2>1, <2>2
<1>5. CASE /\ built < MaxTx
           /\ built' = t
           /\ txs' = [txs EXCEPT ![t] =
                  [job |-> j, seq |-> accountSeq + 1, state |-> "built",
                   settled |-> FALSE, ledger |-> 0]]
           /\ worker' = [worker EXCEPT ![w].step = "persist", ![w].tx = t]
  <2>1. t \in TxIds /\ built \in Nat /\ txs[t].state = "none" /\ t # NoTx
    BY <1>5, OutboxAssumption DEF OneProcessInv, OutboxInv, OutboxTypeOK, TxsOfJobs, TxIds, NoTx
  <2>2. /\ txs'[t].job = j /\ txs'[t].state = "built"
        /\ \A u \in TxIds : u # t => txs'[u] = txs[u]
    BY <1>5, <2>1 DEF OneProcessInv, OutboxInv, OutboxTypeOK
  <2>3. TxsHaveTurns'
    <3> SUFFICES ASSUME NEW u \in TxIds, u <= t PROVE HasTurn(txs'[u].job)
      BY <1>2, <1>5 DEF TxsHaveTurns, HasTurn
    <3>1. CASE u = t
      BY <1>3, <2>2, <3>1
    <3>2. CASE u # t
      <4>1. u <= built
        BY <2>1, <3>2 DEF TxIds
      <4> QED BY <2>2, <3>2, <4>1 DEF OneProcessInv, RowsInv, TxsHaveTurns
    <3> QED BY <3>1, <3>2
  <2>4. \A u \in TxIds :
          /\ MayApply(txs'[u]) => MayApply(txs[u]) /\ txs'[u].job = txs[u].job
          /\ txs[u].state = "applied" => txs'[u].state = "applied" /\ txs'[u].job = txs[u].job
    BY <2>1, <2>2 DEF MayApply
  <2>5. RowsInv'
    BY <1>2, <2>3, <2>4, TxStep
  <2>6. worker'[w].step = "persist" /\ worker'[w].job = j
    BY <1>5 DEF OneProcessInv, OutboxInv, OutboxTypeOK, WorkerState
  <2>7. HoldsItsRow(w)'
    BY <1>2, <1>3, <2>6 DEF HoldsItsRow, HasTurn
  <2> QED BY <2>5, <2>7 DEF OneProcess, AttemptsHoldTheirRows
<1> QED BY <1>4, <1>5 DEF Prepare

LEMMA SendHolds ==
    ASSUME OneProcess, OneProcessInv, NEW w \in Workers, Send(w)
    PROVE  AttemptsHoldTheirRows' /\ RowsInv'
<1> DEFINE j == worker[w].job
           t == worker[w].tx
<1>1. Engaged(w) /\ worker[w].step = "send"
  BY DEF Send, At, Engaged
<1>2. UNCHANGED <<outbox, anchorRow, built>>
  BY DEF Send
<1>3. j \in Jobs /\ outbox[j].status = "submitting" /\ outbox[j].hash = t
  BY <1>1, AttemptKnows DEF OneProcessInv, AttemptsHoldTheirRows, HoldsItsRow
<1>4. t \in TxIds /\ t # NoTx /\ txs[t].job = j /\ txs[t].state = "built" /\ txs[t] \in Tx
  BY <1>1 DEF OneProcessInv, OutboxInv, OutboxTypeOK, WorkerState, WorkersHoldTheirOwn, HoldsItsOwn
<1>5. txs' = [txs EXCEPT ![t].state = "sent"] \/ txs' = txs
  BY DEF Send
<1>6. /\ txs'[t].job = j
      /\ \A u \in TxIds : u # t => txs'[u] = txs[u]
  BY <1>4, <1>5 DEF OneProcessInv, OutboxInv, OutboxTypeOK, Tx
<1>7. RowsInv'
  BY <1>2, <1>3, <1>4, <1>6, SameTurns, TxStep
<1>8. PICK s \in {"poll", "defer", "clear"} : Goto(w, s) /\ (s = "clear" => txs' = txs)
  BY DEF Send
<1>9. s = "clear" => ~MayApply(txs'[t])
  BY <1>4, <1>8 DEF MayApply
<1>10. \A i \in Jobs : HasTurn(i) => HasTurn(i)'
  BY <1>2 DEF HasTurn
<1>11. AttemptsHoldTheirRows'
  BY <1>1, <1>2, <1>3, <1>4, <1>8, <1>9, <1>10, StaysWithItsRow
<1> QED BY <1>7, <1>11

\* Settle, Reject and Apply: nothing becomes able to succeed, and no worker moves.
LEMMA NetworkHolds ==
    ASSUME OneProcess, OneProcessInv, NEW t \in TxIds, Settle(t) \/ Reject(t) \/ Apply(t)
    PROVE  AttemptsHoldTheirRows' /\ RowsInv'
<1>1. UNCHANGED <<outbox, anchorRow, worker, built>>
  BY DEF Settle, Reject, Apply, Included
<1>2. /\ txs \in [TxIds -> Tx] /\ txs[t] \in Tx
      /\ worker \in [Workers -> WorkerState]
  BY DEF OneProcessInv, OutboxInv, OutboxTypeOK
<1>3. \A u \in TxIds :
        /\ txs'[u].job = txs[u].job
        /\ MayApply(txs'[u]) => MayApply(txs[u])
        /\ txs[u].state = "applied" => txs'[u].state = "applied"
  <2>1. CASE Settle(t)
    BY <1>2, <2>1 DEF Settle, MayApply, Tx
  <2>2. CASE Reject(t)
    BY <1>2, <2>2 DEF Reject, Included, Includable, MayApply, Tx
  <2>3. CASE Apply(t)
    BY <1>2, <2>3 DEF Apply, Included, Includable, MayApply, Tx
  <2> QED BY <2>1, <2>2, <2>3
<1>4. RowsInv'
  BY <1>1, <1>3, SameTurns, TxStep
<1>5. ASSUME NEW w \in Workers PROVE HoldsItsRow(w)'
  <2>1. HoldsItsRow(w) /\ worker[w].tx \in TxIds \cup {NoTx}
    BY <1>2 DEF OneProcessInv, AttemptsHoldTheirRows, WorkerState
  <2> QED BY <1>1, <1>3, <2>1 DEF HoldsItsRow, Engaged, HasTurn, CanApply
<1> QED BY <1>4, <1>5 DEF AttemptsHoldTheirRows

-------------------------------------------------------------------------------
\* A worker is not concerned by a step that leaves the status and the hash of its
\* row alone.
LEMMA WorkersStay ==
    ASSUME OneProcessInv, UNCHANGED <<worker, txs>>,
           \A i \in Jobs : HasTurn(i) => HasTurn(i)',
           \A i \in Jobs : outbox[i].status = "submitting" =>
               outbox'[i].status = "submitting" /\ outbox'[i].hash = outbox[i].hash
    PROVE  AttemptsHoldTheirRows'
<1> SUFFICES ASSUME NEW w \in Workers, Engaged(w) PROVE HoldsItsRow(w)'
  BY DEF AttemptsHoldTheirRows, HoldsItsRow, Engaged
<1> DEFINE j == worker[w].job
<1>1. j \in Jobs /\ HasTurn(j) /\ HoldsItsRow(w)
  BY AttemptKnows DEF OneProcessInv, AttemptsHoldTheirRows
<1>2. \A k \in {j} : HasTurn(k)'
  BY <1>1
<1>3. outbox'[j].status = "submitting" /\ outbox'[j].hash = outbox[j].hash
  BY <1>1 DEF HoldsItsRow
<1> QED BY <1>1, <1>2, <1>3 DEF HoldsItsRow, HasTurn, CanApply

LEMMA TimeHolds ==
    ASSUME OneProcessInv, NEW j \in Jobs, LockExpires(j) \/ BecomesDue(j)
    PROVE  AttemptsHoldTheirRows' /\ RowsInv'
<1>1. UNCHANGED <<anchorRow, worker, txs, built>>
  BY DEF LockExpires, BecomesDue, unchangedButOutbox, unchangedChain
<1>2. RowsHold
  BY <1>1
  DEF RowsHold, LockExpires, BecomesDue, OneProcessInv, OutboxInv, OutboxTypeOK, OutboxRow
<1>3. RowsInv' /\ \A i \in Jobs : HasTurn(i) => HasTurn(i)'
  BY <1>1, <1>2, RowsHeld
<1>4. AttemptsHoldTheirRows'
  BY <1>1, <1>2, <1>3, WorkersStay DEF RowsHold
<1> QED BY <1>3, <1>4

LEMMA EnqueueHolds ==
    ASSUME OneProcessInv, NEW j \in Jobs, NEW h \in Hashes, Enqueue(j, h)
    PROVE  AttemptsHoldTheirRows' /\ RowsInv'
<1>1. UNCHANGED <<worker, txs, built>> /\ outbox[j].status = "absent"
  BY DEF Enqueue, Absent
<1>2. /\ outbox'[j].status = "pending"
      /\ \A i \in Jobs : i # j => outbox'[i] = outbox[i]
  BY DEF Enqueue, OneProcessInv, OutboxInv, OutboxTypeOK
<1>3. /\ anchorRow'[j].status = "pending"
      /\ \A i \in Jobs : i # j => anchorRow'[i] = anchorRow[i]
  BY DEF Enqueue, OneProcessInv, OutboxInv, OutboxTypeOK, AnchorRow
<1>4. \A t \in TxIds : CanApply(t) => txs[t].job # j
  BY <1>1, SubmittedIsBuilt DEF OneProcessInv, Absent
<1>5. RowsInv' /\ \A i \in Jobs : HasTurn(i) => HasTurn(i)'
  BY <1>1, <1>2, <1>3, <1>4, RowStep
<1>6. AttemptsHoldTheirRows'
  BY <1>1, <1>2, <1>5, WorkersStay
<1> QED BY <1>5, <1>6

LEMMA RetryHolds ==
    ASSUME OneProcessInv, NEW k \in Keys, Retry(k)
    PROVE  AttemptsHoldTheirRows' /\ RowsInv'
<1>1. UNCHANGED <<worker, txs, built>>
  BY DEF Retry
<1>2. outbox \in [Jobs -> OutboxRow] /\ anchorRow \in [Jobs -> AnchorRow]
  BY DEF OneProcessInv, OutboxInv, OutboxTypeOK
<1>3. \A j \in Jobs :
        /\ outbox'[j].hash = outbox[j].hash
        /\ IF j[1] = k /\ outbox[j].status = "failed"
           THEN outbox'[j].status = "pending"
           ELSE outbox'[j] = outbox[j]
  BY <1>2 DEF Retry, FailedJobs, OutboxRow
<1>4. \A j \in Jobs :
        /\ anchorRow'[j].tx = anchorRow[j].tx
        /\ IF j[1] = k /\ anchorRow[j].status = "failed"
           THEN anchorRow'[j].status = "pending"
           ELSE anchorRow'[j] = anchorRow[j]
  BY <1>2 DEF Retry, AnchorRow
<1>5. \A i \in Jobs : HasTurn(i) => HasTurn(i)'
  BY <1>3, JobType DEF HasTurn
<1>6. SubmissionsAreRemembered'
  BY <1>1, <1>3, SubmittedIsBuilt
  DEF OneProcessInv, RowsInv, SubmissionsAreRemembered, CanApply
<1>7. TxsHaveTurns'
  <2> SUFFICES ASSUME NEW t \in TxIds, t <= built' PROVE HasTurn(txs[t].job)'
    BY DEF TxsHaveTurns
  <2> DEFINE i == txs[t].job
  <2>1. i \in Jobs /\ HasTurn(i)
    BY <1>1, SubmittedIsBuilt DEF OneProcessInv, RowsInv, TxsHaveTurns
  <2>2. \A l \in {i} : HasTurn(l)'
    BY <1>5, <2>1
  <2> QED BY <1>1, <2>2 DEF HasTurn
<1>8. SubmittingIsLocked'
  BY <1>3 DEF OneProcessInv, RowsInv, SubmittingIsLocked
<1>9. TablesAgree'
  BY <1>3, <1>4 DEF OneProcessInv, RowsInv, TablesAgree
<1>10. ConfirmedHasReceipt'
  BY <1>1, <1>4 DEF OneProcessInv, RowsInv, ConfirmedHasReceipt
<1>11. AttemptsHoldTheirRows'
  BY <1>1, <1>3, <1>5, WorkersStay
<1> QED BY <1>6, <1>7, <1>8, <1>9, <1>10, <1>11 DEF RowsInv

LEMMA OneProcessStepPreserves ==
    ASSUME OneProcess
    PROVE  OneProcessInv /\ [Next]_vars => OneProcessInv'
<1> SUFFICES ASSUME OneProcessInv, [Next]_vars PROVE OneProcessInv'
  OBVIOUS
<1>1. OutboxInv'
  BY OutboxStepPreserves DEF OneProcessInv
<1>2. ASSUME NEW w \in Workers, WorkerStep(w)
      PROVE  AttemptsHoldTheirRows' /\ RowsInv'
  BY <1>2, ClaimHolds, MarkHolds, OutcomeHolds, PrepareHolds, PersistHolds, SendHolds,
     ConfirmHolds, DeferHolds, ClearHolds, FailHolds, ReportOrCrashHolds DEF WorkerStep
<1>3. CASE Next
  BY <1>1, <1>2, <1>3, EnqueueHolds, RetryHolds, ReportOrCrashHolds, TimeHolds, NetworkHolds
  DEF Next, OneProcessInv
<1>4. CASE UNCHANGED vars
  <2>1. UNCHANGED <<outbox, anchorRow, worker, txs, built>>
    BY <1>4 DEF vars, outboxVars
  <2>2. RowsInv' /\ \A i \in Jobs : HasTurn(i) => HasTurn(i)'
    BY <2>1, RowsHeld DEF RowsHold
  <2>3. AttemptsHoldTheirRows'
    BY <2>1, <2>2, WorkersStay
  <2> QED BY <1>1, <2>2, <2>3 DEF OneProcessInv
<1> QED BY <1>3, <1>4

LEMMA OneProcessInvariant == OneProcess => (Spec => []OneProcessInv)
<1> SUFFICES ASSUME OneProcess PROVE Spec => []OneProcessInv
  OBVIOUS
<1>1. OneProcessInv /\ [Next]_vars => OneProcessInv'
  BY OneProcessStepPreserves
<1> QED BY <1>1, InitEstablishesOneProcess, PTL DEF Spec

\* With one worker process, no crash, RPC failure, lock expiry or retry loses the
\* outcome of a submission: the row of a revision that was anchored is confirmed or
\* holds the hash of the transaction, both tables agree on how a job ended, and a
\* confirmed row names the transaction that anchored it.
THEOREM OutcomeIsNeverLost == OneProcess => (Spec => []OutcomeRecoverable)
<1> SUFFICES ASSUME OneProcess PROVE Spec => []OutcomeRecoverable
  OBVIOUS
<1>1. OneProcessInv => OutcomeRecoverable
  BY DEF OneProcessInv, RowsInv, OutcomeRecoverable, AnchoredIsRemembered,
         SubmissionsAreRemembered, CanApply, MayApply
<1>2. Spec => []OneProcessInv
  BY OneProcessInvariant
<1> QED BY <1>1, <1>2, PTL

\* With one worker process, a row that is being submitted is locked, so that it is
\* claimed again once the lock expires, wherever its attempt stopped.
THEOREM SubmissionsAreReclaimed == OneProcess => (Spec => []SubmittingIsRecoverable)
<1> SUFFICES ASSUME OneProcess PROVE Spec => []SubmittingIsRecoverable
  OBVIOUS
<1>1. OneProcessInv => SubmittingIsRecoverable
  BY DEF OneProcessInv, RowsInv, SubmittingIsLocked, SubmittingIsRecoverable
<1>2. Spec => []OneProcessInv
  BY OneProcessInvariant
<1> QED BY <1>1, <1>2, PTL

-------------------------------------------------------------------------------
(***************************************************************************)
(* The pipeline implements AnchorLifecycle, step by step: what the workers *)
(* do in memory, and with locks, attempts and hashes, is a stutter.        *)
(***************************************************************************)
Item(j, h) == [key |-> j[1], revision |-> j[2], content |-> h]
RequestedItems ==
    {[key |-> j[1], revision |-> j[2], content |-> outbox[j].content] :
        j \in {i \in Jobs : ~Absent(i)}}
ChainItems ==
    UNION {{[key |-> p.key, revision |-> p.revision, content |-> p.content] :
        p \in Links(j[1], j[2])} : j \in Jobs}
StatusTable == [k \in Keys |-> [r \in Revs |-> LifecycleStatus(<<k, r>>)]]

LEMMA LifecycleVariables ==
    /\ Lifecycle!lifecycleVars = <<RequestedItems, ChainItems, StatusTable>>
    /\ (Lifecycle!lifecycleVars)' = <<RequestedItems', ChainItems', StatusTable'>>
BY DEF Lifecycle!lifecycleVars, RequestedItems, ChainItems, StatusTable

LEMMA StatusOfJob ==
    ASSUME NEW j \in Jobs
    PROVE  /\ StatusTable[j[1]][j[2]] = LifecycleStatus(j)
           /\ StatusTable'[j[1]][j[2]] = LifecycleStatus(j)'
BY JobType DEF StatusTable, LifecycleStatus

LEMMA LifecycleStatusIs ==
    ASSUME OutboxInv, NEW j \in Jobs
    PROVE  /\ outbox[j].status = "absent" <=> LifecycleStatus(j) = "none"
           /\ outbox[j].status \in {"pending", "submitting"} <=> LifecycleStatus(j) = "queued"
           /\ outbox[j].status = "failed" <=> LifecycleStatus(j) = "failed"
           /\ outbox[j].status = "confirmed" <=> LifecycleStatus(j) = "confirmed"
BY DEF OutboxInv, OutboxTypeOK, OutboxRow, Statuses, LifecycleStatus

LEMMA OnChainIffLinked ==
    ASSUME NEW j \in Jobs
    PROVE  (\E i \in ChainItems : i.key = j[1] /\ i.revision = j[2]) <=> Links(j[1], j[2]) # {}
<1>1. ASSUME NEW p \in Links(j[1], j[2])
      PROVE  p.key = j[1] /\ p.revision = j[2]
  BY DEF Links
<1>2. ASSUME NEW i \in ChainItems, i.key = j[1], i.revision = j[2]
      PROVE  Links(j[1], j[2]) # {}
  <2>1. PICK k \in Jobs : i \in {[key |-> p.key, revision |-> p.revision, content |-> p.content] :
                                    p \in Links(k[1], k[2])}
    BY DEF ChainItems
  <2>2. PICK p \in Links(k[1], k[2]) :
            i = [key |-> p.key, revision |-> p.revision, content |-> p.content]
    BY <2>1
  <2>3. p.key = k[1] /\ p.revision = k[2]
    BY DEF Links
  <2>4. k[1] = j[1] /\ k[2] = j[2]
    BY <1>2, <2>2, <2>3
  <2> QED BY <2>2, <2>4
<1>3. ASSUME NEW p \in Links(j[1], j[2])
      PROVE  \E i \in ChainItems : i.key = j[1] /\ i.revision = j[2]
  <2> DEFINE i == [key |-> p.key, revision |-> p.revision, content |-> p.content]
  <2>1. i \in ChainItems
    BY DEF ChainItems
  <2> QED BY <1>1, <2>1
<1> QED BY <1>2, <1>3

\* Nothing the life cycle shows has changed.
Invisible ==
    /\ \A j \in Jobs : /\ Absent(j)' <=> Absent(j)
                       /\ outbox'[j].content = outbox[j].content
                       /\ LifecycleStatus(j)' = LifecycleStatus(j)
    /\ \A k, r : Links(k, r)' = Links(k, r)

LEMMA InvisibleStep ==
    ASSUME Invisible
    PROVE  UNCHANGED Lifecycle!lifecycleVars
<1>1. UNCHANGED RequestedItems
  BY DEF Invisible, RequestedItems
<1>2. UNCHANGED ChainItems
  BY DEF Invisible, ChainItems
<1>3. UNCHANGED StatusTable
  <2>1. \A k \in Keys, r \in Revs : <<k, r>> \in Jobs
    BY DEF Jobs
  <2>2. \A k \in Keys, r \in Revs : LifecycleStatus(<<k, r>>)' = LifecycleStatus(<<k, r>>)
    BY <2>1 DEF Invisible
  <2> QED BY <2>2 DEF StatusTable
<1> QED BY <1>1, <1>2, <1>3, LifecycleVariables

LEMMA InitIsLifecycleInit == Init => Lifecycle!Init
<1> SUFFICES ASSUME Init PROVE Lifecycle!Init
  OBVIOUS
<1>1. \A j \in Jobs : outbox[j].status = "absent"
  BY DEF Init, NoRow
<1>2. anchors = {} /\ revisions = {}
  BY DEF Init, ContractInit, __constructor
<1>3. RequestedItems = {}
  BY <1>1 DEF RequestedItems, Absent
<1>4. ChainItems = {}
  BY <1>2 DEF ChainItems, Links
<1>5. StatusTable = [k \in Keys |-> [r \in Revs |-> "none"]]
  <2>1. \A k \in Keys, r \in Revs : LifecycleStatus(<<k, r>>) = "none"
    BY <1>1 DEF Jobs, LifecycleStatus
  <2> QED BY <2>1 DEF StatusTable
<1> QED BY <1>3, <1>4, <1>5 DEF Lifecycle!Init, RequestedItems, ChainItems, StatusTable
-------------------------------------------------------------------------------
\* The steps that the life cycle shows.
LEMMA LifecycleSteps ==
    ASSUME NEW j \in Jobs, NEW h \in Hashes, j[1] \in Keys, j[2] \in Revs
    PROVE  /\ Lifecycle!Request(j[1], j[2], h) <=>
                  /\ LifecycleStatus(j) = "none"
                  /\ j[2] > 1 => StatusTable[j[1]][j[2] - 1] # "none"
                  /\ RequestedItems' = RequestedItems \cup {Item(j, h)}
                  /\ StatusTable' = [StatusTable EXCEPT ![j[1]][j[2]] = "queued"]
                  /\ ChainItems' = ChainItems
           /\ Lifecycle!Anchor(j[1], j[2], h) <=>
                  /\ Item(j, h) \in RequestedItems
                  /\ LifecycleStatus(j) \in {"queued", "failed"}
                  /\ j[2] > 1 => StatusTable[j[1]][j[2] - 1] = "confirmed"
                  /\ \A i \in ChainItems : ~(i.key = j[1] /\ i.revision = j[2])
                  /\ ChainItems' = ChainItems \cup {Item(j, h)}
                  /\ RequestedItems' = RequestedItems /\ StatusTable' = StatusTable
           /\ Lifecycle!Acknowledge(j[1], j[2]) <=>
                  /\ LifecycleStatus(j) = "queued"
                  /\ \E i \in ChainItems : i.key = j[1] /\ i.revision = j[2]
                  /\ StatusTable' = [StatusTable EXCEPT ![j[1]][j[2]] = "confirmed"]
                  /\ RequestedItems' = RequestedItems /\ ChainItems' = ChainItems
           /\ Lifecycle!GiveUp(j[1], j[2]) <=>
                  /\ LifecycleStatus(j) = "queued"
                  /\ StatusTable' = [StatusTable EXCEPT ![j[1]][j[2]] = "failed"]
                  /\ RequestedItems' = RequestedItems /\ ChainItems' = ChainItems
<1>1. LifecycleStatus(j) = StatusTable[j[1]][j[2]]
  BY StatusOfJob
<1> QED
  BY <1>1
  DEF Lifecycle!Request, Lifecycle!Anchor, Lifecycle!Acknowledge, Lifecycle!GiveUp, Item,
      RequestedItems, ChainItems, StatusTable
LEMMA StatusChange ==
    ASSUME NEW j \in Jobs, NEW v, LifecycleStatus(j)' = v,
           \A i \in Jobs : i # j => LifecycleStatus(i)' = LifecycleStatus(i)
    PROVE  StatusTable' = [StatusTable EXCEPT ![j[1]][j[2]] = v]
<1>1. \A k \in Keys, r \in Revs : <<k, r>> \in Jobs
  BY DEF Jobs
<1>2. j[1] \in Keys /\ j[2] \in Revs /\ j = <<j[1], j[2]>>
  BY JobType
<1>3. \A k \in Keys, r \in Revs : LifecycleStatus(<<k, r>>)' =
          IF k = j[1] /\ r = j[2] THEN v ELSE LifecycleStatus(<<k, r>>)
  <2> SUFFICES ASSUME NEW k \in Keys, NEW r \in Revs
               PROVE  LifecycleStatus(<<k, r>>)' =
                          IF k = j[1] /\ r = j[2] THEN v ELSE LifecycleStatus(<<k, r>>)
    OBVIOUS
  <2>1. CASE k = j[1] /\ r = j[2]
    <3>1. LifecycleStatus(<<k, r>>)' = LifecycleStatus(j)'
      BY <1>2, <2>1 DEF LifecycleStatus
    <3> QED BY <2>1, <3>1
  <2>2. CASE ~(k = j[1] /\ r = j[2])
    <3>1. <<k, r>> # j
      BY <1>2, <2>2
    <3> QED BY <1>1, <2>2, <3>1
  <2> QED BY <2>1, <2>2
<1> QED BY <1>2, <1>3 DEF StatusTable

\* A step that changes the status of one row only.
LEMMA OneStatus ==
    ASSUME NEW j \in Jobs, UNCHANGED contractVars,
           \A i \in Jobs : i # j => outbox'[i] = outbox[i],
           Absent(j)' <=> Absent(j), outbox'[j].content = outbox[j].content
    PROVE  /\ RequestedItems' = RequestedItems
           /\ ChainItems' = ChainItems
           /\ \A k, r : Links(k, r)' = Links(k, r)
           /\ \A i \in Jobs : i # j => LifecycleStatus(i)' = LifecycleStatus(i)
<1>1. \A k, r : Links(k, r)' = Links(k, r)
  BY DEF contractVars, Links
<1>2. \A i \in Jobs : (Absent(i)' <=> Absent(i)) /\ outbox'[i].content = outbox[i].content
  BY DEF Absent
<1>3. RequestedItems' = RequestedItems
  BY <1>2 DEF RequestedItems
<1>4. ChainItems' = ChainItems
  BY <1>1 DEF ChainItems
<1>5. \A i \in Jobs : i # j => LifecycleStatus(i)' = LifecycleStatus(i)
  BY DEF LifecycleStatus
<1> QED BY <1>1, <1>3, <1>4, <1>5

Queued == {"pending", "submitting"}

\* A row in the queue stays in the queue.
LEMMA StaysQueued ==
    ASSUME NEW j \in Jobs, UNCHANGED contractVars,
           \A i \in Jobs : i # j => outbox'[i] = outbox[i],
           outbox[j].status \in Queued, outbox'[j].status \in Queued,
           outbox'[j].content = outbox[j].content
    PROVE  UNCHANGED Lifecycle!lifecycleVars
<1>1. (Absent(j)' <=> Absent(j)) /\ LifecycleStatus(j)' = LifecycleStatus(j)
  BY DEF Queued, Absent, LifecycleStatus
<1>2. \A i \in Jobs : /\ Absent(i)' <=> Absent(i)
                      /\ outbox'[i].content = outbox[i].content
  BY <1>1 DEF Absent
<1>3. Invisible
  BY <1>1, <1>2, OneStatus DEF Invisible
<1> QED BY <1>3, InvisibleStep

LEMMA QuietForLifecycle ==
    ASSUME UNCHANGED <<outbox, anchors, revisions>>
    PROVE  UNCHANGED Lifecycle!lifecycleVars
<1>1. Invisible
  BY DEF Invisible, Absent, LifecycleStatus, Links
<1> QED BY <1>1, InvisibleStep

LEMMA WorkerIsQuiet ==
    ASSUME OneProcessInv, NEW w \in Workers,
           \/ Claim(w) \/ Mark(w) \/ Inspect(w) \/ Prepare(w) \/ Persist(w) \/ Send(w)
           \/ Poll(w) \/ Defer(w) \/ Clear(w) \/ Report(w) \/ Crash(w)
    PROVE  UNCHANGED Lifecycle!lifecycleVars
<1> DEFINE j == worker[w].job
<1>0. outbox \in [Jobs -> OutboxRow] /\ UNCHANGED contractVars
  BY DEF OneProcessInv, OutboxInv, OutboxTypeOK, unchangedChain, Claim, Mark, Inspect, Prepare,
         Persist, Send, Poll, Defer, Clear, Report, Crash
<1>1. CASE UNCHANGED outbox
  BY <1>0, <1>1, QuietForLifecycle DEF contractVars
<1>2. CASE Claim(w)
  <2>1. PICK i \in Jobs :
          /\ Claimable(i)
          /\ outbox' = [outbox EXCEPT ![i].status = "submitting",
                                      ![i].attempts = @ + 1,
                                      ![i].lock = "held"]
    BY <1>2 DEF Claim
  <2>2. /\ outbox[i].status \in Queued /\ outbox'[i].status \in Queued
        /\ outbox'[i].content = outbox[i].content
        /\ \A l \in Jobs : l # i => outbox'[l] = outbox[l]
    BY <1>0, <2>1 DEF Claimable, Queued, OutboxRow
  <2> QED BY <1>0, <2>2, StaysQueued
<1>3. CASE Persist(w) \/ Defer(w) \/ Clear(w)
  <2>1. j \in Jobs /\ outbox[j].status = "submitting"
    BY <1>3, AttemptKnows DEF Persist, Defer, Clear, At, Engaged
  <2>2. /\ outbox'[j].status \in Queued
        /\ outbox'[j].content = outbox[j].content
        /\ \A l \in Jobs : l # j => outbox'[l] = outbox[l]
    <3>1. CASE Persist(w)
      BY <1>0, <2>1, <3>1 DEF Persist, Queued, OutboxRow
    <3>2. CASE Defer(w)
      <4>1. PICK row : /\ row.status = "pending" /\ row.content = outbox[j].content
                       /\ outbox' = [outbox EXCEPT ![j] = row]
        <5> DEFINE row == [outbox[j] EXCEPT !.status = "pending", !.due = FALSE, !.lock = "none",
                              !.attempts = IF outbox[j].attempts = 0 THEN 0 ELSE outbox[j].attempts - 1]
        <5>1. outbox' = [outbox EXCEPT ![j] = row]
          BY <1>0, <2>1, <3>2 DEF Defer
        <5>2. row.status = "pending" /\ row.content = outbox[j].content
          BY <1>0, <2>1 DEF OutboxRow
        <5> HIDE DEF row
        <5> QED BY <5>1, <5>2
      <4>2. outbox'[j] = row /\ \A l \in Jobs : l # j => outbox'[l] = outbox[l]
        BY <1>0, <2>1, <4>1
      <4> QED BY <4>1, <4>2 DEF Queued
    <3>3. CASE Clear(w)
      BY <1>0, <2>1, <3>3 DEF Clear, Queued, OutboxRow
    <3> QED BY <1>3, <3>1, <3>2, <3>3
  <2> QED BY <1>0, <2>1, <2>2, StaysQueued DEF Queued
<1> QED
  BY <1>1, <1>2, <1>3 DEF Mark, Inspect, Prepare, Send, Poll, Report, Crash

LEMMA ConfirmAcknowledges ==
    ASSUME OneProcessInv, NEW w \in Workers, Confirm(w)
    PROVE  Lifecycle!Acknowledge(worker[w].job[1], worker[w].job[2]) /\ worker[w].job \in Jobs
<1> DEFINE t == worker[w].tx
<1>1. PICK j \in Jobs : j = worker[w].job /\ outbox[j].status = "submitting"
  BY AttemptKnows DEF Confirm, At, Engaged
<1>2. t \in TxIds /\ txs[t].job = j /\ txs[t].state = "applied"
  BY <1>1 DEF Confirm, At, OneProcessInv, OutboxInv, OutboxTypeOK, WorkerState,
              WorkersHoldTheirOwn, HoldsItsOwn
<1>3. Links(j[1], j[2]) # {}
  BY <1>2 DEF OneProcessInv, OutboxInv, Receipts
<1>4. /\ outbox'[j].status = "confirmed" /\ outbox'[j].content = outbox[j].content
      /\ \A i \in Jobs : i # j => outbox'[i] = outbox[i]
      /\ UNCHANGED contractVars
  BY <1>1 DEF Confirm, unchangedChain, OneProcessInv, OutboxInv, OutboxTypeOK, OutboxRow
<1>5. /\ LifecycleStatus(j) = "queued" /\ LifecycleStatus(j)' = "confirmed"
      /\ Absent(j)' <=> Absent(j)
  BY <1>1, <1>4 DEF LifecycleStatus, Absent
<1>6. /\ RequestedItems' = RequestedItems /\ ChainItems' = ChainItems
      /\ \A i \in Jobs : i # j => LifecycleStatus(i)' = LifecycleStatus(i)
  BY <1>4, <1>5, OneStatus
<1>7. StatusTable' = [StatusTable EXCEPT ![j[1]][j[2]] = "confirmed"]
  BY <1>5, <1>6, StatusChange
<1>8. \E i \in ChainItems : i.key = j[1] /\ i.revision = j[2]
  BY <1>3, OnChainIffLinked
<1>9. j[1] \in Keys /\ j[2] \in Revs
  BY JobType
<1>10. \A h \in Hashes : Lifecycle!Acknowledge(j[1], j[2])
  BY <1>5, <1>6, <1>7, <1>8, <1>9, LifecycleSteps
<1>11. outbox[j].content \in Hashes
  BY <1>1 DEF OneProcessInv, OutboxInv, RowsHaveContent, Absent, OutboxTypeOK, OutboxRow
<1> QED BY <1>1, <1>10, <1>11

LEMMA FailGivesUp ==
    ASSUME OneProcessInv, NEW w \in Workers, Fail(w)
    PROVE  \/ UNCHANGED Lifecycle!lifecycleVars
           \/ \E k \in Keys, r \in Revs : Lifecycle!GiveUp(k, r)
<1>1. PICK j \in Jobs : j = worker[w].job /\ outbox[j].status = "submitting"
  BY AttemptKnows DEF Fail, At, Engaged
<1>2. PICK status \in {"failed", "pending"} :
        outbox' = [outbox EXCEPT ![j].status = status, ![j].due = FALSE, ![j].lock = "none"]
  BY <1>1 DEF Fail
<1>3. /\ outbox'[j].status = status /\ outbox'[j].content = outbox[j].content
      /\ \A i \in Jobs : i # j => outbox'[i] = outbox[i]
      /\ UNCHANGED contractVars
  BY <1>1, <1>2 DEF Fail, unchangedChain, OneProcessInv, OutboxInv, OutboxTypeOK, OutboxRow
<1>4. CASE status = "pending"
  BY <1>1, <1>3, <1>4, StaysQueued DEF Queued
<1>5. CASE status = "failed"
  <2>1. /\ LifecycleStatus(j) = "queued" /\ LifecycleStatus(j)' = "failed"
        /\ Absent(j)' <=> Absent(j)
    BY <1>1, <1>3, <1>5 DEF LifecycleStatus, Absent
  <2>2. /\ RequestedItems' = RequestedItems /\ ChainItems' = ChainItems
        /\ \A i \in Jobs : i # j => LifecycleStatus(i)' = LifecycleStatus(i)
    BY <1>3, <2>1, OneStatus
  <2>3. StatusTable' = [StatusTable EXCEPT ![j[1]][j[2]] = "failed"]
    BY <2>1, <2>2, StatusChange
  <2>4. j[1] \in Keys /\ j[2] \in Revs
    BY JobType
  <2>5. outbox[j].content \in Hashes
    BY <1>1 DEF OneProcessInv, OutboxInv, RowsHaveContent, Absent, OutboxTypeOK, OutboxRow
  <2>6. Lifecycle!GiveUp(j[1], j[2])
    BY <2>1, <2>2, <2>3, <2>4, <2>5, LifecycleSteps
  <2> QED BY <2>4, <2>6
<1> QED BY <1>4, <1>5

LEMMA EnqueueRequests ==
    ASSUME OneProcessInv, NEW j \in Jobs, NEW h \in Hashes, Enqueue(j, h)
    PROVE  Lifecycle!Request(j[1], j[2], h)
<1>1. /\ outbox[j].status = "absent" /\ UNCHANGED contractVars
      /\ j[2] > 1 => outbox[Prev(j)].status # "absent"
  BY DEF Enqueue, Absent
<1>2. /\ outbox'[j].status = "pending" /\ outbox'[j].content = h
      /\ \A i \in Jobs : i # j => outbox'[i] = outbox[i]
  BY DEF Enqueue, OneProcessInv, OutboxInv, OutboxTypeOK
<1>3. LifecycleStatus(j) = "none" /\ LifecycleStatus(j)' = "queued"
  BY <1>1, <1>2 DEF LifecycleStatus
<1>4. \A i \in Jobs : i # j => LifecycleStatus(i)' = LifecycleStatus(i)
  BY <1>2 DEF LifecycleStatus
<1>5. StatusTable' = [StatusTable EXCEPT ![j[1]][j[2]] = "queued"]
  BY <1>3, <1>4, StatusChange
<1>6. ChainItems' = ChainItems
  BY <1>1 DEF contractVars, ChainItems, Links
<1>7. RequestedItems' = RequestedItems \cup {Item(j, h)}
  <2>1. {i \in Jobs : ~Absent(i)'} = {i \in Jobs : ~Absent(i)} \cup {j}
    BY <1>1, <1>2 DEF Absent
  <2>2. RequestedItems' = {[key |-> i[1], revision |-> i[2], content |-> outbox'[i].content] :
                              i \in {i \in Jobs : ~Absent(i)} \cup {j}}
    BY <2>1 DEF RequestedItems
  <2>3. \A i \in {i \in Jobs : ~Absent(i)} : i \in Jobs /\ i # j
    BY <1>1 DEF Absent
  <2> QED BY <1>2, <2>2, <2>3 DEF RequestedItems, Item
<1>8. ASSUME j[2] > 1 PROVE StatusTable[j[1]][j[2] - 1] # "none"
  <2>1. Prev(j) \in Jobs /\ Prev(j)[1] = j[1] /\ Prev(j)[2] = j[2] - 1
    BY <1>8, JobType DEF Prev
  <2>2. LifecycleStatus(Prev(j)) # "none"
    BY <1>1, <1>8, <2>1, LifecycleStatusIs DEF OneProcessInv
  <2> QED BY <2>1, <2>2, StatusOfJob
<1>9. j[1] \in Keys /\ j[2] \in Revs
  BY JobType
<1> QED BY <1>3, <1>5, <1>6, <1>7, <1>8, <1>9, LifecycleSteps
LEMMA RetryRequeues ==
    ASSUME OneProcessInv, NEW k \in Keys, Retry(k)
    PROVE  Lifecycle!Requeue(k)
<1>1. outbox \in [Jobs -> OutboxRow] /\ UNCHANGED contractVars
  BY DEF Retry, OneProcessInv, OutboxInv, OutboxTypeOK
<1>2. \A j \in Jobs :
        /\ outbox'[j].content = outbox[j].content
        /\ IF j[1] = k /\ outbox[j].status = "failed"
           THEN outbox'[j].status = "pending"
           ELSE outbox'[j].status = outbox[j].status
  BY <1>1 DEF Retry, FailedJobs, OutboxRow
<1>3. \A j \in Jobs : LifecycleStatus(j)' =
          IF j[1] = k /\ LifecycleStatus(j) = "failed" THEN "queued" ELSE LifecycleStatus(j)
  <2>1. \A j \in Jobs : outbox[j].status = "failed" <=> LifecycleStatus(j) = "failed"
    BY LifecycleStatusIs DEF OneProcessInv
  <2> QED BY <1>2, <2>1 DEF LifecycleStatus
<1>4. RequestedItems' = RequestedItems
  <2>1. \A j \in Jobs : Absent(j)' <=> Absent(j)
    BY <1>2 DEF Absent
  <2> QED BY <1>2, <2>1 DEF RequestedItems
<1>5. ChainItems' = ChainItems
  BY <1>1 DEF contractVars, ChainItems, Links
<1>6. \A l \in Keys, r \in Revs : <<l, r>> \in Jobs /\ <<l, r>>[1] = l /\ <<l, r>>[2] = r
  BY DEF Jobs
<1>7. StatusTable' = [StatusTable EXCEPT ![k] =
          [r \in Revs |-> IF @[r] = "failed" THEN "queued" ELSE @[r]]]
  <2>1. \A l \in Keys, r \in Revs : LifecycleStatus(<<l, r>>)' =
            IF l = k /\ LifecycleStatus(<<l, r>>) = "failed" THEN "queued"
            ELSE LifecycleStatus(<<l, r>>)
    BY <1>3, <1>6
  <2> QED BY <2>1 DEF StatusTable
<1>8. \E r \in Revs : StatusTable[k][r] = "failed"
  <2>1. PICK j \in Jobs : j[1] = k /\ outbox[j].status = "failed"
    BY DEF Retry, FailedJobs
  <2> QED BY <2>1, StatusOfJob, LifecycleStatusIs, JobType DEF OneProcessInv
<1> QED
  BY <1>4, <1>5, <1>7, <1>8 DEF Lifecycle!Requeue, RequestedItems, ChainItems, StatusTable

LEMMA TimeIsQuiet ==
    ASSUME OneProcessInv, NEW j \in Jobs, LockExpires(j) \/ BecomesDue(j)
    PROVE  UNCHANGED Lifecycle!lifecycleVars
<1>1. outbox \in [Jobs -> OutboxRow] /\ UNCHANGED contractVars
  BY DEF LockExpires, BecomesDue, unchangedButOutbox, unchangedChain, OneProcessInv, OutboxInv,
         OutboxTypeOK
<1>2. \A i \in Jobs : /\ outbox'[i].status = outbox[i].status
                      /\ outbox'[i].content = outbox[i].content
  BY <1>1 DEF LockExpires, BecomesDue, OutboxRow
<1>3. Invisible
  BY <1>1, <1>2 DEF Invisible, Absent, LifecycleStatus, contractVars, Links
<1> QED BY <1>3, InvisibleStep

\* The record that a transaction that succeeds leaves behind.
LEMMA ApplyLinks ==
    ASSUME OutboxInv, NEW t \in TxIds, Apply(t), NEW j \in Jobs, j = txs[t].job
    PROVE  /\ Links(j[1], j[2]) = {}
           /\ \A i \in Jobs : i # j => Links(i[1], i[2])' = Links(i[1], i[2])
           /\ \E p : /\ Links(j[1], j[2])' = {p}
                     /\ p.key = j[1] /\ p.revision = j[2] /\ p.content = outbox[j].content
<1>1. j[1] \in Keys /\ j[2] \in Nat /\ j[2] >= 1 /\ j = <<j[1], j[2]>>
  BY JobType
<1>2. \A i \in Jobs : i # j => ~(i[1] = j[1] /\ i[2] = j[2])
  BY JobType
<1>3. CASE j[2] = 1
  <2> DEFINE new == [key |-> j[1], revision |-> 1, content |-> outbox[j].content,
                     schema |-> 1, ledger |-> NextLedger]
  <2>1. anchors' = anchors \cup {new} /\ revisions' = revisions /\ ~HasAnchor(j[1], 1)
    BY <1>3 DEF Apply, anchor, AnchorAccepted
  <2>2. Links(j[1], j[2]) = {}
    BY <1>3, <2>1 DEF Links, HasAnchor
  <2>3. \A k, r : Links(k, r)' = IF k = j[1] /\ r = 1 THEN Links(k, r) \cup {new} ELSE Links(k, r)
    BY <2>1 DEF Links
  <2>4. Links(j[1], j[2])' = {new} /\ new.key = j[1] /\ new.revision = j[2]
    BY <1>3, <2>2, <2>3
  <2>5. new.content = outbox[j].content
    OBVIOUS
  <2> HIDE DEF new
  <2>6. \E p : /\ Links(j[1], j[2])' = {p}
                /\ p.key = j[1] /\ p.revision = j[2] /\ p.content = outbox[j].content
    BY <2>4, <2>5
  <2> QED BY <1>2, <1>3, <2>2, <2>3, <2>6
<1>4. CASE j[2] # 1
  <2> DEFINE new == [key |-> j[1], revision |-> j[2], content |-> outbox[j].content,
                     previous |-> outbox[j].previous, schema |-> 1, kind |-> 0,
                     ledger |-> NextLedger]
  <2>1. anchors' = anchors /\ revisions' = revisions \cup {new} /\ ~HasRevision(j[1], j[2])
    BY <1>4 DEF Apply, anchor_revision, RevisionAccepted
  <2>2. Links(j[1], j[2]) = {}
    BY <1>4, <2>1 DEF Links, HasRevision
  <2>3. \A k, r : Links(k, r)' =
            IF k = j[1] /\ r = j[2] THEN Links(k, r) \cup {new} ELSE Links(k, r)
    BY <1>1, <1>4, <2>1 DEF Links
  <2>4. Links(j[1], j[2])' = {new} /\ new.key = j[1] /\ new.revision = j[2]
    BY <2>2, <2>3
  <2>5. new.content = outbox[j].content
    OBVIOUS
  <2> HIDE DEF new
  <2>6. \E p : /\ Links(j[1], j[2])' = {p}
                /\ p.key = j[1] /\ p.revision = j[2] /\ p.content = outbox[j].content
    BY <2>4, <2>5
  <2> QED BY <1>2, <2>2, <2>3, <2>6
<1> QED BY <1>3, <1>4

LEMMA ApplyAnchors ==
    ASSUME OneProcessInv, NEW t \in TxIds, Apply(t)
    PROVE  \E k \in Keys, r \in Revs, h \in Hashes : Lifecycle!Anchor(k, r, h)
<1>1. t <= built /\ txs[t].job \in Jobs /\ ~Absent(txs[t].job) /\ HasTurn(txs[t].job)
  <2>1. CanApply(t)
    BY DEF Apply, Includable, CanApply, MayApply
  <2> QED BY <2>1, SubmittedIsBuilt DEF OneProcessInv, RowsInv, TxsHaveTurns
<1>2. PICK j \in Jobs : j = txs[t].job /\ ~Absent(j) /\ HasTurn(j)
  BY <1>1
<1>3. UNCHANGED outbox
  BY DEF Apply, Included
<1>4. /\ Links(j[1], j[2]) = {}
      /\ \A i \in Jobs : i # j => Links(i[1], i[2])' = Links(i[1], i[2])
  BY <1>2, ApplyLinks DEF OneProcessInv
<1>5. PICK p : /\ Links(j[1], j[2])' = {p}
               /\ p.key = j[1] /\ p.revision = j[2] /\ p.content = outbox[j].content
  BY <1>2, ApplyLinks DEF OneProcessInv
<1>6. PICK h \in Hashes : h = outbox[j].content
  BY <1>2 DEF OneProcessInv, OutboxInv, RowsHaveContent, OutboxTypeOK, OutboxRow
<1>7. Item(j, h) \in RequestedItems
  BY <1>2, <1>6 DEF Item, RequestedItems
<1>8. LifecycleStatus(j) \in {"queued", "failed"}
  <2>1. outbox[j].status # "confirmed"
    BY <1>4 DEF OneProcessInv, OutboxInv, RowsInv, TablesAgree, ConfirmedIsAnchored
  <2> QED
    BY <1>2, <2>1 DEF LifecycleStatus, Absent, OneProcessInv, OutboxInv, OutboxTypeOK, OutboxRow,
                      Statuses
<1>9. ASSUME j[2] > 1 PROVE StatusTable[j[1]][j[2] - 1] = "confirmed"
  <2>1. Prev(j) \in Jobs /\ Prev(j)[1] = j[1] /\ Prev(j)[2] = j[2] - 1
    BY <1>9, JobType DEF Prev
  <2>2. LifecycleStatus(Prev(j)) = "confirmed"
    BY <1>2, <1>9 DEF HasTurn, LifecycleStatus
  <2> QED BY <2>1, <2>2, StatusOfJob
<1>10. \A i \in ChainItems : ~(i.key = j[1] /\ i.revision = j[2])
  BY <1>4, OnChainIffLinked
<1>11. ChainItems' = ChainItems \cup {Item(j, h)}
  <2> DEFINE Of(L) == {[key |-> q.key, revision |-> q.revision, content |-> q.content] : q \in L}
  <2>1. Of(Links(j[1], j[2])') = {Item(j, h)} /\ Of(Links(j[1], j[2])) = {}
    BY <1>4, <1>5, <1>6 DEF Item
  <2>2. \A i \in Jobs : i # j => Of(Links(i[1], i[2])') = Of(Links(i[1], i[2]))
    BY <1>4
  <2>3. ChainItems = UNION {Of(Links(i[1], i[2])) : i \in Jobs}
    BY DEF ChainItems
  <2>4. ChainItems' = UNION {Of(Links(i[1], i[2])') : i \in Jobs}
    BY DEF ChainItems
  <2> HIDE DEF Of
  <2>5. ChainItems' \subseteq ChainItems \cup {Item(j, h)}
    BY <2>1, <2>2, <2>3, <2>4
  <2>6. ChainItems \cup {Item(j, h)} \subseteq ChainItems'
    BY <2>1, <2>2, <2>3, <2>4
  <2> QED BY <2>5, <2>6
<1>12. RequestedItems' = RequestedItems /\ StatusTable' = StatusTable
  BY <1>3 DEF RequestedItems, StatusTable, Absent, LifecycleStatus
<1>13. j[1] \in Keys /\ j[2] \in Revs
  BY JobType
<1>14. Lifecycle!Anchor(j[1], j[2], h)
  BY <1>6, <1>7, <1>8, <1>9, <1>10, <1>11, <1>12, <1>13, LifecycleSteps
<1> QED BY <1>6, <1>13, <1>14

LEMMA NextIsLifecycleNext ==
    OneProcessInv /\ [Next]_vars => [Lifecycle!Next]_(Lifecycle!lifecycleVars)
<1> SUFFICES ASSUME OneProcessInv, [Next]_vars
             PROVE  Lifecycle!Next \/ UNCHANGED Lifecycle!lifecycleVars
  OBVIOUS
<1>1. ASSUME NEW j \in Jobs, NEW h \in Hashes, Enqueue(j, h) PROVE Lifecycle!Next
  BY <1>1, EnqueueRequests, JobType DEF Lifecycle!Next
<1>2. ASSUME NEW k \in Keys, Retry(k) PROVE Lifecycle!Next
  BY <1>2, RetryRequeues DEF Lifecycle!Next
<1>3. ASSUME NEW w \in Workers, WorkerStep(w) \/ Crash(w)
      PROVE  Lifecycle!Next \/ UNCHANGED Lifecycle!lifecycleVars
  <2>1. CASE Confirm(w)
    BY <2>1, ConfirmAcknowledges, JobType DEF Lifecycle!Next
  <2>2. CASE Fail(w)
    BY <2>2, FailGivesUp DEF Lifecycle!Next
  <2> QED BY <1>3, <2>1, <2>2, WorkerIsQuiet DEF WorkerStep
<1>4. ASSUME NEW t \in TxIds, Settle(t) \/ Reject(t)
      PROVE  UNCHANGED Lifecycle!lifecycleVars
  <2>1. UNCHANGED <<outbox, anchors, revisions>>
    BY <1>4 DEF Settle, Reject, Included, CloseLedger, contractVars
  <2> QED BY <2>1, QuietForLifecycle
<1>5. ASSUME NEW t \in TxIds, Apply(t) PROVE Lifecycle!Next
  BY <1>5, ApplyAnchors DEF Lifecycle!Next
<1>6. CASE UNCHANGED vars
  BY <1>6, QuietForLifecycle DEF vars, outboxVars, contractVars
<1> QED
  BY <1>1, <1>2, <1>3, <1>4, <1>5, <1>6, TimeIsQuiet DEF Next

\* With one worker process the pipeline keeps the promise of AnchorLifecycle: each
\* revision is requested once, anchored at most once, after its predecessor was
\* acknowledged and with the content requested, and acknowledged only then.
THEOREM PipelineImplementsLifecycle == OneProcess => (Spec => ImplementsLifecycle)
<1> SUFFICES ASSUME OneProcess PROVE Spec => ImplementsLifecycle
  OBVIOUS
<1>1. Spec => []OneProcessInv
  BY OneProcessInvariant
<1> QED
  BY <1>1, InitIsLifecycleInit, NextIsLifecycleNext, PTL
  DEF Spec, ImplementsLifecycle, Lifecycle!Spec
===============================================================================
