-------------------------- MODULE EventArchiveProofs --------------------------
(***************************************************************************)
(* Machine-checked proofs about EventArchive: for any number of ingestors, *)
(* any page and any number of events, ledgers, failures and crashes.       *)
(***************************************************************************)
EXTENDS EventArchive, FiniteSetTheorems, SequenceTheorems, TLAPS

-------------------------------------------------------------------------------
(***************************************************************************)
(* The inductive invariant.  The archive is determined by the number of    *)
(* its rows: it holds the events after the skipped ones, in their order.   *)
(***************************************************************************)
Skipped == EventsBefore(StartLedger)
ArchivedTo == Skipped + Cardinality(archive)

\* The network has reached the configured range; no event is skipped from now on.
Started == tip >= StartLedger

Chain(n) == [i \in 1 .. n |-> Skipped + i]

RowOf(e) ==
    [event |-> e, ledger |-> emitted[e], createdAt |-> e - Skipped - 1,
     previous |-> Chain(e - Skipped - 1), hash |-> Chain(e - Skipped)]

\* Ledgers of events do not decrease, so the skipped events are the first ones.
NetworkInv ==
    /\ \A e \in 1 .. Len(emitted) : emitted[e] <= tip
    /\ \A d, e \in 1 .. Len(emitted) : d <= e => emitted[d] <= emitted[e]
    /\ \E n \in 0 .. Len(emitted) :
        \A e \in 1 .. Len(emitted) : (emitted[e] < StartLedger) <=> (e <= n)

TableInv ==
    /\ IsFiniteSet(archive)
    /\ ArchivedTo <= Len(emitted)
    /\ archive = {RowOf(e) : e \in Skipped + 1 .. ArchivedTo}

\* A cursor points between the skipped events and the end of the archive.
CursorInv(c) ==
    IF c.saved THEN Started /\ c.position \in Skipped .. ArchivedTo ELSE c.position = 0

\* An ingestor's next event is in the archive or is the one to be archived next;
\* in the second case its transaction began when the archive ended just there.
PageInv(i) ==
    i.step \in {"begin", "append"} =>
        /\ Started
        /\ i.next \in Skipped + 1 .. i.last
        /\ i.last <= Len(emitted)
        /\ i.next <= ArchivedTo + 1

BeginInv(i) ==
    i.step = "append" => i.createdAt \in i.next - Skipped - 1 .. Cardinality(archive)

PageEndInv(i) == i.step = "save" => Started /\ i.last \in Skipped .. ArchivedTo

IngestorInv(i) == CursorInv(i.request) /\ PageInv(i) /\ BeginInv(i) /\ PageEndInv(i)

ArchiveInv ==
    /\ ArchiveTypeOK /\ NetworkInv /\ TableInv
    /\ CursorInv(cursor)
    /\ \A p \in Ingestors : IngestorInv(ingestor[p])

-------------------------------------------------------------------------------
LEMMA EmittedType ==
    ASSUME ArchiveTypeOK
    PROVE  /\ Len(emitted) \in 0 .. MaxEvents
           /\ emitted \in [1 .. Len(emitted) -> 1 .. MaxLedger]
           /\ emitted \in Seq(1 .. MaxLedger)
<1>1. PICK n \in 0 .. MaxEvents : emitted \in [1 .. n -> 1 .. MaxLedger]
  BY DEF ArchiveTypeOK
<1>2. emitted \in Seq(1 .. MaxLedger) /\ Len(emitted) = n
  BY <1>1, ArchiveAssumption
<1> QED BY <1>1, <1>2

CountBelow(ledgers) == Cardinality({e \in 1 .. Len(ledgers) : ledgers[e] < StartLedger})

LEMMA SkippedCounts == Skipped = CountBelow(emitted) /\ Skipped' = CountBelow(emitted')
BY DEF Skipped, EventsBefore, CountBelow

\* The events before the start ledger, where they are the first ones.
LEMMA CountBefore ==
    ASSUME NEW ledgers, Len(ledgers) \in Nat, NEW n \in 0 .. Len(ledgers),
           \A e \in 1 .. Len(ledgers) : (ledgers[e] < StartLedger) <=> (e <= n)
    PROVE  CountBelow(ledgers) = n
<1>1. {e \in 1 .. Len(ledgers) : ledgers[e] < StartLedger} = 1 .. n
  OBVIOUS
<1>2. Cardinality(1 .. n) = n
  BY FS_Interval
<1> QED BY <1>1, <1>2 DEF CountBelow

LEMMA SkippedIs ==
    ASSUME ArchiveTypeOK, NetworkInv
    PROVE  /\ Skipped \in 0 .. Len(emitted)
           /\ \A e \in 1 .. Len(emitted) : (emitted[e] < StartLedger) <=> (e <= Skipped)
<1>1. PICK n \in 0 .. Len(emitted) :
          \A e \in 1 .. Len(emitted) : (emitted[e] < StartLedger) <=> (e <= n)
  BY DEF NetworkInv
<1>2. Skipped = n
  BY <1>1, CountBefore, SkippedCounts, EmittedType
<1> QED BY <1>1, <1>2

LEMMA ArchivedToType ==
    ASSUME ArchiveTypeOK, NetworkInv, TableInv
    PROVE  /\ Cardinality(archive) \in 0 .. MaxEvents
           /\ ArchivedTo \in Skipped .. Len(emitted)
<1>1. Cardinality(archive) \in Nat
  BY FS_CardinalityType DEF TableInv
<1> QED BY <1>1, EmittedType, SkippedIs, ArchiveAssumption DEF ArchivedTo, TableInv

LEMMA ChainType ==
    ASSUME ArchiveTypeOK, NetworkInv, NEW n \in 0 .. Len(emitted) - Skipped
    PROVE  /\ Chain(n) \in ChainHashes
           /\ DOMAIN Chain(n) = 1 .. n
           /\ Append(Chain(n), Skipped + n + 1) = Chain(n + 1)
<1>1. Skipped \in Nat /\ Len(emitted) <= MaxEvents /\ Skipped + n <= Len(emitted)
      /\ n \in 0 .. MaxEvents /\ Len(emitted) \in Nat
  BY EmittedType, SkippedIs, ArchiveAssumption
<1>2. Chain(n) \in [1 .. n -> Events]
  BY <1>1, ArchiveAssumption DEF Chain, Events
<1>3. Chain(n) \in Seq(Nat) /\ Len(Chain(n)) = n
  BY <1>1, <1>2, ArchiveAssumption DEF Events, Chain
<1>4. Append(Chain(n), Skipped + n + 1) = Chain(n + 1)
  <2> DEFINE a == Append(Chain(n), Skipped + n + 1)
  <2>1. a \in Seq(Nat) /\ Len(a) = n + 1 /\ DOMAIN a = 1 .. n + 1
    BY <1>1, <1>3
  <2>2. ASSUME NEW i \in 1 .. n + 1 PROVE a[i] = Chain(n + 1)[i]
    BY <1>1, <1>3 DEF Chain
  <2>3. a = [i \in 1 .. n + 1 |-> a[i]]
    BY <2>1
  <2> QED BY <2>2, <2>3 DEF Chain
<1> QED BY <1>1, <1>2, <1>4 DEF ChainHashes, Chain

\* The row of an event determines it, and is of the table's type.
LEMMA RowIs ==
    ASSUME ArchiveTypeOK, NetworkInv, NEW e \in Skipped + 1 .. Len(emitted)
    PROVE  /\ RowOf(e) \in Row
           /\ RowOf(e).event = e /\ RowOf(e).ledger = emitted[e]
           /\ RowOf(e).createdAt = e - Skipped - 1
           /\ RowOf(e).previous = Chain(e - Skipped - 1)
           /\ RowOf(e).hash = Chain(e - Skipped)
<1>1. Skipped \in Nat /\ Len(emitted) <= MaxEvents /\ Len(emitted) \in Nat /\ e \in Nat
      /\ emitted[e] \in 1 .. MaxLedger
  BY EmittedType, SkippedIs
<1>2. Chain(e - Skipped - 1) \in ChainHashes /\ Chain(e - Skipped) \in ChainHashes
  BY <1>1, ChainType
<1> QED BY <1>1, <1>2, ArchiveAssumption DEF RowOf, Row, Events

LEMMA ArchivedIs ==
    ASSUME ArchiveTypeOK, NetworkInv, TableInv, NEW e \in Nat
    PROVE  Archived(e) <=> e \in Skipped + 1 .. ArchivedTo
BY RowIs, SkippedIs, ArchivedToType, EmittedType DEF Archived, TableInv

-------------------------------------------------------------------------------
LEMMA InvImpliesSound == ArchiveInv => ArchiveIsSound
<1> SUFFICES ASSUME ArchiveInv PROVE CursorPassesArchivedOnly /\ ArchiveIsOneChain
  BY DEF ArchiveInv, ArchiveIsSound
<1> USE DEF ArchiveInv
<1>1. CursorPassesArchivedOnly
  <2> SUFFICES ASSUME NEW e \in 1 .. cursor.position, InRange(e) PROVE Archived(e)
    BY DEF CursorPassesArchivedOnly
  <2>1. e \in Nat /\ cursor.position \in Nat /\ e > Skipped
    BY SkippedIs, EmittedType, ArchiveAssumption, SMTT(30) DEF InRange, ArchiveTypeOK, Cursor
  <2>2. cursor.position <= ArchivedTo
    BY SkippedIs, ArchivedToType DEF CursorInv
  <2> QED BY <2>1, <2>2, ArchivedIs, SkippedIs, ArchivedToType
<1>2. ArchiveIsOneChain
  <2> SUFFICES ASSUME NEW r \in archive
               PROVE  /\ r.hash = [i \in 1 .. r.event - (Skipped + 1) + 1 |-> (Skipped + 1) + i - 1]
                      /\ \A s \in archive : s.event = r.event => s = r
    BY DEF ArchiveIsOneChain, Skipped
  <2>1. PICK e \in Skipped + 1 .. ArchivedTo : r = RowOf(e)
    BY DEF TableInv
  <2>2. r.event = e /\ r.hash = Chain(e - Skipped)
    BY <2>1, RowIs, SkippedIs, ArchivedToType, EmittedType
  <2>3. r.hash = [i \in 1 .. r.event - (Skipped + 1) + 1 |-> (Skipped + 1) + i - 1]
    <3>1. e \in Nat /\ Skipped \in Nat
      BY SkippedIs, ArchivedToType
    <3>2. e - (Skipped + 1) + 1 = e - Skipped
      BY <3>1
    <3> QED BY <2>2, <3>1, <3>2 DEF Chain
  <2>4. ASSUME NEW s \in archive, s.event = r.event PROVE s = r
    BY <2>1, <2>2, <2>4, RowIs, SkippedIs, ArchivedToType, EmittedType, SMTT(30) DEF TableInv
  <2> QED BY <2>3, <2>4
<1> QED BY <1>1, <1>2

-------------------------------------------------------------------------------
LEMMA IdleIs ==
    /\ NoCursor \in Cursor /\ Idle \in Ingestor
    /\ NoCursor.saved = FALSE /\ NoCursor.position = 0
    /\ Idle.step = "idle" /\ Idle.request = NoCursor
BY ArchiveAssumption DEF NoCursor, Idle, Cursor, Ingestor, Steps

LEMMA InitInv == Init => ArchiveInv
<1> SUFFICES ASSUME Init PROVE ArchiveInv
  OBVIOUS
<1>1. ArchiveTypeOK
  <2>1. emitted \in [1 .. 0 -> 1 .. MaxLedger] /\ 0 \in 0 .. MaxEvents
    BY ArchiveAssumption DEF Init
  <2>2. \E n \in 0 .. MaxEvents : emitted \in [1 .. n -> 1 .. MaxLedger]
    BY <2>1
  <2>3. emitted \in UNION {[1 .. n -> 1 .. MaxLedger] : n \in 0 .. MaxEvents}
    BY <2>2
  <2>4. ingestor \in [Ingestors -> Ingestor] /\ cursor \in Cursor
    BY IdleIs DEF Init
  <2>5. tip \in 1 .. MaxLedger /\ oldest \in 1 .. MaxLedger /\ failures \in 0 .. MaxFailures
    BY ArchiveAssumption DEF Init
  <2>6. archive \subseteq Row /\ incident \in BOOLEAN
    BY Zenon DEF Init
  <2> QED BY <2>3, <2>4, <2>5, <2>6 DEF ArchiveTypeOK
<1>2. Len(emitted) = 0 /\ NetworkInv
  BY DEF Init, NetworkInv
<1>3. Skipped = 0
  BY <1>1, <1>2, SkippedIs
<1>4. IsFiniteSet(archive) /\ ArchivedTo = 0
  BY <1>3, FS_EmptySet DEF Init, ArchivedTo
<1>5. TableInv
  BY <1>2, <1>3, <1>4 DEF Init, TableInv
<1>6. CursorInv(cursor)
  BY IdleIs DEF Init, CursorInv
<1>7. ASSUME NEW p \in Ingestors PROVE IngestorInv(ingestor[p])
  BY IdleIs DEF Init, IngestorInv, CursorInv, PageInv, BeginInv, PageEndInv
<1> QED BY <1>1, <1>2, <1>5, <1>6, <1>7 DEF ArchiveInv

\* What the invariant says of one ingestor depends on the network and the table only.
LEMMA MemoryStep ==
    ASSUME ArchiveInv, UNCHANGED <<emitted, tip, archive>>,
           NEW p \in Ingestors, NEW i \in Ingestor, IngestorInv(i),
           ingestor' = [ingestor EXCEPT ![p] = i],
           NEW c \in Cursor, cursor' = c, CursorInv(c),
           oldest' \in 1 .. MaxLedger, incident' \in BOOLEAN, failures' \in 0 .. MaxFailures
    PROVE  ArchiveInv'
<1>1. ArchiveTypeOK'
  BY DEF ArchiveInv, ArchiveTypeOK
<1>2. Skipped' = Skipped /\ ArchivedTo' = ArchivedTo /\ Started' = Started
  BY DEF Skipped, EventsBefore, ArchivedTo, Started
<1>3. NetworkInv'
  BY DEF ArchiveInv, NetworkInv
<1>4. TableInv'
  BY <1>2 DEF ArchiveInv, TableInv, RowOf, Chain
<1>5. CursorInv(cursor)'
  BY <1>2 DEF CursorInv
<1>6. ASSUME NEW q \in Ingestors PROVE IngestorInv(ingestor[q])'
  <2>1. ingestor'[q] = IF q = p THEN i ELSE ingestor[q]
    BY DEF ArchiveInv, ArchiveTypeOK
  <2>2. IngestorInv(ingestor'[q])
    BY <2>1 DEF ArchiveInv
  <2> QED BY <1>2, <2>2 DEF IngestorInv, CursorInv, PageInv, BeginInv, PageEndInv
<1> QED BY <1>1, <1>3, <1>4, <1>5, <1>6 DEF ArchiveInv

\* A step of an ingestor that changes no table.
LEMMA QuietStep ==
    ASSUME ArchiveInv, UNCHANGED <<emitted, tip, oldest, archive, cursor>>,
           NEW p \in Ingestors, NEW i \in Ingestor, IngestorInv(i),
           ingestor' = [ingestor EXCEPT ![p] = i],
           incident' \in BOOLEAN, failures' \in 0 .. MaxFailures
    PROVE  ArchiveInv'
<1>1. cursor \in Cursor /\ CursorInv(cursor) /\ oldest \in 1 .. MaxLedger
  BY DEF ArchiveInv, ArchiveTypeOK
<1> QED BY <1>1, MemoryStep

\* A process between two runs, or about to end one, owes nothing.
LEMMA EndStep ==
    ASSUME NEW step \in {"idle", "raise", "resolve", "check", "fetch"},
           NEW c \in Cursor, CursorInv(c)
    PROVE  /\ [Idle EXCEPT !.step = step, !.request = c] \in Ingestor
           /\ IngestorInv([Idle EXCEPT !.step = step, !.request = c])
           /\ [Idle EXCEPT !.step = step] \in Ingestor
           /\ IngestorInv([Idle EXCEPT !.step = step])
           /\ IngestorInv(Idle)
BY IdleIs, ArchiveAssumption
   DEF Ingestor, Steps, Idle, NoCursor, IngestorInv, CursorInv, PageInv, BeginInv, PageEndInv

-------------------------------------------------------------------------------
LEMMA CloseLedgerStep == ArchiveInv /\ CloseLedger => ArchiveInv'
<1> SUFFICES ASSUME ArchiveInv, CloseLedger PROVE ArchiveInv'
  OBVIOUS
<1> USE DEF ArchiveInv
<1>1. PICK k \in 0 .. 2 :
          /\ Len(emitted) + k <= MaxEvents
          /\ emitted' = emitted \o [i \in 1 .. k |-> tip + 1]
  BY DEF CloseLedger
<1> DEFINE more == [i \in 1 .. k |-> tip + 1]
<1>2. /\ tip \in 1 .. MaxLedger /\ tip + 1 \in 1 .. MaxLedger /\ tip' = tip + 1
      /\ UNCHANGED <<oldest, cursor, archive, ingestor, incident, failures>>
  BY ArchiveAssumption DEF CloseLedger, ArchiveTypeOK
<1>3. more \in Seq(1 .. MaxLedger) /\ Len(more) = k
  BY <1>2
<1> HIDE DEF more
<1>4. /\ Len(emitted') = Len(emitted) + k
      /\ emitted' \in [1 .. Len(emitted) + k -> 1 .. MaxLedger]
      /\ \A e \in 1 .. Len(emitted) + k :
            emitted'[e] = IF e <= Len(emitted) THEN emitted[e] ELSE tip + 1
  <2>1. emitted' = emitted \o more
    BY <1>1 DEF more
  <2>2. \A e \in 1 .. k : more[e] = tip + 1
    BY DEF more
  <2>3. emitted \in Seq(1 .. MaxLedger) /\ Len(emitted) \in Nat
    BY EmittedType
  <2>4. emitted' \in Seq(1 .. MaxLedger) /\ Len(emitted') = Len(emitted) + k
    BY <2>1, <2>3, <1>3
  <2>5. ASSUME NEW e \in 1 .. Len(emitted) + k
        PROVE  emitted'[e] = IF e <= Len(emitted) THEN emitted[e] ELSE more[e - Len(emitted)]
    BY <2>1, <2>3, <1>3
  <2>6. emitted' \in [1 .. Len(emitted) + k -> 1 .. MaxLedger]
    BY <2>4, LenProperties
  <2> QED BY <2>2, <2>3, <2>4, <2>5, <2>6
<1>5. ArchiveTypeOK'
  <2>1. Len(emitted) + k \in 0 .. MaxEvents
    BY <1>1, EmittedType, ArchiveAssumption
  <2>2. emitted' \in UNION {[1 .. n -> 1 .. MaxLedger] : n \in 0 .. MaxEvents}
    BY <1>4, <2>1
  <2> QED BY <1>2, <2>2 DEF ArchiveTypeOK
<1>6. /\ \A e \in 1 .. Len(emitted') : emitted'[e] <= tip'
      /\ \A d, e \in 1 .. Len(emitted') : d <= e => emitted'[d] <= emitted'[e]
  <2>1. ASSUME NEW e \in 1 .. Len(emitted') PROVE emitted'[e] \in Nat /\ emitted'[e] <= tip'
    BY <1>2, <1>4, EmittedType, ArchiveAssumption, SMTT(30) DEF NetworkInv
  <2>2. ASSUME NEW d \in 1 .. Len(emitted'), NEW e \in 1 .. Len(emitted'), d <= e
        PROVE  emitted'[d] <= emitted'[e]
    <3>1. CASE e <= Len(emitted)
      BY <1>4, <2>2, <3>1, EmittedType DEF NetworkInv
    <3>2. CASE e > Len(emitted)
      BY <1>2, <1>4, <2>1, <3>2, EmittedType
    <3> QED BY <3>1, <3>2, <1>4, EmittedType
  <2> QED BY <2>1, <2>2
<1>7. CASE tip + 1 >= StartLedger
  <2>1. \A e \in 1 .. Len(emitted') : (emitted'[e] < StartLedger) <=> (e <= Skipped)
    BY <1>2, <1>4, <1>7, EmittedType, SkippedIs, ArchiveAssumption
  <2>2. NetworkInv'
    <3>1. Skipped \in 0 .. Len(emitted')
      BY <1>4, SkippedIs, EmittedType
    <3> QED BY <1>6, <2>1, <3>1 DEF NetworkInv
  <2>3. Skipped' = Skipped
    <3>1. Skipped \in 0 .. Len(emitted') /\ Len(emitted') \in Nat
      BY <1>4, SkippedIs, EmittedType
    <3> QED BY <2>1, <3>1, CountBefore, SkippedCounts
  <2>4. ArchivedTo' = ArchivedTo /\ (Started => Started') /\ ArchivedTo \in Skipped .. Len(emitted)
    BY <1>2, <2>3, ArchivedToType, ArchiveAssumption DEF ArchivedTo, Started
  <2>5. TableInv'
    <3>1. \A e \in Skipped + 1 .. ArchivedTo : RowOf(e)' = RowOf(e)
      <4> TAKE e \in Skipped + 1 .. ArchivedTo
      <4>1. emitted'[e] = emitted[e]
        BY <1>4, <2>4, SkippedIs, EmittedType
      <4> QED BY <2>3, <4>1 DEF RowOf, Chain
    <3> QED BY <1>2, <1>4, <2>3, <2>4, <3>1, EmittedType DEF TableInv
  <2>6. CursorInv(cursor)'
    BY <1>2, <2>3, <2>4 DEF CursorInv
  <2>7. ASSUME NEW q \in Ingestors PROVE IngestorInv(ingestor[q])'
    <3>1. /\ IngestorInv(ingestor[q]) /\ ingestor[q]' = ingestor[q]
          /\ ingestor[q].last \in Nat /\ archive' = archive
      BY <1>2 DEF ArchiveTypeOK, Ingestor
    <3> QED BY <1>4, <2>3, <2>4, <3>1, EmittedType
            DEF IngestorInv, CursorInv, PageInv, BeginInv, PageEndInv
  <2> QED BY <1>5, <2>2, <2>5, <2>6, <2>7
<1>8. CASE tip + 1 < StartLedger
  <2>1. ~Started
    BY <1>2, <1>8, ArchiveAssumption DEF Started
  <2>2. Skipped = Len(emitted) /\ archive = {}
    <3>1. \A e \in 1 .. Len(emitted) : emitted[e] < StartLedger
      BY <1>2, <1>8, EmittedType, ArchiveAssumption DEF NetworkInv
    <3>2. Skipped = Len(emitted)
      BY <3>1, SkippedIs, EmittedType
    <3>3. Cardinality(archive) = 0
      BY <3>2, ArchivedToType, EmittedType DEF ArchivedTo
    <3> QED BY <3>2, <3>3, FS_EmptySet DEF TableInv
  <2>3. \A e \in 1 .. Len(emitted') : (emitted'[e] < StartLedger) <=> (e <= Len(emitted'))
    BY <1>2, <1>4, <1>6, <1>8, EmittedType, ArchiveAssumption
  <2>4. NetworkInv'
    BY <1>4, <1>6, <2>3, EmittedType, SMTT(30) DEF NetworkInv
  <2>5. Skipped' = Len(emitted')
    BY <1>4, <2>3, CountBefore, SkippedCounts, EmittedType
  <2>6. TableInv'
    <3>1. archive' = {} /\ IsFiniteSet(archive') /\ ArchivedTo' = Skipped'
      BY <1>2, <1>4, <2>2, <2>5, FS_EmptySet, EmittedType DEF ArchivedTo
    <3> QED BY <1>4, <2>5, <3>1, EmittedType DEF TableInv
  <2>7. CursorInv(cursor)'
    BY <1>2, <2>1 DEF CursorInv
  <2>8. ASSUME NEW q \in Ingestors PROVE IngestorInv(ingestor[q])'
    <3>1. IngestorInv(ingestor[q]) /\ ingestor[q]' = ingestor[q]
      BY <1>2
    <3> QED BY <2>1, <3>1 DEF IngestorInv, CursorInv, PageInv, BeginInv, PageEndInv
  <2> QED BY <1>5, <2>4, <2>6, <2>7, <2>8
<1> QED BY <1>2, <1>7, <1>8, ArchiveAssumption

LEMMA ForgetStep == ArchiveInv /\ Forget => ArchiveInv'
<1> SUFFICES ASSUME ArchiveInv, Forget PROVE ArchiveInv'
  OBVIOUS
<1>1. oldest' \in 1 .. MaxLedger
  BY ArchiveAssumption DEF ArchiveInv, ArchiveTypeOK, Forget
<1>2. ArchiveTypeOK'
  BY <1>1 DEF ArchiveInv, ArchiveTypeOK, Forget
<1>3. Skipped' = Skipped /\ ArchivedTo' = ArchivedTo /\ Started' = Started
  BY DEF Skipped, EventsBefore, ArchivedTo, Started, Forget
<1>4. NetworkInv' /\ TableInv' /\ CursorInv(cursor)'
  BY <1>3 DEF ArchiveInv, NetworkInv, TableInv, CursorInv, RowOf, Chain, Forget
<1>5. ASSUME NEW q \in Ingestors PROVE IngestorInv(ingestor[q])'
  BY <1>3 DEF ArchiveInv, IngestorInv, CursorInv, PageInv, BeginInv, PageEndInv, Forget
<1> QED BY <1>2, <1>4, <1>5 DEF ArchiveInv

LEMMA ReadCursorStep ==
    ASSUME ArchiveInv, NEW p \in Ingestors, ReadCursor(p) PROVE ArchiveInv'
<1> DEFINE i == [Idle EXCEPT !.step = "check", !.request = cursor]
<1>1. cursor \in Cursor /\ CursorInv(cursor)
  BY DEF ArchiveInv, ArchiveTypeOK
<1>2. i \in Ingestor /\ IngestorInv(i)
  BY <1>1, EndStep
<1> HIDE DEF i
<1>3. /\ UNCHANGED <<emitted, tip, oldest, archive, cursor>>
      /\ ingestor' = [ingestor EXCEPT ![p] = i]
      /\ incident' \in BOOLEAN /\ failures' \in 0 .. MaxFailures
  BY DEF ReadCursor, network, unchangedDatabase, i, ArchiveInv, ArchiveTypeOK
<1> QED BY <1>2, <1>3, QuietStep

LEMMA CheckStep ==
    ASSUME ArchiveInv, NEW p \in Ingestors, Check(p) PROVE ArchiveInv'
<1> DEFINE step == IF Gap(ingestor[p].request) THEN "raise" ELSE "fetch"
           i == [ingestor[p] EXCEPT !.step = step]
<1>1. ingestor[p] \in Ingestor /\ IngestorInv(ingestor[p])
  BY DEF ArchiveInv, ArchiveTypeOK
<1>2. step \in {"raise", "fetch"}
  OBVIOUS
<1>3. /\ UNCHANGED <<emitted, tip, oldest, archive, cursor>>
      /\ ingestor' = [ingestor EXCEPT ![p] = i]
      /\ incident' \in BOOLEAN /\ failures' \in 0 .. MaxFailures
  BY DEF Check, network, unchangedDatabase, ArchiveInv, ArchiveTypeOK
<1> HIDE DEF step
<1>4. i \in Ingestor /\ IngestorInv(i)
  BY <1>1, <1>2 DEF Ingestor, Steps, IngestorInv, PageInv, BeginInv, PageEndInv
<1> HIDE DEF i
<1> QED BY <1>3, <1>4, QuietStep

\* What getEvents answers continues where the archive ends, or before.
LEMMA PageIs ==
    ASSUME ArchiveInv, Started, NEW position \in Skipped .. ArchivedTo
    PROVE  PageAfter(position) \in Ingestor /\ IngestorInv(PageAfter(position))
<1> DEFINE last == LastOfPage(position)
           full == last = position + PageLimit
<1>1. /\ Len(emitted) \in Nat /\ Len(emitted) <= MaxEvents /\ Skipped \in Nat
      /\ ArchivedTo \in Nat /\ ArchivedTo <= Len(emitted) /\ position \in Nat
      /\ MaxEvents \in Nat /\ PageLimit \in Nat \ {0}
  BY EmittedType, SkippedIs, ArchivedToType, ArchiveAssumption DEF ArchiveInv
<1>2. /\ last \in position .. Len(emitted)
      /\ full => last \in 1 .. Len(emitted)
  BY <1>1 DEF LastOfPage
<1>3. tip \in 0 .. MaxLedger /\ (full => emitted[last] \in 0 .. MaxLedger)
  BY <1>2, EmittedType, ArchiveAssumption DEF ArchiveInv, ArchiveTypeOK
<1> HIDE DEF last
<1>4. PageAfter(position) =
      [Idle EXCEPT !.step = IF last = position THEN "save" ELSE "begin", !.last = last,
                   !.full = full, !.ledger = IF full THEN emitted[last] ELSE tip,
                   !.next = position + 1]
  BY DEF PageAfter, last
<1>5. full \in BOOLEAN
  OBVIOUS
<1> HIDE DEF full
<1> DEFINE page == PageAfter(position)
<1>6. page \in Ingestor
  <2> DEFINE ledger == IF full THEN emitted[last] ELSE tip
             step == IF last = position THEN "save" ELSE "begin"
  <2>1. /\ last \in 0 .. MaxEvents /\ position + 1 \in 0 .. MaxEvents + 1
        /\ ledger \in 0 .. MaxLedger /\ step \in Steps
    BY <1>1, <1>2, <1>3 DEF Steps
  <2>2. page = [Idle EXCEPT !.step = step, !.last = last, !.full = full, !.ledger = ledger,
                            !.next = position + 1]
    BY <1>4
  <2> HIDE DEF ledger, step, page
  <2> QED BY <1>5, <2>1, <2>2, IdleIs DEF Ingestor
<1>7. /\ page.step = (IF last = position THEN "save" ELSE "begin") /\ page.last = last
      /\ page.next = position + 1 /\ page.request = NoCursor
  BY <1>4 DEF Idle
<1> HIDE DEF page
<1>8. IngestorInv(page)
  BY <1>1, <1>2, <1>7, IdleIs DEF IngestorInv, CursorInv, PageInv, BeginInv, PageEndInv
<1> QED BY <1>6, <1>8 DEF page

LEMMA FetchStep ==
    ASSUME ArchiveInv, NEW p \in Ingestors, Fetch(p) PROVE ArchiveInv'
<1> DEFINE request == ingestor[p].request
           refused == Gap(request) \/ (~request.saved /\ tip < StartLedger)
           i == IF refused THEN [Idle EXCEPT !.step = "raise"] ELSE PageAfter(Position(request))
<1>1. /\ UNCHANGED <<emitted, tip, oldest, archive, cursor>>
      /\ ingestor' = [ingestor EXCEPT ![p] = i]
      /\ incident' \in BOOLEAN /\ failures' \in 0 .. MaxFailures
  BY DEF Fetch, End, network, unchangedDatabase, ArchiveInv, ArchiveTypeOK
<1>2. request \in Cursor /\ CursorInv(request)
  BY DEF ArchiveInv, ArchiveTypeOK, IngestorInv, Ingestor
<1>3. CASE refused
  <2>1. i \in Ingestor /\ IngestorInv(i)
    BY <1>2, <1>3, EndStep
  <2> HIDE DEF i
  <2> QED BY <1>1, <2>1, QuietStep
<1>4. CASE ~refused
  <2>1. Started
    BY <1>2, <1>4, ArchiveAssumption DEF CursorInv, Started, ArchiveInv, ArchiveTypeOK
  <2>2. Position(request) \in Skipped .. ArchivedTo
    BY <1>2, SkippedIs, ArchivedToType DEF Position, Skipped, CursorInv, ArchiveInv
  <2>3. i \in Ingestor /\ IngestorInv(i)
    BY <1>4, <2>1, <2>2, PageIs
  <2> HIDE DEF i
  <2> QED BY <1>1, <2>3, QuietStep
<1> QED BY <1>3, <1>4

LEMMA BeginStep ==
    ASSUME ArchiveInv, NEW p \in Ingestors, Begin(p) PROVE ArchiveInv'
<1> DEFINE i == [ingestor[p] EXCEPT !.step = "append", !.createdAt = Cardinality(archive)]
<1>1. ingestor[p] \in Ingestor /\ IngestorInv(ingestor[p]) /\ ingestor[p].step = "begin"
  BY DEF ArchiveInv, ArchiveTypeOK, Begin, At
<1>2. /\ UNCHANGED <<emitted, tip, oldest, archive, cursor>>
      /\ ingestor' = [ingestor EXCEPT ![p] = i]
      /\ incident' \in BOOLEAN /\ failures' \in 0 .. MaxFailures
  BY DEF Begin, network, unchangedDatabase, ArchiveInv, ArchiveTypeOK
<1>3. /\ Cardinality(archive) \in 0 .. MaxEvents /\ Skipped \in Nat
      /\ ArchivedTo = Skipped + Cardinality(archive)
  BY SkippedIs, ArchivedToType DEF ArchivedTo, ArchiveInv
<1>4. i \in Ingestor
  BY <1>1, <1>3 DEF Ingestor, Steps
<1>5. /\ i.step = "append" /\ i.request = ingestor[p].request /\ i.next = ingestor[p].next
      /\ i.last = ingestor[p].last /\ i.createdAt = Cardinality(archive)
      /\ i.next \in Nat
  BY <1>1 DEF Ingestor
<1> HIDE DEF i
<1>6. IngestorInv(i)
  BY <1>1, <1>3, <1>5 DEF IngestorInv, PageInv, BeginInv, PageEndInv
<1> QED BY <1>2, <1>4, <1>6, QuietStep

-------------------------------------------------------------------------------
(***************************************************************************)
(* Archiving one event.                                                    *)
(***************************************************************************)

\* The head of the chain is the last row, whose hash commits to all of them.
LEMMA HeadIs ==
    ASSUME ArchiveInv,
           NEW previous \in IF archive = {} THEN {<<>>} ELSE {r.hash : r \in ChainHead}
    PROVE  previous = Chain(Cardinality(archive))
<1>1. /\ Skipped \in Nat /\ Cardinality(archive) \in Nat /\ Len(emitted) \in Nat
      /\ ArchivedTo = Skipped + Cardinality(archive) /\ ArchivedTo <= Len(emitted)
  BY SkippedIs, ArchivedToType, EmittedType, ArchiveAssumption DEF ArchivedTo, ArchiveInv
<1>2. CASE archive = {}
  <2>1. Cardinality(archive) = 0 /\ previous = <<>>
    BY <1>2, FS_EmptySet
  <2> QED BY <2>1 DEF Chain
<1>3. CASE archive # {}
  <2>1. PICK r \in ChainHead : previous = r.hash
    BY <1>3
  <2>2. r \in archive
    BY DEF ChainHead
  <2>3. PICK e \in Skipped + 1 .. ArchivedTo : r = RowOf(e)
    BY <2>2 DEF ArchiveInv, TableInv
  <2>4. ArchivedTo \in Skipped + 1 .. ArchivedTo
    BY <1>1, <2>3
  <2>5. RowOf(ArchivedTo) \in archive
    BY <2>4 DEF ArchiveInv, TableInv
  <2>6. e \in 1 .. Len(emitted) /\ ArchivedTo \in 1 .. Len(emitted)
    BY <1>1, <2>3
  <2>7. emitted[e] <= emitted[ArchivedTo] /\ emitted[e] \in Nat /\ emitted[ArchivedTo] \in Nat
    BY <1>1, <2>3, <2>6, EmittedType, ArchiveAssumption DEF ArchiveInv, NetworkInv
  <2>8. /\ r.ledger = emitted[e] /\ r.createdAt = e - Skipped - 1 /\ r.hash = Chain(e - Skipped)
        /\ RowOf(ArchivedTo).ledger = emitted[ArchivedTo]
        /\ RowOf(ArchivedTo).createdAt = ArchivedTo - Skipped - 1
    BY <1>1, <2>3, <2>4, RowIs, SMTT(30) DEF ArchiveInv
  <2>9. e = ArchivedTo
    BY <1>1, <2>3, <2>5, <2>7, <2>8, SMTT(30) DEF ChainHead
  <2> QED BY <1>1, <2>1, <2>8, <2>9
<1> QED BY <1>2, <1>3

\* What an ingestor with an open transaction knows.
LEMMA AppendIs ==
    ASSUME ArchiveInv, NEW p \in Ingestors, At(p, "append")
    PROVE  /\ Skipped \in Nat /\ Cardinality(archive) \in Nat
           /\ ArchivedTo = Skipped + Cardinality(archive) /\ ArchivedTo <= Len(emitted)
           /\ Len(emitted) \in Nat /\ Len(emitted) <= MaxEvents /\ MaxEvents \in Nat
           /\ ingestor[p] \in Ingestor /\ IngestorInv(ingestor[p]) /\ Started
           /\ ingestor[p].last \in Nat /\ ingestor[p].last <= Len(emitted)
           /\ ingestor[p].next \in Skipped + 1 .. ingestor[p].last
           /\ ingestor[p].next <= ArchivedTo + 1
           /\ ingestor[p].createdAt \in ingestor[p].next - Skipped - 1 .. Cardinality(archive)
<1>1. ingestor[p] \in Ingestor /\ IngestorInv(ingestor[p]) /\ ingestor[p].step = "append"
  BY DEF ArchiveInv, ArchiveTypeOK, At
<1>2. ingestor[p].last \in Nat
  BY <1>1, ArchiveAssumption DEF Ingestor
<1>3. /\ Skipped \in Nat /\ Cardinality(archive) \in Nat
      /\ ArchivedTo = Skipped + Cardinality(archive) /\ ArchivedTo <= Len(emitted)
      /\ Len(emitted) \in Nat /\ Len(emitted) <= MaxEvents /\ MaxEvents \in Nat
  BY SkippedIs, ArchivedToType, EmittedType, ArchiveAssumption DEF ArchivedTo, ArchiveInv
<1> QED BY <1>1, <1>2, <1>3 DEF IngestorInv, PageInv, BeginInv

\* The ingestor goes on to the next event of its page.
LEMMA AdvanceIs ==
    ASSUME ArchiveInv, NEW p \in Ingestors, At(p, "append"), Advance(p)
    PROVE  \E i \in Ingestor :
               /\ ingestor' = [ingestor EXCEPT ![p] = i]
               /\ i.request = ingestor[p].request /\ i.last = ingestor[p].last
               /\ i.next = ingestor[p].next + 1
               /\ \/ i.step = "save" /\ ingestor[p].next = ingestor[p].last
                  \/ i.step = "begin" /\ ingestor[p].next < ingestor[p].last
<1> DEFINE step == IF ingestor[p].next = ingestor[p].last THEN "save" ELSE "begin"
           i == [ingestor[p] EXCEPT !.next = @ + 1, !.step = step]
<1>1. ingestor' = [ingestor EXCEPT ![p] = i]
  BY DEF Advance, ArchiveInv, ArchiveTypeOK
<1>2. step \in Steps /\ ingestor[p].next + 1 \in 0 .. MaxEvents + 1
  <2>1. step \in Steps
    BY DEF Steps
  <2> HIDE DEF step, i
  <2>2. /\ Skipped \in Nat /\ Len(emitted) \in Nat /\ MaxEvents \in Nat
        /\ Len(emitted) <= MaxEvents
        /\ ingestor[p].last \in Nat /\ ingestor[p].last <= Len(emitted)
        /\ ingestor[p].next \in Skipped + 1 .. ingestor[p].last
    BY AppendIs
  <2>3. ingestor[p].next + 1 \in 0 .. MaxEvents + 1
    BY <2>2
  <2> QED BY <2>1, <2>3
<1>3. i \in Ingestor
  BY <1>2, AppendIs DEF Ingestor
<1>4. /\ i.step = step /\ i.request = ingestor[p].request /\ i.next = ingestor[p].next + 1
      /\ i.last = ingestor[p].last
  BY AppendIs DEF Ingestor
<1>5. ingestor[p].next # ingestor[p].last => ingestor[p].next < ingestor[p].last
  BY AppendIs
<1> HIDE DEF i
<1> QED BY <1>1, <1>3, <1>4, <1>5

\* A new row: the archive ends one event later.
LEMMA NewRowStep ==
    ASSUME ArchiveInv, NEW p \in Ingestors, At(p, "append"), Advance(p),
           ~Archived(ingestor[p].next),
           archive' = archive \cup {NewRow(p, Chain(Cardinality(archive)))},
           UNCHANGED <<network, cursor, incident, failures>>
    PROVE  ArchiveInv'
<1> DEFINE n == Cardinality(archive)
           e == ingestor[p].next
<1>1. UNCHANGED <<emitted, tip, oldest, cursor, incident, failures>>
  BY DEF network
<1>2. /\ ArchiveTypeOK /\ NetworkInv /\ TableInv
      /\ \A q \in Ingestors : IngestorInv(ingestor[q]) /\ ingestor[q] \in Ingestor
  BY DEF ArchiveInv, ArchiveTypeOK
<1>3. e = ArchivedTo + 1 /\ ingestor[p].createdAt = n /\ e \in Skipped + 1 .. Len(emitted)
  <2>1. e \in Nat /\ e \in Skipped + 1 .. Len(emitted) /\ e <= ArchivedTo + 1
        /\ ingestor[p].createdAt \in e - Skipped - 1 .. n /\ n \in Nat
        /\ Skipped \in Nat /\ ArchivedTo = Skipped + n
    <3>1. /\ Skipped \in Nat /\ n \in Nat /\ ArchivedTo = Skipped + n
          /\ Len(emitted) \in Nat /\ ingestor[p].last \in Nat
          /\ ingestor[p].last <= Len(emitted)
          /\ e \in Skipped + 1 .. ingestor[p].last /\ e <= ArchivedTo + 1
          /\ ingestor[p].createdAt \in e - Skipped - 1 .. n
      BY AppendIs
    <3> HIDE DEF e, n
    <3> QED BY <3>1
  <2>2. e \notin Skipped + 1 .. ArchivedTo
    BY <1>2, <2>1, ArchivedIs
  <2> QED BY <2>1, <2>2, SMTT(30)
<1>4. NewRow(p, Chain(n)) = RowOf(e)
  <2>1. e - Skipped - 1 = n /\ e - Skipped = n + 1 /\ n \in 0 .. Len(emitted) - Skipped
        /\ e = Skipped + n + 1
    BY <1>3, AppendIs
  <2>2. Append(Chain(n), e) = Chain(n + 1)
    BY <1>2, <2>1, ChainType
  <2> QED BY <1>3, <2>1, <2>2 DEF NewRow, RowOf
<1>5. RowOf(e) \in Row /\ RowOf(e) \notin archive
  <2>1. RowOf(e) \in Row /\ RowOf(e).event = e
    BY <1>2, <1>3, RowIs
  <2> QED BY <2>1 DEF Archived
<1>6. Skipped' = Skipped /\ Started' = Started
  BY <1>1 DEF Skipped, EventsBefore, Started
<1>7. IsFiniteSet(archive') /\ Cardinality(archive') = n + 1
  BY <1>2, <1>4, <1>5, FS_AddElement DEF TableInv
<1>8. ArchivedTo' = ArchivedTo + 1
  BY <1>6, <1>7, AppendIs DEF ArchivedTo
<1>9. TableInv'
  <2>1. \A d : RowOf(d)' = RowOf(d)
    BY <1>1, <1>6 DEF RowOf, Chain
  <2>2. archive' = {RowOf(d) : d \in Skipped + 1 .. ArchivedTo} \cup {RowOf(ArchivedTo + 1)}
    BY <1>2, <1>3, <1>4 DEF TableInv
  <2>3. archive' = {RowOf(d) : d \in Skipped + 1 .. ArchivedTo + 1}
    <3>1. Skipped + 1 .. ArchivedTo + 1 = (Skipped + 1 .. ArchivedTo) \cup {ArchivedTo + 1}
      BY AppendIs
    <3> HIDE DEF n, e
    <3> QED BY <2>2, <3>1, Zenon
  <2>4. ArchivedTo' <= Len(emitted)'
    BY <1>1, <1>3, <1>8, AppendIs
  <2> QED BY <1>6, <1>7, <1>8, <2>1, <2>3, <2>4 DEF TableInv
<1>10. PICK i \in Ingestor :
          /\ ingestor' = [ingestor EXCEPT ![p] = i]
          /\ i.request = ingestor[p].request /\ i.last = ingestor[p].last
          /\ i.next = ingestor[p].next + 1
          /\ \/ i.step = "save" /\ ingestor[p].next = ingestor[p].last
             \/ i.step = "begin" /\ ingestor[p].next < ingestor[p].last
  BY AdvanceIs
<1>11. ArchiveTypeOK'
  <2>1. ingestor' \in [Ingestors -> Ingestor]
    BY <1>2, <1>10 DEF ArchiveTypeOK
  <2> QED BY <1>1, <1>2, <1>4, <1>5, <2>1 DEF ArchiveTypeOK
<1>12. NetworkInv'
  BY <1>1, <1>2 DEF NetworkInv
<1>13. ASSUME NEW c, CursorInv(c)
       PROVE  IF c.saved THEN Started' /\ c.position \in Skipped' .. ArchivedTo'
              ELSE c.position = 0
  BY <1>6, <1>8, <1>13, AppendIs DEF CursorInv
<1>14. CursorInv(cursor)'
  BY <1>1, <1>13 DEF ArchiveInv, CursorInv
<1>15. ASSUME NEW q \in Ingestors PROVE IngestorInv(ingestor[q])'
  <2>1. CASE q = p
    <3>1. ingestor'[q] = i
      BY <1>2, <1>10, <2>1 DEF ArchiveTypeOK
    <3>2. CursorInv(i.request)
      BY <1>2, <1>10 DEF IngestorInv
    <3>3. CursorInv(ingestor[q].request)'
      BY <1>13, <3>1, <3>2 DEF CursorInv
    <3>4. /\ i.next = e + 1 /\ i.last = ingestor[p].last /\ i.step # "append"
          /\ i.step = "save" => e = i.last
          /\ i.step = "begin" => e < i.last
      BY <1>10
    <3>5. /\ i.step = "begin" => /\ i.next \in Skipped + 1 .. i.last
                                /\ i.last <= Len(emitted) /\ i.next <= ArchivedTo + 2
          /\ i.step = "save" => i.last \in Skipped .. ArchivedTo + 1
      <4>1. /\ Skipped \in Nat /\ ArchivedTo \in Nat /\ Len(emitted) \in Nat
            /\ ingestor[p].last \in Nat /\ ingestor[p].last <= Len(emitted)
        BY AppendIs
      <4>2. e = ArchivedTo + 1 /\ e \in Skipped + 1 .. Len(emitted)
        BY <1>3
      <4> HIDE DEF e
      <4> QED BY <3>4, <4>1, <4>2
    <3>6. PageInv(ingestor[q])'
      <4>1. ArchivedTo \in Nat /\ Started
        BY AppendIs
      <4>2. (ArchivedTo + 1) + 1 = ArchivedTo + 2
        BY <4>1
      <4>3. i.next \in Nat /\ i.last \in Nat
        <5>1. i \in Ingestor
          BY <1>10
        <5> QED BY <5>1, ArchiveAssumption DEF Ingestor
      <4> HIDE DEF e, n
      <4> QED BY <1>1, <1>6, <1>8, <3>1, <3>4, <3>5, <4>1, <4>2, <4>3 DEF PageInv
    <3>7. BeginInv(ingestor[q])'
      <4> HIDE DEF e, n
      <4> QED BY <3>1, <3>4 DEF BeginInv
    <3>8. PageEndInv(ingestor[q])'
      <4>1. Started
        BY AppendIs
      <4> HIDE DEF e, n
      <4> QED BY <1>6, <1>8, <3>1, <3>5, <4>1 DEF PageEndInv
    <3> QED BY <3>3, <3>6, <3>7, <3>8 DEF IngestorInv
  <2>2. CASE q # p
    <3>1. ingestor'[q] = ingestor[q]
      BY <1>2, <1>10, <2>2 DEF ArchiveTypeOK
    <3>2. CursorInv(ingestor[q].request)'
      BY <1>2, <1>13, <3>1 DEF CursorInv, IngestorInv
    <3>3. PageInv(ingestor[q])' /\ PageEndInv(ingestor[q])'
      <4>1. PageInv(ingestor[q]) /\ PageEndInv(ingestor[q])
        BY <1>2 DEF IngestorInv
      <4>2. ingestor[q].next \in Nat /\ ingestor[q].last \in Nat
        BY <1>2, ArchiveAssumption DEF Ingestor
      <4>3. Skipped \in Nat /\ ArchivedTo \in Nat /\ Len(emitted) \in Nat
        BY AppendIs
      <4>4. PageInv(ingestor[q])'
        BY <1>1, <1>6, <1>8, <3>1, <4>1, <4>2, <4>3 DEF PageInv
      <4>5. PageEndInv(ingestor[q])'
        BY <1>6, <1>8, <3>1, <4>1, <4>2, <4>3 DEF PageEndInv
      <4> QED BY <4>4, <4>5
    <3>4. BeginInv(ingestor[q])'
      <4>1. BeginInv(ingestor[q])
        BY <1>2 DEF IngestorInv
      <4>2. n \in Nat /\ Skipped \in Nat /\ Cardinality(archive)' = n + 1
        BY <1>7, AppendIs
      <4> QED BY <1>6, <3>1, <4>1, <4>2 DEF BeginInv
    <3> QED BY <3>2, <3>3, <3>4 DEF IngestorInv
  <2> QED BY <2>1, <2>2
<1> QED BY <1>9, <1>11, <1>12, <1>14, <1>15 DEF ArchiveInv

LEMMA ArchiveEventStep ==
    ASSUME ArchiveInv, NEW p \in Ingestors, ArchiveEvent(p) PROVE ArchiveInv'
<1>1. /\ At(p, "append") /\ UNCHANGED <<emitted, tip, oldest, cursor>>
      /\ incident' \in BOOLEAN /\ failures' \in 0 .. MaxFailures
      /\ UNCHANGED <<network, cursor, incident, failures>>
  BY DEF ArchiveEvent, network, ArchiveInv, ArchiveTypeOK
<1>2. CASE Archived(ingestor[p].next)
  <2>1. Advance(p) /\ UNCHANGED archive
    BY <1>2 DEF ArchiveEvent
  <2>2. PICK i \in Ingestor :
          /\ ingestor' = [ingestor EXCEPT ![p] = i]
          /\ i.request = ingestor[p].request /\ i.last = ingestor[p].last
          /\ i.next = ingestor[p].next + 1
          /\ \/ i.step = "save" /\ ingestor[p].next = ingestor[p].last
             \/ i.step = "begin" /\ ingestor[p].next < ingestor[p].last
    BY <1>1, <2>1, AdvanceIs
  <2>3. ingestor[p].next <= ArchivedTo
    BY <1>1, <1>2, AppendIs, ArchivedIs DEF ArchiveInv
  <2>4. IngestorInv(i)
    <3>1. CursorInv(i.request)
      BY <1>1, <2>2, AppendIs DEF IngestorInv
    <3>2. /\ ingestor[p].next \in Skipped + 1 .. ingestor[p].last /\ Started
          /\ ingestor[p].last \in Nat /\ ingestor[p].last <= Len(emitted)
          /\ Skipped \in Nat /\ ArchivedTo \in Nat
      BY <1>1, AppendIs
    <3>3. i.step = "begin" => i.next \in Skipped + 1 .. i.last /\ i.next <= ArchivedTo + 1
      BY <2>2, <2>3, <3>2
    <3>4. i.step = "save" => i.last \in Skipped .. ArchivedTo
      BY <2>2, <2>3, <3>2
    <3> QED BY <2>2, <3>1, <3>2, <3>3, <3>4 DEF IngestorInv, PageInv, BeginInv, PageEndInv
  <2> QED BY <1>1, <2>1, <2>2, <2>4, QuietStep
<1>3. CASE ~Archived(ingestor[p].next)
  <2>1. PICK previous \in IF archive = {} THEN {<<>>} ELSE {r.hash : r \in ChainHead} :
            IF \E r \in archive : r.previous = previous
            THEN End(p, "raise") /\ UNCHANGED archive
            ELSE archive' = archive \cup {NewRow(p, previous)} /\ Advance(p)
    BY <1>3 DEF ArchiveEvent
  <2>2. previous = Chain(Cardinality(archive))
    BY HeadIs
  <2>3. CASE \E r \in archive : r.previous = previous
    <3>1. End(p, "raise") /\ UNCHANGED archive
      BY <2>1, <2>3
    <3>2. [Idle EXCEPT !.step = "raise"] \in Ingestor /\ IngestorInv([Idle EXCEPT !.step = "raise"])
      BY EndStep DEF ArchiveInv, ArchiveTypeOK
    <3> QED BY <1>1, <3>1, <3>2, QuietStep DEF End
  <2>4. CASE ~\E r \in archive : r.previous = previous
    <3>1. archive' = archive \cup {NewRow(p, previous)} /\ Advance(p)
      BY <2>1, <2>4
    <3> QED BY <1>1, <1>3, <2>2, <3>1, NewRowStep
  <2> QED BY <2>3, <2>4
<1> QED BY <1>2, <1>3

-------------------------------------------------------------------------------
LEMMA SaveStep ==
    ASSUME ArchiveInv, NEW p \in Ingestors, Save(p) PROVE ArchiveInv'
<1> DEFINE end == [saved |-> TRUE, position |-> ingestor[p].last, ledger |-> ingestor[p].ledger]
<1>1. ingestor[p] \in Ingestor /\ IngestorInv(ingestor[p]) /\ ingestor[p].step = "save"
  BY DEF ArchiveInv, ArchiveTypeOK, Save, At
<1>2. end \in Cursor
  BY <1>1 DEF Cursor, Ingestor
<1>3. CursorInv(end)
  BY <1>1 DEF CursorInv, IngestorInv, PageEndInv
<1>4. /\ cursor' = end /\ UNCHANGED <<emitted, tip, archive>> /\ oldest' \in 1 .. MaxLedger
      /\ incident' \in BOOLEAN /\ failures' \in 0 .. MaxFailures
      /\ \/ ingestor' = [ingestor EXCEPT ![p] = [Idle EXCEPT !.step = "fetch", !.request = end]]
         \/ ingestor' = [ingestor EXCEPT ![p] = [Idle EXCEPT !.step = "resolve"]]
  BY DEF Save, End, network, ArchiveInv, ArchiveTypeOK
<1> HIDE DEF end
<1>5. \E i \in Ingestor : IngestorInv(i) /\ ingestor' = [ingestor EXCEPT ![p] = i]
  BY <1>2, <1>3, <1>4, EndStep
<1> QED BY <1>2, <1>3, <1>4, <1>5, MemoryStep

\* The end of a run, whatever it is: the tables stay, the memory is given up.
LEMMA EndOfRunStep ==
    ASSUME ArchiveInv, NEW p \in Ingestors,
           Resolve(p) \/ Raise(p) \/ RunFails(p) \/ Crash(p)
    PROVE  ArchiveInv'
<1>1. /\ UNCHANGED <<emitted, tip, oldest, archive, cursor>>
      /\ \/ ingestor' = [ingestor EXCEPT ![p] = Idle]
         \/ ingestor' = [ingestor EXCEPT ![p] = [Idle EXCEPT !.step = "raise"]]
  BY DEF Resolve, Raise, RunFails, Crash, End, network, unchangedDatabase
<1>2. incident' \in BOOLEAN
  BY Zenon DEF Resolve, Raise, RunFails, Crash, unchangedDatabase, ArchiveInv, ArchiveTypeOK
<1>3. failures' \in 0 .. MaxFailures
  BY ArchiveAssumption DEF Resolve, Raise, RunFails, Crash, ArchiveInv, ArchiveTypeOK
<1>4. cursor \in Cursor /\ CursorInv(cursor)
  BY DEF ArchiveInv, ArchiveTypeOK
<1>5. \E i \in Ingestor : IngestorInv(i) /\ ingestor' = [ingestor EXCEPT ![p] = i]
  BY <1>1, <1>4, EndStep, IdleIs
<1> QED BY <1>1, <1>2, <1>3, <1>5, QuietStep

LEMMA StutterStep == ArchiveInv /\ UNCHANGED vars => ArchiveInv'
<1> SUFFICES ASSUME ArchiveInv, UNCHANGED vars PROVE ArchiveInv'
  OBVIOUS
<1>1. UNCHANGED <<emitted, tip, oldest, cursor, archive, ingestor, incident, failures>>
  BY DEF vars, network
<1>2. Skipped' = Skipped /\ ArchivedTo' = ArchivedTo /\ Started' = Started
  BY <1>1 DEF Skipped, EventsBefore, ArchivedTo, Started
<1>3. ArchiveTypeOK' /\ NetworkInv' /\ TableInv' /\ CursorInv(cursor)'
  <2>1. ArchiveTypeOK' /\ NetworkInv'
    BY <1>1 DEF ArchiveInv, ArchiveTypeOK, NetworkInv
  <2>2. \A e : RowOf(e)' = RowOf(e)
    BY <1>1, <1>2 DEF RowOf, Chain
  <2>3. {RowOf(e)' : e \in Skipped + 1 .. ArchivedTo} = {RowOf(e) : e \in Skipped + 1 .. ArchivedTo}
    BY <2>2
  <2>4. TableInv'
    BY <1>1, <1>2, <2>3 DEF ArchiveInv, TableInv
  <2>5. CursorInv(cursor)'
    BY <1>1, <1>2 DEF ArchiveInv, CursorInv
  <2> QED BY <2>1, <2>4, <2>5
<1>4. ASSUME NEW q \in Ingestors PROVE IngestorInv(ingestor[q])'
  BY <1>1, <1>2 DEF ArchiveInv, IngestorInv, CursorInv, PageInv, BeginInv, PageEndInv
<1> QED BY <1>3, <1>4 DEF ArchiveInv

\* The archive is the history of the contract from the configured ledger on, as one
\* chain in the order of emission and without a gap before the cursor, for any number
\* of processes that ingest, lag, fail and crash as they like (operations.ts:287-404).
THEOREM ArchiveStaysSound == Spec => []ArchiveIsSound
<1>1. ArchiveInv /\ [Next]_vars => ArchiveInv'
  <2> SUFFICES ASSUME ArchiveInv, [Next]_vars PROVE ArchiveInv'
    OBVIOUS
  <2>1. CASE CloseLedger
    BY <2>1, CloseLedgerStep
  <2>2. CASE Forget
    BY <2>2, ForgetStep
  <2>3. ASSUME NEW p \in Ingestors, Run(p) \/ RunFails(p) \/ Crash(p) PROVE ArchiveInv'
    BY <2>3, ReadCursorStep, CheckStep, FetchStep, BeginStep, ArchiveEventStep, SaveStep,
       EndOfRunStep DEF Run
  <2>4. CASE UNCHANGED vars
    BY <2>4, StutterStep
  <2> QED BY <2>1, <2>2, <2>3, <2>4 DEF Next
<1> QED BY <1>1, InitInv, InvImpliesSound, PTL DEF Spec
===============================================================================
