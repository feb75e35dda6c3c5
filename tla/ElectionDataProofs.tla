-------------------------- MODULE ElectionDataProofs --------------------------
(***************************************************************************)
(* Proofs about the import of the workbook and the files that are made     *)
(* from it, for every PSGC reference, every workbook and tables, any       *)
(* number of rows and districts, and any order of the scripts.             *)
(*                                                                         *)
(* Of the import it is inductive that each name a row mentioned has a      *)
(* member, an error, or the next row's attention (ImportInv).  Of the      *)
(* files: a finished dataset is sound, the subdivisions are disjoint and   *)
(* cover what they divide, no boundaries are newer than the inputs they    *)
(* were drawn from, and those of the newest inputs are drawn from disjoint *)
(* units of them (FilesInv).  The validator compares counts; as many       *)
(* disjoint units, from the same ones, are the same (PartsOfSameSizeCover).*)
(***************************************************************************)
EXTENDS ElectionData, SequenceTheorems, FiniteSetTheorems, TLAPS

\* What a name can stand for, with the overrides of every province.
StandsFor(n) == Denotes[n] \cup {o.locality : o \in {q \in Overrides : q.name = n}}

\* What a row has named is a member of a district, is about to head one, or
\* the report has an error.
Accounted(n) ==
    \/ errors # {}
    \/ \E i \in 1 .. Len(districts) : Members(districts[i]) \cap StandsFor(n) # {}
    \/ /\ row # Nothing /\ row.kind = "district" /\ region # Nothing
       /\ pending \in StandsFor(n)

ImportInv ==
    /\ ImportTypeOK
    /\ pending # Nothing => OfRegion(pending, region)
    /\ \A i \in 1 .. Len(districts) :
          \A l \in Members(districts[i]) : OfRegion(l, districts[i].region)
    /\ \A n \in mentioned : Accounted(n)

-------------------------------------------------------------------------------
LEMMA Found ==
    ASSUME NEW n \in Names, NEW r, NEW p, NEW l \in FindLocality(n, r, p)
    PROVE  l \in Localities /\ l \in StandsFor(n) /\ OfRegion(l, r)
<1> DEFINE overridden == {o.locality : o \in {q \in Overrides : q.province = p /\ q.name = n}}
           within == {m \in Denotes[n] : RegionOf(m) = r}
<1>1. l \in overridden \/ l \in within
  BY DEF FindLocality
<1>2. CASE l \in overridden
  <2>1. PICK o \in Overrides : o.name = n /\ o.locality = l
    BY <1>2
  <2> QED BY <2>1, ImportAssumption DEF StandsFor, OfRegion, Overridden
<1>3. CASE l \in within
  BY <1>3, ImportAssumption DEF StandsFor, OfRegion
<1> QED BY <1>1, <1>2, <1>3

LEMMA DistrictFields ==
    ASSUME NEW d \in District
    PROVE  /\ d.label \in {"1", "2", "lone"} /\ d.region \in Regions
           /\ d.province \in Provinces \cup {Nothing} /\ d.explicit \in Localities \cup {Nothing}
           /\ d.key \in BOOLEAN /\ d.memberships \subseteq Membership
           /\ Members(d) \subseteq Localities
<1>1. d.memberships \subseteq Membership
  BY DEF District
<1>2. \A m \in Membership : m.locality \in Localities
  BY DEF Membership
<1> QED BY <1>1, <1>2 DEF District, Members

\* A district is opened with its first members.
LEMMA OpenedKeeps ==
    ASSUME ImportInv, NEW d \in District, \A l \in Members(d) : OfRegion(l, d.region), Open(d)
    PROVE  /\ districts' \in Seq(District) /\ current' \in 0 .. Len(districts')
           /\ Len(districts') = Len(districts) + 1 /\ districts'[Len(districts) + 1] = d
           /\ \A i \in 1 .. Len(districts) : districts'[i] = districts[i]
           /\ \A i \in 1 .. Len(districts') :
                 \A l \in Members(districts'[i]) : OfRegion(l, districts'[i].region)
<1>1. districts \in Seq(District) /\ districts' = Append(districts, d)
      /\ current' = Len(districts) + 1
  BY DEF ImportInv, ImportTypeOK, Open
<1>2. /\ districts' \in Seq(District) /\ Len(districts') = Len(districts) + 1
      /\ districts'[Len(districts) + 1] = d
      /\ \A i \in 1 .. Len(districts) : districts'[i] = districts[i]
  BY <1>1, AppendProperties
<1>3. Len(districts) \in Nat
  BY <1>1
<1>4. ASSUME NEW i \in 1 .. Len(districts')
      PROVE  \A l \in Members(districts'[i]) : OfRegion(l, districts'[i].region)
  <2>1. i \in 1 .. Len(districts) \/ i = Len(districts) + 1
    BY <1>2, <1>3
  <2> QED BY <1>2, <2>1 DEF ImportInv
<1>5. current' \in 0 .. Len(districts')
  BY <1>1, <1>2, <1>3
<1> QED BY <1>2, <1>4, <1>5

IsNew(d, label, explicit, members) ==
    \/ d = NewDistrict(label, explicit, members)
    \/ d = [NewDistrict(label, explicit, members) EXCEPT !.province = Nothing]
    \/ d = [NewDistrict(label, explicit, members) EXCEPT !.key = TRUE]

LEMMA NewDistrictIs ==
    ASSUME ImportTypeOK, region # Nothing, NEW label \in {"1", "2", "lone"},
           NEW explicit \in Localities \cup {Nothing}, NEW members \in SUBSET Membership,
           NEW d, IsNew(d, label, explicit, members)
    PROVE  d \in District /\ d.region = region /\ d.memberships = members
<1>1. region \in Regions /\ province \in Provinces \cup {Nothing}
  BY DEF ImportTypeOK
<1>2. PICK p \in Provinces \cup {Nothing}, k \in BOOLEAN :
         d = [label |-> label, region |-> region, province |-> p, explicit |-> explicit,
              key |-> k, memberships |-> members]
  <2>1. \/ d = [label |-> label, region |-> region, province |-> province, explicit |-> explicit,
                key |-> FALSE, memberships |-> members]
        \/ d = [label |-> label, region |-> region, province |-> Nothing, explicit |-> explicit,
                key |-> FALSE, memberships |-> members]
        \/ d = [label |-> label, region |-> region, province |-> province, explicit |-> explicit,
                key |-> TRUE, memberships |-> members]
    BY DEF IsNew, NewDistrict
  <2> QED BY <1>1, <2>1
<1>3. d.region = region /\ d.memberships = members
  BY <1>2
<1> QED BY <1>1, <1>2, <1>3 DEF District

LEMMA MemberIs ==
    ASSUME NEW l \in Localities, NEW n \in Names \cup Localities
    PROVE  /\ [locality |-> l, name |-> n] \in Membership
           /\ [locality |-> l, name |-> n].locality = l
           /\ l \in Localities => AsMember(l) \in Membership /\ AsMember(l).locality = l
BY DEF Membership, AsMember
\* What the dataset keeps of a name when a step only adds to it.
LEMMA StaysAccounted ==
    ASSUME NEW n, Accounted(n), errors \subseteq errors', Len(districts) \in Nat,
           Len(districts') \in Nat, Len(districts) <= Len(districts'),
           \A i \in 1 .. Len(districts) : Members(districts[i]) \subseteq Members(districts'[i]),
           row # Nothing /\ row.kind = "district" /\ region # Nothing =>
               \E i \in 1 .. Len(districts') : pending \in Members(districts'[i]) \cup {Nothing},
           Nothing \notin StandsFor(n)
    PROVE  Accounted(n)'
<1>1. StandsFor(n)' = StandsFor(n)
  BY DEF StandsFor
<1>2. \A i \in 1 .. Len(districts') : Members(districts[i])' = Members(districts'[i])
  BY DEF Members
<1>3. CASE errors # {}
  BY <1>3 DEF Accounted
<1>4. ASSUME NEW i \in 1 .. Len(districts), Members(districts[i]) \cap StandsFor(n) # {}
      PROVE  Accounted(n)'
  <2>1. i \in 1 .. Len(districts') /\ Members(districts'[i]) \cap StandsFor(n) # {}
    BY <1>4
  <2> QED BY <1>1, <1>2, <2>1 DEF Accounted
<1>5. CASE row # Nothing /\ row.kind = "district" /\ region # Nothing /\ pending \in StandsFor(n)
  <2>1. PICK i \in 1 .. Len(districts') : pending \in Members(districts'[i])
    BY <1>5
  <2>2. Members(districts'[i]) \cap StandsFor(n) # {}
    BY <1>5, <2>1
  <2> QED BY <1>1, <1>2, <2>2 DEF Accounted
<1> QED BY <1>3, <1>4, <1>5 DEF Accounted

LEMMA NamesStandForUnits ==
    ASSUME NEW n \in Names
    PROVE  Nothing \notin StandsFor(n) /\ StandsFor(n) \subseteq Localities
BY ImportAssumption DEF StandsFor
-------------------------------------------------------------------------------
\* A row that adds to the districts or leaves them alone keeps the invariant.
LEMMA ReadKeeps ==
    ASSUME ImportInv,
           row' \in Rows \cup {Nothing}, rowsRead' \subseteq Rows,
           region' \in Regions \cup {Nothing}, province' \in Provinces \cup {Nothing},
           current' \in 0 .. Len(districts'), pending' \in Localities \cup {Nothing},
           districts' \in Seq(District), errors' \subseteq ErrorCodes, mentioned' \subseteq Names,
           pending' # Nothing => OfRegion(pending', region'),
           \A i \in 1 .. Len(districts') :
               \A l \in Members(districts'[i]) : OfRegion(l, districts'[i].region),
           errors \subseteq errors', Len(districts) <= Len(districts'),
           \A i \in 1 .. Len(districts) : Members(districts[i]) \subseteq Members(districts'[i]),
           row # Nothing /\ row.kind = "district" /\ region # Nothing =>
               \E i \in 1 .. Len(districts') : pending \in Members(districts'[i]) \cup {Nothing},
           \A n \in mentioned' \ mentioned : Accounted(n)'
    PROVE  ImportInv'
<1>1. ImportTypeOK'
  BY DEF ImportTypeOK
<1>2. pending' # Nothing => OfRegion(pending, region)'
  BY DEF OfRegion, Overridden
<1>3. \A i \in 1 .. Len(districts') :
          \A l \in Members(districts[i])' : OfRegion(l, districts[i].region)'
  BY DEF OfRegion, Overridden, Members
<1>4. ASSUME NEW n \in mentioned' PROVE Accounted(n)'
  <2>1. CASE n \in mentioned
    <3>1. n \in Names /\ Accounted(n) /\ Len(districts) \in Nat /\ Len(districts') \in Nat
      BY <2>1 DEF ImportInv, ImportTypeOK
    <3> QED BY <3>1, NamesStandForUnits, StaysAccounted
  <2> QED BY <2>1
<1> QED BY <1>1, <1>2, <1>3, <1>4 DEF ImportInv

LEMMA Kept ==
    ASSUME ImportInv, districts' = districts
    PROVE  /\ districts' \in Seq(District) /\ Len(districts) <= Len(districts')
           /\ \A i \in 1 .. Len(districts') :
                 \A l \in Members(districts'[i]) : OfRegion(l, districts'[i].region)
           /\ \A i \in 1 .. Len(districts) : Members(districts[i]) \subseteq Members(districts'[i])
           /\ 0 \in 0 .. Len(districts') /\ current \in 0 .. Len(districts')
<1>1. districts \in Seq(District) /\ Len(districts) \in Nat
  BY DEF ImportInv, ImportTypeOK
<1> QED BY <1>1 DEF ImportInv, ImportTypeOK

\* The rows that are no locality's.
LEMMA HeadingKeeps ==
    ASSUME ImportInv, row \in Rows, row' \in Rows \cup {Nothing}, rowsRead' \subseteq Rows,
           ReadRegion \/ Skip \/ ReadProvince \/ ReadSummary \/ Ignore
    PROVE  ImportInv'
<1>1. districts' = districts /\ mentioned' = mentioned
  BY DEF ReadRegion, Skip, ReadProvince, ReadSummary, Ignore
<1>2. row.kind = "district" => region = Nothing
  BY DEF ReadRegion, Skip, ReadProvince, ReadSummary, Ignore
<1>3. errors \subseteq errors' /\ errors' \subseteq ErrorCodes /\ mentioned' \subseteq Names
  BY <1>1 DEF ImportInv, ImportTypeOK, ErrorCodes, ReadRegion, Skip, ReadProvince, ReadSummary, Ignore
<1>4. /\ region' \in Regions \cup {Nothing} /\ province' \in Provinces \cup {Nothing}
      /\ pending' \in Localities \cup {Nothing}
      /\ pending' # Nothing => OfRegion(pending', region')
      /\ current' \in {0, current}
  <2>1. CASE ReadRegion
    BY <2>1, RowsAssumption DEF ReadRegion
  <2>2. CASE ReadProvince
    BY <2>2, RowsAssumption, ImportAssumption DEF ReadProvince, ImportInv, ImportTypeOK
  <2>3. CASE Skip \/ ReadSummary \/ Ignore
    BY <2>3 DEF Skip, ReadSummary, Ignore, ImportInv, ImportTypeOK
  <2> QED BY <2>1, <2>2, <2>3
<1>5. current' \in 0 .. Len(districts')
  BY <1>1, <1>4, Kept
<1>6. /\ districts' \in Seq(District) /\ Len(districts) <= Len(districts')
      /\ \A i \in 1 .. Len(districts') :
            \A l \in Members(districts'[i]) : OfRegion(l, districts'[i].region)
      /\ \A i \in 1 .. Len(districts) : Members(districts[i]) \subseteq Members(districts'[i])
  BY <1>1, Kept
<1>7. (mentioned' \ mentioned = {}) /\ ~(row.kind = "district" /\ region # Nothing)
  BY <1>1, <1>2
<1>8. \A n \in mentioned' \ mentioned : Accounted(n)'
  BY <1>7
<1> QED BY <1>3, <1>4, <1>5, <1>6, <1>7, <1>8, ReadKeeps

\* The rows that open a district.
LEMMA OpeningKeeps ==
    ASSUME ImportInv, row \in Rows, row' \in Rows \cup {Nothing}, rowsRead' \subseteq Rows,
           region # Nothing, UNCHANGED <<region, errors, mentioned>>,
           province' \in {province, Nothing}, pending' \in Localities \cup {Nothing},
           pending' # Nothing => OfRegion(pending', region),
           NEW d \in District, Open(d), \A l \in Members(d) : OfRegion(l, d.region),
           row.kind = "district" => pending \in Members(d) \cup {Nothing}
    PROVE  ImportInv'
<1>1. /\ districts' \in Seq(District) /\ current' \in 0 .. Len(districts')
      /\ Len(districts') = Len(districts) + 1 /\ districts'[Len(districts) + 1] = d
      /\ \A i \in 1 .. Len(districts) : districts'[i] = districts[i]
      /\ \A i \in 1 .. Len(districts') :
            \A l \in Members(districts'[i]) : OfRegion(l, districts'[i].region)
  BY OpenedKeeps
<1>2. Len(districts) \in Nat
  BY DEF ImportInv, ImportTypeOK
<1>3. Len(districts) <= Len(districts') /\ Len(districts) + 1 \in 1 .. Len(districts')
  BY <1>1, <1>2
<1>4. \A i \in 1 .. Len(districts) : Members(districts[i]) \subseteq Members(districts'[i])
  BY <1>1
<1>5. row.kind = "district" =>
          \E i \in 1 .. Len(districts') : pending \in Members(districts'[i]) \cup {Nothing}
  BY <1>1, <1>3
<1>6. /\ region' \in Regions \cup {Nothing} /\ province' \in Provinces \cup {Nothing}
      /\ errors' \subseteq ErrorCodes /\ mentioned' \subseteq Names /\ errors \subseteq errors'
      /\ mentioned' = mentioned /\ (pending' # Nothing => OfRegion(pending', region'))
  BY DEF ImportInv, ImportTypeOK
<1> QED BY <1>1, <1>3, <1>4, <1>5, <1>6, ReadKeeps

LEMMA DistrictKeeps ==
    ASSUME ImportInv, row \in Rows, row' \in Rows \cup {Nothing}, rowsRead' \subseteq Rows,
           ReadDistrict
    PROVE  ImportInv'
<1>0. PICK members : members = IF pending = Nothing THEN {} ELSE {AsMember(pending)}
  OBVIOUS
<1>a. PICK label : label = row.label
  OBVIOUS
<1>1. PICK d : d = NewDistrict(label, pending, members)
  OBVIOUS
<1>2. region # Nothing /\ label \in {"1", "2", "lone"} /\ pending \in Localities \cup {Nothing}
  BY <1>a, RowsAssumption DEF ReadDistrict, ImportInv, ImportTypeOK
<1>3. /\ members \in SUBSET Membership
      /\ {m.locality : m \in members} = {pending} \ {Nothing}
  <2>1. CASE pending = Nothing
    BY <1>0, <2>1
  <2>2. CASE pending # Nothing
    <3>1. AsMember(pending) \in Membership /\ AsMember(pending).locality = pending
      BY <1>2, <2>2, MemberIs
    <3> QED BY <1>0, <2>2, <3>1
  <2> QED BY <2>1, <2>2
<1>4. d \in District /\ d.region = region /\ Members(d) = {pending} \ {Nothing}
  <2>1. PICK e \in Localities \cup {Nothing} : e = pending
    BY <1>2
  <2>2. IsNew(d, label, e, members)
    BY <1>1, <2>1 DEF IsNew
  <2>3. ImportTypeOK /\ region # Nothing
    BY <1>2 DEF ImportInv
  <2>4. d \in District /\ d.region = region /\ d.memberships = members
    BY <1>2, <1>3, <2>2, <2>3, NewDistrictIs
  <2> QED BY <1>3, <2>4 DEF Members
<1>5. Open(d) /\ UNCHANGED <<region, province, pending, errors, mentioned>>
  BY <1>0, <1>a, <1>1 DEF ReadDistrict
<1>6. \A l \in Members(d) : OfRegion(l, d.region)
  BY <1>4 DEF ImportInv
<1>7. pending # Nothing => OfRegion(pending', region)
  BY <1>5 DEF ImportInv
<1> QED BY <1>2, <1>4, <1>5, <1>6, <1>7, OpeningKeeps
LEMMA MetroCityKeeps ==
    ASSUME ImportInv, row \in Rows, row' \in Rows \cup {Nothing}, rowsRead' \subseteq Rows,
           ReadMetroCity
    PROVE  ImportInv'
<1> DEFINE found == FindLocality(row.name, region, Nothing)
<1>1. /\ region = NCR /\ region # Nothing /\ row.name \in Names /\ row.kind = "metro"
      /\ UNCHANGED <<region, mentioned>>
  BY RowsAssumption, ImportAssumption DEF ReadMetroCity
<1>2. CASE found = {}
  <2>1. /\ errors' = errors \cup {"UNMATCHED_NCR_JURISDICTION"} /\ pending' = Nothing
        /\ UNCHANGED <<province, current, districts>>
    BY <1>2 DEF ReadMetroCity
  <2>2. errors \subseteq errors' /\ errors' \subseteq ErrorCodes /\ mentioned' \ mentioned = {}
    BY <1>1, <2>1 DEF ImportInv, ImportTypeOK, ErrorCodes
  <2>3. /\ region' \in Regions \cup {Nothing} /\ province' \in Provinces \cup {Nothing}
        /\ mentioned' \subseteq Names
    BY <1>1, <2>1 DEF ImportInv, ImportTypeOK
  <2>4. /\ districts' \in Seq(District) /\ Len(districts) <= Len(districts')
        /\ \A i \in 1 .. Len(districts') :
              \A l \in Members(districts'[i]) : OfRegion(l, districts'[i].region)
        /\ \A i \in 1 .. Len(districts) : Members(districts[i]) \subseteq Members(districts'[i])
        /\ current' \in 0 .. Len(districts')
    BY <2>1, Kept
  <2> QED BY <1>1, <2>1, <2>2, <2>3, <2>4, ReadKeeps
<1>3. CASE found # {}
  <2>1. PICK l \in found :
           /\ pending' = l /\ province' = Nothing /\ UNCHANGED errors
           /\ IF row.count = 1
              THEN Open([NewDistrict("lone", l, {[locality |-> l, name |-> row.name]})
                            EXCEPT !.province = Nothing])
              ELSE current' = 0 /\ UNCHANGED districts
    BY <1>3 DEF ReadMetroCity
  <2>2. l \in Localities /\ OfRegion(l, region)
    BY <1>1, <2>1, Found
  <2>3. CASE row.count = 1
    <3>1. PICK m : m = [locality |-> l, name |-> row.name]
      OBVIOUS
    <3>2. m \in Membership /\ m.locality = l
      BY <1>1, <2>2, <3>1, MemberIs
    <3>3. PICK d : d = [NewDistrict("lone", l, {m}) EXCEPT !.province = Nothing]
      OBVIOUS
    <3>4. d \in District /\ d.region = region /\ Members(d) = {l}
      <4>1. IsNew(d, "lone", l, {m}) /\ {m} \in SUBSET Membership
        BY <3>2, <3>3 DEF IsNew
      <4>2. d \in District /\ d.region = region /\ d.memberships = {m}
        BY <1>1, <2>2, <4>1, NewDistrictIs DEF ImportInv
      <4> QED BY <3>2, <4>2 DEF Members
    <3>5. Open(d)
      BY <2>1, <2>3, <3>1, <3>3
    <3> QED BY <1>1, <2>1, <2>2, <3>4, <3>5, OpeningKeeps
  <2>4. CASE row.count # 1
    <3>1. current' = 0 /\ districts' = districts
      BY <2>1, <2>4
    <3>2. /\ districts' \in Seq(District) /\ Len(districts) <= Len(districts')
          /\ \A i \in 1 .. Len(districts') :
                \A x \in Members(districts'[i]) : OfRegion(x, districts'[i].region)
          /\ \A i \in 1 .. Len(districts) : Members(districts[i]) \subseteq Members(districts'[i])
          /\ current' \in 0 .. Len(districts')
      BY <3>1, Kept
    <3>3. /\ region' \in Regions \cup {Nothing} /\ errors' \subseteq ErrorCodes
          /\ mentioned' \subseteq Names /\ mentioned' \ mentioned = {} /\ errors \subseteq errors'
      BY <1>1, <2>1 DEF ImportInv, ImportTypeOK
    <3> QED BY <1>1, <2>1, <2>2, <3>2, <3>3, ReadKeeps
  <2> QED BY <2>3, <2>4
<1> QED BY <1>2, <1>3

LEMMA SharedDistrictKeeps ==
    ASSUME ImportInv, row \in Rows, row' \in Rows \cup {Nothing}, rowsRead' \subseteq Rows,
           ReadSharedDistrict \/ ReadRestOfTaguig
    PROVE  ImportInv'
<1>1. Taguig \in Localities /\ Pateros \in Localities /\ NCR \in Regions /\ NCR # Nothing
  BY ImportAssumption
<1>2. OfRegion(Taguig, NCR) /\ OfRegion(Pateros, NCR)
  BY RowsAssumption DEF OfRegion
<1>3. PICK t, p : t = AsMember(Taguig) /\ p = AsMember(Pateros)
  OBVIOUS
<1>4. t \in Membership /\ p \in Membership /\ t.locality = Taguig /\ p.locality = Pateros
  BY <1>1, <1>3, MemberIs
<1>5. region = NCR /\ row.kind # "district" /\ UNCHANGED <<region, province, errors, mentioned>>
  BY DEF ReadSharedDistrict, ReadRestOfTaguig
<1>6. CASE ReadSharedDistrict
  <2>1. PICK d : d = [NewDistrict("lone", Nothing, {t, p}) EXCEPT !.key = TRUE]
    OBVIOUS
  <2>2. Open(d) /\ pending' = Nothing
    BY <1>3, <1>6, <2>1 DEF ReadSharedDistrict
  <2>3. d \in District /\ d.region = region /\ Members(d) = {Taguig, Pateros}
    <3>1. IsNew(d, "lone", Nothing, {t, p}) /\ {t, p} \in SUBSET Membership
      BY <1>4, <2>1 DEF IsNew
    <3>2. d \in District /\ d.region = region /\ d.memberships = {t, p}
      BY <1>1, <1>5, <3>1, NewDistrictIs DEF ImportInv
    <3> QED BY <1>4, <3>2 DEF Members
  <2> QED BY <1>1, <1>2, <1>5, <2>2, <2>3, OpeningKeeps
<1>7. CASE ReadRestOfTaguig
  <2>1. PICK d : d = NewDistrict("lone", Taguig, {t})
    OBVIOUS
  <2>2. Open(d) /\ pending' = pending
    BY <1>3, <1>7, <2>1 DEF ReadRestOfTaguig
  <2>3. d \in District /\ d.region = region /\ Members(d) = {Taguig}
    <3>1. IsNew(d, "lone", Taguig, {t}) /\ {t} \in SUBSET Membership
      BY <1>4, <2>1 DEF IsNew
    <3>2. d \in District /\ d.region = region /\ d.memberships = {t}
      BY <1>1, <1>5, <3>1, NewDistrictIs DEF ImportInv
    <3> QED BY <1>4, <3>2 DEF Members
  <2>4. pending' \in Localities \cup {Nothing} /\ (pending' # Nothing => OfRegion(pending', region))
    BY <2>2 DEF ImportInv, ImportTypeOK
  <2> QED BY <1>1, <1>2, <1>5, <2>2, <2>3, <2>4, OpeningKeeps
<1> QED BY <1>6, <1>7
LEMMA JoinedIs ==
    ASSUME NEW d \in District, NEW e \in Localities \cup {Nothing}, NEW n \in Names,
           NEW found \in SUBSET Localities, NEW j, j = Joined([d EXCEPT !.explicit = e], n, found)
    PROVE  j \in District /\ j.region = d.region /\ Members(j) = Members(d) \cup found
<1>1. PICK b \in {"1", "2", "lone"}, r \in Regions, p \in Provinces \cup {Nothing},
           x \in Localities \cup {Nothing}, k \in BOOLEAN, ms \in SUBSET Membership :
         d = [label |-> b, region |-> r, province |-> p, explicit |-> x, key |-> k,
              memberships |-> ms]
  BY DEF District
<1>2. PICK d1 : d1 = [d EXCEPT !.explicit = e]
  OBVIOUS
<1>3. d1 = [label |-> b, region |-> r, province |-> p, explicit |-> e, key |-> k,
            memberships |-> ms]
  BY <1>1, <1>2
<1>4. PICK new : new = {m \in {[locality |-> l, name |-> n] : l \in found} :
                           \A o \in ms : o.locality # m.locality}
  OBVIOUS
<1>5. d1.memberships = ms
  BY <1>3
<1>6. j = [d1 EXCEPT !.memberships = ms \cup new]
  BY <1>2, <1>4, <1>5 DEF Joined
<1>7. j = [label |-> b, region |-> r, province |-> p, explicit |-> e, key |-> k,
           memberships |-> ms \cup new]
  BY <1>3, <1>6
<1>8. \A l \in found : /\ [locality |-> l, name |-> n] \in Membership
                       /\ [locality |-> l, name |-> n].locality = l
  BY MemberIs
<1>9. new \in SUBSET Membership
  BY <1>4, <1>8
<1>10. j \in District /\ j.region = r /\ j.memberships = ms \cup new
  <2>1. ms \cup new \in SUBSET Membership
    BY <1>9
  <2> QED BY <1>7, <2>1 DEF District
<1>11. d.region = r /\ d.memberships = ms
  BY <1>1
<1>12. {m.locality : m \in ms \cup new} = {m.locality : m \in ms} \cup found
  <2>1. ASSUME NEW l \in found PROVE l \in {m.locality : m \in ms \cup new}
    <3>1. PICK m : m = [locality |-> l, name |-> n]
      OBVIOUS
    <3>2. m.locality = l
      BY <3>1
    <3>3. CASE \E o \in ms : o.locality = l
      BY <3>3
    <3>4. CASE \A o \in ms : o.locality # l
      <4>1. m \in new
        BY <1>4, <3>1, <3>2, <3>4
      <4> QED BY <3>2, <4>1
    <3> QED BY <3>3, <3>4
  <2>2. ASSUME NEW m \in new PROVE m.locality \in found
    BY <1>4, <1>8
  <2> QED BY <2>1, <2>2
<1> QED BY <1>10, <1>11, <1>12 DEF Members

\* A city or municipality becomes a member, heads a district or is reported.
LEMMA LocalityKeeps ==
    ASSUME ImportInv, row \in Rows, row' \in Rows \cup {Nothing}, rowsRead' \subseteq Rows,
           ReadLocality(row')
    PROVE  ImportInv'
<1>1. /\ row.kind # "district" /\ region # Nothing /\ row.name \in Names
      /\ UNCHANGED <<region, province>> /\ mentioned' = mentioned \cup {row.name}
  BY RowsAssumption DEF ReadLocality
<1>2. PICK n \in Names : n = row.name
  BY <1>1
<1>3. PICK found : found = FindLocality(n, region, province)
  OBVIOUS
<1>4. \A l \in found : l \in Localities /\ l \in StandsFor(n) /\ OfRegion(l, region)
  BY <1>3, Found
<1>5. /\ region' \in Regions \cup {Nothing} /\ province' \in Provinces \cup {Nothing}
      /\ mentioned' \subseteq Names /\ mentioned' \ mentioned \subseteq {n}
      /\ ~(row.kind = "district" /\ region # Nothing)
  BY <1>1, <1>2 DEF ImportInv, ImportTypeOK
<1>6. StandsFor(n)' = StandsFor(n)
  BY DEF StandsFor
<1>7. CASE HeadsDistrict(found, row')
  <2>1. (\E l \in found : pending' = l) /\ UNCHANGED <<current, districts, errors>>
    BY <1>2, <1>3, <1>7 DEF ReadLocality
  <2>2. /\ pending' \in Localities \cup {Nothing} /\ pending' \in StandsFor(n)
        /\ OfRegion(pending', region')
    BY <1>1, <1>4, <2>1
  <2>3. row' # Nothing /\ row'.kind = "district" /\ region' # Nothing
    BY <1>1, <1>7 DEF HeadsDistrict
  <2>4. \A x \in mentioned' \ mentioned : Accounted(x)'
    BY <1>5, <1>6, <2>2, <2>3 DEF Accounted
  <2>5. /\ districts' \in Seq(District) /\ Len(districts) <= Len(districts')
        /\ \A i \in 1 .. Len(districts') :
              \A l \in Members(districts'[i]) : OfRegion(l, districts'[i].region)
        /\ \A i \in 1 .. Len(districts) : Members(districts[i]) \subseteq Members(districts'[i])
        /\ current' \in 0 .. Len(districts')
    BY <2>1, Kept
  <2>6. errors' \subseteq ErrorCodes /\ errors \subseteq errors'
    BY <2>1 DEF ImportInv, ImportTypeOK
  <2> QED BY <1>5, <2>2, <2>4, <2>5, <2>6, ReadKeeps
<1>8. CASE ~HeadsDistrict(found, row') /\ current = 0
  <2>1. /\ errors' = errors \cup {"LOCALITY_WITHOUT_DISTRICT"}
        /\ UNCHANGED <<current, pending, districts>>
    BY <1>2, <1>3, <1>8 DEF ReadLocality
  <2>2. \A x \in mentioned' \ mentioned : Accounted(x)'
    BY <2>1 DEF Accounted
  <2>3. /\ districts' \in Seq(District) /\ Len(districts) <= Len(districts')
        /\ \A i \in 1 .. Len(districts') :
              \A l \in Members(districts'[i]) : OfRegion(l, districts'[i].region)
        /\ \A i \in 1 .. Len(districts) : Members(districts[i]) \subseteq Members(districts'[i])
        /\ current' \in 0 .. Len(districts')
    BY <2>1, Kept
  <2>4. /\ errors' \subseteq ErrorCodes /\ errors \subseteq errors'
        /\ pending' \in Localities \cup {Nothing}
        /\ pending' # Nothing => OfRegion(pending', region')
    BY <1>1, <2>1 DEF ImportInv, ImportTypeOK, ErrorCodes
  <2> QED BY <1>5, <2>2, <2>3, <2>4, ReadKeeps
<1>9. CASE ~HeadsDistrict(found, row') /\ current # 0
  <2>1. current \in 1 .. Len(districts) /\ districts \in Seq(District) /\ Len(districts) \in Nat
    BY <1>9 DEF ImportInv, ImportTypeOK
  <2>2. PICK d \in District : d = districts[current]
    BY <2>1
  <2>3. PICK member : member = FindLocality(n, d.region, d.province)
    OBVIOUS
  <2>4. PICK e : e = IF row.kind = "named" /\ found # {} /\ d.memberships = {}
                     THEN CHOOSE l \in found : TRUE ELSE d.explicit
    OBVIOUS
  <2>5. e \in Localities \cup {Nothing}
    BY <1>4, <2>4, DistrictFields
  <2>6. member \in SUBSET Localities /\ \A l \in member : l \in StandsFor(n) /\ OfRegion(l, d.region)
    BY <2>3, Found
  <2>7. PICK j : j = Joined([d EXCEPT !.explicit = e], n, member)
    OBVIOUS
  <2>8. j \in District /\ j.region = d.region /\ Members(j) = Members(d) \cup member
    BY <2>5, <2>6, <2>7, JoinedIs
  <2>9. /\ districts' = [districts EXCEPT ![current] = j]
        /\ errors' = IF member = {} THEN errors \cup {"UNMATCHED_LOCALITY"} ELSE errors
        /\ UNCHANGED <<current, pending>>
    <3>1. e = IF row.kind = "named" /\ found # {} /\ d.memberships = {}
              THEN CHOOSE l \in found : TRUE ELSE d.explicit
      BY <2>4
    <3>2. [d EXCEPT !.explicit = e]
              = [d EXCEPT !.explicit = IF row.kind = "named" /\ found # {} /\ d.memberships = {}
                                       THEN CHOOSE l \in found : TRUE ELSE @]
      BY <2>2, <3>1 DEF District
    <3> QED BY <1>2, <1>3, <1>9, <2>2, <2>3, <2>7, <3>2 DEF ReadLocality
  <2>10. /\ districts' \in Seq(District) /\ Len(districts') = Len(districts)
         /\ \A i \in 1 .. Len(districts) : districts'[i] = IF i = current THEN j ELSE districts[i]
    BY <2>1, <2>8, <2>9, ExceptSeq
  <2>11. /\ Len(districts) <= Len(districts') /\ current' \in 0 .. Len(districts')
         /\ current \in 1 .. Len(districts')
    BY <2>1, <2>9, <2>10
  <2>12. \A i \in 1 .. Len(districts) : Members(districts[i]) \subseteq Members(districts'[i])
    BY <2>2, <2>8, <2>10
  <2>13. \A i \in 1 .. Len(districts') :
             \A l \in Members(districts'[i]) : OfRegion(l, districts'[i].region)
    <3>1. \A l \in Members(j) : OfRegion(l, j.region)
      BY <2>1, <2>2, <2>6, <2>8 DEF ImportInv
    <3> QED BY <2>10, <3>1 DEF ImportInv
  <2>14. \A x \in mentioned' \ mentioned : Accounted(x)'
    <3>1. CASE member = {}
      BY <2>9, <3>1 DEF Accounted
    <3>2. CASE member # {}
      <4>1. Members(districts'[current]) \cap StandsFor(n) # {}
        BY <2>1, <2>6, <2>8, <2>10, <3>2
      <4>2. \E i \in 1 .. Len(districts') : Members(districts[i])' \cap StandsFor(n)' # {}
        BY <1>6, <2>11, <4>1 DEF Members
      <4> QED BY <1>5, <4>2 DEF Accounted
    <3> QED BY <3>1, <3>2
  <2>15. /\ errors' \subseteq ErrorCodes /\ errors \subseteq errors'
         /\ pending' \in Localities \cup {Nothing}
         /\ pending' # Nothing => OfRegion(pending', region')
    BY <1>1, <2>9 DEF ImportInv, ImportTypeOK, ErrorCodes
  <2> QED BY <1>5, <2>10, <2>11, <2>12, <2>13, <2>14, <2>15, ReadKeeps
<1> QED BY <1>7, <1>8, <1>9
-------------------------------------------------------------------------------
LEMMA TurnKeeps ==
    ASSUME ImportInv, ImportNext
    PROVE  ImportInv'
<1>1. PICK next \in (Rows \ rowsRead) \cup {Nothing} : Turn(next)
  BY DEF ImportNext
<1>2. /\ row \in Rows /\ row' = next /\ row' \in Rows \cup {Nothing} /\ rowsRead' \subseteq Rows
      /\ ReadRegion \/ Skip \/ ReadProvince \/ ReadMetroCity \/ ReadSharedDistrict
         \/ ReadRestOfTaguig \/ ReadSummary \/ ReadDistrict \/ Ignore \/ ReadLocality(row')
  BY <1>1 DEF Turn, ImportInv, ImportTypeOK
<1> QED BY <1>2, HeadingKeeps, MetroCityKeeps, SharedDistrictKeeps, DistrictKeeps, LocalityKeeps

\* Before the first row, and after the dataset has been written.
LEMMA EmptyImport ==
    ASSUME row \in Rows \cup {Nothing}, rowsRead \subseteq Rows, region = Nothing,
           province = Nothing, current = 0, pending = Nothing, districts = <<>>,
           errors = {}, mentioned = {}
    PROVE  ImportInv
<1>1. districts \in Seq(District) /\ Len(districts) = 0
  OBVIOUS
<1>2. ImportTypeOK
  BY <1>1 DEF ImportTypeOK
<1> QED BY <1>1, <1>2 DEF ImportInv

LEMMA InitEstablishesImport == Init => ImportInv
<1>1. ASSUME Init PROVE ImportInv
  <2>1. /\ row \in Rows /\ rowsRead = {row} /\ region = Nothing /\ province = Nothing /\ current = 0
        /\ pending = Nothing /\ districts = <<>> /\ errors = {} /\ mentioned = {}
    BY <1>1 DEF Init, ImportInit
  <2> QED BY <2>1, EmptyImport
<1> QED BY <1>1

LEMMA WriteKeepsImport ==
    ASSUME WriteDataset
    PROVE  ImportInv'
<1>1. /\ row' = Nothing /\ rowsRead' = {} /\ region' = Nothing /\ province' = Nothing
      /\ current' = 0 /\ pending' = Nothing /\ districts' = <<>> /\ errors' = {} /\ mentioned' = {}
  BY DEF WriteDataset
<1>2. districts' \in Seq(District) /\ Len(districts') = 0
  BY <1>1
<1>3. ImportTypeOK'
  BY <1>1, <1>2 DEF ImportTypeOK
<1> QED BY <1>1, <1>2, <1>3 DEF ImportInv

\* What is written of a district.
LEMMA StoredFields ==
    ASSUME NEW d, NEW s, s = StoredDistrict(d)
    PROVE  /\ s.id = IdOf(d) /\ s.region = d.region
           /\ s.jurisdiction = IF d.key THEN Nothing ELSE JurisdictionOf(d)
           /\ s.status = IF \E l \in Members(d) : Coverage(l) = "partial"
                         THEN "partial-boundary" ELSE "locality-resolved"
           /\ s.whole = {l \in Members(d) : Coverage(l) = "whole"}
           /\ s.partial = {l \in Members(d) : Coverage(l) = "partial"}
BY DEF StoredDistrict

LEMMA StoredIsSound ==
    ASSUME ImportInv, NEW i \in 1 .. Len(districts), NEW s, s = StoredDistrict(districts[i])
    PROVE  DistrictIsSound(s) /\ s.id = IdOf(districts[i])
<1>1. PICK d \in District : d = districts[i]
  BY DEF ImportInv, ImportTypeOK
<1>2. /\ d.region \in Regions /\ d.province \in Provinces \cup {Nothing}
      /\ d.explicit \in Localities \cup {Nothing} /\ d.key \in BOOLEAN
      /\ Members(d) \subseteq Localities
  BY DistrictFields
<1>3. /\ s.id = IdOf(d) /\ s.region = d.region
      /\ s.jurisdiction = IF d.key THEN Nothing ELSE JurisdictionOf(d)
      /\ s.status = IF \E l \in Members(d) : Coverage(l) = "partial"
                    THEN "partial-boundary" ELSE "locality-resolved"
      /\ s.whole = {l \in Members(d) : Coverage(l) = "whole"}
      /\ s.partial = {l \in Members(d) : Coverage(l) = "partial"}
  BY <1>1, StoredFields
<1>4. MembersOf(s) \subseteq Localities /\ \A l \in MembersOf(s) : OfRegion(l, s.region)
  <2>1. MembersOf(s) \subseteq Members(d)
    BY <1>3 DEF MembersOf
  <2> QED BY <1>1, <1>2, <1>3, <2>1 DEF ImportInv
<1>5. s.partial # {} => s.status = "partial-boundary"
  BY <1>3
<1>6. s.id[1] = IF d.key THEN "taguig-pateros"
                ELSE IF JurisdictionOf(d) # Nothing THEN JurisdictionOf(d) ELSE d.region
  BY <1>3 DEF IdOf
<1>7. JurisdictionOf(d) \in Provinces \cup Localities \cup {Nothing}
  BY <1>2 DEF JurisdictionOf
<1>8. IF s.jurisdiction = Nothing THEN s.id[1] \in Regions \cup {"taguig-pateros"}
      ELSE s.id[1] = s.jurisdiction /\ s.jurisdiction \in Provinces \cup Localities
  BY <1>2, <1>3, <1>6, <1>7
<1> QED BY <1>1, <1>3, <1>4, <1>5, <1>8 DEF DistrictIsSound

LEMMA DatasetOf ==
    ASSUME NEW data, NEW ds, NEW clean, data = [districts |-> ds, clean |-> clean]
    PROVE  data.districts = ds /\ data.clean = clean
OBVIOUS

\* A locality is whole in one district only.
LEMMA WholeInOne ==
    ASSUME ImportInv, NEW i \in 1 .. Len(districts), NEW j \in 1 .. Len(districts),
           NEW l, l \in Members(districts[i]), l \in Members(districts[j]), Coverage(l) = "whole"
    PROVE  i = j
<1>1. SUFFICES ASSUME i # j PROVE FALSE
  OBVIOUS
<1>2. Len(districts) \in Nat
  BY DEF ImportInv, ImportTypeOK
<1>3. IsFiniteSet(1 .. Len(districts))
  BY <1>2, FS_Interval
<1>4. DistrictsOf(l) \subseteq 1 .. Len(districts) /\ {i, j} \subseteq DistrictsOf(l)
  BY DEF DistrictsOf
<1>5. IsFiniteSet(DistrictsOf(l))
  BY <1>3, <1>4, FS_Subset
<1>6. Cardinality({i, j}) <= Cardinality(DistrictsOf(l)) /\ IsFiniteSet({i, j})
  BY <1>4, <1>5, FS_Subset
<1>7. Cardinality({i, j}) = 2
  <2>1. PICK one : one = {i}
    OBVIOUS
  <2>2. IsFiniteSet(one) /\ Cardinality(one) = 1
    BY <2>1, FS_Singleton
  <2>3. j \notin one /\ one \cup {j} = {i, j}
    BY <1>1, <2>1
  <2>4. Cardinality(one \cup {j}) = IF j \in one THEN Cardinality(one) ELSE Cardinality(one) + 1
    BY <2>2, FS_AddElement
  <2>5. Cardinality(one \cup {j}) = 2
    BY <2>2, <2>3, <2>4
  <2> QED BY <2>3, <2>5
<1>8. Cardinality(DistrictsOf(l)) \in Nat
  BY <1>5, FS_CardinalityType
<1>9. Cardinality(DistrictsOf(l)) > 1
  BY <1>6, <1>7, <1>8
<1> QED BY <1>9 DEF Coverage

LEMMA WriteKeepsFiles ==
    ASSUME ImportInv, WriteDataset
    PROVE  DatasetIsSound(dataset')
<1>1. dataset'.districts = Dataset /\ dataset'.clean = ImportClean
  <2>1. PICK ds : ds = Dataset
    OBVIOUS
  <2>2. PICK clean : clean = ImportClean
    OBVIOUS
  <2>3. dataset' = [districts |-> ds, clean |-> clean]
    BY <2>1, <2>2 DEF WriteDataset
  <2> QED BY <2>1, <2>2, <2>3, DatasetOf
<1>2. ASSUME NEW s \in Dataset PROVE DistrictIsSound(s)
  <2>1. PICK i \in 1 .. Len(districts) : s = StoredDistrict(districts[i])
    BY DEF Dataset
  <2> QED BY <2>1, StoredIsSound
<1>3. ASSUME ImportClean, NEW s \in Dataset, NEW t \in Dataset, s.id = t.id PROVE s = t
  <2>1. PICK i \in 1 .. Len(districts) : s = StoredDistrict(districts[i])
    BY DEF Dataset
  <2>2. PICK j \in 1 .. Len(districts) : t = StoredDistrict(districts[j])
    BY DEF Dataset
  <2>3. IdOf(districts[i]) = IdOf(districts[j])
    BY <1>3, <2>1, <2>2, StoredIsSound
  <2> QED BY <1>3, <2>1, <2>2, <2>3 DEF ImportClean
<1>4. ASSUME NEW s \in Dataset, NEW t \in Dataset, s.whole \cap t.whole # {} PROVE s = t
  <2>1. PICK i \in 1 .. Len(districts) : s = StoredDistrict(districts[i])
    BY DEF Dataset
  <2>2. PICK j \in 1 .. Len(districts) : t = StoredDistrict(districts[j])
    BY DEF Dataset
  <2>3. PICK l : l \in s.whole /\ l \in t.whole
    BY <1>4
  <2>4. l \in Members(districts[i]) /\ l \in Members(districts[j]) /\ Coverage(l) = "whole"
    BY <2>1, <2>2, <2>3, StoredFields
  <2> QED BY <2>1, <2>2, <2>4, WholeInOne
<1> QED BY <1>1, <1>2, <1>3, <1>4 DEF DatasetIsSound
-------------------------------------------------------------------------------
\* As many barangays as the places have, and all of them from there, are all.
LEMMA CountedOnceIsAll ==
    ASSUME NEW places \in SUBSET (Provinces \cup Localities), NEW claimed,
           claimed \subseteq UNION {BarangaysOf(l) : l \in places},
           Cardinality(claimed) = Cardinality(UNION {{l} \X BarangaysOf(l) : l \in places})
    PROVE  claimed = UNION {BarangaysOf(l) : l \in places}
<1> DEFINE all == UNION {BarangaysOf(l) : l \in places}
           pairs == UNION {{l} \X BarangaysOf(l) : l \in places}
<1>1. all \subseteq Barangays
  BY DEF BarangaysOf
<1>2. IsFiniteSet(all) /\ IsFiniteSet(places)
  BY <1>1, SubdivisionAssumption, FS_Subset
<1>3. IsFiniteSet(pairs)
  <2>1. IsFiniteSet(places \X Barangays)
    BY <1>2, SubdivisionAssumption, FS_Product
  <2>2. pairs \in SUBSET (places \X Barangays)
    BY DEF BarangaysOf
  <2> QED BY <2>1, <2>2, FS_Subset
<1>4. \E f : f \in Surjection(pairs, all)
  <2> DEFINE f == [x \in pairs |-> x[2]]
  <2>1. \A x \in pairs : x[2] \in all
    OBVIOUS
  <2>2. ASSUME NEW b \in all PROVE \E x \in pairs : f[x] = b
    <3>1. PICK l \in places : b \in BarangaysOf(l)
      OBVIOUS
    <3>2. PICK x : x = <<l, b>>
      OBVIOUS
    <3>3. x \in pairs /\ x[2] = b
      BY <3>1, <3>2
    <3> QED BY <3>3
  <2>3. f \in [pairs -> all]
    BY <2>1
  <2> QED BY <2>2, <2>3 DEF Surjection
<1>5. Cardinality(all) <= Cardinality(pairs)
  BY <1>3, <1>4, FS_Surjection
<1>6. IsFiniteSet(claimed) /\ Cardinality(claimed) <= Cardinality(all)
  BY <1>2, FS_Subset
<1>7. Cardinality(claimed) \in Nat /\ Cardinality(all) \in Nat
  BY <1>2, <1>6, FS_CardinalityType
<1>8. Cardinality(claimed) = Cardinality(all)
  BY <1>5, <1>6, <1>7
<1> QED BY <1>2, <1>8, FS_Subset

LEMMA EntryOfDistrict ==
    ASSUME DatasetIsSound(dataset), dataset.clean, TablesNameTheirCities,
           NEW table \in Tables, NEW e \in table.named \cup table.complement \cup table.numbered,
           NEW d \in Partial(dataset.districts), e.id = d.id
    PROVE  e.locality \in SplitPlaces(Partial(dataset.districts))
<1>1. d \in dataset.districts /\ DistrictIsSound(d)
  BY DEF Partial, DatasetIsSound
<1>2. /\ e.locality \in Localities
      /\ d.id[1] = e.locality \/ (d.id[1] = "taguig-pateros" /\ e.locality = Taguig)
  BY DEF TablesNameTheirCities
<1>3. CASE d.jurisdiction # Nothing
  <2>1. d.id[1] = d.jurisdiction /\ d.jurisdiction \in Provinces \cup Localities
    BY <1>1, <1>3 DEF DistrictIsSound
  <2>2. e.locality = d.jurisdiction
    BY <1>2, <2>1, SubdivisionAssumption
  <2> QED BY <1>3, <2>2 DEF SplitPlaces
<1>4. CASE d.jurisdiction = Nothing
  <2>1. d.id[1] \in Regions \cup {"taguig-pateros"}
    BY <1>1, <1>4 DEF DistrictIsSound
  <2>2. e.locality = Taguig
    BY <1>2, <2>1, SubdivisionAssumption
  <2> QED BY <2>2 DEF SplitPlaces
<1> QED BY <1>3, <1>4

LEMMA AssignedInPlaces ==
    ASSUME DatasetIsSound(dataset), dataset.clean, TablesNameTheirCities,
           NEW table \in Tables, TableResolves(table),
           NEW d \in Partial(dataset.districts), NEW b \in Assigned(table, d.id)
    PROVE  \E l \in SplitPlaces(Partial(dataset.districts)) : b \in BarangaysOf(l)
<1> DEFINE entries(part) == {e \in part : e.id = d.id}
<1>1. \/ b \in UNION {e.barangays : e \in entries(table.named)}
      \/ b \in UNION {BarangaysOf(e.locality) \ NamedIn(table, e.locality) :
                          e \in entries(table.complement)}
      \/ b \in UNION {e.barangays \cap BarangaysOf(e.locality) : e \in entries(table.numbered)}
  BY DEF Assigned
<1>2. PICK e \in table.named \cup table.complement \cup table.numbered :
         e.id = d.id /\ b \in BarangaysOf(e.locality)
  <2>1. CASE b \in UNION {e.barangays : e \in entries(table.named)}
    BY <2>1 DEF TableResolves
  <2>2. CASE b \in UNION {BarangaysOf(e.locality) \ NamedIn(table, e.locality) :
                              e \in entries(table.complement)}
    BY <2>2
  <2>3. CASE b \in UNION {e.barangays \cap BarangaysOf(e.locality) : e \in entries(table.numbered)}
    BY <2>3
  <2> QED BY <1>1, <2>1, <2>2, <2>3
<1>3. e.locality \in SplitPlaces(Partial(dataset.districts))
  BY <1>2, EntryOfDistrict
<1> QED BY <1>2, <1>3

LEMMA SubdivideCovers ==
    ASSUME DatasetIsSound(dataset), TablesNameTheirCities, NEW table \in Tables, Subdivide(table)
    PROVE  SubdivisionsCover(subdivisions')
<1>1. PICK split : split = Partial(dataset.districts)
  OBVIOUS
<1>2. /\ dataset.clean /\ TableResolves(table) /\ CoversCities(table, split)
      /\ subdivisions' = {[id |-> d.id, barangays |-> Assigned(table, d.id),
             submunicipalities |-> WholeSubmunicipalities(Assigned(table, d.id))] : d \in split}
  BY <1>1 DEF Subdivide, Idle
<1>3. \A d \in split : d \in dataset.districts /\ DistrictIsSound(d)
  BY <1>1, <1>2 DEF Partial, DatasetIsSound
<1>4. PICK claimed : claimed = UNION {Assigned(table, d.id) : d \in split}
  OBVIOUS
<1>5. PICK places : places = SplitPlaces(split)
  OBVIOUS
<1>6. places \in SUBSET (Provinces \cup Localities)
  BY <1>3, <1>5, ImportAssumption DEF SplitPlaces, DistrictIsSound
<1>7. claimed = UNION {BarangaysOf(l) : l \in places}
  <2>1. claimed \subseteq UNION {BarangaysOf(l) : l \in places}
    <3>1. ASSUME NEW d \in split, NEW b \in Assigned(table, d.id)
          PROVE  \E l \in places : b \in BarangaysOf(l)
      BY <1>1, <1>2, <1>5, AssignedInPlaces
    <3> QED BY <1>4, <3>1
  <2>2. Cardinality(claimed) = Cardinality(UNION {{l} \X BarangaysOf(l) : l \in places})
    BY <1>2, <1>4, <1>5 DEF CoversCities
  <2> QED BY <1>6, <2>1, <2>2, CountedOnceIsAll
<1>8. ASSUME NEW d \in split
      PROVE  \E u \in subdivisions' : u.id = d.id /\ u.barangays = Assigned(table, d.id)
  <2>1. PICK i, bs, sub : /\ i = d.id /\ bs = Assigned(table, d.id)
                          /\ sub = WholeSubmunicipalities(Assigned(table, d.id))
    OBVIOUS
  <2>2. PICK u : u = [id |-> i, barangays |-> bs, submunicipalities |-> sub]
    OBVIOUS
  <2>3. u.id = i /\ u.barangays = bs
    BY <2>2
  <2>4. u \in subdivisions'
    BY <1>2, <2>1, <2>2
  <2> QED BY <2>1, <2>3, <2>4
<1>9. ASSUME NEW u \in subdivisions' PROVE \E d \in split : u.id = d.id
  <2>1. PICK d \in split : u = [id |-> d.id, barangays |-> Assigned(table, d.id),
             submunicipalities |-> WholeSubmunicipalities(Assigned(table, d.id))]
    BY <1>2
  <2>2. PICK i, bs, sub : /\ i = d.id /\ bs = Assigned(table, d.id)
                          /\ sub = WholeSubmunicipalities(Assigned(table, d.id))
    OBVIOUS
  <2>3. u = [id |-> i, barangays |-> bs, submunicipalities |-> sub]
    BY <2>1, <2>2
  <2>4. u.id = i
    BY <2>3
  <2> QED BY <2>2, <2>4
<1>10. claimed \subseteq UNION {u.barangays : u \in subdivisions'}
  BY <1>4, <1>8
<1>11. ASSUME NEW place \in ({u.id[1] : u \in subdivisions'} \cap (Provinces \cup Localities))
                                \cup {Taguig}
       PROVE  place \in places
  <2>1. CASE place = Taguig
    BY <1>5, <2>1 DEF SplitPlaces
  <2>2. CASE place # Taguig
    <3>1. PICK u \in subdivisions' : place = u.id[1] /\ place \in Provinces \cup Localities
      BY <2>2
    <3>2. PICK d \in split : place = d.id[1]
      BY <1>9, <3>1
    <3>3. d.jurisdiction # Nothing /\ d.jurisdiction = place
      BY <1>3, <3>1, <3>2, SubdivisionAssumption DEF DistrictIsSound
    <3> QED BY <1>5, <3>3 DEF SplitPlaces
  <2> QED BY <2>1, <2>2
<1> QED BY <1>7, <1>10, <1>11 DEF SubdivisionsCover

-------------------------------------------------------------------------------
LEMMA ImportUnchanged ==
    ASSUME ImportInv, UNCHANGED importVars
    PROVE  ImportInv'
<1>1. /\ row' = row /\ rowsRead' = rowsRead /\ region' = region /\ province' = province
      /\ current' = current /\ pending' = pending /\ districts' = districts
      /\ errors' = errors /\ mentioned' = mentioned
  BY DEF importVars
<1>2. ImportTypeOK'
  BY <1>1 DEF ImportInv, ImportTypeOK
<1>3. \A i \in 1 .. Len(districts) : Members(districts[i])' = Members(districts[i])
  BY <1>1 DEF Members
<1>4. (pending # Nothing => OfRegion(pending, region))'
  BY <1>1 DEF ImportInv, OfRegion, Overridden
<1>5. (\A i \in 1 .. Len(districts) :
          \A l \in Members(districts[i]) : OfRegion(l, districts[i].region))'
  BY <1>1, <1>3 DEF ImportInv, OfRegion, Overridden
<1>6. ASSUME NEW n \in mentioned PROVE Accounted(n)'
  <2>1. StandsFor(n)' = StandsFor(n) /\ Accounted(n)
    BY DEF StandsFor, ImportInv
  <2> QED BY <1>1, <1>3, <2>1 DEF Accounted
<1> QED BY <1>1, <1>2, <1>4, <1>5, <1>6 DEF ImportInv

\* The steps that are not the import's leave it alone.
LEMMA StepKeepsImport == ImportInv /\ [Next]_vars => ImportInv'
<1> SUFFICES ASSUME ImportInv, [Next]_vars PROVE ImportInv'
  OBVIOUS
<1>1. CASE ImportNext
  BY <1>1, TurnKeeps
<1>2. CASE WriteDataset
  BY <1>2, WriteKeepsImport
<1>3. CASE UNCHANGED importVars
  BY <1>3, ImportUnchanged
<1>4. ImportNext \/ WriteDataset \/ UNCHANGED importVars
  BY DEF Next, vars, Subdivide, FetchReference, GenerateBoundaries, SyncBoundaries, Deploy
<1> QED BY <1>1, <1>2, <1>3, <1>4

LEMMA ImportInvariant == Spec => []ImportInv
<1>1. Init => ImportInv
  BY InitEstablishesImport
<1> QED BY <1>1, StepKeepsImport, PTL DEF Spec

LEMMA NothingIsDropped == ImportInv => NoRowDropped
<1> SUFFICES ASSUME ImportInv PROVE NoRowDropped
  OBVIOUS
<1>1. ASSUME row = Nothing, ImportClean, NEW n \in mentioned
      PROVE  \E i \in 1 .. Len(districts) : \E l \in Members(districts[i]) : l \in StandsFor(n)
  BY <1>1 DEF ImportInv, Accounted, ImportClean
<1> QED BY <1>1 DEF ImportInv, NoRowDropped, StandsFor

\* Every city and municipality that normalizeElectionData reads in the workbook
\* is in a district of the dataset, or the report has an error, for every
\* workbook and every reference: a row is never dropped silently.
THEOREM NoRowIsDropped == Spec => []NoRowDropped
BY ImportInvariant, NothingIsDropped, PTL

-------------------------------------------------------------------------------
LEMMA PlaceFilterIs ==
    ASSUME NEW l, NEW f, f = PlaceFilter(l)
    PROVE  /\ f.region = RegionOf(l) /\ f.locality = l
           /\ f.province = IF ParentOf[l] \in Provinces THEN ParentOf[l] ELSE Nothing
           /\ f.jurisdiction = Nothing /\ f.ncrDistrict = Nothing
           /\ f.barangay = Nothing /\ f.submunicipality = Nothing
<1>1. PICK r, p : r = RegionOf(l) /\ p = IF ParentOf[l] \in Provinces THEN ParentOf[l] ELSE Nothing
  OBVIOUS
<1>2. f = [AnyPlace EXCEPT !.region = r, !.locality = l, !.province = p]
  BY <1>1 DEF PlaceFilter
<1>3. /\ f.region = r /\ f.locality = l /\ f.province = p
      /\ f.jurisdiction = Nothing /\ f.ncrDistrict = Nothing
      /\ f.barangay = Nothing /\ f.submunicipality = Nothing
  BY <1>2 DEF AnyPlace
<1> QED BY <1>1, <1>3

LEMMA MembersAreFound == DatasetIsSound(dataset) => FoundByPlace
<1> SUFFICES ASSUME DatasetIsSound(dataset), dataset.clean, NEW d \in dataset.districts,
                    NEW l \in MembersOf(d) \ Overridden
             PROVE  d \in ListDistricts(Served, PlaceFilter(l))
  BY DEF FoundByPlace
<1>1. PICK f : f = PlaceFilter(l)
  OBVIOUS
<1>2. /\ f.region = RegionOf(l) /\ f.locality = l
      /\ f.province = IF ParentOf[l] \in Provinces THEN ParentOf[l] ELSE Nothing
      /\ f.jurisdiction = Nothing /\ f.ncrDistrict = Nothing
      /\ f.barangay = Nothing /\ f.submunicipality = Nothing
  BY <1>1, PlaceFilterIs
<1>3. d.region = RegionOf(l)
  BY DEF DatasetIsSound, DistrictIsSound, OfRegion
<1>4. InRegion(d, f)
  BY <1>2, <1>3 DEF InRegion
<1>5. f.province # Nothing => \E m \in MembersOf(d) : IsWithin(m, f.province)
  BY <1>2 DEF IsWithin, UnitsAbove
<1>6. Served.districts = dataset.districts
  BY DEF Served
<1> QED BY <1>1, <1>2, <1>4, <1>5, <1>6 DEF ListDistricts

LEMMA SoundUnchanged ==
    ASSUME DatasetIsSound(dataset), dataset' = dataset
    PROVE  DatasetIsSound(dataset')
BY DEF DatasetIsSound, DistrictIsSound, OfRegion, Overridden, MembersOf

LEMMA StepKeepsDataset ==
    ASSUME ImportInv, DatasetIsSound(dataset), [Next]_vars
    PROVE  DatasetIsSound(dataset')
<1>1. CASE WriteDataset
  BY <1>1, WriteKeepsFiles
<1>2. CASE dataset' = dataset
  BY <1>2, SoundUnchanged
<1>3. WriteDataset \/ dataset' = dataset
  BY DEF Next, vars, fileVars, Subdivide, FetchReference, GenerateBoundaries, SyncBoundaries, Deploy
<1> QED BY <1>1, <1>2, <1>3

\* Choosing a city or municipality by region and province finds every district
\* that it belongs to, for every workbook, unless an override put it into
\* another region's.
THEOREM PlacesFindTheirDistricts == EarlierFilesAreSound => (Spec => []FoundByPlace)
<1> DEFINE Inv == ImportInv /\ DatasetIsSound(dataset)
<1>1. EarlierFilesAreSound /\ Init => Inv
  BY InitEstablishesImport DEF Init, EarlierFilesAreSound
<1>2. Inv /\ [Next]_vars => Inv'
  BY StepKeepsImport, StepKeepsDataset
<1>3. Inv => FoundByPlace
  BY MembersAreFound
<1> QED BY <1>1, <1>2, <1>3, PTL DEF Spec

-------------------------------------------------------------------------------
(***************************************************************************)
(* The files: what a district divides is covered, and what the inputs of   *)
(* the manifest have is drawn once.                                        *)
(***************************************************************************)
Inputs == [units : SUBSET (Barangays \cup Localities), fetch : Nat]

\* No inputs are older than what was drawn from them.
InputsInv ==
    /\ reference \in Inputs /\ manifest \in Inputs
    /\ manifest.fetch <= reference.fetch
    /\ boundaries.source # Nothing =>
          boundaries.source \in Inputs /\ boundaries.source.fetch <= reference.fetch
    /\ boundaries.source = reference => DrawnFrom(reference, boundaries.features)

FilesInv ==
    /\ ImportInv
    /\ DatasetIsSound(dataset)
    /\ SubdivisionsCover(subdivisions)
    /\ SubdivisionsAreDisjoint(subdivisions)
    /\ InputsInv

LEMMA SubdivisionOf ==
    ASSUME NEW table \in Tables, Subdivide(table), NEW u \in subdivisions'
    PROVE  \E d \in Partial(dataset.districts) :
              /\ u.id = d.id /\ u.barangays = Assigned(table, d.id)
              /\ u.submunicipalities = WholeSubmunicipalities(Assigned(table, d.id))
<1>1. PICK d \in Partial(dataset.districts) :
         u = [id |-> d.id, barangays |-> Assigned(table, d.id),
              submunicipalities |-> WholeSubmunicipalities(Assigned(table, d.id))]
  BY DEF Subdivide
<1>2. PICK i, bs, sub : /\ i = d.id /\ bs = Assigned(table, d.id)
                        /\ sub = WholeSubmunicipalities(Assigned(table, d.id))
  OBVIOUS
<1>3. u = [id |-> i, barangays |-> bs, submunicipalities |-> sub]
  BY <1>1, <1>2
<1>4. u.id = i /\ u.barangays = bs /\ u.submunicipalities = sub
  BY <1>3
<1> QED BY <1>2, <1>4

LEMMA SameSubdivision ==
    ASSUME NEW table \in Tables, Subdivide(table), NEW u \in subdivisions',
           NEW v \in subdivisions', u.id = v.id
    PROVE  u = v
<1>1. PICK d \in Partial(dataset.districts) :
         u = [id |-> d.id, barangays |-> Assigned(table, d.id),
              submunicipalities |-> WholeSubmunicipalities(Assigned(table, d.id))]
  BY DEF Subdivide
<1>2. PICK e \in Partial(dataset.districts) :
         v = [id |-> e.id, barangays |-> Assigned(table, e.id),
              submunicipalities |-> WholeSubmunicipalities(Assigned(table, e.id))]
  BY DEF Subdivide
<1>3. d.id = e.id
  BY <1>1, <1>2
<1> QED BY <1>1, <1>2, <1>3

LEMMA SubdivideIsDisjoint ==
    ASSUME DatasetIsSound(dataset), TablesNameTheirCities, NEW table \in Tables, Subdivide(table)
    PROVE  SubdivisionsAreDisjoint(subdivisions')
<1>1. dataset.clean /\ TableResolves(table) /\ CoversCities(table, Partial(dataset.districts))
  BY DEF Subdivide, Idle
<1>2. ASSUME NEW u \in subdivisions' PROVE u.barangays \subseteq Barangays
  <2>1. PICK d \in Partial(dataset.districts) : u.id = d.id /\ u.barangays = Assigned(table, d.id)
    BY SubdivisionOf
  <2>2. ASSUME NEW b \in Assigned(table, d.id) PROVE b \in Barangays
    BY <1>1, AssignedInPlaces DEF BarangaysOf
  <2> QED BY <2>1, <2>2
<1>3. ASSUME NEW u \in subdivisions', NEW v \in subdivisions',
             u.id = v.id \/ u.barangays \cap v.barangays # {}
      PROVE  u = v
  <2>1. PICK d \in Partial(dataset.districts) : u.id = d.id /\ u.barangays = Assigned(table, d.id)
    BY SubdivisionOf
  <2>2. PICK e \in Partial(dataset.districts) : v.id = e.id /\ v.barangays = Assigned(table, e.id)
    BY SubdivisionOf
  <2>3. u.id = v.id
    BY <1>1, <1>3, <2>1, <2>2 DEF CoversCities
  <2> QED BY <2>3, SameSubdivision
<1> QED BY <1>2, <1>3 DEF SubdivisionsAreDisjoint

-------------------------------------------------------------------------------
LEMMA UnitsAreInputs ==
    ASSUME DatasetIsSound(dataset), dataset.clean, SubdivisionsAreDisjoint(subdivisions)
    PROVE  AssignedBarangays \subseteq Barangays /\ WholeLocalities \subseteq Localities
<1>1. AssignedBarangays \subseteq Barangays
  BY DEF AssignedBarangays, SubdivisionsAreDisjoint
<1>2. \A d \in dataset.districts : d.whole \subseteq Localities
  BY DEF DatasetIsSound, DistrictIsSound, MembersOf
<1> QED BY <1>1, <1>2 DEF WholeLocalities, Partial

LEMMA InputFields ==
    ASSUME NEW inputs \in Inputs
    PROVE  /\ inputs.units \subseteq Barangays \cup Localities /\ inputs.fetch \in Nat
           /\ inputs # Nothing
BY SubdivisionAssumption DEF Inputs

LEMMA FetchKeepsInputs ==
    ASSUME DatasetIsSound(dataset), SubdivisionsAreDisjoint(subdivisions), InputsInv,
           FetchReference
    PROVE  InputsInv'
<1>1. PICK units, n : units = AssignedBarangays \cup WholeLocalities /\ n = reference.fetch + 1
  OBVIOUS
<1>2. /\ dataset.clean /\ reference' = [units |-> units, fetch |-> n]
      /\ manifest' \in {manifest, reference'} /\ boundaries' = boundaries
  BY <1>1 DEF FetchReference, Idle
<1>3. reference \in Inputs /\ manifest \in Inputs /\ reference.fetch \in Nat /\ manifest.fetch \in Nat
      /\ manifest.fetch <= reference.fetch
  BY InputFields DEF InputsInv
<1>4. units \in SUBSET (Barangays \cup Localities) /\ n \in Nat
  BY <1>1, <1>2, <1>3, UnitsAreInputs
<1>5. reference' \in Inputs /\ reference'.fetch = n
  BY <1>2, <1>4 DEF Inputs
<1>6. manifest' \in Inputs /\ manifest'.fetch <= reference'.fetch
  BY <1>1, <1>2, <1>3, <1>4, <1>5
<1>7. ASSUME boundaries.source # Nothing
      PROVE  boundaries.source \in Inputs /\ boundaries.source.fetch < n
  <2>1. boundaries.source \in Inputs /\ boundaries.source.fetch <= reference.fetch
    BY <1>7 DEF InputsInv
  <2>2. boundaries.source.fetch \in Nat
    BY <2>1, InputFields
  <2> QED BY <1>1, <1>3, <2>1, <2>2
<1>8. boundaries.source # Nothing => boundaries.source \in Inputs /\ boundaries.source.fetch <= n
  <2>1. \A s \in Inputs : s.fetch < n => s.fetch <= n
    BY <1>4, InputFields
  <2> QED BY <1>7, <2>1
<1>9. boundaries.source # reference'
  <2>1. SUFFICES ASSUME boundaries.source = reference' PROVE FALSE
    OBVIOUS
  <2>2. boundaries.source # Nothing
    BY <1>5, <2>1, InputFields
  <2>3. n < n
    BY <1>5, <1>7, <2>1, <2>2
  <2> QED BY <1>4, <2>3
<1> QED BY <1>2, <1>5, <1>6, <1>8, <1>9 DEF InputsInv

\* A feature of what is drawn, with the units it is drawn from.
IsDrawn(f, u, localities) ==
    /\ f.id = u.id /\ ~f.stale
    /\ f.drawn = u.barangays \cup localities
    /\ f.counts = CountsOf(u.barangays, localities)

LEMMA DrawnFields ==
    ASSUME NEW i, NEW ls, NEW drawn, NEW counts, NEW source, NEW f,
           f = [id |-> i, localities |-> ls, drawn |-> drawn, counts |-> counts,
                source |-> source, stale |-> FALSE]
    PROVE  f.id = i /\ f.drawn = drawn /\ f.counts = counts /\ ~f.stale
OBVIOUS

LEMMA GenerateDraws ==
    ASSUME DatasetIsSound(dataset), dataset.clean, SubdivisionsAreDisjoint(subdivisions),
           reference \in Inputs, GenerateBoundaries
    PROVE  DrawnFrom(reference, boundaries'.features)
<1> DEFINE of(u) == {d \in dataset.districts : d.id = u.id
                         /\ (d.jurisdiction \in Cities \/ d.id[1] = "taguig-pateros")}
           whole(u) == UNION {d.whole : d \in of(u)}
           feature(u) == [id |-> u.id,
                          localities |-> UNION {MembersOf(d) : d \in of(u)},
                          drawn |-> Dissolved(u.barangays, whole(u)),
                          counts |-> CountsOf(u.barangays, whole(u)),
                          source |-> manifest, stale |-> FALSE]
<1>1. /\ \A u \in subdivisions : u.barangays \cup whole(u) \subseteq reference.units
      /\ boundaries'.features = {feature(u) : u \in subdivisions}
  <2>1. PICK features : features = {feature(u) : u \in subdivisions}
    OBVIOUS
  <2>2. boundaries' = [source |-> manifest, features |-> features]
    BY <2>1 DEF GenerateBoundaries
  <2>3. boundaries'.features = features
    BY <2>2
  <2>4. \A u \in subdivisions : u.barangays \cup whole(u) \subseteq reference.units
    BY DEF GenerateBoundaries
  <2> QED BY <2>1, <2>3, <2>4
<1>2. ASSUME NEW u \in subdivisions
      PROVE  whole(u) \subseteq Localities /\ u.barangays \subseteq Barangays
  BY DEF DatasetIsSound, DistrictIsSound, MembersOf, SubdivisionsAreDisjoint
<1>3. ASSUME NEW u \in subdivisions, NEW v \in subdivisions, whole(u) \cap whole(v) # {}
      PROVE  u = v
  <2>1. PICK d \in of(u), e \in of(v) : d.whole \cap e.whole # {}
    BY <1>3
  <2>2. u.id = v.id
    BY <2>1 DEF DatasetIsSound
  <2> QED BY <2>2 DEF SubdivisionsAreDisjoint
<1>4. ASSUME NEW u \in subdivisions PROVE IsDrawn(feature(u), u, whole(u))
  BY DrawnFields DEF IsDrawn, Dissolved
<1> HIDE DEF feature, whole
<1>5. ASSUME NEW f \in boundaries'.features
      PROVE  /\ ~f.stale /\ f.drawn \subseteq reference.units
             /\ f.counts = CountsOf(f.drawn \cap Barangays, f.drawn \cap Localities)
  <2>1. PICK u \in subdivisions : f = feature(u)
    BY <1>1
  <2>2. IsDrawn(f, u, whole(u)) /\ whole(u) \subseteq Localities /\ u.barangays \subseteq Barangays
    BY <1>2, <1>4, <2>1
  <2>3. f.drawn = u.barangays \cup whole(u) /\ ~f.stale
        /\ f.counts = CountsOf(u.barangays, whole(u))
    BY <2>2 DEF IsDrawn
  <2>4. f.drawn \cap Barangays = u.barangays /\ f.drawn \cap Localities = whole(u)
    BY <2>2, <2>3, SubdivisionAssumption
  <2> QED BY <1>1, <2>3, <2>4
<1>6. ASSUME NEW f \in boundaries'.features, NEW g \in boundaries'.features,
             f.id = g.id \/ f.drawn \cap g.drawn # {}
      PROVE  f = g
  <2>1. PICK u \in subdivisions : f = feature(u)
    BY <1>1
  <2>2. PICK v \in subdivisions : g = feature(v)
    BY <1>1
  <2>3. /\ f.id = u.id /\ f.drawn = u.barangays \cup whole(u)
        /\ g.id = v.id /\ g.drawn = v.barangays \cup whole(v)
    BY <1>4, <2>1, <2>2 DEF IsDrawn
  <2>4. CASE f.id = g.id
    BY <2>1, <2>2, <2>3, <2>4 DEF SubdivisionsAreDisjoint
  <2>5. ASSUME NEW x, x \in f.drawn, x \in g.drawn PROVE u = v
    <3>1. x \in u.barangays \cap v.barangays \/ x \in whole(u) \cap whole(v)
      BY <1>2, <2>3, <2>5, SubdivisionAssumption
    <3>2. CASE x \in u.barangays \cap v.barangays
      BY <3>2 DEF SubdivisionsAreDisjoint
    <3>3. CASE x \in whole(u) \cap whole(v)
      BY <1>3, <3>3
    <3> QED BY <3>1, <3>2, <3>3
  <2> QED BY <1>6, <2>1, <2>2, <2>4, <2>5
<1> QED BY <1>5, <1>6 DEF DrawnFrom

LEMMA GenerateKeepsInputs ==
    ASSUME DatasetIsSound(dataset), SubdivisionsAreDisjoint(subdivisions), InputsInv,
           GenerateBoundaries
    PROVE  InputsInv'
<1>1. dataset.clean /\ reference \in Inputs /\ reference' = reference /\ manifest' = manifest
  BY DEF GenerateBoundaries, Idle, InputsInv
<1>2. boundaries'.source = manifest
  BY DEF GenerateBoundaries
<1>3. DrawnFrom(reference, boundaries'.features)
  BY <1>1, GenerateDraws
<1> QED BY <1>1, <1>2, <1>3 DEF InputsInv

LEMMA SyncKeepsInputs ==
    ASSUME InputsInv, SyncBoundaries
    PROVE  InputsInv'
<1>1. reference' = reference /\ manifest' = manifest /\ boundaries'.source = Nothing
  BY DEF SyncBoundaries
<1>2. reference # Nothing
  BY InputFields DEF InputsInv
<1> QED BY <1>1, <1>2 DEF InputsInv

LEMMA StepKeepsFiles ==
    ASSUME FilesInv, TablesNameTheirCities, [Next]_vars
    PROVE  FilesInv'
<1>1. ImportInv' /\ DatasetIsSound(dataset)'
  <2>1. ImportInv' /\ DatasetIsSound(dataset')
    BY StepKeepsImport, StepKeepsDataset DEF FilesInv
  <2> QED BY <2>1
<1>2. SubdivisionsCover(subdivisions') /\ SubdivisionsAreDisjoint(subdivisions')
  <2>1. CASE \E table \in Tables : Subdivide(table)
    BY <2>1, SubdivideCovers, SubdivideIsDisjoint DEF FilesInv
  <2>2. CASE subdivisions' = subdivisions
    BY <2>2 DEF FilesInv, SubdivisionsCover, SubdivisionsAreDisjoint
  <2>3. (\E table \in Tables : Subdivide(table)) \/ subdivisions' = subdivisions
    BY DEF Next, vars, fileVars, WriteDataset, FetchReference, GenerateBoundaries,
           SyncBoundaries, Deploy
  <2> QED BY <2>1, <2>2, <2>3
<1>3. InputsInv'
  <2>1. CASE FetchReference
    BY <2>1, FetchKeepsInputs DEF FilesInv
  <2>2. CASE GenerateBoundaries
    BY <2>2, GenerateKeepsInputs DEF FilesInv
  <2>3. CASE SyncBoundaries
    BY <2>3, SyncKeepsInputs DEF FilesInv
  <2>4. CASE UNCHANGED <<reference, manifest, boundaries>>
    BY <2>4 DEF FilesInv, InputsInv
  <2>5. FetchReference \/ GenerateBoundaries \/ SyncBoundaries
        \/ UNCHANGED <<reference, manifest, boundaries>>
    BY DEF Next, vars, fileVars, WriteDataset, Subdivide, Deploy
  <2> QED BY <2>1, <2>2, <2>3, <2>4, <2>5
<1> QED BY <1>1, <1>2, <1>3 DEF FilesInv

LEMMA InitEstablishesFiles ==
    ASSUME EarlierFilesAreSound, Init
    PROVE  FilesInv
<1>1. ImportInv
  BY InitEstablishesImport
<1>2. /\ dataset = EarlierFiles.dataset /\ subdivisions = EarlierFiles.subdivisions
      /\ reference = EarlierFiles.reference /\ manifest = EarlierFiles.reference
      /\ boundaries = EarlierFiles.boundaries
  BY DEF Init
<1>3. DatasetIsSound(dataset) /\ SubdivisionsCover(subdivisions)
      /\ SubdivisionsAreDisjoint(subdivisions)
  BY <1>2 DEF EarlierFilesAreSound
<1>4. reference \in Inputs /\ boundaries.source \in {Nothing, reference}
      /\ (boundaries.source # Nothing => DrawnFrom(reference, boundaries.features))
  BY <1>2 DEF EarlierFilesAreSound, Inputs
<1>5. reference # Nothing /\ reference.fetch \in Nat
  BY <1>4, InputFields
<1>6. InputsInv
  BY <1>2, <1>4, <1>5 DEF InputsInv
<1> QED BY <1>1, <1>3, <1>6 DEF FilesInv

-------------------------------------------------------------------------------
(***************************************************************************)
(* What the validator lets through.                                        *)
(***************************************************************************)
\* The validator's findings are none, in a workbook whose districts divide
\* their own cities.
Validated ==
    /\ FilesInv /\ dataset.clean
    /\ DistrictsAreValid /\ SubdivisionsAreValid
    /\ DividedByTheirOwn

LEMMA UnitsOfBarangay ==
    ASSUME NEW b \in Barangays
    PROVE  LocalityOf(b) \in Localities /\ RegionOf(LocalityOf(b)) \in Regions
<1>1. LocalityOf(b) \in Localities
  BY SubdivisionAssumption DEF LocalityOf
<1>2. ASSUME NEW l \in Localities PROVE RegionOf(l) \in Regions
  BY ImportAssumption DEF RegionOf
<1> QED BY <1>1, <1>2

\* The barangays of a city that is divided are those of the jurisdiction that
\* divides it.
LEMMA WithinItsJurisdiction ==
    ASSUME NEW l \in Localities, NEW place \in Provinces \cup Localities,
           IsWithin(l, place), NEW b \in BarangaysOf(l)
    PROVE  b \in BarangaysOf(place)
<1>1. PICK m : m = LocalityOf(b)
  OBVIOUS
<1>2. b \in Barangays /\ l \in {m, ParentOf[m], RegionOf(m)}
  BY <1>1 DEF BarangaysOf, UnitsAbove
<1>3. m \in Localities /\ RegionOf(m) \in Regions
  BY <1>1, <1>2, UnitsOfBarangay
<1>4. l = m \/ l = ParentOf[m]
  BY <1>2, <1>3, SubdivisionAssumption
<1>5. place = l \/ place = ParentOf[l]
  <2>1. RegionOf(l) \in Regions
    BY ImportAssumption DEF RegionOf
  <2> QED BY <2>1, SubdivisionAssumption DEF IsWithin, UnitsAbove
<1>6. place \in {m, ParentOf[m], RegionOf(m)}
  <2>1. CASE place = l
    BY <1>4, <2>1
  <2>2. CASE place = ParentOf[l] /\ l = m
    BY <2>2
  <2>3. CASE place = ParentOf[l] /\ l = ParentOf[m]
    <3>1. l \in Provinces
      BY <1>3, <2>3, ImportAssumption, SubdivisionAssumption
    <3>2. place \in Regions
      BY <2>3, <3>1, ImportAssumption
    <3> QED BY <3>2, SubdivisionAssumption
  <2> QED BY <1>4, <1>5, <2>1, <2>2, <2>3
<1> QED BY <1>1, <1>2, <1>6 DEF BarangaysOf, UnitsAbove

LEMMA DividedIsAssigned ==
    ASSUME Validated, NEW d \in dataset.districts, NEW l \in d.partial, NEW b \in BarangaysOf(l)
    PROVE  b \in AssignedBarangays
<1>1. DistrictIsSound(d) /\ l \in Localities
  BY ImportAssumption DEF Validated, FilesInv, DatasetIsSound, DistrictsAreValid
<1>2. d.status = "partial-boundary" /\ d \in Partial(dataset.districts)
  BY <1>1 DEF DistrictIsSound, Partial
<1>3. PICK u \in subdivisions : u.id = d.id
  BY <1>2 DEF Validated, SubdivisionsAreValid
<1>4. \E place \in ({v.id[1] : v \in subdivisions} \cap (Provinces \cup Localities)) \cup {Taguig} :
          b \in BarangaysOf(place)
  <2>1. CASE l = Taguig
    BY <2>1
  <2>2. CASE d.jurisdiction # Nothing /\ IsWithin(l, d.jurisdiction)
    <3>1. d.id[1] = d.jurisdiction /\ d.jurisdiction \in Provinces \cup Localities
      BY <1>1, <2>2 DEF DistrictIsSound
    <3>2. b \in BarangaysOf(d.jurisdiction)
      BY <1>1, <2>2, <3>1, WithinItsJurisdiction
    <3> QED BY <1>3, <3>1, <3>2
  <2> QED BY <2>1, <2>2 DEF Validated, DividedByTheirOwn
<1> QED BY <1>4 DEF Validated, FilesInv, SubdivisionsCover, AssignedBarangays

LEMMA SubdivisionHasDistrict ==
    ASSUME Validated, NEW u \in subdivisions
    PROVE  \E d \in Partial(dataset.districts) : d.id = u.id
BY DEF Validated, SubdivisionsAreValid

LEMMA SameDistrict ==
    ASSUME Validated, NEW d \in dataset.districts, NEW e \in dataset.districts, d.id = e.id
    PROVE  d = e
BY DEF Validated, FilesInv, DatasetIsSound

LEMMA BarangayFilterIs ==
    ASSUME NEW b, NEW f, f = [AnyPlace EXCEPT !.barangay = b]
    PROVE  /\ f.region = Nothing /\ f.locality = Nothing /\ f.province = Nothing
           /\ f.jurisdiction = Nothing /\ f.ncrDistrict = Nothing
           /\ f.barangay = b /\ f.submunicipality = Nothing
BY DEF AnyPlace

LEMMA AnswerIsOne ==
    ASSUME Validated, NEW b \in AssignedBarangays,
           NEW files, files.districts = dataset.districts, files.subdivisions = subdivisions
    PROVE  Cardinality(ListDistricts(files, [AnyPlace EXCEPT !.barangay = b])) = 1
<1>1. PICK f : f = [AnyPlace EXCEPT !.barangay = b]
  OBVIOUS
<1>2. /\ f.region = Nothing /\ f.locality = Nothing /\ f.province = Nothing
      /\ f.jurisdiction = Nothing /\ f.ncrDistrict = Nothing
      /\ f.barangay = b /\ f.submunicipality = Nothing
  BY <1>1, BarangayFilterIs
<1>3. b # Nothing
  <2>1. b \in Barangays
    BY DEF Validated, FilesInv, SubdivisionsAreDisjoint, AssignedBarangays
  <2> QED BY <2>1, SubdivisionAssumption
<1>4. ListDistricts(files, f) = {d \in dataset.districts : b \in UnitsOf(files, d, "barangays")}
  BY <1>2, <1>3 DEF ListDistricts, InRegion
<1>5. PICK u \in subdivisions : b \in u.barangays
  BY DEF AssignedBarangays
<1>6. PICK d \in Partial(dataset.districts) : d.id = u.id
  BY SubdivisionHasDistrict
<1>7. ASSUME NEW e \in dataset.districts
      PROVE  b \in UnitsOf(files, e, "barangays") <=> e = d
  <2>1. b \in UnitsOf(files, e, "barangays") <=> \E v \in subdivisions : v.id = e.id /\ b \in v.barangays
    BY DEF UnitsOf
  <2>2. \A v \in subdivisions : b \in v.barangays => v = u
    BY <1>5 DEF Validated, FilesInv, SubdivisionsAreDisjoint
  <2>3. b \in UnitsOf(files, e, "barangays") <=> e.id = u.id
    BY <1>5, <2>1, <2>2
  <2> QED BY <1>6, <2>3, SameDistrict DEF Partial
<1>8. ListDistricts(files, f) = {d}
  BY <1>4, <1>6, <1>7 DEF Partial
<1> QED BY <1>1, <1>8, FS_Singleton

-------------------------------------------------------------------------------
(***************************************************************************)
(* Disjoint parts, as large as those of a cover and taken from what it     *)
(* covers, cover it as well.                                               *)
(***************************************************************************)
LEMMA PartsOfSameSizeCover ==
    ASSUME NEW F, NEW U, IsFiniteSet(U),
           NEW A \in [F -> SUBSET U], NEW B \in [F -> SUBSET U],
           \A f \in F : Cardinality(A[f]) = Cardinality(B[f]),
           \A f, g \in F : A[f] \cap A[g] # {} => f = g,
           \A f \in F : A[f] \subseteq UNION {B[g] : g \in F}
    PROVE  \A f \in F : B[f] \subseteq UNION {A[g] : g \in F}
<1> DEFINE drawn == UNION {A[f] : f \in F}
           wanted == UNION {B[f] : f \in F}
           owner == [x \in drawn |-> CHOOSE f \in F : x \in A[f]]
           match == [f \in F |-> CHOOSE m : m \in Surjection(A[f], B[f])]
           h == [x \in drawn |-> match[owner[x]][x]]
<1>1. \A f \in F : A[f] \subseteq U /\ B[f] \subseteq U
  OBVIOUS
<1>2. IsFiniteSet(drawn) /\ IsFiniteSet(wanted) /\ drawn \subseteq wanted
  <2>1. drawn \subseteq U /\ wanted \subseteq U
    BY <1>1
  <2> QED BY <2>1, FS_Subset
<1>3. ASSUME NEW f \in F PROVE match[f] \in Surjection(A[f], B[f])
  <2>1. IsFiniteSet(A[f]) /\ IsFiniteSet(B[f])
    BY <1>1, FS_Subset
  <2>2. ExistsBijection(A[f], B[f])
    BY <2>1, FS_SameCardinalityBij
  <2>3. \E m : m \in Surjection(A[f], B[f])
    BY <2>2 DEF ExistsBijection, Bijection
  <2>4. match[f] = CHOOSE m : m \in Surjection(A[f], B[f])
    OBVIOUS
  <2> QED BY <2>3, <2>4
<1>4. ASSUME NEW f \in F, NEW x \in A[f]
      PROVE  x \in drawn /\ owner[x] = f /\ h[x] = match[f][x]
  <2>1. x \in drawn
    OBVIOUS
  <2>2. owner[x] \in F /\ x \in A[owner[x]]
    <3>1. owner[x] = CHOOSE g \in F : x \in A[g]
      BY <2>1
    <3> QED BY <3>1
  <2>3. owner[x] = f
    BY <2>2
  <2> QED BY <2>1, <2>3
<1> HIDE DEF match, owner
<1>5. ASSUME NEW f \in F, NEW y \in B[f] PROVE \E x \in drawn : h[x] = y
  <2>1. PICK x \in A[f] : match[f][x] = y
    BY <1>3 DEF Surjection
  <2> QED BY <1>4, <2>1
<1>6. ASSUME NEW x \in drawn PROVE h[x] \in wanted
  <2>1. PICK f \in F : x \in A[f]
    OBVIOUS
  <2>2. match[f][x] \in B[f]
    BY <1>3, <2>1 DEF Surjection
  <2>3. match[f][x] \in wanted
    BY <2>2
  <2>4. h[x] = match[f][x]
    BY <1>4, <2>1
  <2> QED BY <2>3, <2>4
<1>7. h \in Surjection(drawn, wanted)
  <2>1. h \in [drawn -> wanted]
    BY <1>6
  <2>2. \A y \in wanted : \E x \in drawn : h[x] = y
    BY <1>5
  <2> QED BY <2>1, <2>2 DEF Surjection
<1>8. Cardinality(wanted) <= Cardinality(drawn)
  BY <1>2, <1>7, FS_Surjection
<1> HIDE DEF h, drawn, wanted
<1>9. Cardinality(drawn) = Cardinality(wanted)
  <2>1. Cardinality(drawn) <= Cardinality(wanted)
    BY <1>2, FS_Subset
  <2>2. Cardinality(drawn) \in Nat /\ Cardinality(wanted) \in Nat
    BY <1>2, FS_CardinalityType
  <2> QED BY <1>8, <2>1, <2>2
<1>10. drawn = wanted
  BY <1>2, <1>9, FS_Subset
<1> QED BY <1>10 DEF drawn, wanted

-------------------------------------------------------------------------------
(***************************************************************************)
(* The map.                                                                *)
(***************************************************************************)
MapValidated == Validated /\ ReferenceIsValid /\ BoundariesAreValid

LEMMA MapIsDrawn ==
    ASSUME MapValidated
    PROVE  /\ DrawnFrom(reference, boundaries.features)
           /\ reference \in Inputs
           /\ reference.units = AssignedBarangays \cup WholeLocalities
           /\ {f.id : f \in boundaries.features} = {d.id : d \in Partial(dataset.districts)}
           /\ \A f \in boundaries.features : InputsCounted(f)
           /\ AssignedBarangays \subseteq Barangays /\ WholeLocalities \subseteq Localities
<1>1. boundaries.source = reference /\ reference.units = AssignedBarangays \cup WholeLocalities
  BY DEF MapValidated, ReferenceIsValid, BoundariesAreValid
<1>2. DrawnFrom(reference, boundaries.features) /\ reference \in Inputs
  BY <1>1 DEF MapValidated, Validated, FilesInv, InputsInv
<1>3. {f \in boundaries.features : ~f.stale} = boundaries.features
  BY <1>2 DEF DrawnFrom
<1>4. {f.id : f \in boundaries.features} = {d.id : d \in Partial(dataset.districts)}
  BY <1>3 DEF MapValidated, BoundariesAreValid
<1>5. ASSUME NEW f \in boundaries.features PROVE f.drawn # Nothing
  <2>1. f.drawn \in SUBSET (Barangays \cup Localities)
    BY <1>2, InputFields DEF DrawnFrom
  <2> QED BY <2>1, SubdivisionAssumption
<1>6. ASSUME NEW f \in boundaries.features PROVE InputsCounted(f)
  BY <1>3, <1>5 DEF MapValidated, BoundariesAreValid
<1>7. AssignedBarangays \subseteq Barangays /\ WholeLocalities \subseteq Localities
  BY UnitsAreInputs DEF MapValidated, Validated, FilesInv
<1> QED BY <1>1, <1>2, <1>4, <1>6, <1>7

\* The district and the subdivision of a feature, and as many of their units as
\* it draws.
LEMMA UnitsOfFeature ==
    ASSUME MapValidated, NEW f \in boundaries.features
    PROVE  \E d \in Partial(dataset.districts), u \in subdivisions :
              /\ d.id = f.id /\ u.id = f.id
              /\ Cardinality(f.drawn \cap Barangays) = Cardinality(u.barangays)
              /\ Cardinality(f.drawn \cap Localities) = Cardinality(d.whole)
<1>1. PICK d \in Partial(dataset.districts) : d.id = f.id
  BY MapIsDrawn
<1>2. PICK u \in subdivisions : u.id = f.id
  BY <1>1 DEF MapValidated, Validated, SubdivisionsAreValid
<1>3. f.counts = CountsOf(u.barangays, d.whole)
  BY <1>1, <1>2, MapIsDrawn DEF InputsCounted, Partial
<1>4. f.counts = CountsOf(f.drawn \cap Barangays, f.drawn \cap Localities)
  BY MapIsDrawn DEF DrawnFrom
<1>5. /\ Cardinality(f.drawn \cap Barangays) = Cardinality(u.barangays)
      /\ Cardinality(f.drawn \cap Localities) = Cardinality(d.whole)
  BY <1>3, <1>4 DEF CountsOf
<1> QED BY <1>1, <1>2, <1>5

LEMMA EveryBarangayIsDrawn ==
    ASSUME MapValidated, NEW b \in AssignedBarangays
    PROVE  \E f \in boundaries.features : b \in f.drawn
<1> DEFINE F == boundaries.features
           A == [f \in F |-> f.drawn \cap Barangays]
           B == [f \in F |-> UNION {u.barangays : u \in {v \in subdivisions : v.id = f.id}}]
<1>1. ASSUME NEW f \in F
      PROVE  /\ Cardinality(A[f]) = Cardinality(B[f]) /\ B[f] \subseteq Barangays
             /\ A[f] \subseteq AssignedBarangays
  <2>1. PICK u \in subdivisions :
           u.id = f.id /\ Cardinality(f.drawn \cap Barangays) = Cardinality(u.barangays)
    BY UnitsOfFeature
  <2>2. {v \in subdivisions : v.id = f.id} = {u}
    BY <2>1 DEF MapValidated, Validated, FilesInv, SubdivisionsAreDisjoint
  <2>3. B[f] = u.barangays
    BY <2>2
  <2>4. f.drawn \cap Barangays \subseteq AssignedBarangays
    BY MapIsDrawn, SubdivisionAssumption DEF DrawnFrom
  <2> QED BY <2>1, <2>3, <2>4, MapIsDrawn DEF AssignedBarangays
<1>2. ASSUME NEW u \in subdivisions PROVE \E f \in F : u.barangays \subseteq B[f]
  <2>1. PICK d \in Partial(dataset.districts) : d.id = u.id
    BY SubdivisionHasDistrict DEF MapValidated
  <2>2. PICK f \in F : f.id = u.id
    BY <2>1, MapIsDrawn
  <2> QED BY <2>2
<1>3. \A f \in F : A[f] \subseteq UNION {B[g] : g \in F}
  <2>1. ASSUME NEW x \in AssignedBarangays PROVE \E g \in F : x \in B[g]
    <3>1. PICK u \in subdivisions : x \in u.barangays
      BY DEF AssignedBarangays
    <3>2. PICK g \in F : u.barangays \subseteq B[g]
      BY <1>2
    <3> QED BY <3>1, <3>2
  <2> QED BY <1>1, <2>1
<1>4. \A f, g \in F : A[f] \cap A[g] # {} => f = g
  BY MapIsDrawn DEF DrawnFrom
<1>5. A \in [F -> SUBSET Barangays]
  OBVIOUS
<1>6. B \in [F -> SUBSET Barangays]
  BY <1>1
<1>7. \A f \in F : Cardinality(A[f]) = Cardinality(B[f])
  BY <1>1
<1>8. \A f \in F : A[f] \subseteq f.drawn
  OBVIOUS
<1> HIDE DEF A, B, F
<1>9. \A f \in F : B[f] \subseteq UNION {A[g] : g \in F}
  BY <1>3, <1>4, <1>5, <1>6, <1>7, SubdivisionAssumption, PartsOfSameSizeCover
<1>10. PICK u \in subdivisions : b \in u.barangays
  BY DEF AssignedBarangays
<1>11. PICK f \in F : b \in B[f]
  BY <1>2, <1>10
<1>12. PICK g \in F : b \in A[g]
  BY <1>9, <1>11
<1> QED BY <1>8, <1>12 DEF F

LEMMA EveryWholeMemberIsDrawn ==
    ASSUME MapValidated, NEW l \in WholeLocalities
    PROVE  \E f \in boundaries.features : l \in f.drawn
<1> DEFINE F == boundaries.features
           of(f) == {e \in Partial(dataset.districts) : e.id = f.id}
           A == [f \in F |-> f.drawn \cap Localities]
           B == [f \in F |-> UNION {d.whole : d \in of(f)}]
<1>1. ASSUME NEW f \in F
      PROVE  /\ Cardinality(A[f]) = Cardinality(B[f]) /\ B[f] \subseteq Localities
             /\ A[f] \subseteq WholeLocalities
  <2>1. PICK d \in Partial(dataset.districts) :
           d.id = f.id /\ Cardinality(f.drawn \cap Localities) = Cardinality(d.whole)
    BY UnitsOfFeature
  <2>2. of(f) = {d}
    BY <2>1, SameDistrict DEF MapValidated, Partial
  <2>3. B[f] = d.whole
    BY <2>2
  <2>4. f.drawn \cap Localities \subseteq WholeLocalities
    BY MapIsDrawn, SubdivisionAssumption DEF DrawnFrom
  <2>5. d.whole \subseteq WholeLocalities
    BY DEF WholeLocalities
  <2> QED BY <2>1, <2>3, <2>4, <2>5, MapIsDrawn
<1>2. ASSUME NEW d \in Partial(dataset.districts) PROVE \E f \in F : d.whole \subseteq B[f]
  <2>1. PICK f \in F : f.id = d.id
    BY MapIsDrawn
  <2> QED BY <2>1
<1>3. \A f \in F : A[f] \subseteq UNION {B[g] : g \in F}
  <2>1. ASSUME NEW x \in WholeLocalities PROVE \E g \in F : x \in B[g]
    <3>1. PICK d \in Partial(dataset.districts) : x \in d.whole
      BY DEF WholeLocalities
    <3>2. PICK g \in F : d.whole \subseteq B[g]
      BY <1>2
    <3> QED BY <3>1, <3>2
  <2> QED BY <1>1, <2>1
<1>4. \A f, g \in F : A[f] \cap A[g] # {} => f = g
  BY MapIsDrawn DEF DrawnFrom
<1>5. A \in [F -> SUBSET Localities]
  OBVIOUS
<1>6. B \in [F -> SUBSET Localities]
  BY <1>1
<1>7. \A f \in F : Cardinality(A[f]) = Cardinality(B[f])
  BY <1>1
<1>8. \A f \in F : A[f] \subseteq f.drawn
  OBVIOUS
<1>a. IsFiniteSet(Localities)
  <2>1. IsFiniteSet(Provinces \cup Localities) /\ Localities \subseteq Provinces \cup Localities
    BY SubdivisionAssumption
  <2> QED BY <2>1, FS_Subset
<1> HIDE DEF A, B, F
<1>9. \A f \in F : B[f] \subseteq UNION {A[g] : g \in F}
  BY <1>3, <1>4, <1>5, <1>6, <1>7, <1>a, PartsOfSameSizeCover
<1>10. PICK d \in Partial(dataset.districts) : l \in d.whole
  BY DEF WholeLocalities
<1>11. PICK f \in F : l \in B[f]
  BY <1>2, <1>10
<1>12. PICK g \in F : l \in A[g]
  BY <1>9, <1>11
<1> QED BY <1>8, <1>12 DEF F

\* What is drawn is drawn in one district.
LEMMA DrawnInOne ==
    ASSUME MapValidated, NEW f \in boundaries.features, NEW x \in f.drawn
    PROVE  Cardinality({d \in Partial(dataset.districts) :
               \E g \in {h \in boundaries.features : h.id = d.id} : x \in g.drawn}) = 1
<1>1. PICK d \in Partial(dataset.districts) : d.id = f.id
  BY MapIsDrawn
<1>2. ASSUME NEW e \in Partial(dataset.districts),
             NEW g \in boundaries.features, g.id = e.id, x \in g.drawn
      PROVE  e = d
  <2>1. g = f
    BY <1>2, MapIsDrawn DEF DrawnFrom
  <2> QED BY <1>1, <1>2, <2>1, SameDistrict DEF MapValidated, Partial
<1>3. {e \in Partial(dataset.districts) :
          \E g \in {h \in boundaries.features : h.id = e.id} : x \in g.drawn} = {d}
  BY <1>1, <1>2
<1> QED BY <1>3, FS_Singleton

-------------------------------------------------------------------------------
\* What Deploy gives the API, of files that passed the validator.
LEMMA DeployedAre ==
    ASSUME Deploy
    PROVE  /\ deployed'.districts = dataset.districts
           /\ deployed'.subdivisions = subdivisions
           /\ deployed'.boundaries = boundaries.features
BY DEF Deploy

LEMMA DeployValidates ==
    ASSUME FilesInv, DividedByTheirOwn, Deploy
    PROVE  MapValidated
BY DEF Deploy, Idle, MapValidated, Validated

LEMMA DeployAnswersOnce ==
    ASSUME FilesInv, DividedByTheirOwn, Deploy
    PROVE  BarangayHasOneDistrict'
<1>1. MapValidated
  BY DeployValidates
<1>2. ASSUME NEW d \in dataset.districts, NEW l \in d.partial, NEW b \in BarangaysOf(l)
      PROVE  Cardinality(ListDistricts(deployed', [AnyPlace EXCEPT !.barangay = b])) = 1
  <2>1. b \in AssignedBarangays
    BY <1>1, DividedIsAssigned DEF MapValidated
  <2> QED BY <1>1, <2>1, DeployedAre, AnswerIsOne DEF MapValidated
<1>3. \A d \in deployed'.districts : \A l \in d.partial : \A b \in BarangaysOf(l) :
          Cardinality(ListDistricts(deployed', [AnyPlace EXCEPT !.barangay = b])) = 1
  BY <1>2, DeployedAre
<1> QED BY <1>3 DEF BarangayHasOneDistrict

LEMMA UnitsAreDrawn ==
    ASSUME MapValidated, NEW x \in UnitsOnMap(Partial(dataset.districts))
    PROVE  \E f \in boundaries.features : x \in f.drawn
<1>0. PICK split : split = Partial(dataset.districts)
  OBVIOUS
<1>a. x \in WholeMembers(split) \/ x \in DividedBarangays(split)
  BY <1>0 DEF UnitsOnMap
<1>b. x \in WholeMembers(split) => \E d \in split : x \in d.whole
  BY DEF WholeMembers
<1>c. x \in DividedBarangays(split) => \E l \in DividedCities(split) : x \in BarangaysOf(l)
  BY DEF DividedBarangays
<1>d. \A l \in DividedCities(split) : \E d \in split : l \in d.partial
  BY DEF DividedCities
<1>1. ASSUME NEW d \in split, x \in d.whole PROVE x \in WholeLocalities
  BY <1>0, <1>1 DEF WholeLocalities
<1>2. ASSUME NEW d \in split, NEW l \in d.partial, x \in BarangaysOf(l)
      PROVE  x \in AssignedBarangays
  BY <1>0, <1>2, DividedIsAssigned DEF MapValidated, Partial
<1> QED BY <1>a, <1>b, <1>c, <1>d, <1>1, <1>2, EveryWholeMemberIsDrawn, EveryBarangayIsDrawn

LEMMA DeployPartitions ==
    ASSUME FilesInv, DividedByTheirOwn, Deploy
    PROVE  MapIsAPartition'
<1>0. PICK split : split = Partial(dataset.districts)
  OBVIOUS
<1>1. MapValidated
  BY DeployValidates
<1>2. ASSUME NEW x \in UnitsOnMap(split)
      PROVE  Cardinality({d \in split :
                 \E f \in {h \in boundaries.features : h.id = d.id} : x \in f.drawn}) = 1
  BY <1>0, <1>1, UnitsAreDrawn, DrawnInOne
<1>3. \A i : BoundaryOf(i)' = {h \in boundaries.features : h.id = i}
  BY DeployedAre DEF BoundaryOf
<1>4. \A x \in UnitsOnMap(split) :
          Cardinality({d \in split : \E f \in BoundaryOf(d.id)' : x \in f.drawn}) = 1
  BY <1>2, <1>3
<1>5. Partial(deployed'.districts) = split
  BY <1>0, DeployedAre
<1> QED BY <1>4, <1>5 DEF MapIsAPartition

LEMMA StepKeepsTheMap ==
    ASSUME FilesInv, DividedByTheirOwn, [Next]_vars, BarangayHasOneDistrict, MapIsAPartition
    PROVE  BarangayHasOneDistrict' /\ MapIsAPartition'
<1>1. CASE Deploy
  BY <1>1, DeployAnswersOnce, DeployPartitions
<1>2. CASE deployed' = deployed
  BY <1>2 DEF BarangayHasOneDistrict, MapIsAPartition, BoundaryOf
<1>3. Deploy \/ deployed' = deployed
  BY DEF Next, vars, fileVars, WriteDataset, Subdivide, FetchReference, GenerateBoundaries,
         SyncBoundaries
<1> QED BY <1>1, <1>2, <1>3

LEMMA FilesInvariant ==
    EarlierFilesAreSound /\ TablesNameTheirCities =>
        (Spec /\ []DividedByTheirOwn => [](BarangayHasOneDistrict /\ MapIsAPartition))
<1> DEFINE Inv == FilesInv /\ BarangayHasOneDistrict /\ MapIsAPartition
<1> SUFFICES ASSUME EarlierFilesAreSound, TablesNameTheirCities
             PROVE  Spec /\ []DividedByTheirOwn => [](BarangayHasOneDistrict /\ MapIsAPartition)
  OBVIOUS
<1>1. Init => Inv
  BY InitEstablishesFiles DEF Init, BarangayHasOneDistrict, MapIsAPartition
<1>2. Inv /\ DividedByTheirOwn /\ [Next]_vars => Inv'
  BY StepKeepsFiles, StepKeepsTheMap
<1> QED BY <1>1, <1>2, PTL DEF Spec

\* Whatever scripts run, in whatever order, a deployed API answers the query for
\* a barangay of a divided city with one district, if the tables name the cities
\* that they divide, the workbook divides cities among districts of their own,
\* and the files were so before.
THEOREM BarangaysHaveOneDistrict ==
    EarlierFilesAreSound /\ TablesNameTheirCities =>
        (Spec /\ []DividedByTheirOwn => []BarangayHasOneDistrict)
BY FilesInvariant, PTL

\* The deployed map shows every barangay of the divided cities and every whole
\* member in exactly one district, though the boundaries were drawn for other
\* subdivisions than are deployed.
THEOREM TheMapIsAPartition ==
    EarlierFilesAreSound /\ TablesNameTheirCities =>
        (Spec /\ []DividedByTheirOwn => []MapIsAPartition)
BY FilesInvariant, PTL
===============================================================================
