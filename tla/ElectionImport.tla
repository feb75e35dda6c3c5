---------------------------- MODULE ElectionImport ----------------------------
(***************************************************************************)
(* normalizeLegislativeDistricts of backend/scripts/normalizeElectionData: *)
(* the rows of COMELEC's workbook become the legislative districts of the  *)
(* dataset, each with its cities and municipalities as PSGC localities.    *)
(*                                                                         *)
(* A row is what the script's patterns recognise in it, and a name is what *)
(* it denotes: the localities whose normalised name, nickname or alias is  *)
(* equal to it.  The workbook is any sequence of rows from the constant    *)
(* Rows; reading one row, with the next one in view, is a step.            *)
(***************************************************************************)
EXTENDS Naturals, Sequences, FiniteSets

CONSTANTS
    Regions, Provinces, Localities,     \* the units of the PSGC reference
    Cities,         \* the localities that are cities
    ParentOf,       \* a province's region, a locality's province or region
    NCR,            \* the National Capital Region
    Taguig, Pateros,                    \* the two localities of one NCR district
    Names,          \* what source rows call localities
    Denotes,        \* the localities a name can stand for
    Overrides,      \* LOCALITY_CODE_OVERRIDES: a province, a name and its locality
    Rows,           \* what a row of the workbook can be
    Nothing,        \* undefined
    MaxRows,        \* bound on the length of the workbook, whose rows differ
    MaxDistricts    \* bound on the number of districts

Kinds == {"region", "province", "metro", "shared", "rest", "summary", "district",
          "council", "listed", "named"}

ASSUME ImportAssumption ==
    /\ Cities \subseteq Localities
    /\ NCR \in Regions
    /\ {Taguig, Pateros} \subseteq Localities
    /\ \A p \in Provinces : ParentOf[p] \in Regions
    /\ \A l \in Localities : ParentOf[l] \in Regions \cup Provinces
    /\ \A n \in Names : Denotes[n] \subseteq Localities
    /\ \A o \in Overrides : o.province \in Provinces /\ o.name \in Names
                                /\ o.locality \in Localities
    /\ \A row \in Rows : row.kind \in Kinds
    /\ Nothing \notin Regions \cup Provinces \cup Localities \cup Rows
    /\ MaxRows \in Nat /\ MaxDistricts \in Nat

VARIABLES
    row,            \* the row being read; Nothing before the first and after the last
    rowsRead,       \* the rows so far
    region, province,       \* currentRegion and currentProvince
    current,        \* the place of currentDistrict in districts, 0 for undefined
    pending,        \* pendingJurisdiction
    districts,      \* the districts so far
    errors,         \* the issues of severity error, by code
    mentioned       \* history: what city and municipality rows have named

importVars == <<row, rowsRead, region, province, current, pending, districts,
                errors, mentioned>>

-------------------------------------------------------------------------------
RegionOf(unit) ==
    IF unit \in Regions THEN unit
    ELSE IF ParentOf[unit] \in Regions THEN ParentOf[unit]
    ELSE ParentOf[ParentOf[unit]]

\* What a row of each kind tells, and the two localities the script knows.
ASSUME RowsAssumption ==
    /\ \A r \in Rows :
          /\ r.kind = "region" => r.region \in Regions /\ r.inReference \in BOOLEAN
          /\ r.kind = "province" => r.province \in Provinces \cup {Nothing}
          /\ r.kind \in {"metro", "listed", "named"} => r.name \in Names
          /\ r.kind = "district" => r.label \in {"1", "2", "lone"}
    /\ RegionOf(Taguig) = NCR /\ RegionOf(Pateros) = NCR

\* A locality's membership in a district, with the name of its row.
Membership == [locality : Localities, name : Names \cup Localities]

\* explicit   explicitJurisdiction
\* key        jurisdictionKey, set for the one district of two localities
District == [label : {"1", "2", "lone"}, region : Regions,
             province : Provinces \cup {Nothing},
             explicit : Localities \cup {Nothing}, key : BOOLEAN,
             memberships : SUBSET Membership]

ErrorCodes == {"MISSING_REFERENCE_REGION", "UNMATCHED_PROVINCE", "UNMATCHED_LOCALITY",
               "UNMATCHED_NCR_JURISDICTION", "LOCALITY_WITHOUT_DISTRICT"}

ImportTypeOK ==
    /\ row \in Rows \cup {Nothing}
    /\ rowsRead \subseteq Rows
    /\ region \in Regions \cup {Nothing}
    /\ province \in Provinces \cup {Nothing}
    /\ current \in 0 .. Len(districts)
    /\ pending \in Localities \cup {Nothing}
    /\ districts \in Seq(District)
    /\ errors \subseteq ErrorCodes
    /\ mentioned \subseteq Names

-------------------------------------------------------------------------------
\* findLocality: an override of the province; else the one match in the
\* province, else the one match in the region.  Empty for undefined.
FindLocality(name, r, p) ==
    LET overridden == {o.locality : o \in {q \in Overrides : q.province = p /\ q.name = name}}
        within     == {l \in Denotes[name] : RegionOf(l) = r}
        here       == {l \in within : ParentOf[l] = p} IN
    IF overridden # {} THEN overridden
    ELSE IF Cardinality(here) = 1 THEN here
    ELSE IF Cardinality(within) = 1 THEN within
    ELSE {}

NewDistrict(label, explicit, members) ==
    [label |-> label, region |-> region, province |-> province, explicit |-> explicit,
     key |-> FALSE, memberships |-> members]

\* createDistrict with the memberships its caller adds.
Open(district) ==
    /\ districts' = Append(districts, district)
    /\ current' = Len(districts) + 1

AsMember(l) == [locality |-> l, name |-> l]

\* Mutant: the city an earlier heading named stays the jurisdiction.
ReadRegionKeepsPending ==
    /\ row.kind = "region"
    /\ region' = IF row.inReference THEN row.region ELSE Nothing
    /\ errors' = IF row.inReference THEN errors ELSE errors \cup {"MISSING_REFERENCE_REGION"}
    /\ province' = Nothing
    /\ current' = 0
    /\ UNCHANGED <<pending, districts, mentioned>>

\* A region heading, whose region the PSGC reference may lack.
ReadRegion ==
    /\ row.kind = "region"
    /\ region' = IF row.inReference THEN row.region ELSE Nothing
    /\ errors' = IF row.inReference THEN errors ELSE errors \cup {"MISSING_REFERENCE_REGION"}
    /\ province' = Nothing
    /\ current' = 0
    /\ pending' = Nothing
    /\ UNCHANGED <<districts, mentioned>>

\* Until a region is known, every other row is skipped.
Skip ==
    /\ row.kind # "region"
    /\ region = Nothing
    /\ UNCHANGED <<region, province, current, pending, districts, errors, mentioned>>

\* A province heading.  The PSGC's region replaces the workbook's.
ReadProvince ==
    /\ row.kind = "province" /\ region # Nothing
    /\ province' = row.province
    /\ IF row.province = Nothing
       THEN errors' = errors \cup {"UNMATCHED_PROVINCE"} /\ UNCHANGED region
       ELSE region' = ParentOf[row.province] /\ UNCHANGED errors
    /\ current' = 0
    /\ pending' = Nothing
    /\ UNCHANGED <<districts, mentioned>>

\* In the NCR, "City of ... (n LD)".
ReadMetroCity ==
    /\ row.kind = "metro" /\ region = NCR
    /\ LET found == FindLocality(row.name, region, Nothing) IN
       IF found = {}
       THEN /\ errors' = errors \cup {"UNMATCHED_NCR_JURISDICTION"}
            /\ pending' = Nothing
            /\ UNCHANGED <<province, current, districts>>
       ELSE \E l \in found :
            /\ pending' = l
            /\ province' = Nothing
            /\ IF row.count = 1
               THEN Open([NewDistrict("lone", l, {[locality |-> l, name |-> row.name]})
                             EXCEPT !.province = Nothing])
               ELSE current' = 0 /\ UNCHANGED districts
            /\ UNCHANGED errors
    /\ UNCHANGED <<region, mentioned>>

\* The NCR rows of the district that Taguig and Pateros share, and of the rest
\* of Taguig.
ReadSharedDistrict ==
    /\ row.kind = "shared" /\ region = NCR
    /\ pending' = Nothing
    /\ Open([NewDistrict("lone", Nothing, {AsMember(Taguig), AsMember(Pateros)})
                EXCEPT !.key = TRUE])
    /\ UNCHANGED <<region, province, errors, mentioned>>

ReadRestOfTaguig ==
    /\ row.kind = "rest" /\ region = NCR
    /\ Open(NewDistrict("lone", Taguig, {AsMember(Taguig)}))
    /\ UNCHANGED <<region, province, pending, errors, mentioned>>

\* "Two Legislative Districts".
ReadSummary ==
    /\ row.kind = "summary" /\ region # Nothing
    /\ current' = 0
    /\ UNCHANGED <<region, province, pending, districts, errors, mentioned>>

\* "1st Legislative District".
ReadDistrict ==
    /\ row.kind = "district" /\ region # Nothing
    /\ Open(NewDistrict(row.label, pending,
                        IF pending = Nothing THEN {} ELSE {AsMember(pending)}))
    /\ UNCHANGED <<region, province, pending, errors, mentioned>>

\* Councilor and provincial-board districts, and NCR rows of none of the forms
\* above, are ignored.
Ignore ==
    /\ region # Nothing
    /\ row.kind = "council" \/ (row.kind \in {"metro", "shared", "rest"} /\ region # NCR)
    /\ UNCHANGED <<region, province, current, pending, districts, errors, mentioned>>

\* Mutant: a city without a number is always the heading of a district.
HeadsDistrictAlways(found, next) == current = 0 /\ row.kind = "named" /\ found # {}

\* A city in a row without a number, right before a district's, is its heading.
HeadsDistrict(found, next) ==
    /\ current = 0
    /\ row.kind = "named"
    /\ found # {}
    /\ next # Nothing /\ next.kind = "district"

\* addMembership: a locality is a member of a district once.
Joined(district, name, found) ==
    [district EXCEPT !.memberships =
        @ \cup {m \in {[locality |-> l, name |-> name] : l \in found} :
                    \A o \in @ : o.locality # m.locality}]

\* A city or municipality, with its number in the list or without.
ReadLocality(next) ==
    /\ row.kind \in {"listed", "named"} /\ region # Nothing
    /\ mentioned' = mentioned \cup {row.name}
    /\ LET found == FindLocality(row.name, region, province) IN
       IF HeadsDistrict(found, next)
       THEN /\ \E l \in found : pending' = l
            /\ UNCHANGED <<current, districts, errors>>
       ELSE IF current = 0
       THEN /\ errors' = errors \cup {"LOCALITY_WITHOUT_DISTRICT"}
            /\ UNCHANGED <<current, pending, districts>>
       ELSE LET district == districts[current]
                member   == FindLocality(row.name, district.region, district.province)
                first    == row.kind = "named" /\ found # {} /\ district.memberships = {}
            IN
            /\ districts' = [districts EXCEPT ![current] =
                   Joined([district EXCEPT !.explicit =
                              IF first THEN CHOOSE l \in found : TRUE ELSE @],
                          row.name, member)]
            /\ errors' = IF member = {} THEN errors \cup {"UNMATCHED_LOCALITY"} ELSE errors
            /\ UNCHANGED <<current, pending>>
    /\ UNCHANGED <<region, province>>

Members(d) == {m.locality : m \in d.memberships}

JurisdictionOf(d) == IF d.explicit # Nothing THEN d.explicit ELSE d.province

\* ld-2025-<jurisdiction>-<ordinal>
IdOf(d) ==
    <<IF d.key THEN "taguig-pateros"
      ELSE IF JurisdictionOf(d) # Nothing THEN JurisdictionOf(d) ELSE d.region, d.label>>

\* The number of errors in legislative-district-exceptions.json is zero.
ImportClean ==
    /\ errors = {}
    /\ \A i \in 1 .. Len(districts) : districts[i].memberships # {}
    /\ \A i, j \in 1 .. Len(districts) : IdOf(districts[i]) = IdOf(districts[j]) => i = j

\* Bound: nothing more is read of a workbook that will have an error.
Faultless ==
    /\ errors = {}
    /\ \A i \in 1 .. Len(districts) - 1 : districts[i].memberships # {}
    /\ \A i, j \in 1 .. Len(districts) : IdOf(districts[i]) = IdOf(districts[j]) => i = j

\* The rows of the workbook, one after the other, the next one in view.
Turn(next) ==
    /\ row # Nothing
    /\ next # Nothing => /\ Cardinality(rowsRead) < MaxRows
                          /\ Len(districts) <= MaxDistricts
                          /\ Faultless
    /\ row' = next
    /\ rowsRead' = rowsRead \cup ({next} \ {Nothing})
    /\ \/ ReadRegion \/ Skip \/ ReadProvince \/ ReadMetroCity \/ ReadSharedDistrict
       \/ ReadRestOfTaguig \/ ReadSummary \/ ReadDistrict \/ Ignore \/ ReadLocality(next)

ImportInit ==
    /\ row \in {r \in Rows : r.kind = "region"}
    /\ rowsRead = {row}
    /\ region = Nothing /\ province = Nothing
    /\ current = 0
    /\ pending = Nothing
    /\ districts = <<>>
    /\ errors = {}
    /\ mentioned = {}

ImportNext == \E next \in (Rows \ rowsRead) \cup {Nothing} : Turn(next)

-------------------------------------------------------------------------------
(***************************************************************************)
(* The dataset, once the last row has been read.                           *)
(***************************************************************************)
\* How many districts a locality has a membership in.
DistrictsOf(l) == {i \in 1 .. Len(districts) : l \in Members(districts[i])}

\* A city that several districts divide belongs to each in part.
Coverage(l) == IF Cardinality(DistrictsOf(l)) > 1 THEN "partial" ELSE "whole"

StoredDistrict(d) ==
    [id |-> IdOf(d), region |-> d.region,
     jurisdiction |-> IF d.key THEN Nothing ELSE JurisdictionOf(d),
     status |-> IF \E l \in Members(d) : Coverage(l) = "partial"
                THEN "partial-boundary" ELSE "locality-resolved",
     whole |-> {l \in Members(d) : Coverage(l) = "whole"},
     partial |-> {l \in Members(d) : Coverage(l) = "partial"}]

Dataset == {StoredDistrict(districts[i]) : i \in 1 .. Len(districts)}

\* Every city and municipality the workbook lists is in the dataset, unless the
\* report names an error: no row is dropped silently.
NoRowDropped ==
    /\ ImportTypeOK
    /\ row = Nothing /\ ImportClean =>
          \A n \in mentioned : \E i \in 1 .. Len(districts) : \E l \in Members(districts[i]) :
              l \in Denotes[n] \cup {o.locality : o \in {q \in Overrides : q.name = n}}
=============================================================================
