----------------------------- MODULE ElectionData -----------------------------
(***************************************************************************)
(* The election data of the repository and the API that serves it.         *)
(*                                                                         *)
(* Operators run the scripts of backend/scripts by hand, in any order, and *)
(* each reads and writes files: normalizeElectionData (the workbook, as in *)
(* ElectionImport), normalizeLegislativeDistrictSubdivisions (the          *)
(* barangays of the cities that several districts divide), the fetching,   *)
(* generation and synchronisation of boundaries, and validateElectionData, *)
(* which passes before the files are deployed.  The API, routes/elections  *)
(* with services/elections.service, answers queries on what is deployed.   *)
(***************************************************************************)
EXTENDS ElectionImport

CONSTANTS
    Barangays, Submunicipalities,       \* units of the PSGC below a locality
    ParentBelow,    \* their parents: a locality, or a submunicipality of it
    Tables,         \* what the tables written into the subdivision script can be
    EarlierFiles,   \* the files in the repository, left by earlier runs
    MaxFetches      \* bound on the fetches of boundary inputs

\* The units are finite, the codes of the PSGC differ, also from the one that the
\* import makes up for the district of Taguig and Pateros, and Nothing is neither
\* a set of units nor an input.
ASSUME SubdivisionAssumption ==
    /\ \A s \in Submunicipalities : ParentBelow[s] \in Localities
    /\ \A b \in Barangays : ParentBelow[b] \in Localities \cup Submunicipalities
    /\ Nothing \notin Barangays \cup Submunicipalities
    /\ MaxFetches \in Nat
    /\ IsFiniteSet(Provinces \cup Localities) /\ IsFiniteSet(Barangays)
    /\ (Provinces \cup Localities) \cap (Regions \cup {"taguig-pateros"}) = {}
    /\ Barangays \cap Localities = {}
    /\ \A units \in SUBSET (Barangays \cup Localities) : units # Nothing
    /\ Nothing \notin [units : SUBSET (Barangays \cup Localities), fetch : Nat]

VARIABLES
    dataset,        \* legislative-districts-2025.json, with the count of its report
    subdivisions,   \* legislative-district-subdivisions-2025.json
    reference,      \* the boundary inputs of reference/: the units with a polygon
    manifest,       \* the inputs whose checksum the manifest records
    boundaries,     \* legislative-district-boundaries-2025.geojson
    deployed        \* the files the running API has read

fileVars == <<dataset, subdivisions, reference, manifest, boundaries, deployed>>
vars == <<importVars, fileVars>>

-------------------------------------------------------------------------------
\* The scripts run one at a time, and the others only once the import has
\* exited with 0.
Idle == row = Nothing /\ rowsRead = {} /\ dataset.clean

LocalityOf(unit) ==
    IF ParentBelow[unit] \in Localities THEN ParentBelow[unit]
                                        ELSE ParentBelow[ParentBelow[unit]]

\* isWithin of the subdivision script and of the service.
UnitsAbove(l) == {l, ParentOf[l], RegionOf(l)}
BarangaysOf(place) == {b \in Barangays : place \in UnitsAbove(LocalityOf(b))}
IsWithin(l, place) == place \in UnitsAbove(l)

MembersOf(d) == d.whole \cup d.partial
Partial(districtSet) == {d \in districtSet : d.status = "partial-boundary"}

\* The end of normalizeElectionData: it writes what it has, errors or not, and
\* a report that counts them.
WriteDataset ==
    /\ row = Nothing /\ rowsRead # {}
    /\ dataset' = [districts |-> Dataset, clean |-> ImportClean]
    /\ row' = Nothing /\ rowsRead' = {}
    /\ region' = Nothing /\ province' = Nothing /\ current' = 0 /\ pending' = Nothing
    /\ districts' = <<>> /\ errors' = {} /\ mentioned' = {}
    /\ UNCHANGED <<subdivisions, reference, manifest, boundaries, deployed>>

-------------------------------------------------------------------------------
(***************************************************************************)
(* normalizeLegislativeDistrictSubdivisions.  A table names the barangays  *)
(* of a district (NAMED_DISTRICTS), numbers them (resolveSpecialDistrict)  *)
(* or gives it the rest of a city (COMPLEMENT_DISTRICTS).                  *)
(***************************************************************************)
NamedIn(table, l) == UNION {e.barangays : e \in {f \in table.named : f.locality = l}}

Assigned(table, id) ==
    LET entries(part) == {e \in part : e.id = id} IN
    CASE entries(table.named) # {} -> UNION {e.barangays : e \in entries(table.named)}
      [] entries(table.complement) # {} ->
            UNION {BarangaysOf(e.locality) \ NamedIn(table, e.locality) :
                       e \in entries(table.complement)}
      [] OTHER -> UNION {e.barangays \cap BarangaysOf(e.locality) : e \in entries(table.numbered)}

\* Every name is resolved, and none is in two tables of one city.
TableResolves(table) ==
    /\ \A e \in table.named : e.barangays \subseteq BarangaysOf(e.locality)
    /\ \A e, f \in table.named :
          e.locality = f.locality /\ e # f => e.barangays \cap f.barangays = {}

SplitPlaces(split) == ({d.jurisdiction : d \in split} \ {Nothing}) \cup {Taguig}

\* Mutant: that all barangays of the split cities are claimed is not compared.
ClaimsAreDisjoint(table, split) ==
    /\ \A d \in split : Assigned(table, d.id) # {}
    /\ \A d, e \in split : d # e => Assigned(table, d.id) \cap Assigned(table, e.id) = {}

\* Every partial district has barangays, none is claimed twice, and as many
\* are claimed as the split cities have.
CoversCities(table, split) ==
    /\ \A d \in split : Assigned(table, d.id) # {}
    /\ \A d, e \in split : d # e => Assigned(table, d.id) \cap Assigned(table, e.id) = {}
    /\ Cardinality(UNION {Assigned(table, d.id) : d \in split}) =
       Cardinality(UNION {{l} \X BarangaysOf(l) : l \in SplitPlaces(split)})

\* A submunicipality goes with its barangays when they are all in one district.
WholeSubmunicipalities(barangays) ==
    {s \in Submunicipalities :
        LET children == {b \in Barangays : ParentBelow[b] = s} IN
        children # {} /\ children \subseteq barangays}

Subdivide(table) ==
    /\ Idle
    /\ LET split == Partial(dataset.districts) IN
       /\ TableResolves(table)
       /\ CoversCities(table, split)
       /\ subdivisions' = {[id |-> d.id, barangays |-> Assigned(table, d.id),
              submunicipalities |-> WholeSubmunicipalities(Assigned(table, d.id))] : d \in split}
    /\ UNCHANGED <<importVars, dataset, reference, manifest, boundaries, deployed>>

-------------------------------------------------------------------------------
(***************************************************************************)
(* Boundaries.                                                             *)
(***************************************************************************)
AssignedBarangays == UNION {u.barangays : u \in subdivisions}
WholeLocalities == UNION {d.whole : d \in Partial(dataset.districts)}

\* fetchLegislativeBarangayBoundaries: one polygon for every barangay and every
\* whole locality, or nothing is written.  What is written holds the time of the
\* fetch, so that each has a checksum of its own; the manifest is written last,
\* unless the script is stopped before.
FetchReference ==
    /\ Idle
    /\ reference.fetch < MaxFetches
    /\ reference' = [units |-> AssignedBarangays \cup WholeLocalities, fetch |-> reference.fetch + 1]
    /\ manifest' \in {manifest, reference'}
    /\ UNCHANGED <<importVars, dataset, subdivisions, boundaries, deployed>>

\* localities  localityCodes, the members when the feature was last written
\* drawn   the units whose polygons were dissolved; Nothing for no geometry
\* counts  inputBarangayCount and inputWholeLocalityCount
\* source  the checksum of the inputs
NoFeature(d) == [id |-> d.id, localities |-> MembersOf(d), drawn |-> Nothing,
                 counts |-> Nothing, source |-> Nothing, stale |-> FALSE]

\* Mutant: whole localities are counted and not drawn.
DissolvedBarangays(barangays, localities) == barangays
Dissolved(barangays, localities) == barangays \cup localities

CountsOf(barangays, localities) == <<Cardinality(barangays), Cardinality(localities)>>

\* generateLegislativeDistrictBoundaries: all features are replaced.
GenerateBoundaries ==
    /\ Idle
    /\ LET of(u) == {d \in dataset.districts : d.id = u.id
                         /\ (d.jurisdiction \in Cities \/ d.id[1] = "taguig-pateros")}
           whole(u) == UNION {d.whole : d \in of(u)} IN
       /\ \A u \in subdivisions : of(u) # {} /\ u.barangays \cup whole(u) \subseteq reference.units
       /\ boundaries' = [source |-> manifest,
              features |-> {[id |-> u.id,
                             localities |-> UNION {MembersOf(d) : d \in of(u)},
                             drawn |-> Dissolved(u.barangays, whole(u)),
                             counts |-> CountsOf(u.barangays, whole(u)),
                             source |-> manifest, stale |-> FALSE] : u \in subdivisions}]
    /\ UNCHANGED <<importVars, dataset, subdivisions, reference, manifest, deployed>>

\* syncLegislativeBoundaryTemplate: a feature for every partial district, what
\* exists is kept, and a feature of no partial district is marked stale.
SyncBoundaries ==
    /\ Idle
    /\ LET existing == boundaries.features
           of(d) == {f \in existing : f.id = d.id}
           ids == {d.id : d \in Partial(dataset.districts)} IN
       boundaries' = [source |-> Nothing, features |->
           UNION {IF of(d) = {} THEN {NoFeature(d)}
                  ELSE {[f EXCEPT !.localities = MembersOf(d)] : f \in of(d)} :
                      d \in Partial(dataset.districts)}
               \cup {[f EXCEPT !.stale = TRUE] : f \in {g \in existing : g.id \notin ids}}]
    /\ UNCHANGED <<importVars, dataset, subdivisions, reference, manifest, deployed>>

-------------------------------------------------------------------------------
(***************************************************************************)
(* validateElectionData.                                                   *)
(***************************************************************************)
DistrictsAreValid ==
    /\ dataset.clean
    /\ \A d \in dataset.districts : MembersOf(d) # {} /\ d.partial \subseteq Cities

SubdivisionsAreValid ==
    /\ {u.id : u \in subdivisions} = {d.id : d \in Partial(dataset.districts)}
    /\ \A u \in subdivisions : u.barangays \cup u.submunicipalities # {}
    /\ \A u \in subdivisions, d \in dataset.districts : d.id = u.id =>
          \A s \in u.submunicipalities : ParentBelow[s] \in MembersOf(d)
    /\ \A u, v \in subdivisions : u # v =>
          /\ u.barangays \cap v.barangays = {}
          /\ u.submunicipalities \cap v.submunicipalities = {}

ReferenceIsValid ==
    /\ manifest = reference
    /\ reference.units = AssignedBarangays \cup WholeLocalities

InputsCounted(f) ==
    \A u \in subdivisions, d \in dataset.districts :
        u.id = f.id /\ d.id = f.id => f.counts = CountsOf(u.barangays, d.whole)

BoundariesAreValid ==
    LET active == {f \in boundaries.features : ~f.stale} IN
    /\ boundaries.source = manifest
    /\ {f.id : f \in active} = {d.id : d \in Partial(dataset.districts)}
    /\ \A f \in active : f.drawn # Nothing => f.source = manifest /\ InputsCounted(f)
    /\ \A f, g \in active : f # g /\ f.localities \cap g.localities # {} =>
          f.drawn # Nothing /\ g.drawn # Nothing /\ f.drawn \cap g.drawn = {}

\* The files are deployed when the validator has found nothing.
Deploy ==
    /\ Idle
    /\ DistrictsAreValid /\ SubdivisionsAreValid /\ ReferenceIsValid /\ BoundariesAreValid
    /\ deployed' = [districts |-> dataset.districts, subdivisions |-> subdivisions,
                    boundaries |-> boundaries.features]
    /\ UNCHANGED <<importVars, dataset, subdivisions, reference, manifest, boundaries>>

-------------------------------------------------------------------------------
Init ==
    /\ ImportInit
    /\ dataset = EarlierFiles.dataset /\ subdivisions = EarlierFiles.subdivisions
    /\ reference = EarlierFiles.reference /\ manifest = EarlierFiles.reference
    /\ boundaries = EarlierFiles.boundaries
    /\ deployed = Nothing

Next ==
    \/ ImportNext /\ UNCHANGED fileVars
    \/ WriteDataset
    \/ \E table \in Tables : Subdivide(table)
    \/ FetchReference \/ GenerateBoundaries \/ SyncBoundaries
    \/ Deploy

Spec == Init /\ [][Next]_vars

-------------------------------------------------------------------------------
(***************************************************************************)
(* elections.service: the queries of GET /api/elections.                   *)
(***************************************************************************)
AnyPlace == [region |-> Nothing, province |-> Nothing, locality |-> Nothing,
             jurisdiction |-> Nothing, ncrDistrict |-> Nothing, barangay |-> Nothing,
             submunicipality |-> Nothing]

UnitsOf(files, d, field) == UNION {u[field] : u \in {v \in files.subdivisions : v.id = d.id}}

InRegion(d, filter) == filter.region # Nothing => d.region = filter.region

\* listLegislativeDistricts; ncrDistrict stands for its localities.
ListDistricts(files, filter) ==
    {d \in files.districts :
        /\ InRegion(d, filter)
        /\ filter.ncrDistrict # Nothing => filter.ncrDistrict \cap MembersOf(d) # {}
        /\ filter.province # Nothing =>
              \/ \E l \in MembersOf(d) : IsWithin(l, filter.province)
              \/ d.jurisdiction \in Localities /\ IsWithin(d.jurisdiction, filter.province)
              \/ d.jurisdiction = filter.province
        /\ filter.locality # Nothing => filter.locality \in MembersOf(d)
        /\ filter.jurisdiction # Nothing => d.jurisdiction = filter.jurisdiction
        /\ filter.barangay # Nothing => filter.barangay \in UnitsOf(files, d, "barangays")
        /\ filter.submunicipality # Nothing =>
              filter.submunicipality \in UnitsOf(files, d, "submunicipalities")}

\* The filters the coverage controls send for a locality.
PlaceFilter(l) ==
    [AnyPlace EXCEPT !.region = RegionOf(l), !.locality = l,
                     !.province = IF ParentOf[l] \in Provinces THEN ParentOf[l] ELSE Nothing]

BoundaryOf(id) == {f \in deployed.boundaries : f.id = id}

\* The answers when a dataset is served.
Served == [districts |-> dataset.districts, subdivisions |-> subdivisions]

-------------------------------------------------------------------------------
(***************************************************************************)
(* What a reader of the API can rely on.                                   *)
(***************************************************************************)
Overridden == {o.locality : o \in Overrides}

\* A locality is in the region unless an override put it there.
OfRegion(l, r) == l \in Overridden \/ RegionOf(l) = r

\* What the files of a finished import say, and those before it: a district has
\* members of its region, its status tells whether it divides a city, and its
\* id tells it and its jurisdiction; a locality is whole in one district only.
DistrictIsSound(d) ==
    /\ MembersOf(d) \subseteq Localities
    /\ \A l \in MembersOf(d) : OfRegion(l, d.region)
    /\ d.partial # {} => d.status = "partial-boundary"
    /\ IF d.jurisdiction = Nothing THEN d.id[1] \in Regions \cup {"taguig-pateros"}
       ELSE d.id[1] = d.jurisdiction /\ d.jurisdiction \in Provinces \cup Localities

DatasetIsSound(data) ==
    data.clean =>
        /\ \A d \in data.districts : DistrictIsSound(d)
        /\ \A d, e \in data.districts : d.id = e.id \/ d.whole \cap e.whole # {} => d = e

\* The subdivisions divide every barangay of their jurisdictions.
SubdivisionsCover(data) ==
    \A place \in ({u.id[1] : u \in data} \cap (Provinces \cup Localities)) \cup {Taguig} :
        BarangaysOf(place) \subseteq UNION {u.barangays : u \in data}

SubdivisionsAreDisjoint(data) ==
    /\ \A u \in data : u.barangays \subseteq Barangays
    /\ \A u, v \in data : u.id = v.id \/ u.barangays \cap v.barangays # {} => u = v

\* What is drawn from the inputs of the manifest: every polygon once, and as many
\* as are recorded.
DrawnFrom(inputs, features) ==
    /\ \A f \in features :
          /\ ~f.stale
          /\ f.drawn \subseteq inputs.units
          /\ f.counts = CountsOf(f.drawn \cap Barangays, f.drawn \cap Localities)
    /\ \A f, g \in features : f.id = g.id \/ f.drawn \cap g.drawn # {} => f = g

EarlierFilesAreSound ==
    /\ DatasetIsSound(EarlierFiles.dataset)
    /\ SubdivisionsCover(EarlierFiles.subdivisions)
    /\ SubdivisionsAreDisjoint(EarlierFiles.subdivisions)
    /\ EarlierFiles.reference \in [units : SUBSET (Barangays \cup Localities), fetch : Nat]
    /\ EarlierFiles.boundaries.source \in {Nothing, EarlierFiles.reference}
    /\ EarlierFiles.boundaries.source # Nothing =>
          DrawnFrom(EarlierFiles.reference, EarlierFiles.boundaries.features)

\* The tables of the script name the city of each district that they divide.
TablesNameTheirCities ==
    \A table \in Tables : \A e \in table.named \cup table.complement \cup table.numbered :
        /\ e.locality \in Localities
        /\ e.id[1] = e.locality \/ (e.id[1] = "taguig-pateros" /\ e.locality = Taguig)

\* Of a workbook: a district divides its own city, or cities of its province.
DividedByTheirOwn ==
    dataset.clean => \A d \in dataset.districts : \A l \in d.partial :
        l = Taguig \/ (d.jurisdiction # Nothing /\ IsWithin(l, d.jurisdiction))

\* Choosing a city or municipality by region and province finds every district
\* it belongs to.  A locality that an override put into another region's
\* district is not found.
FoundByPlace ==
    dataset.clean =>
        \A d \in dataset.districts : \A l \in MembersOf(d) \ Overridden :
            d \in ListDistricts(Served, PlaceFilter(l))

\* Every barangay of a city that districts divide is assigned exactly once: a
\* query by barangay answers with one district.
BarangayHasOneDistrict ==
    deployed # Nothing =>
        \A d \in deployed.districts : \A l \in d.partial : \A b \in BarangaysOf(l) :
            Cardinality(ListDistricts(deployed, [AnyPlace EXCEPT !.barangay = b])) = 1

\* The units of the map: the whole members, and the barangays of the cities that
\* are divided.
WholeMembers(split) == UNION {d.whole : d \in split}
DividedCities(split) == UNION {d.partial : d \in split}
DividedBarangays(split) == UNION {BarangaysOf(l) : l \in DividedCities(split)}
UnitsOnMap(split) == WholeMembers(split) \cup DividedBarangays(split)

\* The map of the partial districts shows every barangay of their cities, and
\* every whole member, in exactly one district, whatever was regenerated since
\* and in which order.
MapIsAPartition ==
    deployed # Nothing =>
        LET split == Partial(deployed.districts) IN
        \A u \in UnitsOnMap(split) :
            Cardinality({d \in split : \E f \in BoundaryOf(d.id) : u \in f.drawn}) = 1
=============================================================================
