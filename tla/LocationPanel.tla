----------------------------- MODULE LocationPanel -----------------------------
(***************************************************************************)
(* The location page (frontend/src/pages/LocationPage.tsx) with the panel  *)
(* below its coverage filter (components/location/                         *)
(* LocationSentimentPanel.tsx): the units of the selected place, their     *)
(* groups, through which the user moves down, and the map, whose polygons  *)
(* come from services/boundaryApi.ts and the /boundaries route.            *)
(*                                                                         *)
(* Two effects follow the selection.  One loads the lists of the PSGC and  *)
(* sets units and groups at its end; that the lists are complete is what   *)
(* CoverageSelection checks.  The other draws the map: the polygon of the  *)
(* selected legislative district or, when there is none, those of the      *)
(* administrative place.  The previous units, groups and polygons stay     *)
(* until the new ones are there.  Requests for one URL share the fetch of  *)
(* the first, and that one is aborted with the effect that began it: an    *)
(* effect that runs again for the same URL joins a request that has just   *)
(* been aborted and gives up with it (history variable abandoned).  The    *)
(* groups on the page are those of an earlier selection while the lists    *)
(* load; one that is chosen then is combined with the present selection    *)
(* (history variable strayed).                                             *)
(*                                                                         *)
(* A polygon is [code, codes, of]: its own code, the codes its properties  *)
(* carry, and the places it lies in.  What the coverage filter beside the  *)
(* panel selects is any region, locality or legislative district.          *)
(* The server's cache of polygons only spares upstream requests.           *)
(***************************************************************************)
EXTENDS CoverageSelection

CONSTANTS Polygons,          \* the polygons of cities and municipalities
          RegionPolygons,    \* the polygons of the national layer
          DistrictPolygons,  \* district |-> its polygon, for those that have one
          Divided            \* localities that are drawn as their parts

VARIABLES location, basis, coverage, coverageLoading, boundary, mapFlight,
          boundaryCache, strayed, abandoned

panelVars == <<location, basis, coverage, coverageLoading, boundary, mapFlight,
               boundaryCache, strayed, abandoned>>

RegionUnits == {[code |-> reg, level |-> "reg", prv |-> ""] : reg \in Regions}
AllLocalities(reg) == {u \in UnitsIn(reg) : isMunicipalityOrCity(u)}
LevelOf == [all \in GroupFilters |-> IF all = "all-cities" THEN "city" ELSE "mun"]
Independent(u, reg) == u.prv \notin ProvinceCodes(reg)

(* The PSGC and the program's table of NCR districts: every place has      *)
(* localities, a region with localities outside its provinces has a city   *)
(* among them, the districts divide the capital, and codes differ from the *)
(* filters.                                                                *)
ASSUME UnitsAssumption ==
    /\ \A reg \in Regions :
          /\ AllLocalities(reg) # {}
          /\ \A p \in ProvinceCodes(reg) : \E u \in AllLocalities(reg) : u.prv = p
          /\ (\E u \in AllLocalities(reg) : Independent(u, reg)) =>
                 \E u \in AllLocalities(reg) : u.level = "city" /\ Independent(u, reg)
          /\ \A u \in UnitsIn(reg) : u.code \notin GroupFilters \cup {""}
          /\ ProvinceCodes(reg) \cap (GroupFilters \cup DOMAIN NCRDistricts) = {}
    /\ DOMAIN NCRDistricts \cap (GroupFilters \cup {"", INDEPENDENT_CITIES_FILTER}) = {}
    /\ \A d \in DOMAIN NCRDistricts : \E u \in AllLocalities(NCRRegion) : u.code \in NCRDistricts[d]
    /\ \A u \in AllLocalities(NCRRegion) :
          \E d \in DOMAIN NCRDistricts :
             \A c \in DOMAIN NCRDistricts : u.code \in NCRDistricts[c] <=> c = d

(* The upstream layers: a polygon of a place lies in a locality of it, and *)
(* in the localities whose code it carries.                                *)
ASSUME PolygonsAssumption ==
    /\ \A f \in RegionPolygons : f.of \cap Regions # {}
    /\ \A f \in Polygons :
          /\ f.code \in f.of
          /\ \A reg \in Regions :
                /\ \A u \in AllLocalities(reg) : u.code \in f.codes => u.code \in f.of
                /\ reg \in f.of => \E u \in AllLocalities(reg) : u.code \in f.of
                /\ \A p \in ProvinceCodes(reg) \cap f.of :
                      \E u \in AllLocalities(reg) : u.prv = p /\ u.code \in f.of
          /\ \A d \in DOMAIN NCRDistricts \cap f.codes :
                \E u \in AllLocalities(NCRRegion) : u.code \in NCRDistricts[d] \cap f.of

(* The localities in reach of the selection, and those of them it is about.*)
administrativeLocalities(g) ==
    LET localities == {u \in AllLocalities(g.region) :
                          g.province \in ProvinceCodes(g.region) => u.prv = g.province}
    IN IF g.province = INDEPENDENT_CITIES_FILTER
       THEN {u \in localities : u.level = "city" /\ Independent(u, g.region)}
       ELSE IF isNCR(g) /\ g.district # ""
       THEN {u \in localities : u.code \in NCRDistricts[g.district]}
       ELSE localities

scopedLocalities(g) ==
    {u \in administrativeLocalities(g) :
        g.locality \in GroupFilters => u.level = LevelOf[g.locality]}

Group(code, units) == [code |-> code, units |-> units]

ByDistrict(g) ==
    {Group(d, {u \in administrativeLocalities(g) : u.code \in NCRDistricts[d]}) :
        d \in DOMAIN NCRDistricts}

ByProvince(g) ==
    LET apart == {u \in administrativeLocalities(g) : Independent(u, g.region)}
    IN {Group(p, {u \in AllLocalities(g.region) : u.prv = p}) : p \in ProvinceCodes(g.region)}
       \cup (IF apart = {} THEN {} ELSE {Group(INDEPENDENT_CITIES_FILTER, apart)})

ByType(g) ==
    {grp \in {Group(all, {u \in scopedLocalities(g) : u.level = LevelOf[all]}) :
                  all \in GroupFilters} : grp.units # {}}

administrativeGroups(g) ==
    IF g.locality # "" THEN {}
    ELSE IF isNCR(g) /\ g.district = "" THEN ByDistrict(g)
    ELSE IF ~isNCR(g) /\ g.province = "" THEN ByProvince(g)
    ELSE IF g.province = INDEPENDENT_CITIES_FILTER
    THEN {Group("all-cities", scopedLocalities(g))}
    ELSE IF (isNCR(g) /\ g.district # "") \/ g.province \in ProvinceCodes(g.region)
    THEN ByType(g)
    ELSE {}

(* What the effect sets when it has read the lists.                        *)
Coverage(g) ==
    IF g.region = ""
    THEN [of |-> g, units |-> RegionUnits, groups |-> {}, failed |-> FALSE]
    ELSE LET selected == {u \in scopedLocalities(g) : u.code = g.locality}
         IN [of |-> g, groups |-> administrativeGroups(g), failed |-> FALSE,
             units |-> IF selected # {} THEN selected ELSE scopedLocalities(g)]
-----------------------------------------------------------------------------
(* The request for polygons: what the browser asks for, what the route     *)
(* refuses, and what the boundary service answers.                         *)
BoundaryUrl(g) == [g EXCEPT !.province = Province(g), !.locality = SpecificLocality(g)]

(* The region of a request that names none is read from its other codes;   *)
(* a district's code does not tell.                                        *)
resolvedRegion(url) ==
    IF url.region # "" THEN {url.region}
    ELSE {reg \in Regions : \E u \in UnitsIn(reg) :
             u.code = (IF url.locality # "" THEN url.locality ELSE url.province)}

BoundaryRefused(url) ==
    \/ url.district # "" /\ resolvedRegion(url) # {NCRRegion}
    \/ \E reg \in resolvedRegion(url) :
          url.province # "" /\ url.province \notin ProvinceCodes(reg)

getBoundaryWhereClause(url) ==
    IF resolvedRegion(url) = {} THEN RegionPolygons
    ELSE IF url.locality # ""
    THEN {f \in Polygons : IF url.locality \in Divided THEN url.locality \in f.of
                           ELSE url.locality = f.code}
    ELSE IF url.district # "" THEN {f \in Polygons : url.district \in f.codes}
    ELSE IF url.province # "" THEN {f \in Polygons : url.province \in f.of}
    ELSE {f \in Polygons : url.region \in f.of}

(* The state of the map before an effect draws it, and what it draws.      *)
Undrawn == [boundary EXCEPT !.dedicated = FALSE, !.notice = FALSE, !.error = FALSE]
Drawn(features, dedicated, notice) ==
    [features |-> features, dedicated |-> dedicated, notice |-> notice, error |-> FALSE]
NotDrawn == [features |-> {}, dedicated |-> FALSE, notice |-> FALSE, error |-> TRUE]

(* The effect of the map runs for g and b; an administrative request that  *)
(* is on its way is aborted, and joined if it is for the same URL.         *)
DrawMap(g, b) ==
    LET url == BoundaryUrl(g)
        cached == b = "" /\ url \in boundaryCache
        joins == /\ b = "" /\ ~cached
                 /\ mapFlight = "administrative" /\ url = BoundaryUrl(location)
    IN /\ boundary' = IF cached THEN Drawn(getBoundaryWhereClause(url), FALSE, FALSE) ELSE Undrawn
       /\ mapFlight' = CASE b # ""                  -> "district"
                         [] b = "" /\ (cached \/ joins)  -> ""
                         [] b = "" /\ ~(cached \/ joins) -> "administrative"
       /\ abandoned' = joins
       /\ UNCHANGED boundaryCache

Locates(g) ==
    /\ choices + faults < MaxChoices /\ choices' = choices + 1
    /\ location' = g /\ coverageLoading' = TRUE
    /\ DrawMap(g, basis)
    /\ UNCHANGED <<basis, coverage>>

(* A region or a locality is selected with the coverage filter.            *)
FilterRegion(reg) ==
    /\ ~hasCoverageLock /\ reg # location.region
    /\ strayed' = FALSE
    /\ Locates([National EXCEPT !.region = reg])

FilterLocality(u) ==
    /\ ~hasCoverageLock /\ u.code # location.locality
    /\ isNCR(location) => location.district # ""
    /\ UNCHANGED strayed
    /\ Locates([location EXCEPT !.locality = u.code])

(* The election controls select or drop a legislative district.            *)
Resolves(b) ==
    /\ b \in Legislative(location) \cup {""} /\ b # basis
    /\ choices + faults < MaxChoices /\ choices' = choices + 1
    /\ basis' = b
    /\ DrawMap(location, b)
    /\ UNCHANGED <<location, coverage, coverageLoading, strayed>>

(* A group on the page is combined with the selection.                     *)
onGroupSelect(grp) ==
    /\ ~hasCoverageLock /\ grp \in coverage.groups
    /\ strayed' = (strayed \/ coverage.of # location)
    /\ Locates(CASE grp.code \in DOMAIN NCRDistricts ->
                      [location EXCEPT !.province = "", !.district = grp.code, !.locality = ""]
                 [] grp.code \in GroupFilters -> [location EXCEPT !.locality = grp.code]
                 [] OTHER ->
                      [location EXCEPT !.province = grp.code, !.district = "", !.locality = ""])

moveUpOneLevel ==
    /\ ~hasCoverageLock
    /\ location.locality # "" \/ location.district # "" \/ location.province # ""
    /\ UNCHANGED strayed
    /\ Locates(IF location.locality # "" THEN [location EXCEPT !.locality = ""]
               ELSE IF location.district # "" THEN [location EXCEPT !.district = ""]
               ELSE [location EXCEPT !.province = ""])

(* Another account: only an assigned coverage replaces the selection.      *)
Relocate(u) ==
    IF AssignedTo[u] \in {National, location}
    THEN UNCHANGED <<panelVars, choices>>
    ELSE strayed' = FALSE /\ Locates(AssignedTo[u])
-----------------------------------------------------------------------------
CoverageLoaded ==
    /\ coverageLoading /\ coverageLoading' = FALSE
    /\ coverage' = Coverage(location)
    /\ UNCHANGED <<location, basis, boundary, mapFlight, boundaryCache, strayed, abandoned, faults>>

Fault == faults < MaxFaults /\ choices + faults < MaxChoices /\ faults' = faults + 1

CoverageFailed ==
    /\ coverageLoading /\ coverageLoading' = FALSE
    /\ Fault
    /\ coverage' = [of |-> location, units |-> {}, groups |-> {}, failed |-> TRUE]
    /\ UNCHANGED <<location, basis, boundary, mapFlight, boundaryCache, strayed, abandoned>>

DistrictDrawn ==
    /\ mapFlight = "district" /\ basis \in DOMAIN DistrictPolygons
    /\ mapFlight' = "" /\ boundary' = Drawn({DistrictPolygons[basis]}, TRUE, FALSE)
    /\ UNCHANGED <<location, basis, coverage, coverageLoading, boundaryCache, strayed,
                   abandoned, faults>>

(* The district has no polygon, or its request fails: the place is drawn.  *)
DistrictNotDrawn ==
    /\ mapFlight = "district"
    /\ IF basis \in DOMAIN DistrictPolygons THEN Fault ELSE UNCHANGED faults
    /\ LET url == BoundaryUrl(location)
       IN IF url \in boundaryCache
          THEN mapFlight' = "" /\ boundary' = Drawn(getBoundaryWhereClause(url), FALSE, TRUE)
          ELSE mapFlight' = "administrative" /\ UNCHANGED boundary
    /\ UNCHANGED <<location, basis, coverage, coverageLoading, boundaryCache, strayed, abandoned>>

BoundaryArrived ==
    /\ mapFlight = "administrative" /\ ~BoundaryRefused(BoundaryUrl(location))
    /\ mapFlight' = ""
    /\ boundary' = Drawn(getBoundaryWhereClause(BoundaryUrl(location)), FALSE, basis # "")
    /\ boundaryCache' = boundaryCache \cup {BoundaryUrl(location)}
    /\ UNCHANGED <<location, basis, coverage, coverageLoading, strayed, abandoned, faults>>

BoundaryFailed ==
    /\ mapFlight = "administrative"
    /\ IF BoundaryRefused(BoundaryUrl(location)) THEN UNCHANGED faults ELSE Fault
    /\ mapFlight' = "" /\ boundary' = NotDrawn
    /\ UNCHANGED <<location, basis, coverage, coverageLoading, boundaryCache, strayed, abandoned>>

DisplayedUnfiltered == boundary.features

(* Where the URL says less than the selection the units tell the polygons. *)
displayedBoundaryData ==
    IF boundary.dedicated
       \/ (location.province # INDEPENDENT_CITIES_FILTER /\ location.locality \notin GroupFilters)
    THEN boundary.features
    ELSE {f \in boundary.features : f.codes \cap {u.code : u \in coverage.units} # {}}

PanelInit ==
    /\ location = National /\ basis = "" /\ boundaryCache = {}
    /\ coverage = [of |-> National, units |-> {}, groups |-> {}, failed |-> FALSE]
    /\ coverageLoading = TRUE
    /\ boundary = Drawn({}, FALSE, FALSE) /\ mapFlight = ""
    /\ strayed = FALSE /\ abandoned = FALSE

(* The page is opened: both effects run.                                   *)
MountPanel(g) ==
    /\ location' = g /\ coverageLoading' = TRUE
    /\ DrawMap(g, "")
    /\ UNCHANGED <<basis, coverage, strayed, choices>>

PanelNext ==
    \/ /\ \/ \E reg \in Regions \cup {""} : FilterRegion(reg)
          \/ location.region # "" /\ \E u \in administrativeLocalities(location) : FilterLocality(u)
          \/ \E b \in DOMAIN LegislativeData \cup {""} : Resolves(b)
          \/ \E grp \in coverage.groups : onGroupSelect(grp)
          \/ moveUpOneLevel
       /\ UNCHANGED faults
    \/ /\ CoverageLoaded \/ CoverageFailed \/ DistrictDrawn \/ DistrictNotDrawn
          \/ BoundaryArrived \/ BoundaryFailed
       /\ UNCHANGED choices
-----------------------------------------------------------------------------
(* What each part of a selection says of a locality.                       *)
IsOf(u, g) ==
    /\ g.province = INDEPENDENT_CITIES_FILTER => u.level = "city" /\ Independent(u, g.region)
    /\ Province(g) # "" => u.prv = g.province
    /\ g.district # "" => u.code \in NCRDistricts[g.district]
    /\ g.locality \in GroupFilters => u.level = LevelOf[g.locality]
    /\ SpecificLocality(g) # "" => u.code = g.locality

UnitsOf(g) ==
    IF g.region = "" THEN RegionUnits ELSE {u \in AllLocalities(g.region) : IsOf(u, g)}

(* The place an account is assigned to has localities, and is no group.    *)
AccountsHavePlaces ==
    \A u \in Users : AssignedTo[u] # National =>
        UnitsOf(AssignedTo[u]) # {} /\ AssignedTo[u].province # INDEPENDENT_CITIES_FILTER

(* Through groups that are up to date the user only reaches paths of the   *)
(* hierarchy.                                                              *)
LocationIsNested ==
    strayed \/
        /\ Province(location) # "" => location.province \in ProvinceCodes(location.region)
        /\ location.district # "" => isNCR(location)
        /\ location # National => UnitsOf(location) # {}

(* Neither page leaves the hierarchy, whatever is chosen in which order,   *)
(* and the election selection agrees with the place it is made for.        *)
SelectionsAreCoherent == GeographyIsNested /\ LocationIsNested /\ ElectionIsCoherent

(* Once both effects have ended the page shows the selected place: its     *)
(* units, each in one of the groups if there are any, and on the map the   *)
(* polygon of the selected district or, with a notice, polygons of the     *)
(* place only.  The exceptions are a group that was chosen while it was    *)
(* outdated, and a map that was given up because its request was joined    *)
(* when it had just been aborted: it keeps the polygons of the selection   *)
(* before, and says nothing of it.                                         *)
LocationShowsSelection ==
    ~coverageLoading /\ mapFlight = "" /\ ~strayed =>
        /\ \/ coverage.failed
           \/ /\ coverage.units = UnitsOf(location)
              /\ coverage.groups # {} =>
                    \A u \in coverage.units :
                        Cardinality({grp \in coverage.groups : u \in grp.units}) = 1
        /\ \/ boundary.error \/ abandoned
           \/ /\ basis # "" /\ boundary.dedicated
              /\ boundary.features = {DistrictPolygons[basis]}
           \/ /\ basis # "" => boundary.notice
              /\ \A f \in displayedBoundaryData :
                    \E u \in UnitsOf(location) : u.code \in f.of
=============================================================================
