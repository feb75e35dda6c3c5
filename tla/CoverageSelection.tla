-------------------------- MODULE CoverageSelection --------------------------
(***************************************************************************)
(* The coverage filter of the web application: the cascading lists of      *)
(* regions, provinces or districts, and localities (GeographyControls.tsx),*)
(* the election selection beside it (ElectionCoverageControls.tsx,         *)
(* usePersistedElectionSelection.ts), and the dashboard that is requested  *)
(* for what is selected (useDashboard.ts).  The lists are those of         *)
(* GeographyService, the dashboards those of DashboardService.             *)
(*                                                                         *)
(* A change of the selection renders the page, and the effects whose       *)
(* dependencies changed run in the same step: each aborts its request,     *)
(* drops its list and asks for the next one.  An effect sees the selection *)
(* as it was rendered: two effects of one render, or an answer to a        *)
(* request made under an earlier one, write back what has changed since.   *)
(* The history variable lostUpdate tells that this happened to the party   *)
(* list; overtaken that an older dashboard replaced the current one.       *)
(*                                                                         *)
(* A list that is not loaded is not in the domain of lists; "" stands for  *)
(* nothing selected.  The list of regions is taken to be loaded.           *)
(***************************************************************************)
EXTENDS GeographyService, DashboardService, ReviewConsole

CONSTANTS TEST_USERS,        \* built-in user |-> its account
          StoredUsers,       \* user |-> what the browser has stored of its account
          HomeGeography,     \* home of a built-in account |-> the geography it is locked to
          Fallback,          \* provinces the page knows without a list
          Bookmarks,         \* election selections the page may be opened with
          LegislativeData,   \* district |-> [region, jurisdiction, members]
          PartyLists,        \* ids of party lists
          Meltwater,         \* what Meltwater may answer
          MaxChoices,        \* bound on the choices of the user and upstream faults together
          MaxOpen            \* bound on the open dashboard requests of a user who goes on

VARIABLES geography, election, lists, flights, responseCache, shown,
          lostUpdate, overtaken, choices

selectionVars == <<geography, election, lists, flights, responseCache, shown,
                   lostUpdate, overtaken, choices>>

National == [region |-> "", province |-> "", district |-> "", locality |-> ""]
INDEPENDENT_CITIES_FILTER == "independent-cities"
GroupFilters == {"all-cities", "all-municipalities"}

(* A code of the PSGC has ten digits.                                      *)
ASSUME PlacesAssumption ==
    /\ "" \notin Regions
    /\ \A reg \in Regions :
          {"", INDEPENDENT_CITIES_FILTER} \cap (ProvinceCodes(reg) \cup Fallback) = {}

ASSUME MeltwaterAssumption == \A n \in DOMAIN Meltwater : IsAnswer(Meltwater[n])

ListNames == {"provinces", "districts", "localities", "legislative", "partyLists"}
List(ls, l) == IF l \in DOMAIN ls THEN ls[l] ELSE {}
Put(map, key, value) ==
    [k \in DOMAIN map \cup {key} |-> IF k = key THEN value ELSE map[k]]

(* Accounts.  A field that an account has not is Absent; one that was left *)
(* blank in the form is "".  Or is ??, Either is ||.                       *)
Absent == "absent"
Or(x, y) == IF x = Absent THEN y ELSE x
Either(x, y) == IF x \in {"", Absent} THEN y ELSE x

inferLicenseTier(a) ==
    IF a.superadmin \/ a.scope \in {"national", "region"} THEN "national"
    ELSE IF a.scope = "province" THEN "provincial-partylist"
    ELSE "city-district-municipality"

(* What is stored of an account overrides the built-in one; an older       *)
(* version of the application has not stored the tier.                     *)
normalizePersistedUser(a, base) ==
    LET combined == [f \in DOMAIN a |-> IF f = "superadmin" THEN a[f] \/ base[f]
                                                           ELSE Or(a[f], base[f])]
    IN [combined EXCEPT !.tier = Or(@, inferLicenseTier(combined))]

readPersistedUsers ==
    [u \in DOMAIN TEST_USERS \cup DOMAIN StoredUsers |->
        IF u \notin DOMAIN StoredUsers THEN TEST_USERS[u]
        ELSE LET a == StoredUsers[u]
             IN normalizePersistedUser(a,
                    IF u \in DOMAIN TEST_USERS THEN TEST_USERS[u]
                    ELSE [f \in DOMAIN a |-> IF f = "superadmin" THEN FALSE ELSE Absent])]

getUserLicenseTier(a) == Or(a.tier, inferLicenseTier(a))

IsLocked(a) ==
    a.home \notin {"", Absent} /\ ~a.superadmin /\ getUserLicenseTier(a) # "national"

(* The code of a place begins with the number of its region.               *)
inferRegionCode(code) ==
    IF code \in {"", Absent} THEN Absent
    ELSE CHOOSE reg \in Regions : code = reg \/ \E u \in UnitsIn(reg) : u.code = code

getAssignedGeographySelection(a) ==
    LET regionCode ==
            Or(a.region, Or(inferRegionCode(a.coverage), Or(inferRegionCode(a.province), "")))
        region == [National EXCEPT !.region = Either(a.region, regionCode)]
    IN IF ~IsLocked(a) THEN National
       ELSE IF a.home \in DOMAIN HomeGeography THEN HomeGeography[a.home]
       ELSE CASE a.scope \in {"", Absent} -> National
              [] a.scope = "region" ->
                    [National EXCEPT !.region = Either(a.coverage, regionCode)]
              [] a.scope = "province" -> [region EXCEPT !.province = Either(a.coverage, "")]
              [] OTHER -> [region EXCEPT !.province = Either(a.province, ""),
                                         !.locality = Either(a.coverage, "")]

(* The account that the administrator's form creates.                      *)
createTestUser(input) ==
    LET national == input.tier = "national"
        Given(x) == IF national THEN "" ELSE Or(x, "")
    IN [superadmin |-> FALSE,
        tier       |-> input.tier,
        home       |-> IF national THEN "National" ELSE Or(input.home, ""),
        scope      |-> IF national THEN "national"
                       ELSE Or(input.scope, IF input.tier = "provincial-partylist"
                                            THEN "province" ELSE "locality"),
        coverage   |-> Given(input.coverage),
        province   |-> Given(input.province),
        region     |-> IF national THEN ""
                       ELSE Or(input.region, Or(inferRegionCode(Given(input.coverage)),
                                                Or(inferRegionCode(Given(input.province)), "")))]

AssignedTo == [u \in Users |-> getAssignedGeographySelection(readPersistedUsers[u])]
hasCoverageLock == IsLocked(readPersistedUsers[user])
isNCR(g) == g.region = NCRRegion
HasGeographicCoverage(g) == g # National
SpecificLocality(g) == IF g.locality \in GroupFilters THEN "" ELSE g.locality
Province(g) == IF g.province = INDEPENDENT_CITIES_FILTER THEN "" ELSE g.province

(* A selected province counts once it is found in the list, or if it is    *)
(* one of the few that the page knows.                                     *)
SelectedProvince(g, ls) ==
    IF g.province \in Fallback \cup {u.code : u \in List(ls, "provinces")}
    THEN g.province ELSE ""

independentCities ==
    {u \in List(lists, "localities") :
        u.level = "city" /\
        (isNCR(geography) \/ u.prv \notin {p.code : p \in List(lists, "provinces")})}

filteredLocalities ==
    IF isNCR(geography)
    THEN {u \in List(lists, "localities") :
             geography.district \in DOMAIN NCRDistricts => u.code \in NCRDistricts[geography.district]}
    ELSE IF SelectedProvince(geography, lists) # "" THEN List(lists, "localities")
    ELSE independentCities

(* The districts the elections routes list for a geography.                *)
Matches(d, g) ==
    LET district == LegislativeData[d] IN
    /\ g.region \in {"", district.region}
    /\ g.district # "" => NCRDistricts[g.district] \cap DOMAIN district.members # {}
    /\ Province(g) # "" => \E c \in DOMAIN district.members : district.members[c] = Province(g)
    /\ SpecificLocality(g) # "" => SpecificLocality(g) \in DOMAIN district.members

Legislative(g) == {d \in DOMAIN LegislativeData : Matches(d, g)}
jurisdictionName == [d \in DOMAIN LegislativeData |-> LegislativeData[d].jurisdiction]

(* A path of the hierarchy: the province is one of the region, the locality*)
(* one of the province or of the district.                                 *)
IsPath(g) ==
    LET province == Province(g)
        locality == SpecificLocality(g)
    IN /\ province # "" => province \in ProvinceCodes(g.region)
       /\ g.district # "" => isNCR(g) /\ g.district \in DOMAIN NCRDistricts
       /\ locality # "" =>
             \E u \in UnitsIn(g.region) :
                /\ u.code = locality /\ isMunicipalityOrCity(u)
                /\ g.province \in ProvinceCodes(g.region) => u.prv = g.province
                /\ isNCR(g) /\ g.district # "" => locality \in NCRDistricts[g.district]

(* The form for accounts only offers the places of one region; accounts    *)
(* that are stored are not checked again.                                  *)
AccountsAreNested ==
    \A u \in Users :
        \/ AssignedTo[u] = National
        \/ /\ AssignedTo[u] \in [region : Regions, province : STRING, district : STRING,
                                 locality : STRING]
           /\ IsPath(AssignedTo[u])
-----------------------------------------------------------------------------
(* What an effect depends on, and what it then asks for, if anything.      *)
Deps(l, g, e, ls) ==
    CASE l \in {"provinces", "districts"} -> <<g.region>>
      [] l = "localities"  ->
            <<g.region, SelectedProvince(g, ls),
              g.province \in {u.code : u \in List(ls, "provinces")}>>
      [] l = "legislative" -> <<g, e.mode>>
      [] l = "partyLists"  -> <<HasGeographicCoverage(g)>>

Asks(l, g, e) ==
    CASE l = "provinces"   -> g.region # "" /\ ~isNCR(g)
      [] l = "districts"   -> isNCR(g)
      [] l = "localities"  -> g.region # ""
      [] l = "legislative" -> /\ e.mode = "legislative" \/ SpecificLocality(g) # ""
                              /\ isNCR(g) => SpecificLocality(g) # ""
      [] l = "partyLists"  -> ~HasGeographicCoverage(g)

Url(l, g, ls) ==
    CASE l = "provinces"   -> Provinces(g.region)
      [] l = "districts"   -> Districts(g.region)
      [] l = "localities"  ->
            Municipalities(g.region, IF isNCR(g) THEN "" ELSE SelectedProvince(g, ls))
      [] l = "legislative" -> <<"legislative", g>>
      [] l = "partyLists"  -> <<"partyLists">>

Aborting(fs, changed) == {f \in fs : f.of \notin changed}

(* The election effects run one after the other on the rendered selection: *)
(* the second one knows nothing of what the first one wrote.               *)
ClearsParty(changed, g, e) ==
    "partyLists" \in changed /\ HasGeographicCoverage(g) /\ e.party # ""
ClearsDistrict(changed, g, e) ==
    "legislative" \in changed /\ ~Asks("legislative", g, e) /\ e.district # ""

Cleared(changed, g, e) ==
    IF ClearsDistrict(changed, g, e) THEN [e EXCEPT !.district = ""]
    ELSE IF ClearsParty(changed, g, e) THEN [e EXCEPT !.party = ""]
    ELSE e

(* The request of useDashboard for a selection.                            *)
Area(g) ==
    IF g.locality # "" THEN g.locality
    ELSE IF g.district # "" THEN g.district
    ELSE IF g.province # "" THEN g.province ELSE g.region

DashboardRequest(g, e) ==
    [area |-> IF e.mode = "administrative" THEN Area(g) ELSE "",
     mode |-> e.mode, district |-> e.district, party |-> e.party, placeholder |-> g]

Current == DashboardRequest(geography, election)
NothingRead == [mode |-> "", district |-> "", party |-> ""]
DashboardFlight(request) == [of |-> "dashboard", url |-> <<request>>, value |-> NothingRead]
ListFlight(l, g, e, ls) ==
    [of |-> l, url |-> Url(l, g, ls), value |-> IF l = "legislative" THEN e ELSE NothingRead]
OpenDashboards(fs) == {f \in fs : f.of = "dashboard"}

RequestDashboardsByPlace(g, e) ==
    {DashboardFlight(request) : request \in
        {r \in {DashboardRequest(g, e)} : [r EXCEPT !.party = Current.party] # Current}}

RequestDashboards(g, e) ==
    {DashboardFlight(request) : request \in {DashboardRequest(g, e)} \ {Current}}

(* Once the provinces are there, or gone, the localities are asked for     *)
(* again if that tells the selected province: before is what was listed    *)
(* when they were asked for, now what came of it.                          *)
Refind(now, before, cache, g, e) ==
    LET url == Url("localities", g, now.lists)
        others == Restrict(now.lists, DOMAIN now.lists \ {"localities"})
    IN IF \/ ~Asks("localities", g, e)
          \/ Deps("localities", g, e, now.lists) = Deps("localities", g, e, before)
       THEN now
       ELSE IF url \in DOMAIN cache
       THEN [now EXCEPT !.lists = Put(others, "localities", cache[url]),
                        !.flights = Aborting(@, {"localities"})]
       ELSE [lists |-> others, asked |-> now.asked \cup {url},
             flights |-> Aborting(now.flights, {"localities"})
                         \cup {ListFlight("localities", g, e, now.lists)}]

Asked(urls, hs) ==
    [url \in DOMAIN hs \cup urls |-> IF url \in DOMAIN hs THEN hs[url] ELSE Arrived(url)]

(* The effects of the lists in changed run for a render of g and e, and    *)
(* each of the given dashboards is requested.                              *)
Effects(changed, dashboards, g, e) ==
    LET asking == {l \in changed : Asks(l, g, e)}
        cached == {l \in asking : Url(l, g, lists) \in DOMAIN responseCache}
        settled == Cleared(changed, g, e)
        rendered ==
            [lists |-> [l \in (DOMAIN lists \ changed) \cup cached |->
                           IF l \in cached THEN responseCache[Url(l, g, lists)] ELSE lists[l]],
             flights |-> Aborting(flights, changed)
                         \cup {ListFlight(l, g, e, lists) : l \in asking \ cached},
             asked |-> {Url(l, g, lists) : l \in (asking \ cached) \ {"legislative", "partyLists"}}]
        next == Refind(rendered, lists, responseCache, g, e)
    IN /\ geography' = g
       /\ election' = settled
       /\ lists' = next.lists
       /\ flights' = next.flights \cup dashboards
                     \cup (IF settled = e THEN {} ELSE {DashboardFlight(DashboardRequest(g, settled))})
       /\ lostUpdate' = (lostUpdate \/ (ClearsParty(changed, g, e) /\ ClearsDistrict(changed, g, e)))
       /\ handlers' = Asked(next.asked, handlers)
       /\ UNCHANGED <<psaResponseCache, pendingPSARequests, malformed, faults, responseCache>>

(* The selection becomes g and e.                                          *)
Render(g, e) ==
    LET changed == {l \in ListNames : Deps(l, g, e, lists) # Deps(l, geography, election, lists)}
    IN /\ Effects(changed, RequestDashboards(g, e), g, e)
       /\ UNCHANGED <<shown, overtaken>>

(* The page is opened: every effect runs.                                  *)
Mount(g, e) ==
    /\ Effects(ListNames, {DashboardFlight(DashboardRequest(g, e))}, g, e)
    /\ shown' = [request |-> DashboardRequest(g, e), answered |-> FALSE, usingPlaceholder |-> TRUE]
    /\ UNCHANGED <<overtaken, choices>>

Loading(l) == \E f \in flights : f.of = l
-----------------------------------------------------------------------------
(* Choices of the user, each offered by a control that is enabled.         *)
Chooses(g, e) ==
    /\ choices + faults < MaxChoices
    /\ Cardinality(OpenDashboards(flights)) <= MaxOpen
    /\ choices' = choices + 1
    /\ Render(g, e)

ChooseRegion(region) ==
    /\ ~hasCoverageLock /\ region # geography.region
    /\ Chooses([National EXCEPT !.region = region], election)

ChooseProvinceOnly(province) ==
    /\ ~hasCoverageLock /\ geography.region # "" /\ ~isNCR(geography)
    /\ ~Loading("provinces") /\ province # geography.province
    /\ \/ province \in {""} \cup {u.code : u \in List(lists, "provinces")}
       \/ province = INDEPENDENT_CITIES_FILTER /\ independentCities # {}
    /\ Chooses([geography EXCEPT !.province = province], election)

ChooseProvince(province) ==
    /\ ~hasCoverageLock /\ geography.region # "" /\ ~isNCR(geography)
    /\ ~Loading("provinces") /\ province # geography.province
    /\ \/ province \in {""} \cup {u.code : u \in List(lists, "provinces")}
       \/ province = INDEPENDENT_CITIES_FILTER /\ independentCities # {}
    /\ Chooses([National EXCEPT !.region = geography.region, !.province = province], election)

ChooseDistrict(district) ==
    /\ ~hasCoverageLock /\ isNCR(geography)
    /\ ~Loading("districts") /\ district # geography.district
    /\ district \in {""} \cup {u.code : u \in List(lists, "districts")}
    /\ Chooses([National EXCEPT !.region = geography.region, !.district = district], election)

ChooseLocality(locality) ==
    /\ ~hasCoverageLock /\ geography.region # "" /\ ~Loading("localities")
    /\ IF isNCR(geography) THEN geography.district # "" /\ ~Loading("districts")
       ELSE ~Loading("provinces")
    /\ locality # geography.locality
    /\ \/ locality \in {""} \cup {u.code : u \in filteredLocalities}
       \/ ~isNCR(geography) /\ \E u \in filteredLocalities :
             locality = (IF u.level = "city" THEN "all-cities" ELSE "all-municipalities")
    /\ Chooses([geography EXCEPT !.locality = locality], election)

ChooseModeOnly(mode) ==
    /\ mode # election.mode
    /\ Chooses(geography, [election EXCEPT !.mode = mode])

ChooseMode(mode) ==
    /\ mode # election.mode
    /\ Chooses(geography, [election EXCEPT !.mode = mode, !.district = ""])

ChooseLegislative(d) ==
    /\ election.mode = "legislative" /\ ~Loading("legislative")
    /\ d \in {""} \cup List(lists, "legislative") /\ d # election.district
    /\ ~(SpecificLocality(geography) # "" /\ election.district # ""
           /\ Cardinality(List(lists, "legislative")) = 1)
    /\ List(lists, "legislative") # {}
    /\ Chooses(geography, [election EXCEPT !.district = d])

ChoosePartyList(p) ==
    /\ ~HasGeographicCoverage(geography) /\ ~Loading("partyLists")
    /\ p \in {""} \cup List(lists, "partyLists") /\ p # election.party
    /\ Chooses(geography, [election EXCEPT !.party = p])

Places == {u.code : u \in UNION {UnitsIn(reg) : reg \in Regions}}

Choose ==
    \/ \E region \in Regions \cup {""} : ChooseRegion(region)
    \/ \E province \in Places \cup {"", INDEPENDENT_CITIES_FILTER} : ChooseProvince(province)
    \/ \E district \in DOMAIN NCRDistricts \cup {""} : ChooseDistrict(district)
    \/ \E locality \in Places \cup GroupFilters \cup {""} : ChooseLocality(locality)
    \/ \E mode \in {"administrative", "legislative"} : ChooseMode(mode)
    \/ \E d \in DOMAIN LegislativeData \cup {""} : ChooseLegislative(d)
    \/ \E p \in PartyLists \cup {""} : ChoosePartyList(p)

(* Another account is selected: its coverage replaces the geography.       *)
Reassign(u) == Chooses(AssignedTo[u], election)
-----------------------------------------------------------------------------
(* A geography route has answered: every effect that waits gets the list.  *)
ListArrived(url) ==
    /\ handlers[url].status \in {"ok", "failed"}
    /\ LET ok == handlers[url].status = "ok"
           records == handlers[url].records
           waiting == IF ok THEN {f.of : f \in {f \in flights : f.url = url}} ELSE {}
           cache == IF ok THEN Put(responseCache, url, records) ELSE responseCache
           received == [lists |-> [l \in DOMAIN lists \cup waiting |->
                                      IF l \in waiting THEN records ELSE lists[l]],
                        flights |-> {f \in flights : f.url # url},
                        asked |-> {}]
           next == Refind(received, lists, cache, geography, election)
       IN /\ responseCache' = cache
          /\ lists' = next.lists
          /\ flights' = next.flights
          /\ handlers' = Asked(next.asked, Restrict(handlers, DOMAIN handlers \ {url}))
    /\ UNCHANGED <<psaResponseCache, pendingPSARequests, malformed, faults, geography,
                   election, shown, lostUpdate, overtaken, choices>>

(* With one district for a locality it is selected; one that is not in the *)
(* list is dropped.  Both write the selection the request was made with.   *)
Resolved(f, data) ==
    LET c == f.value
        locality == SpecificLocality(f.url[2])
    IN IF c.mode = "legislative" /\ locality # "" /\ Cardinality(data) = 1
       THEN IF c.district \in data THEN election
            ELSE [c EXCEPT !.district = CHOOSE d \in data : TRUE]
       ELSE IF c.district # "" /\ c.district \notin data
       THEN [c EXCEPT !.district = ""]
       ELSE election

LegislativeArrived(f) ==
    /\ f.of = "legislative"
    /\ LET data == Legislative(f.url[2])
           next == Resolved(f, data)
       IN /\ election' = next
          /\ lists' = Put(lists, "legislative", data)
          /\ flights' = (flights \ {f}) \cup RequestDashboards(geography, next)
          /\ lostUpdate' = (lostUpdate \/ next.party # election.party)
    /\ UNCHANGED <<serviceVars, geography, responseCache, shown, overtaken, choices>>

PartyListsArrived(f) ==
    /\ f.of = "partyLists"
    /\ lists' = Put(lists, "partyLists", PartyLists)
    /\ flights' = flights \ {f}
    /\ UNCHANGED <<serviceVars, geography, election, responseCache, shown, lostUpdate,
                   overtaken, choices>>

ElectionListFailed(f) ==
    /\ f.of \in {"legislative", "partyLists"}
    /\ faults < MaxFaults /\ choices + faults < MaxChoices /\ faults' = faults + 1
    /\ flights' = flights \ {f}
    /\ UNCHANGED <<psaResponseCache, pendingPSARequests, handlers, malformed, geography,
                   election, lists, responseCache, shown, lostUpdate, overtaken, choices>>

(* Requests for dashboards are not aborted: whichever is answered last is  *)
(* shown.                                                                  *)
DashboardArrived(f) ==
    /\ f.of = "dashboard"
    /\ flights' = flights \ {f}
    /\ shown' = [request |-> f.url[1], answered |-> TRUE,
                 usingPlaceholder |-> Refuses(f.url[1], DOMAIN LegislativeData, PartyLists)]
    /\ overtaken' = IF f.url[1] = Current THEN FALSE
                    ELSE ~ \E g \in OpenDashboards(flights) : g.url[1] = Current
    /\ UNCHANGED <<serviceVars, geography, election, lists, responseCache, lostUpdate, choices>>

(* What the page shows when Meltwater has answered the service with m.     *)
DataShown(m) ==
    IF shown.usingPlaceholder THEN Placeholder(Area(shown.request.placeholder))
    ELSE Dashboard(shown.request, jurisdictionName, m)

(* A render in a later second has another range, and asks again; so does   *)
(* the Refresh button.                                                     *)
Rerequest ==
    /\ choices + faults < MaxChoices /\ choices' = choices + 1
    /\ flights' = flights \cup {DashboardFlight(Current)}
    /\ UNCHANGED <<serviceVars, geography, election, lists, responseCache, shown,
                   lostUpdate, overtaken>>
-----------------------------------------------------------------------------
(* The selection in the address of the page, and the page opened with it.  *)
applyElectionSelectionToSearch(e) ==
    [mode |-> e.mode, party |-> e.party,
     district |-> IF e.mode = "administrative" THEN "" ELSE e.district]

parseElectionSelection(search) ==
    [mode |-> search.mode, party |-> search.party,
     district |-> IF search.mode = "legislative" THEN search.district ELSE ""]

NoDashboard ==
    [request |-> DashboardRequest(National, NothingRead), answered |-> FALSE,
     usingPlaceholder |-> TRUE]

SelectionInit ==
    /\ ServiceInit
    /\ geography = National /\ election = NothingRead
    /\ lists = <<>> /\ responseCache = <<>> /\ flights = {}
    /\ shown = NoDashboard
    /\ lostUpdate = FALSE /\ overtaken = FALSE /\ choices = 0

SelectionNext ==
    \/ Choose
    \/ \E url \in DOMAIN handlers : ListArrived(url)
    \/ \E f \in flights :
          \/ LegislativeArrived(f) \/ PartyListsArrived(f) \/ ElectionListFailed(f)
          \/ DashboardArrived(f)
    \/ Rerequest
    \/ ServiceNext /\ choices + faults' <= MaxChoices /\ UNCHANGED selectionVars
-----------------------------------------------------------------------------
(* Whatever order the lists of the selections that a user runs through     *)
(* arrive in, and whatever the server had cached or lost: a list on the    *)
(* page is the complete list for what is selected now, unless the PSGC     *)
(* service answered with something else than units.                        *)
ListsMatchSelection ==
    \A l \in DOMAIN lists :
        /\ Asks(l, geography, election)
        /\ CASE l = "partyLists"  -> lists[l] = PartyLists
             [] l = "legislative" -> lists[l] = Legislative(geography)
             [] OTHER -> malformed \/ Complete(Url(l, geography, lists), lists[l])

(* What is selected is a path of the hierarchy.                            *)
GeographyIsNested == malformed \/ IsPath(geography)

(* The election selection survives the address of the page; a chosen       *)
(* district is among those that are listed; and no party list is selected  *)
(* beside a place, unless an effect or an answer wrote back a selection it *)
(* had seen before the party list was dropped.                             *)
ElectionIsCoherent ==
    /\ parseElectionSelection(applyElectionSelectionToSearch(election)) = election
    /\ "legislative" \in DOMAIN lists => election.district \in lists["legislative"] \cup {""}
    /\ HasGeographicCoverage(geography) => election.party = "" \/ lostUpdate

(* When no dashboard is on its way the page shows the one for what is      *)
(* selected, unless an older request was answered after it.                *)
DashboardShowsSelection ==
    OpenDashboards(flights) = {} /\ ~overtaken => shown.request = Current

(* The dashboard that is shown is sound for the place it was requested     *)
(* for, whatever Meltwater answered.                                       *)
DashboardIsSound ==
    shown.answered => \A n \in DOMAIN Meltwater :
        Sound(shown.request, jurisdictionName, Meltwater[n], DataShown(Meltwater[n]))
=============================================================================
