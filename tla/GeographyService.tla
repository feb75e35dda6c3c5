--------------------------- MODULE GeographyService ---------------------------
(***************************************************************************)
(* The geography routes of the server (backend/src/routes/geography.ts).   *)
(* A route reads pages of the upstream PSGC service through a cache: a     *)
(* page that was received is kept, requests for a page that is on its way  *)
(* share one upstream request, and a request that failed leaves nothing    *)
(* behind.  A page is cached whatever it holds.                            *)
(*                                                                         *)
(* A unit of the PSGC is [code, level, prv], prv being the code of its     *)
(* province or "".  Pages[reg] is the paged list of all units of a region. *)
(* A route in progress is kept under its URL; a browser never asks twice   *)
(* for one URL at a time.  The history variable malformed tells whether    *)
(* the upstream service ever answered 200 with something else than units.  *)
(***************************************************************************)
EXTENDS Naturals, Sequences, FiniteSets, Functions

CONSTANTS Pages,           \* region |-> sequence of sets of units
          NCRRegion,       \* the region whose middle level are districts
          NCRDistricts,    \* district |-> codes of its localities
          MaxFaults        \* bound on upstream faults and expired pages

VARIABLES psaResponseCache, pendingPSARequests, handlers, malformed, faults

serviceVars == <<psaResponseCache, pendingPSARequests, handlers, malformed, faults>>

Regions == DOMAIN Pages
UnitsIn(reg) == UNION Range(Pages[reg])
isProvince(u) == u.level = "prov"
isMunicipalityOrCity(u) == u.level \in {"city", "mun"}
ProvinceCodes(reg) == {u.code : u \in {v \in UnitsIn(reg) : isProvince(v)}}

ASSUME PagesAssumption ==
    /\ NCRRegion \in Regions /\ ProvinceCodes(NCRRegion) = {}
    /\ \A reg \in Regions :
          Len(Pages[reg]) \in Nat \ {0} /\ DOMAIN Pages[reg] = 1 .. Len(Pages[reg])

Provinces(reg) == <<"provinces", reg, "">>
Districts(reg) == <<"districts", reg, "">>
Municipalities(reg, prv) == <<"municipalities", reg, prv>>

(* The page a route reads: /provinces reads one page of its own level.     *)
KeyOf(url, page) ==
    IF url[1] = "provinces" THEN <<"provinces", url[2], 1>> ELSE <<"all", url[2], page>>

extractPSGCData(key, payload) ==
    CASE payload = "malformed" -> {}
      [] key[1] = "provinces"  -> {u \in UnitsIn(key[2]) : isProvince(u)}
      [] key[1] = "all"        -> Pages[key[2]][key[3]]

HasNext(key, payload) ==
    /\ key[1] = "all" /\ payload = "good"
    /\ key[3] < Len(Pages[key[2]])

(* A province that is not among the records selects the whole region.      *)
Localities(records, prv) ==
    LET found == \E p \in records : isProvince(p) /\ p.code = prv
    IN {u \in records : isMunicipalityOrCity(u) /\ (found => u.prv = prv)}

AnswerOf(url, records) ==
    IF url[1] = "provinces" THEN {u \in records : isProvince(u)}
    ELSE Localities(records, url[3])

TakePartial(url, h, payload) ==
    LET key == KeyOf(url, h.page)
        got == h.records \cup extractPSGCData(key, payload)
    IN [status |-> "ok", page |-> h.page, records |-> AnswerOf(url, got)]

(* A route continues with a page: it reads the next one or answers.        *)
Take(url, h, payload) ==
    LET key == KeyOf(url, h.page)
        got == h.records \cup extractPSGCData(key, payload)
    IN IF HasNext(key, payload)
       THEN [status |-> "reading", page |-> h.page + 1, records |-> got]
       ELSE [status |-> "ok", page |-> h.page, records |-> AnswerOf(url, got)]

Waits(url, key) == handlers[url].status = "waiting" /\ KeyOf(url, handlers[url].page) = key
-----------------------------------------------------------------------------
(* A request arrives.  The districts of NCR are a table of the program.    *)
Arrived(url) ==
    IF url[1] = "districts"
    THEN [status |-> "ok", page |-> 1,
          records |-> {[code |-> d, level |-> "Dist", prv |-> ""] : d \in DOMAIN NCRDistricts}]
    ELSE [status |-> "reading", page |-> 1, records |-> {}]

Read(url) ==
    /\ handlers[url].status = "reading"
    /\ LET h == handlers[url]
           key == KeyOf(url, h.page)
       IN IF key \in DOMAIN psaResponseCache
          THEN /\ handlers' = [handlers EXCEPT ![url] = Take(url, h, psaResponseCache[key])]
               /\ UNCHANGED pendingPSARequests
          ELSE /\ handlers' = [handlers EXCEPT ![url].status = "waiting"]
               /\ pendingPSARequests' = pendingPSARequests \cup {key}
    /\ UNCHANGED <<psaResponseCache, malformed, faults>>

Received(key, payload) ==
    /\ key \in pendingPSARequests
    /\ payload = "malformed" => faults < MaxFaults
    /\ pendingPSARequests' = pendingPSARequests \ {key}
    /\ psaResponseCache' =
           [k \in DOMAIN psaResponseCache \cup {key} |->
               IF k = key THEN payload ELSE psaResponseCache[k]]
    /\ handlers' = [url \in DOMAIN handlers |->
                       IF Waits(url, key) THEN Take(url, handlers[url], payload)
                       ELSE handlers[url]]
    /\ malformed' = (malformed \/ payload = "malformed")
    /\ faults' = IF payload = "malformed" THEN faults + 1 ELSE faults

(* The connection fails, times out or is answered with an error.           *)
Refused(key) ==
    /\ key \in pendingPSARequests /\ faults < MaxFaults
    /\ pendingPSARequests' = pendingPSARequests \ {key}
    /\ handlers' = [url \in DOMAIN handlers |->
                       IF Waits(url, key) THEN [handlers[url] EXCEPT !.status = "failed"]
                       ELSE handlers[url]]
    /\ faults' = faults + 1
    /\ UNCHANGED <<psaResponseCache, malformed>>

(* Six hours later, far longer than a request takes: the cached page is    *)
(* fetched again when it is needed.                                        *)
Expired(key) ==
    /\ key \in DOMAIN psaResponseCache /\ handlers = <<>> /\ faults < MaxFaults
    /\ psaResponseCache' = Restrict(psaResponseCache, DOMAIN psaResponseCache \ {key})
    /\ faults' = faults + 1
    /\ UNCHANGED <<pendingPSARequests, handlers, malformed>>

ServiceInit ==
    /\ psaResponseCache = <<>> /\ pendingPSARequests = {} /\ handlers = <<>>
    /\ malformed = FALSE /\ faults = 0

ServiceNext ==
    \/ \E url \in DOMAIN handlers : Read(url)
    \/ \E key \in pendingPSARequests :
          Refused(key) \/ \E payload \in {"good", "malformed"} : Received(key, payload)
    \/ \E key \in DOMAIN psaResponseCache : Expired(key)
-----------------------------------------------------------------------------
(* A list that a route answers with is complete.                           *)
Complete(url, records) ==
    records = CASE url[1] = "provinces" -> {u \in UnitsIn(url[2]) : isProvince(u)}
                [] url[1] = "districts" ->
                      {[code |-> d, level |-> "Dist", prv |-> ""] : d \in DOMAIN NCRDistricts}
                [] url[1] = "municipalities" ->
                      {u \in UnitsIn(url[2]) : isMunicipalityOrCity(u) /\ url[3] \in {"", u.prv}}
=============================================================================
