--------------------------- MODULE DashboardService ---------------------------
(***************************************************************************)
(* How the server answers GET /api/dashboard: the checks of the route      *)
(* (backend/src/routes/dashboard.ts), the dashboard built from the calls   *)
(* to Meltwater (services/dashboard.service.ts, meltwater.client.ts), and  *)
(* the placeholder that stands in when a call fails.  The service keeps no *)
(* state: an answer is a function of the request and of what Meltwater     *)
(* answered.                                                               *)
(*                                                                         *)
(* What Meltwater answered is a record m: m.status gives each call the     *)
(* statuses of its attempts, m.counts the documents of every search by     *)
(* sentiment, m.terms the top terms with their documents in the range and  *)
(* in the range before.  Percentages are kept in tenths.                   *)
(***************************************************************************)
EXTENDS Integers, Sequences, FiniteSets

CONSTANTS Areas,              \* areas with a configured search
          AreaOf,             \* code of a place |-> the area it is an alias of
          IssuesConfigured    \* whether issues have searches of their own

Throttled == {429, 503}

(* A throttled call is repeated twice, any other failure is final.         *)
Succeeds(statuses) ==
    \E n \in 1..3 : /\ statuses[n] = 200
                    /\ \A i \in 1..(n - 1) : statuses[i] \in Throttled

(* Math.round on a share, in tenths of a percent.                          *)
roundPercentage(part, whole) == (2000 * part + whole) \div (2 * whole)

Known(counts) == counts.positive + counts.neutral + counts.negative

mapSentimentOfTotal(counts) ==
    [kind \in {"positive", "neutral", "negative"} |->
        IF counts.total = 0 THEN 0 ELSE roundPercentage(counts[kind], counts.total)]

mapSentiment(counts) ==
    [kind \in {"positive", "neutral", "negative"} |->
        IF Known(counts) = 0 THEN 0 ELSE roundPercentage(counts[kind], Known(counts))]

calculateChange(current, previous) ==
    IF previous = 0 THEN (IF current > 0 THEN 1000 ELSE 0)
    ELSE roundPercentage(current - previous, previous)

calculateTrend(change) ==
    CASE change >= 50  -> "up"
      [] change <= -50 -> "down"
      [] OTHER         -> "stable"

Works(m, call) == Succeeds(m.status[call])

(* A term's earlier count is optional when issues are found automatically. *)
QuickIssues(m) ==
    {[name |-> t.name,
      trend |-> calculateTrend(calculateChange(t.current,
                    IF IssuesConfigured \/ Works(m, "previous") THEN t.previous ELSE 0))] :
     t \in m.terms}

Required ==
    {"summary", "sources", "terms"} \cup Areas
        \cup (IF IssuesConfigured THEN {"previous"} ELSE {})

(* The area a place stands for, if it is one of those that were loaded.    *)
Selected(area) ==
    {a \in Areas : area \in DOMAIN AreaOf /\ AreaOf[area] = a}

applyAreaScope(area, m) ==
    IF Selected(area) = {}
    THEN [scope |-> "national", mentions |-> m.counts["main"].total,
          sentiment |-> mapSentiment(m.counts["main"])]
    ELSE LET a == CHOOSE x \in Selected(area) : TRUE
         IN [scope |-> a,
             mentions |-> IF m.counts[a].total # 0 THEN m.counts[a].total
                          ELSE m.counts["main"].total,
             sentiment |-> mapSentiment(m.counts[a])]

Placeholder(scope) == [live |-> FALSE, scope |-> scope]

buildDashboard(area, m) ==
    LET data == applyAreaScope(area, m)
    IN [live |-> TRUE, scope |-> data.scope, mentions |-> data.mentions,
        sentiment |-> data.sentiment, issues |-> QuickIssues(m)]

(* Meltwater answers with numbers of documents, and names a term once.     *)
IsAnswer(m) ==
    /\ \A search \in Areas \cup {"main"} :
          \A kind \in {"positive", "neutral", "negative", "total"} : m.counts[search][kind] \in Nat
    /\ \A t \in m.terms : t.current \in Nat /\ t.previous \in Nat
    /\ \A t1, t2 \in m.terms : t1.name = t2.name => t1 = t2

(* A request names an area or, for legislative coverage, a district.       *)
Refuses(request, districts, parties) ==
    \/ request.mode = "legislative" /\ request.district = ""
    \/ request.district \notin districts \cup {""}
    \/ request.party \notin parties \cup {""}

ResolvedArea(request, jurisdiction) ==
    IF request.area # "" THEN request.area
    ELSE IF request.district # "" THEN jurisdiction[request.district] ELSE ""

(* A dashboard that cannot be built is answered with the placeholder.      *)
Dashboard(request, jurisdiction, m) ==
    IF \A call \in Required : Works(m, call)
    THEN buildDashboard(ResolvedArea(request, jurisdiction), m)
    ELSE Placeholder(request.area)
-----------------------------------------------------------------------------
(* An answer of the service is about the place that was asked for whenever *)
(* that place has a search; its shares add up to the whole or to nothing,  *)
(* within a rounding step; and an issue is called rising only if its count *)
(* rose or its earlier count was not to be had.                            *)
Sound(request, jurisdiction, m, data) ==
    LET area == ResolvedArea(request, jurisdiction)
        share == data.sentiment
        sum == share.positive + share.neutral + share.negative
    IN data.live =>
         /\ \A a \in Selected(area) :
               data.scope = a /\ (m.counts[a].total > 0 => data.mentions = m.counts[a].total)
         /\ Selected(area) = {} => data.scope = "national"
         /\ sum \in 999..1001 \cup {0}
         /\ \A i \in data.issues : \A t \in m.terms :
               i.name = t.name /\ i.trend = "up" =>
                   \/ t.current > t.previous
                   \/ ~Works(m, "previous")
=============================================================================
