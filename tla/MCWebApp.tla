------------------------------- MODULE MCWebApp -------------------------------
EXTENDS WebApp

Unit(code, level, prv) == [code |-> code, level |-> level, prv |-> prv]

(* A region of two provinces and an independent city, and the capital.     *)
MCPages ==
    [R   |-> <<{Unit("P", "prov", "P"), Unit("pc", "city", "P"), Unit("ic", "city", "")},
               {Unit("Q", "prov", "Q"), Unit("qm", "mun", "Q")}>>,
     NCR |-> <<{Unit("n1", "city", "")}, {Unit("n2", "city", "")}>>]

MCNCRDistricts == [D1 |-> {"n1"}, D2 |-> {"n2"}]

(* A built-in account for the nation, stored before accounts had a tier,   *)
(* and one that was created for a province.                                *)
NoFields == [superadmin |-> FALSE, tier |-> Absent, home |-> Absent, scope |-> Absent,
             coverage |-> Absent, province |-> Absent, region |-> Absent]
MCTestUsers == [u1 |-> [NoFields EXCEPT !.superadmin = TRUE, !.tier = "national"]]
MCStoredUsers ==
    [u1 |-> [NoFields EXCEPT !.superadmin = TRUE],
     u2 |-> createTestUser([tier |-> "provincial-partylist", home |-> "Home", region |-> "R",
                            scope |-> "province", coverage |-> "P", province |-> ""])]

MCHomeGeography == [City |-> [National EXCEPT !.region = "NCR", !.locality = "n1"]]

District(region, jurisdiction, members) ==
    [region |-> region, jurisdiction |-> jurisdiction, members |-> members]

MCLegislativeData ==
    [LP  |-> District("R", "P", [pc |-> "P", ic |-> ""]),
     LQ  |-> District("R", "Q", [qm |-> "Q"]),
     LN1 |-> District("NCR", "n1", [n1 |-> ""]),
     LN2 |-> District("NCR", "n1", [n1 |-> ""])]

Bookmark(mode, district, party) == [mode |-> mode, district |-> district, party |-> party]

MCBookmarks ==
    {Bookmark("administrative", "", "A"), Bookmark("legislative", "LP", "A")}

Counts(p, n, g, t) == [positive |-> p, neutral |-> n, negative |-> g, total |-> t]
AllWork ==
    [c \in {"summary", "sources", "terms", "previous", "P", "n1"} |-> <<200, 200, 200>>]

MCMeltwater ==
    <<[status |-> [AllWork EXCEPT !["previous"] = <<500, 200, 200>>, !["P"] = <<429, 503, 200>>],
       counts |-> [main |-> Counts(1, 1, 1, 4), P |-> Counts(2, 0, 1, 3), n1 |-> Counts(0, 0, 0, 0)],
       terms  |-> {[name |-> "flood", current |-> 3, previous |-> 4],
                   [name |-> "roads", current |-> 2, previous |-> 0]}],
      [status |-> [AllWork EXCEPT !["n1"] = <<429, 429, 429>>],
       counts |-> [main |-> Counts(1, 0, 0, 1), P |-> Counts(0, 0, 0, 0), n1 |-> Counts(0, 0, 0, 0)],
       terms  |-> {}]>>

(* The city of the first NCR district is drawn as its two parts.           *)
Polygon(code, place, under) == [code |-> code, codes |-> {code, place}, of |-> under \cup {code}]
MCPolygons ==
    {Polygon("pc", "P", {"R", "P"}), Polygon("qm", "Q", {"R", "Q"}), Polygon("ic", "ic", {"R"}),
     Polygon("n1a", "D1", {"NCR", "D1", "n1"}), Polygon("n1b", "D1", {"NCR", "D1", "n1"}),
     Polygon("n2", "D2", {"NCR", "D2"})}
MCRegionPolygons == {Polygon(reg, reg, {}) : reg \in {"R", "NCR"}}
MCDistrictPolygons == [LP |-> Polygon("LP", "LP", {})]

(* The accounts above are assigned to places of the hierarchy.             *)
ASSUME AccountsAssumption == AccountsAreNested /\ AccountsHavePlaces

MCAreaOf == [P |-> "P", pc |-> "P", n1 |-> "n1"]
MCAddressed == [u1 |-> {"r1"}, u2 |-> {"r1", "r2"}]
=============================================================================
