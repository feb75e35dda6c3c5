---------------------------- MODULE MCElectionData ----------------------------
(***************************************************************************)
(* A TLC instance of ElectionData: the NCR with Taguig and Pateros, and a  *)
(* region with one province, a city X that may be split and a town whose   *)
(* name another province's town, in the same region, bears as well.        *)
(***************************************************************************)
EXTENDS ElectionData, TLC

CONSTANTS ncr, south, bay, hills, cityX, townM, townN, taguig, pateros,
          b1, b2, b3, b4, t1, t2, s1

MCParentOf == bay :> south @@ hills :> south @@ cityX :> bay @@ townM :> bay
                  @@ townN :> hills @@ taguig :> ncr @@ pateros :> ncr
MCDenotes == [n \in {"X", "San Jose", "Taguig"} |->
                CASE n = "X" -> {cityX}
                  [] n = "San Jose" -> {townM, townN}
                  [] n = "Taguig" -> {taguig}]

MCRows ==
    {[kind |-> "region", region |-> south, inReference |-> TRUE],
     [kind |-> "region", region |-> south, inReference |-> FALSE],
     [kind |-> "region", region |-> ncr, inReference |-> TRUE],
     [kind |-> "province", province |-> bay],
     [kind |-> "province", province |-> Nothing],
     [kind |-> "named", name |-> "X"],
     [kind |-> "listed", name |-> "San Jose"],
     [kind |-> "district", label |-> "1"],
     [kind |-> "district", label |-> "2"],
     [kind |-> "summary"],
     [kind |-> "shared"], [kind |-> "rest"],
     [kind |-> "metro", name |-> "Taguig", count |-> 1],
     [kind |-> "metro", name |-> "Taguig", count |-> 2],
     [kind |-> "metro", name |-> "X", count |-> 2]}

\* Files of a dataset in which districts divide Taguig only.
EarlierDistricts ==
    {[id |-> <<"taguig-pateros", "lone">>, region |-> ncr, jurisdiction |-> Nothing,
      status |-> "partial-boundary", whole |-> {pateros}, partial |-> {taguig}],
     [id |-> <<taguig, "lone">>, region |-> ncr, jurisdiction |-> taguig,
      status |-> "partial-boundary", whole |-> {}, partial |-> {taguig}]}
EarlierUnits(d) == IF d.jurisdiction = taguig THEN {t2} ELSE {t1}
EarlierInputs == [units |-> {t1, t2, pateros}, fetch |-> 0]

MCEarlierFiles ==
    [dataset |-> [districts |-> EarlierDistricts, clean |-> TRUE],
      subdivisions |-> {[id |-> d.id, barangays |-> EarlierUnits(d),
                         submunicipalities |-> {}] : d \in EarlierDistricts},
      reference |-> EarlierInputs,
      boundaries |-> [source |-> EarlierInputs, features |->
          {[id |-> d.id, localities |-> MembersOf(d),
            drawn |-> EarlierUnits(d) \cup d.whole,
            counts |-> CountsOf(EarlierUnits(d), d.whole),
            source |-> EarlierInputs, stale |-> FALSE] : d \in EarlierDistricts}]]

MCParentBelow == b1 :> cityX @@ b2 :> cityX @@ b3 :> s1 @@ b4 :> s1
                     @@ s1 :> cityX @@ t1 :> taguig @@ t2 :> taguig

Entry(id, l, barangays) == [id |-> id, locality |-> l, barangays |-> barangays]
TaguigEntries == {Entry(<<"taguig-pateros", "lone">>, taguig, {t1}),
                  Entry(<<taguig, "lone">>, taguig, {t2})}
Rest == {[id |-> <<cityX, "2">>, locality |-> cityX]}

\* The city's barangays in two parts, one by name and the other as the rest;
\* other parts; parts that leave a barangay out; parts that share one.
MCTables ==
    {[named |-> TaguigEntries \cup {Entry(<<cityX, "1">>, cityX, {b1, b2})},
      complement |-> Rest, numbered |-> {}],
     [named |-> TaguigEntries \cup {Entry(<<cityX, "1">>, cityX, {b1, b3, b4})},
      complement |-> Rest, numbered |-> {}],
     [named |-> TaguigEntries, complement |-> {},
      numbered |-> {Entry(<<cityX, "1">>, cityX, {b1, b2}),
                    Entry(<<cityX, "2">>, cityX, {b3})}],
     [named |-> TaguigEntries, complement |-> {},
      numbered |-> {Entry(<<cityX, "1">>, cityX, {b1, b2}),
                    Entry(<<cityX, "2">>, cityX, {b2, b3, b4})}]}

ASSUME FilesAssumption == EarlierFilesAreSound /\ TablesNameTheirCities
=============================================================================
