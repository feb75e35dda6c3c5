-------------------------------- MODULE WebApp --------------------------------
(***************************************************************************)
(* The web application: the session of AuthContext.tsx with the page the   *)
(* user has opened, the dashboard with its coverage filter                 *)
(* (CoverageSelection), the location page (LocationPanel) or the field     *)
(* reports (ReviewConsole).  The account can be switched on every page (the*)
(* account switcher of the shell); on the dashboard a switch also replaces *)
(* the coverage by the one the new account is assigned to, on the location *)
(* page if it is assigned to one.                                          *)
(***************************************************************************)
EXTENDS LocationPanel

VARIABLE page

otherVars == <<psaResponseCache, pendingPSARequests, handlers, malformed, geography, election,
               lists, flights, responseCache, shown, lostUpdate, overtaken>>

vars == <<consoleVars, serviceVars, selectionVars, panelVars, page>>

Init ==
    /\ page = ""
    /\ ConsoleInit
    /\ SelectionInit
    /\ PanelInit

OpenFieldReports ==
    /\ page = "" /\ page' = "fieldreports"
    /\ UNCHANGED <<consoleVars, serviceVars, selectionVars, panelVars>>

(* The other pages use nothing of the session but what the user is         *)
(* assigned to: the requests of the session and the reports are left out   *)
(* there.                                                                  *)
OpenOverview ==
    /\ page = "" /\ page' = "overview"
    /\ stored = [r \in Reports |-> ""]
    /\ \E b \in Bookmarks : Mount(AssignedTo[user], parseElectionSelection(b))
    /\ UNCHANGED <<consoleVars, panelVars>>

OpenLocation ==
    /\ page = "" /\ page' = "location"
    /\ stored = [r \in Reports |-> ""]
    /\ MountPanel(AssignedTo[user])
    /\ UNCHANGED <<consoleVars, otherVars, faults>>

FieldReportsStep ==
    /\ page = "fieldreports"
    /\ ConsoleNext
    /\ UNCHANGED <<serviceVars, selectionVars, panelVars, page>>

OverviewStep ==
    /\ page = "overview"
    /\ \/ SelectionNext /\ UNCHANGED consoleVars
       \/ \E u \in Users : SwitchUser(u) /\ Reassign(u)
    /\ UNCHANGED <<panelVars, page>>

LocationStep ==
    /\ page = "location"
    /\ \/ PanelNext /\ UNCHANGED consoleVars
       \/ \E u \in Users : SwitchUser(u) /\ Relocate(u) /\ UNCHANGED faults
    /\ UNCHANGED <<otherVars, page>>

Next ==
    \/ OpenFieldReports \/ OpenOverview \/ OpenLocation
    \/ FieldReportsStep \/ OverviewStep \/ LocationStep

Fairness == ConsoleFairness

Spec == Init /\ [][Next]_vars /\ Fairness
=============================================================================
