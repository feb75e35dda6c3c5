---------------------------- MODULE ReviewConsole ----------------------------
(***************************************************************************)
(* The Field Reports page of the web application and the session it works  *)
(* with (frontend/src/contexts/AuthContext.tsx, pages/FieldReportsPage.tsx,*)
(* services/fieldReportsApi.ts).                                           *)
(*                                                                         *)
(* The signed-in user can be switched at any time.  A switch aborts the    *)
(* requests of the session and of the list (their live flag is cleared: an *)
(* answer to them is ignored); it does not abort the requests that change  *)
(* or submit a report.  The list is loaded when the session is there, and  *)
(* again every 15 seconds and whenever the window gets the focus; lists    *)
(* may be answered in any order.                                           *)
(*                                                                         *)
(* The server is represented by the reports it stores, each with a status, *)
(* and by Addressed, the reports it lists for a user.  The history         *)
(* variable late holds the reports whose submission by an earlier user was *)
(* answered after the switch.                                              *)
(***************************************************************************)
EXTENDS Integers, FiniteSets

CONSTANTS Users, Reports, None,
          Addressed,         \* user |-> the reports the server lists for it
          MaxSwitches, MaxEdits, MaxLists

VARIABLES stored, user, session, joining, listing, editing, reports, late, switches, edits

consoleVars ==
    <<stored, user, session, joining, listing, editing, reports, late, switches, edits>>

ASSUME AddressedAssumption == Addressed \in [Users -> SUBSET Reports]
ASSUME NoneAssumption == None \notin Users

(* The page shows fewer statuses than the server knows.                    *)
ApiStatuses == {"submitted", "under-review", "verified", "rejected", "needs-follow-up"}
ReportStatuses == {"Pending review", "Reviewed", "Follow-up"}

dashboardStatusFromApi ==
    [s \in ApiStatuses |->
        CASE s \in {"verified", "rejected"} -> "Reviewed"
          [] s = "needs-follow-up"          -> "Follow-up"
          [] OTHER                          -> "Pending review"]

apiStatusFromDashboard ==
    [s \in ReportStatuses |->
        CASE s = "Reviewed"  -> "verified"
          [] s = "Follow-up" -> "needs-follow-up"
          [] OTHER           -> "under-review"]

(* What the server answers for a report, "" when it has none.              *)
Row(r) == IF stored[r] \in ApiStatuses THEN dashboardStatusFromApi[stored[r]] ELSE ""
View(u) == [r \in Reports |-> IF r \in Addressed[u] THEN Row(r) ELSE ""]
NoReports == [r \in Reports |-> ""]
Rows == [Reports -> ReportStatuses \cup {""}]

NotAborted(requests) == requests
Aborted(requests) == {[q EXCEPT !.live = FALSE] : q \in requests}
NewList == [user |-> user, live |-> TRUE, read |-> FALSE, rows |-> NoReports]

Joins == [user : Users, live : BOOLEAN, step : {"session", "recipients"}]
Lists == [user : Users, live : BOOLEAN, read : BOOLEAN, rows : Rows]
Edits == [user : Users, report : Reports, creates : BOOLEAN,
          to : ApiStatuses \cup {""}, answer : ReportStatuses \cup {""}]
-----------------------------------------------------------------------------
ConsoleInit ==
    /\ stored \in [Reports -> {"", "submitted"}]
    /\ user \in Users
    /\ session = None
    /\ joining = {[user |-> user, live |-> TRUE, step |-> "session"]}
    /\ listing = {} /\ editing = {}
    /\ reports = NoReports /\ late = {}
    /\ switches = 0 /\ edits = 0

(* The effects of a switch: the page drops its list, a session is opened.  *)
SwitchUser(u) ==
    /\ u # user /\ switches < MaxSwitches
    /\ user' = u /\ session' = None
    /\ joining' = Aborted(joining) \cup {[user |-> u, live |-> TRUE, step |-> "session"]}
    /\ listing' = Aborted(listing)
    /\ reports' = NoReports /\ late' = {}
    /\ switches' = switches + 1
    /\ UNCHANGED <<stored, editing, edits>>

SessionCreated(j) ==
    /\ j.step = "session"
    /\ joining' = (joining \ {j}) \cup
                  (IF j.live THEN {[j EXCEPT !.step = "recipients"]} ELSE {})
    /\ UNCHANGED <<stored, user, session, listing, editing, reports, late, switches, edits>>

(* A session is usable whether or not the accounts could be synchronised.  *)
SessionUsable(j) ==
    /\ j.step = "recipients"
    /\ joining' = joining \ {j}
    /\ session' = IF j.live THEN j.user ELSE session
    /\ listing' = IF j.live THEN listing \cup {NewList} ELSE listing
    /\ UNCHANGED <<stored, user, editing, reports, late, switches, edits>>

SessionFailed(j) ==
    /\ j.step = "session"
    /\ joining' = joining \ {j}
    /\ UNCHANGED <<stored, user, session, listing, editing, reports, late, switches, edits>>

RefreshOfEmptyPage ==
    /\ session = user /\ reports = NoReports
    /\ listing' = listing \cup {NewList}
    /\ Cardinality(listing') <= MaxLists
    /\ UNCHANGED <<stored, user, session, joining, editing, reports, late, switches, edits>>

(* The interval of 15 seconds, or the window gets the focus.               *)
Refresh ==
    /\ session = user
    /\ listing' = listing \cup {NewList}
    /\ Cardinality(listing') <= MaxLists
    /\ UNCHANGED <<stored, user, session, joining, editing, reports, late, switches, edits>>

ListRead(l) ==
    /\ ~l.read
    /\ listing' = (listing \ {l}) \cup {[l EXCEPT !.read = TRUE, !.rows = View(l.user)]}
    /\ UNCHANGED <<stored, user, session, joining, editing, reports, late, switches, edits>>

ListApplied(l) ==
    /\ l.read
    /\ listing' = listing \ {l}
    /\ reports' = IF l.live THEN l.rows ELSE reports
    /\ late' = IF l.live THEN {} ELSE late
    /\ UNCHANGED <<stored, user, session, joining, editing, switches, edits>>

ListFailed(l) ==
    /\ listing' = listing \ {l}
    /\ UNCHANGED <<stored, user, session, joining, editing, reports, late, switches, edits>>
-----------------------------------------------------------------------------
(* A status, an assignee or the evidence of a report is changed, or a new  *)
(* report is submitted; to is "" when the status is not what is changed.   *)
Edit(r, creates, to) ==
    /\ session = user /\ edits < MaxEdits
    /\ IF creates
       THEN /\ stored[r] = "" /\ r \in Addressed[user]
            /\ \A e \in editing : ~(e.creates /\ e.report = r)
       ELSE reports[r] # ""
    /\ editing' = editing \cup {[user |-> user, report |-> r, creates |-> creates,
                                 to |-> to, answer |-> ""]}
    /\ edits' = edits + 1
    /\ UNCHANGED <<stored, user, session, joining, listing, reports, late, switches>>

Request ==
    \E r \in Reports :
        \/ \E to \in ReportStatuses : Edit(r, FALSE, apiStatusFromDashboard[to])
        \/ Edit(r, FALSE, "")
        \/ Edit(r, TRUE, "submitted")

Saved(e) ==
    /\ e.answer = ""
    /\ stored' = IF e.to = "" THEN stored ELSE [stored EXCEPT ![e.report] = e.to]
    /\ editing' = (editing \ {e}) \cup
           {[e EXCEPT !.answer = dashboardStatusFromApi[stored'[e.report]]]}
    /\ UNCHANGED <<user, session, joining, listing, reports, late, switches, edits>>

EditFailed(e) ==
    /\ editing' = editing \ {e}
    /\ UNCHANGED <<stored, user, session, joining, listing, reports, late, switches, edits>>

(* A changed report replaces its row, a new one is put before the others.  *)
EditAnswered(e) ==
    /\ e.answer # ""
    /\ editing' = editing \ {e}
    /\ reports' = IF e.creates \/ reports[e.report] # ""
                  THEN [reports EXCEPT ![e.report] = e.answer] ELSE reports
    /\ late' = IF e.creates /\ e.user # user THEN late \cup {e.report} ELSE late
    /\ UNCHANGED <<stored, user, session, joining, listing, switches, edits>>

(* Another reviewer decides, on another page or another machine.           *)
DecidedElsewhere(r, s) ==
    /\ stored[r] # "" /\ stored[r] # s /\ edits < MaxEdits
    /\ stored' = [stored EXCEPT ![r] = s]
    /\ edits' = edits + 1
    /\ UNCHANGED <<user, session, joining, listing, editing, reports, late, switches>>

ConsoleNext ==
    \/ \E u \in Users : SwitchUser(u)
    \/ \E j \in joining : SessionCreated(j) \/ SessionUsable(j) \/ SessionFailed(j)
    \/ Refresh \/ Request
    \/ \E l \in listing : ListRead(l) \/ ListApplied(l) \/ ListFailed(l)
    \/ \E e \in editing : Saved(e) \/ EditAnswered(e) \/ EditFailed(e)
    \/ \E r \in Reports : DecidedElsewhere(r, "rejected")

(* The server and the network answer again and again, and the interval of  *)
(* the page keeps firing: a list that fails is asked for again.            *)
ConsoleFairness ==
    /\ SF_consoleVars(Refresh)
    /\ SF_consoleVars(\E l \in listing : ListRead(l))
    /\ SF_consoleVars(\E l \in listing : ListApplied(l))

ConsoleSpec == ConsoleInit /\ [][ConsoleNext]_consoleVars
-----------------------------------------------------------------------------
ConsoleTypeOK ==
    /\ stored \in [Reports -> ApiStatuses \cup {""}]
    /\ user \in Users /\ session \in Users \cup {None}
    /\ joining \subseteq Joins /\ listing \subseteq Lists /\ editing \subseteq Edits
    /\ reports \in Rows /\ late \subseteq Reports
    /\ switches \in Nat /\ edits \in Nat

(* Whatever is answered late after a switch of the account, the page works *)
(* with the session of the user it shows, and the reports it shows are     *)
(* that user's, but for one that an earlier user had just submitted: its   *)
(* answer is put into the list of the next user, where it stays until the  *)
(* list is loaded again.                                                   *)
ShownIsAddressed ==
    /\ ConsoleTypeOK
    /\ session \in {user, None}
    /\ \A r \in Reports : reports[r] # "" => r \in Addressed[user] \cup late

(* Lists are answered in any order and a change is shown before or after a *)
(* list that does not know it: once nothing changes any more, the page of  *)
(* a user with a session comes to show what the server stores, and stays.  *)
ListConverges == <>[](session = user => reports = View(user))
=============================================================================
