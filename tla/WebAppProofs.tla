---------------------------- MODULE WebAppProofs ----------------------------
(***************************************************************************)
(* Machine-checked proofs about the web application.                       *)
(*                                                                         *)
(* The first part is about the session and the Field Reports page          *)
(* (ReviewConsole): for any number of users, reports and requests under    *)
(* way, in any order of the answers.  The second part takes it to the      *)
(* whole application (WebApp): every step is a step of ReviewConsole or    *)
(* leaves the session and the reports alone.                               *)
(*                                                                         *)
(* The third part is about the coverage filter and the dashboard: for every*)
(* hierarchy of places, every number of pages and requests, every order of *)
(* the answers, and failing or malformed ones.  It has an invariant of the *)
(* geography routes (ServiceInv) and one of the page (SelectionInv): each  *)
(* list, cached answer and request under way is the one for what is        *)
(* selected now.  The fourth part is about the dashboard itself: the       *)
(* rounding of its shares and the trends of its issues, for every number   *)
(* of documents.                                                           *)
(*                                                                         *)
(* The last part is about the location page, for every hierarchy, every    *)
(* set of polygons and every order of choices and answers: the page is at  *)
(* a place that has localities (IsPlace), its lists and its polygons are   *)
(* those of that place, or are on their way (PanelInv).                    *)
(***************************************************************************)
EXTENDS WebApp, FiniteSetTheorems, TLAPS

(* Requests that are still listened to belong to the user on the page, and *)
(* so does the session.                                                    *)
LiveRequestsAreCurrent ==
    /\ session \in {user, None}
    /\ \A j \in joining : j.live => j.user = user
    /\ \A l \in listing : l.live => l.user = user

(* A list on its way holds stored reports of the user it was asked for.    *)
ListsAreAddressed ==
    \A l \in listing : \A r \in Reports :
        l.rows[r] # "" => r \in Addressed[l.user] /\ stored[r] # ""

(* A report on the page exists and belongs there, or was answered late.    *)
ShownExists ==
    \A r \in Reports :
        reports[r] # "" => stored[r] # "" /\ r \in Addressed[user] \cup late

(* Only reports that exist are changed, and users submit their own.        *)
EditsAreOwn ==
    \A e \in editing :
        /\ e.creates \/ stored[e.report] # ""
        /\ e.creates => e.to = "submitted" /\ e.report \in Addressed[e.user]
        /\ e.answer # "" => stored[e.report] # ""

ConsoleInv ==
    /\ ConsoleTypeOK
    /\ LiveRequestsAreCurrent
    /\ ListsAreAddressed
    /\ ShownExists
    /\ EditsAreOwn
-----------------------------------------------------------------------------
LEMMA StatusMaps ==
    /\ \A s \in ApiStatuses : dashboardStatusFromApi[s] \in ReportStatuses
    /\ \A s \in ReportStatuses : apiStatusFromDashboard[s] \in ApiStatuses
    /\ "" \notin ReportStatuses
    /\ "" \notin ApiStatuses
BY DEF dashboardStatusFromApi, apiStatusFromDashboard, ApiStatuses, ReportStatuses

(* What the server answers: rows of stored reports addressed to the user.  *)
LEMMA ViewIsAddressed ==
    ASSUME NEW u \in Users, ConsoleTypeOK
    PROVE  /\ View(u) \in Rows
           /\ \A r \in Reports : View(u)[r] # "" => r \in Addressed[u] /\ stored[r] # ""
<1>1. \A r \in Reports : Row(r) \in ReportStatuses \cup {""} /\ (Row(r) # "" => stored[r] # "")
  BY StatusMaps DEF Row
<1> QED BY <1>1 DEF View, Rows

(* An aborted request is the same request, no longer listened to.          *)
LEMMA AbortedJoins ==
    ASSUME ConsoleTypeOK, NEW j \in Aborted(joining)
    PROVE  j \in Joins /\ ~j.live
<1>1. PICK q \in joining : j = [q EXCEPT !.live = FALSE]
  BY Zenon DEF Aborted
<1>2. q \in Joins
  BY DEF ConsoleTypeOK
<1> QED BY <1>1, <1>2 DEF Joins

LEMMA AbortedLists ==
    ASSUME ConsoleTypeOK, NEW l \in Aborted(listing)
    PROVE  /\ l \in Lists /\ ~l.live
           /\ \E k \in listing : l.user = k.user /\ l.rows = k.rows
<1>1. PICK q \in listing : l = [q EXCEPT !.live = FALSE]
  BY Zenon DEF Aborted
<1>2. q \in Lists
  BY DEF ConsoleTypeOK
<1>3. l \in Lists /\ ~l.live /\ l.user = q.user /\ l.rows = q.rows
  BY <1>1, <1>2 DEF Lists
<1> QED BY <1>3

LEMMA CountersType ==
    ASSUME ConsoleTypeOK
    PROVE  switches + 1 \in Nat /\ edits + 1 \in Nat
<1>1. switches \in Nat /\ edits \in Nat
  BY DEF ConsoleTypeOK
<1> QED BY <1>1

LEMMA NewListType ==
    ASSUME ConsoleTypeOK
    PROVE  /\ NewList \in Lists
           /\ NewList.user = user
           /\ \A r \in Reports : NewList.rows[r] = ""
BY DEF NewList, Lists, Rows, NoReports, ConsoleTypeOK

LEMMA InitEstablishesConsole == ConsoleInit => ConsoleInv
<1> SUFFICES ASSUME ConsoleInit PROVE ConsoleInv
  OBVIOUS
<1> USE DEF ConsoleInit
<1>1. stored \in [Reports -> ApiStatuses \cup {""}]
  <2>1. {"", "submitted"} \subseteq ApiStatuses \cup {""}
    BY DEF ApiStatuses
  <2> QED BY <2>1
<1>2. joining \subseteq Joins /\ \A j \in joining : j.user = user
  <2>1. user \in Users
    OBVIOUS
  <2>2. PICK j : joining = {j} /\ j = [user |-> user, live |-> TRUE, step |-> "session"]
    OBVIOUS
  <2>3. j \in Joins /\ j.user = user
    BY <2>1, <2>2 DEF Joins
  <2> QED BY <2>2, <2>3
<1>3. reports \in Rows
  BY DEF NoReports, Rows
<1>4. ConsoleTypeOK
  BY <1>1, <1>2, <1>3 DEF ConsoleTypeOK
<1>5. LiveRequestsAreCurrent
  BY <1>2 DEF LiveRequestsAreCurrent
<1>6. ListsAreAddressed /\ EditsAreOwn
  BY DEF ListsAreAddressed, EditsAreOwn
<1>7. ShownExists
  <2>1. \A r \in Reports : reports[r] = ""
    BY DEF NoReports
  <2> QED BY <2>1 DEF ShownExists
<1> QED BY <1>4, <1>5, <1>6, <1>7 DEF ConsoleInv

-----------------------------------------------------------------------------
(* A switch of the account: what is on its way is no longer listened to,   *)
(* and the page starts anew.                                               *)
LEMMA SwitchPreserves ==
    ASSUME ConsoleInv, NEW u \in Users, SwitchUser(u)
    PROVE  ConsoleInv'
<1> USE DEF ConsoleInv
<1>0. /\ user' = u /\ session' = None
      /\ listing' = Aborted(listing)
      /\ reports' = NoReports /\ late' = {}
      /\ switches' = switches + 1
      /\ UNCHANGED <<stored, editing, edits>>
  BY DEF SwitchUser
<1>1. Aborted(joining) \subseteq Joins /\ \A j \in Aborted(joining) : ~j.live
  BY AbortedJoins
<1>2. /\ Aborted(listing) \subseteq Lists
      /\ \A l \in Aborted(listing) : ~l.live /\ \E k \in listing : l.user = k.user /\ l.rows = k.rows
  BY AbortedLists
<1>3. joining' \subseteq Joins /\ \A j \in joining' : j.live => j.user = u
  <2>1. PICK j : /\ j = [user |-> u, live |-> TRUE, step |-> "session"]
                 /\ joining' = Aborted(joining) \cup {j}
    BY DEF SwitchUser
  <2>2. j \in Joins /\ j.user = u
    BY <2>1 DEF Joins
  <2> QED BY <1>1, <2>1, <2>2
<1>4. reports' \in Rows /\ \A r \in Reports : reports'[r] = ""
  BY <1>0 DEF NoReports, Rows
<1>5. ConsoleTypeOK'
  <2>1. (stored \in [Reports -> ApiStatuses \cup {""}] /\ editing \subseteq Edits /\ edits \in Nat)'
    BY <1>0 DEF ConsoleTypeOK
  <2>2. (user \in Users /\ session \in Users \cup {None} /\ late \subseteq Reports)'
    BY <1>0
  <2>3. switches' \in Nat
    BY <1>0, CountersType
  <2>4. listing' \subseteq Lists
    BY <1>0, <1>2
  <2> QED BY <1>3, <1>4, <2>1, <2>2, <2>3, <2>4 DEF ConsoleTypeOK
<1>6. LiveRequestsAreCurrent'
  BY <1>0, <1>2, <1>3 DEF LiveRequestsAreCurrent
<1>7. ListsAreAddressed'
  BY <1>0, <1>2, ZenonT(60) DEF ListsAreAddressed
<1>8. ShownExists' /\ EditsAreOwn'
  BY <1>0, <1>4 DEF ShownExists, EditsAreOwn
<1> QED BY <1>5, <1>6, <1>7, <1>8

(* The requests of the session: an answer counts while it is listened to,  *)
(* that is, for the user on the page.                                      *)
LEMMA JoiningPreserves ==
    ASSUME ConsoleInv, NEW j \in joining,
           SessionCreated(j) \/ SessionUsable(j) \/ SessionFailed(j)
    PROVE  ConsoleInv'
<1> USE DEF ConsoleInv
<1>1. UNCHANGED <<stored, user, editing, reports, late, switches, edits>>
  BY DEF SessionCreated, SessionUsable, SessionFailed
<1>2. ShownExists' /\ EditsAreOwn'
  BY <1>1 DEF ShownExists, EditsAreOwn
<1>3. CASE SessionCreated(j) \/ SessionFailed(j)
  <2>1. /\ joining' \subseteq Joins
        /\ \A k \in joining' : k.live => k.user = user
        /\ UNCHANGED <<session, listing>>
    BY <1>3 DEF SessionCreated, SessionFailed, ConsoleTypeOK, Joins, LiveRequestsAreCurrent
  <2> QED
    BY <1>1, <1>2, <2>1 DEF ConsoleTypeOK, LiveRequestsAreCurrent, ListsAreAddressed
<1>4. CASE SessionUsable(j)
  <2>1. joining' \subseteq joining /\ (j.live => j.user = user)
    BY <1>4 DEF SessionUsable, LiveRequestsAreCurrent
  <2>2. session' \in {user, None}
    BY <1>4, <2>1 DEF SessionUsable, LiveRequestsAreCurrent
  <2>3. listing' \subseteq listing \cup {NewList}
    BY <1>4 DEF SessionUsable
  <2>4. ConsoleTypeOK'
    BY <1>1, <2>1, <2>2, <2>3, NewListType DEF ConsoleTypeOK
  <2>5. LiveRequestsAreCurrent'
    BY <1>1, <2>1, <2>2, <2>3, NewListType DEF LiveRequestsAreCurrent
  <2>6. ListsAreAddressed'
    BY <1>1, <2>3, NewListType DEF ListsAreAddressed
  <2> QED BY <1>2, <2>4, <2>5, <2>6
<1> QED BY <1>3, <1>4

(* A refresh asks for the list of the user on the page.                    *)
LEMMA RefreshPreserves ==
    ASSUME ConsoleInv, Refresh
    PROVE  ConsoleInv'
<1> USE DEF ConsoleInv
<1>1. /\ listing' = listing \cup {NewList}
      /\ UNCHANGED <<stored, user, session, joining, editing, reports, late, switches, edits>>
  BY DEF Refresh
<1>2. ConsoleTypeOK'
  BY <1>1, NewListType DEF ConsoleTypeOK
<1>3. LiveRequestsAreCurrent'
  BY <1>1, NewListType DEF LiveRequestsAreCurrent
<1>4. ListsAreAddressed'
  BY <1>1, NewListType DEF ListsAreAddressed
<1>5. ShownExists' /\ EditsAreOwn'
  BY <1>1 DEF ShownExists, EditsAreOwn
<1> QED BY <1>2, <1>3, <1>4, <1>5

(* The list is read on the server, and shown if it is still listened to.   *)
LEMMA ListingPreserves ==
    ASSUME ConsoleInv, NEW l \in listing, ListRead(l) \/ ListApplied(l) \/ ListFailed(l)
    PROVE  ConsoleInv'
<1> USE DEF ConsoleInv
<1>1. UNCHANGED <<stored, user, session, joining, editing, switches, edits>>
  BY DEF ListRead, ListApplied, ListFailed
<1>2. l \in Lists
  BY DEF ConsoleTypeOK
<1>3. EditsAreOwn'
  BY <1>1 DEF EditsAreOwn
<1>4. CASE ListRead(l)
  <2>1. PICK k : /\ k = [l EXCEPT !.read = TRUE, !.rows = View(l.user)]
                 /\ listing' = (listing \ {l}) \cup {k}
    BY <1>4 DEF ListRead
  <2>2. l.user \in Users /\ View(l.user) \in Rows
    BY <1>2, ViewIsAddressed DEF Lists
  <2>3. k \in Lists /\ k.user = l.user /\ k.live = l.live /\ k.rows = View(l.user)
    BY <1>2, <2>1, <2>2 DEF Lists
  <2>4. UNCHANGED <<reports, late>>
    BY <1>4 DEF ListRead
  <2>5. ConsoleTypeOK' /\ LiveRequestsAreCurrent'
    BY <1>1, <2>1, <2>3, <2>4 DEF ConsoleTypeOK, LiveRequestsAreCurrent
  <2>6. ListsAreAddressed'
    <3>1. \A r \in Reports : k.rows[r] # "" => r \in Addressed[k.user] /\ stored[r] # ""
      BY <2>2, <2>3, ViewIsAddressed
    <3> QED BY <1>1, <2>1, <3>1 DEF ListsAreAddressed
  <2>7. ShownExists'
    BY <1>1, <2>4 DEF ShownExists
  <2> QED BY <1>3, <2>5, <2>6, <2>7
<1>5. CASE ListApplied(l) \/ ListFailed(l)
  <2>1. listing' \subseteq listing
    BY <1>5 DEF ListApplied, ListFailed
  <2>2. LiveRequestsAreCurrent' /\ ListsAreAddressed'
    BY <1>1, <2>1 DEF LiveRequestsAreCurrent, ListsAreAddressed
  <2>3. \/ UNCHANGED <<reports, late>>
        \/ l.live /\ reports' = l.rows /\ late' = {}
    BY <1>5 DEF ListApplied, ListFailed
  <2>4. reports' \in Rows /\ late' \subseteq Reports
    BY <1>2, <2>3 DEF ConsoleTypeOK, Lists
  <2>5. ConsoleTypeOK'
    BY <1>1, <2>1, <2>4 DEF ConsoleTypeOK
  <2>6. ShownExists'
    BY <1>1, <2>3 DEF ShownExists, ListsAreAddressed, LiveRequestsAreCurrent
  <2> QED BY <1>3, <2>2, <2>5, <2>6
<1> QED BY <1>4, <1>5

-----------------------------------------------------------------------------
(* A request is made by the user on the page, about a report that is shown *)
(* or about a new one of that user.                                        *)
LEMMA RequestPreserves ==
    ASSUME ConsoleInv, Request
    PROVE  ConsoleInv'
<1> USE DEF ConsoleInv
<1>1. PICK r \in Reports, creates \in BOOLEAN, to \in ApiStatuses \cup {""} :
        Edit(r, creates, to) /\ (creates => to = "submitted")
  <2>1. "submitted" \in ApiStatuses
    BY DEF ApiStatuses
  <2> QED BY <2>1, StatusMaps DEF Request
<1>2. PICK e : /\ e = [user |-> user, report |-> r, creates |-> creates, to |-> to, answer |-> ""]
               /\ editing' = editing \cup {e}
  BY <1>1 DEF Edit
<1>3. e \in Edits
  BY <1>2 DEF Edits, ConsoleTypeOK
<1>4. /\ edits' = edits + 1
      /\ UNCHANGED <<stored, user, session, joining, listing, reports, late, switches>>
  BY <1>1 DEF Edit
<1>5. ConsoleTypeOK'
  BY <1>2, <1>3, <1>4, CountersType DEF ConsoleTypeOK
<1>6. LiveRequestsAreCurrent' /\ ListsAreAddressed' /\ ShownExists'
  BY <1>4 DEF LiveRequestsAreCurrent, ListsAreAddressed, ShownExists
<1>7. /\ e.user = user /\ e.report = r /\ e.creates = creates /\ e.to = to /\ e.answer = ""
  BY <1>2
<1>8. IF creates THEN r \in Addressed[user] ELSE reports[r] # ""
  BY <1>1 DEF Edit
<1>9. EditsAreOwn'
  BY <1>1, <1>2, <1>4, <1>7, <1>8 DEF EditsAreOwn, ShownExists
<1> QED BY <1>5, <1>6, <1>9

(* No step of the server takes a stored report away.                       *)
LEMMA StoredKept ==
    ASSUME ConsoleInv, NEW r \in Reports, NEW to \in ApiStatuses,
           stored' = [stored EXCEPT ![r] = to]
    PROVE  /\ stored' \in [Reports -> ApiStatuses \cup {""}]
           /\ stored'[r] = to
           /\ \A q \in Reports : stored[q] # "" => stored'[q] # ""
<1>1. stored \in [Reports -> ApiStatuses \cup {""}]
  BY DEF ConsoleInv, ConsoleTypeOK
<1> QED BY <1>1, StatusMaps

(* The server stores what is asked for and answers with its status.        *)
LEMMA SavedPreserves ==
    ASSUME ConsoleInv, NEW e \in editing, Saved(e)
    PROVE  ConsoleInv'
<1> USE DEF ConsoleInv
<1>1. UNCHANGED <<user, session, joining, listing, reports, late, switches, edits>>
  BY DEF Saved
<1>2. e \in Edits
  BY DEF ConsoleTypeOK
<1>3. /\ stored' \in [Reports -> ApiStatuses \cup {""}]
      /\ stored'[e.report] \in ApiStatuses
      /\ \A q \in Reports : stored[q] # "" => stored'[q] # ""
  <2>1. CASE e.to = ""
    <3>1. stored' = stored /\ stored[e.report] # ""
      BY <2>1 DEF Saved, EditsAreOwn
    <3>2. e.report \in Reports /\ stored \in [Reports -> ApiStatuses \cup {""}]
      BY <1>2 DEF Edits, ConsoleTypeOK
    <3> QED BY <3>1, <3>2
  <2>2. CASE e.to # ""
    <3>1. e.to \in ApiStatuses /\ e.report \in Reports
      BY <1>2, <2>2 DEF Edits
    <3>2. stored' = [stored EXCEPT ![e.report] = e.to]
      BY <2>2 DEF Saved
    <3> QED BY <3>1, <3>2, StoredKept
  <2> QED BY <2>1, <2>2
<1>4. PICK k : /\ k = [e EXCEPT !.answer = dashboardStatusFromApi[stored'[e.report]]]
               /\ editing' = (editing \ {e}) \cup {k}
  BY DEF Saved
<1>5. dashboardStatusFromApi[stored'[e.report]] \in ReportStatuses
  BY <1>3, StatusMaps
<1>6. /\ k \in Edits /\ k.report = e.report /\ k.creates = e.creates
      /\ k.to = e.to /\ k.user = e.user
  BY <1>2, <1>4, <1>5 DEF Edits
<1>7. ConsoleTypeOK'
  BY <1>1, <1>3, <1>4, <1>6 DEF ConsoleTypeOK
<1>8. LiveRequestsAreCurrent'
  BY <1>1 DEF LiveRequestsAreCurrent
<1>9. ListsAreAddressed' /\ ShownExists'
  BY <1>1, <1>3 DEF ListsAreAddressed, ShownExists
<1>10. \A q \in editing : q.report \in Reports
  BY DEF ConsoleTypeOK, Edits
<1>11. EditsAreOwn'
  BY <1>3, <1>4, <1>6, <1>10, StatusMaps DEF EditsAreOwn
<1> QED BY <1>7, <1>8, <1>9, <1>11

(* The answer to a change replaces a row that is there; the answer to a    *)
(* submission adds one, of the user on the page or counted as late.        *)
LEMMA AnsweredPreserves ==
    ASSUME ConsoleInv, NEW e \in editing, EditAnswered(e) \/ EditFailed(e)
    PROVE  ConsoleInv'
<1> USE DEF ConsoleInv
<1>1. /\ editing' \subseteq editing
      /\ UNCHANGED <<stored, user, session, joining, listing, switches, edits>>
  BY DEF EditAnswered, EditFailed
<1>2. /\ e.report \in Reports /\ e.creates \in BOOLEAN
      /\ e.answer \in ReportStatuses \cup {""}
  BY DEF ConsoleTypeOK, Edits
<1>3. LiveRequestsAreCurrent' /\ ListsAreAddressed' /\ EditsAreOwn'
  BY <1>1 DEF LiveRequestsAreCurrent, ListsAreAddressed, EditsAreOwn
<1>4. reports \in [Reports -> ReportStatuses \cup {""}] /\ late \subseteq Reports
  BY DEF ConsoleTypeOK, Rows
<1>5. CASE UNCHANGED <<reports, late>>
  BY <1>1, <1>3, <1>5 DEF ConsoleTypeOK, ShownExists
<1>6. CASE EditAnswered(e) /\ (e.creates \/ reports[e.report] # "")
  <2>1. /\ reports' = [reports EXCEPT ![e.report] = e.answer]
        /\ late' = IF e.creates /\ e.user # user THEN late \cup {e.report} ELSE late
        /\ e.answer # ""
    BY <1>6 DEF EditAnswered
  <2>2. reports' \in Rows /\ late' \subseteq Reports
    BY <1>2, <1>4, <2>1 DEF Rows
  <2>3. ConsoleTypeOK'
    BY <1>1, <2>2 DEF ConsoleTypeOK
  <2>4. stored[e.report] # "" /\ e.report \in Addressed[user] \cup late'
    BY <1>2, <1>6, <2>1 DEF EditsAreOwn, ShownExists
  <2>5. ShownExists'
    BY <1>1, <1>2, <1>4, <2>1, <2>4 DEF ShownExists
  <2> QED BY <1>3, <2>3, <2>5
<1>7. EditAnswered(e) /\ ~(e.creates \/ reports[e.report] # "") => UNCHANGED <<reports, late>>
  BY <1>2 DEF EditAnswered
<1>8. EditFailed(e) => UNCHANGED <<reports, late>>
  BY DEF EditFailed
<1> QED BY <1>5, <1>6, <1>7, <1>8

(* Another reviewer decides on a report that is stored.                    *)
LEMMA DecisionPreserves ==
    ASSUME ConsoleInv, NEW r \in Reports, DecidedElsewhere(r, "rejected")
    PROVE  ConsoleInv'
<1> USE DEF ConsoleInv
<1>1. /\ stored' = [stored EXCEPT ![r] = "rejected"]
      /\ edits' = edits + 1
      /\ UNCHANGED <<user, session, joining, listing, editing, reports, late, switches>>
  BY DEF DecidedElsewhere
<1>2. /\ stored' \in [Reports -> ApiStatuses \cup {""}]
      /\ \A q \in Reports : stored[q] # "" => stored'[q] # ""
  <2>1. "rejected" \in ApiStatuses
    BY DEF ApiStatuses
  <2> QED BY <1>1, <2>1, StoredKept
<1>3. ConsoleTypeOK'
  BY <1>1, <1>2, CountersType DEF ConsoleTypeOK
<1>4. LiveRequestsAreCurrent' /\ ListsAreAddressed' /\ ShownExists'
  BY <1>1, <1>2 DEF LiveRequestsAreCurrent, ListsAreAddressed, ShownExists
<1>5. \A q \in editing : q.report \in Reports
  BY DEF ConsoleTypeOK, Edits
<1>6. EditsAreOwn'
  BY <1>1, <1>2, <1>5 DEF EditsAreOwn
<1> QED BY <1>3, <1>4, <1>6

-----------------------------------------------------------------------------
LEMMA ConsoleStepPreserves == ConsoleInv /\ [ConsoleNext]_consoleVars => ConsoleInv'
<1>1. CASE ConsoleInv /\ ConsoleNext
  BY <1>1, SwitchPreserves, JoiningPreserves, RefreshPreserves, RequestPreserves,
     ListingPreserves, SavedPreserves, AnsweredPreserves, DecisionPreserves DEF ConsoleNext
<1>2. CASE ConsoleInv /\ UNCHANGED consoleVars
  BY <1>2 DEF consoleVars, ConsoleInv, ConsoleTypeOK, LiveRequestsAreCurrent,
              ListsAreAddressed, ShownExists, EditsAreOwn
<1> QED BY <1>1, <1>2

LEMMA ConsoleInvariant == ConsoleSpec => []ConsoleInv
BY InitEstablishesConsole, ConsoleStepPreserves, PTL DEF ConsoleSpec

(* However answers and switches of the account interleave, the page works  *)
(* with the session of its user and shows that user's reports, apart from  *)
(* one that was submitted before a switch and answered after it.           *)
THEOREM ConsoleShowsItsUser == ConsoleSpec => []ShownIsAddressed
<1>1. ConsoleInv => ShownIsAddressed
  BY DEF ConsoleInv, LiveRequestsAreCurrent, ShownExists, ShownIsAddressed
<1> QED BY <1>1, ConsoleInvariant, PTL
-----------------------------------------------------------------------------
(* The account is switched on every page; the rest of a page other than    *)
(* the field reports uses nothing of the session.                          *)
LEMMA PagesStepConsole == Next => [ConsoleNext]_consoleVars
<1>1. CASE OpenFieldReports \/ OpenOverview \/ OpenLocation
  BY <1>1, Zenon DEF OpenFieldReports, OpenOverview, OpenLocation
<1>2. CASE FieldReportsStep
  BY <1>2, Zenon DEF FieldReportsStep
<1>3. CASE OverviewStep
  BY <1>3, Zenon DEF OverviewStep, ConsoleNext
<1>4. CASE LocationStep
  BY <1>4, Zenon DEF LocationStep, ConsoleNext
<1> QED BY <1>1, <1>2, <1>3, <1>4, Zenon DEF Next

LEMMA PagesImplementConsole == Spec => ConsoleSpec
<1>1. Init => ConsoleInit
  BY DEF Init
<1>2. UNCHANGED vars => UNCHANGED consoleVars
  BY Zenon DEF vars
<1> QED BY <1>1, <1>2, PagesStepConsole, PTL DEF Spec, ConsoleSpec

(* On every page of the application the session is that of its user, and   *)
(* the reports it shows are that user's or were answered late.             *)
THEOREM PagesShowTheirUser == Spec => []ShownIsAddressed
BY PagesImplementConsole, ConsoleShowsItsUser, PTL
-----------------------------------------------------------------------------
(***************************************************************************)
(* The geography routes.  Unless the PSGC service answered with something  *)
(* else than units, a route that reads has the units of the pages before   *)
(* the one it is at, and one that has answered has the complete list.      *)
(***************************************************************************)
IsGeographyUrl(url) ==
    \E reg \in Regions :
        \/ url = Provinces(reg) \/ url = Districts(reg)
        \/ \E prv : url = Municipalities(reg, prv)

(* A list is asked for a province of its region, or for the whole region.  *)
IsSound(url) ==
    url[1] = "municipalities" => url[3] \in {""} \cup ProvinceCodes(url[2])

PagesBefore(reg, nth) == UNION {Pages[reg][i] : i \in 1 .. nth - 1}

HandlerIsExact(url, h) ==
    /\ h.status \in {"reading", "waiting", "ok", "failed"}
    /\ h.status = "ok" => Complete(url, h.records)
    /\ h.status \in {"reading", "waiting"} =>
          /\ url[1] # "districts"
          /\ h.page \in 1 .. Len(Pages[url[2]])
          /\ url[1] = "provinces" => h.page = 1
          /\ h.records = PagesBefore(url[2], h.page)

ServiceIsExact ==
    /\ \A key \in DOMAIN psaResponseCache : psaResponseCache[key] = "good"
    /\ \A url \in DOMAIN handlers : IsSound(url) /\ HandlerIsExact(url, handlers[url])

ServiceInv ==
    /\ malformed \in BOOLEAN
    /\ \A url \in DOMAIN handlers : IsGeographyUrl(url)
    /\ malformed \/ ServiceIsExact

LEMMA Urls ==
    ASSUME NEW reg, NEW prv
    PROVE  /\ Provinces(reg)[1] = "provinces" /\ Provinces(reg)[2] = reg
           /\ Districts(reg)[1] = "districts" /\ Districts(reg)[2] = reg
           /\ Municipalities(reg, prv)[1] = "municipalities"
           /\ Municipalities(reg, prv)[2] = reg /\ Municipalities(reg, prv)[3] = prv
           /\ Len(Provinces(reg)) = 3 /\ Len(Districts(reg)) = 3
           /\ Len(Municipalities(reg, prv)) = 3
BY DEF Provinces, Districts, Municipalities

LEMMA GeographyUrls ==
    ASSUME NEW url, IsGeographyUrl(url)
    PROVE  /\ url[1] \in {"provinces", "districts", "municipalities"}
           /\ url[2] \in Regions /\ Len(url) = 3
BY Urls DEF IsGeographyUrl

LEMMA AllPages ==
    ASSUME NEW reg \in Regions
    PROVE  /\ PagesBefore(reg, 1) = {}
           /\ \A nth \in 1 .. Len(Pages[reg]) :
                 PagesBefore(reg, nth) \cup Pages[reg][nth] = PagesBefore(reg, nth + 1)
           /\ PagesBefore(reg, Len(Pages[reg]) + 1) = UnitsIn(reg)
<1> DEFINE n == Len(Pages[reg])
<1>1. n \in Nat \ {0} /\ DOMAIN Pages[reg] = 1 .. n
  BY PagesAssumption
<1>2. PagesBefore(reg, 1) = {}
  BY DEF PagesBefore
<1>3. ASSUME NEW nth \in 1 .. n
      PROVE  PagesBefore(reg, nth) \cup Pages[reg][nth] = PagesBefore(reg, nth + 1)
  <2>1. 1 .. (nth + 1) - 1 = (1 .. nth - 1) \cup {nth}
    BY <1>1
  <2> QED BY <2>1 DEF PagesBefore
<1>4. PagesBefore(reg, n + 1) = UnitsIn(reg)
  <2>1. 1 .. (n + 1) - 1 = DOMAIN Pages[reg]
    BY <1>1
  <2> QED BY <2>1 DEF PagesBefore, UnitsIn, Range
<1> QED BY <1>2, <1>3, <1>4

LEMMA LocalitiesComplete ==
    ASSUME NEW url, IsGeographyUrl(url), IsSound(url), url[1] = "municipalities"
    PROVE  Complete(url, Localities(UnitsIn(url[2]), url[3]))
<1> DEFINE reg == url[2]
           prv == url[3]
           found == \E p \in UnitsIn(reg) : isProvince(p) /\ p.code = prv
<1>1. reg \in Regions /\ prv \in {""} \cup ProvinceCodes(reg)
  BY GeographyUrls DEF IsSound
<1>2. found <=> prv \in ProvinceCodes(reg)
  BY DEF ProvinceCodes
<1>3. found <=> prv # ""
  BY <1>1, <1>2, PlacesAssumption
<1>4. \A u \in UnitsIn(reg) : (found => u.prv = prv) <=> prv \in {"", u.prv}
  BY <1>3
<1>5. Localities(UnitsIn(reg), prv)
        = {u \in UnitsIn(reg) : isMunicipalityOrCity(u) /\ prv \in {"", u.prv}}
  BY <1>4 DEF Localities
<1> QED BY <1>5 DEF Complete

(* Whoever takes a good page reads on or has the complete list.            *)
LEMMA TakeIsExact ==
    ASSUME NEW url, NEW h, IsGeographyUrl(url), IsSound(url), HandlerIsExact(url, h),
           h.status \in {"reading", "waiting"}
    PROVE  HandlerIsExact(url, Take(url, h, "good"))
<1> DEFINE reg == url[2]
           nth == h.page
           key == KeyOf(url, nth)
           got == h.records \cup extractPSGCData(key, "good")
<1>1. /\ reg \in Regions /\ url[1] \in {"provinces", "municipalities"}
      /\ nth \in 1 .. Len(Pages[reg]) /\ h.records = PagesBefore(reg, nth)
      /\ Len(Pages[reg]) \in Nat
  BY GeographyUrls, PagesAssumption DEF HandlerIsExact
<1>2. CASE url[1] = "provinces"
  <2>1. key = <<"provinces", reg, 1>> /\ nth = 1
    BY <1>2 DEF KeyOf, HandlerIsExact
  <2>2. key[1] = "provinces" /\ key[2] = reg
    BY <2>1
  <2>3. ~HasNext(key, "good")
    BY <2>2 DEF HasNext
  <2>4. got = {u \in UnitsIn(reg) : isProvince(u)}
    BY <1>1, <2>1, <2>2, AllPages DEF extractPSGCData
  <2>5. AnswerOf(url, got) = {u \in UnitsIn(reg) : isProvince(u)}
    BY <1>2, <2>4 DEF AnswerOf
  <2>6. Take(url, h, "good") = [status |-> "ok", page |-> nth, records |-> AnswerOf(url, got)]
    BY <2>3 DEF Take
  <2>7. Complete(url, AnswerOf(url, got))
    BY <1>2, <2>5 DEF Complete
  <2> QED BY <2>6, <2>7 DEF HandlerIsExact
<1>3. CASE url[1] = "municipalities"
  <2>1. key = <<"all", reg, nth>>
    BY <1>3 DEF KeyOf
  <2>2. key[1] = "all" /\ key[2] = reg /\ key[3] = nth
    BY <2>1
  <2>3. extractPSGCData(key, "good") = Pages[reg][nth]
    BY <2>2 DEF extractPSGCData
  <2>4. got = PagesBefore(reg, nth + 1)
    BY <1>1, <2>3, AllPages
  <2>5. CASE HasNext(key, "good")
    <3>1. nth + 1 \in 1 .. Len(Pages[reg])
      BY <1>1, <2>2, <2>5 DEF HasNext
    <3>2. Take(url, h, "good") = [status |-> "reading", page |-> nth + 1, records |-> got]
      BY <2>5 DEF Take
    <3>3. /\ Take(url, h, "good").status = "reading" /\ Take(url, h, "good").page = nth + 1
          /\ Take(url, h, "good").records = PagesBefore(reg, nth + 1)
      BY <2>4, <3>2
    <3>4. url[1] \notin {"districts", "provinces"}
      BY <1>3
    <3> HIDE DEF got, key, nth
    <3> QED BY <3>1, <3>3, <3>4 DEF HandlerIsExact
  <2>6. CASE ~HasNext(key, "good")
    <3>1. nth = Len(Pages[reg])
      BY <1>1, <2>2, <2>6 DEF HasNext
    <3>2. got = UnitsIn(reg)
      BY <1>1, <2>4, <3>1, AllPages
    <3>3. Take(url, h, "good") = [status |-> "ok", page |-> nth, records |-> AnswerOf(url, got)]
      BY <2>6 DEF Take
    <3>4. AnswerOf(url, got) = Localities(UnitsIn(reg), url[3])
      BY <1>3, <3>2 DEF AnswerOf
    <3>5. Complete(url, AnswerOf(url, got))
      BY <1>3, <3>4, LocalitiesComplete
    <3> QED BY <3>3, <3>5 DEF HandlerIsExact
  <2> QED BY <2>5, <2>6
<1>4. url[1] \in {"provinces", "municipalities"}
  BY <1>1
<1> HIDE DEF key, got, nth, reg
<1> QED BY <1>2, <1>3, <1>4

LEMMA ArrivedIsExact ==
    ASSUME NEW url, IsGeographyUrl(url)
    PROVE  HandlerIsExact(url, Arrived(url))
<1>1. CASE url[1] = "districts"
  BY <1>1 DEF Arrived, HandlerIsExact, Complete
<1>2. CASE url[1] # "districts"
  <2>1. url[2] \in Regions /\ Len(Pages[url[2]]) \in Nat \ {0}
    BY GeographyUrls, PagesAssumption
  <2>2. Arrived(url) = [status |-> "reading", page |-> 1, records |-> {}]
    BY <1>2 DEF Arrived
  <2>3. PagesBefore(url[2], 1) = {}
    BY <2>1, AllPages
  <2> QED BY <1>2, <2>1, <2>2, <2>3 DEF HandlerIsExact
<1> QED BY <1>1, <1>2

LEMMA ServiceStep == ServiceInv /\ ServiceNext => ServiceInv'
<1> SUFFICES ASSUME ServiceInv, ServiceNext PROVE ServiceInv'
  OBVIOUS
<1> USE DEF ServiceInv
<1>1. ASSUME NEW url \in DOMAIN handlers, Read(url) PROVE ServiceInv'
  <2> DEFINE h == handlers[url]
             key == KeyOf(url, h.page)
  <2>1. h.status = "reading" /\ UNCHANGED <<psaResponseCache, malformed>>
    BY <1>1 DEF Read
  <2>2. CASE key \in DOMAIN psaResponseCache
    <3>1. handlers' = [handlers EXCEPT ![url] = Take(url, h, psaResponseCache[key])]
      BY <1>1, <2>2 DEF Read
    <3>2. ServiceIsExact => HandlerIsExact(url, Take(url, h, psaResponseCache[key]))
      BY <2>1, <2>2, TakeIsExact DEF ServiceIsExact
    <3> QED BY <2>1, <3>1, <3>2 DEF ServiceIsExact
  <2>3. CASE key \notin DOMAIN psaResponseCache
    <3>1. handlers' = [handlers EXCEPT ![url].status = "waiting"]
      BY <1>1, <2>3 DEF Read
    <3>2. ServiceIsExact => HandlerIsExact(url, [h EXCEPT !.status = "waiting"])
      BY <2>1 DEF ServiceIsExact, HandlerIsExact
    <3> QED BY <2>1, <3>1, <3>2 DEF ServiceIsExact
  <2> QED BY <2>2, <2>3
<1>2. ASSUME NEW key \in pendingPSARequests, Refused(key) PROVE ServiceInv'
  <2>1. /\ UNCHANGED <<psaResponseCache, malformed>>
        /\ handlers' = [url \in DOMAIN handlers |->
                          IF Waits(url, key) THEN [handlers[url] EXCEPT !.status = "failed"]
                          ELSE handlers[url]]
    BY <1>2 DEF Refused
  <2>2. ASSUME NEW url \in DOMAIN handlers, HandlerIsExact(url, handlers[url]), Waits(url, key)
        PROVE  HandlerIsExact(url, [handlers[url] EXCEPT !.status = "failed"])
    BY <2>2 DEF HandlerIsExact
  <2> QED BY <2>1, <2>2 DEF ServiceIsExact
<1>3. ASSUME NEW key \in pendingPSARequests, NEW payload \in {"good", "malformed"},
             Received(key, payload)
      PROVE  ServiceInv'
  <2>1. /\ malformed' = (malformed \/ payload = "malformed")
        /\ psaResponseCache' = [k \in DOMAIN psaResponseCache \cup {key} |->
                                   IF k = key THEN payload ELSE psaResponseCache[k]]
        /\ handlers' = [url \in DOMAIN handlers |->
                          IF Waits(url, key) THEN Take(url, handlers[url], payload)
                          ELSE handlers[url]]
    BY <1>3 DEF Received
  <2>2. ASSUME ~malformed'
        PROVE  ServiceIsExact'
    <3>1. ~malformed /\ payload = "good"
      BY <2>1, <2>2
    <3>2. ASSUME NEW url \in DOMAIN handlers, Waits(url, key)
          PROVE  HandlerIsExact(url, Take(url, handlers[url], payload))
      BY <3>1, <3>2, TakeIsExact DEF ServiceIsExact, Waits
    <3> QED BY <2>1, <3>1, <3>2 DEF ServiceIsExact
  <2> QED BY <2>1, <2>2
<1>4. ASSUME NEW key \in DOMAIN psaResponseCache, Expired(key) PROVE ServiceInv'
  BY <1>4 DEF Expired, Restrict, ServiceIsExact
<1> QED BY <1>1, <1>2, <1>3, <1>4 DEF ServiceNext
-----------------------------------------------------------------------------
(***************************************************************************)
(* The coverage filter.  A list on the page, in the browser's cache or on  *)
(* its way is the one for what is selected; bad tells that the PSGC service*)
(* answered with something else than units.                                *)
(***************************************************************************)
GeographyLists == {"provinces", "districts", "localities"}
ElectionLists == {"legislative", "partyLists"}

IsGeography(g) ==
    /\ g = [region |-> g.region, province |-> g.province, district |-> g.district,
            locality |-> g.locality]
    /\ g.region \in Regions \/ (g.region = "" /\ g.province = "")

IsElection(e) ==
    /\ e = [mode |-> e.mode, district |-> e.district, party |-> e.party]
    /\ e.mode = "legislative" \/ e.district = ""

GoodUrl(url, bad) == IsGeographyUrl(url) /\ (bad = TRUE \/ IsSound(url))

GoodAsked(urls, bad) == \A url \in urls : GoodUrl(url, bad)

GoodList(l, url, list, bad) ==
    CASE l = "partyLists"  -> list = PartyLists
      [] l = "legislative" -> list = Legislative(url[2])
      [] OTHER             -> bad = TRUE \/ Complete(url, list)

(* The lists ls, asked for when the provinces of the lists old were known. *)
GoodLists(g, e, ls, old, bad) ==
    \A l \in DOMAIN ls :
        l \in ListNames /\ Asks(l, g, e) /\ GoodList(l, Url(l, g, old), ls[l], bad)

GoodFlight(f, g, e, old, bad) ==
    IF f.of = "dashboard" THEN Len(f.url) = 1
    ELSE /\ f.of \in ListNames /\ Asks(f.of, g, e) /\ f.url = Url(f.of, g, old)
         /\ f.of \in GeographyLists => GoodUrl(f.url, bad)
         /\ f.of = "legislative" =>
               IsElection(f.value) /\ f.value.mode = e.mode /\ f.value.district = e.district

GoodFlights(g, e, fs, ls, old, bad) ==
    /\ \A f \in fs : GoodFlight(f, g, e, old, bad) /\ f.of \notin DOMAIN ls
    /\ \A f1, f2 \in fs : f1.of = f2.of /\ f1.of \in ElectionLists => f1 = f2

GoodCache(cache, bad) ==
    \A url \in DOMAIN cache : IsGeographyUrl(url) /\ (bad = TRUE \/ Complete(url, cache[url]))

(* The lists with the given names are the same.                            *)
SameOn(names, ls1, ls2) ==
    \A l \in names :
        (l \in DOMAIN ls1 <=> l \in DOMAIN ls2) /\ (l \in DOMAIN ls1 => ls1[l] = ls2[l])

(* A chosen district is listed.                                            *)
DistrictIsListed(e, ls) ==
    "legislative" \in DOMAIN ls => e.district \in ls["legislative"] \cup {""}

(* A user who is free to choose chose the province from its list.          *)
ProvinceIsListed(g, ls) ==
    g.province \in {"", INDEPENDENT_CITIES_FILTER} \cup {u.code : u \in List(ls, "provinces")}

ShowsOrWill(request, fs, current) ==
    request = current \/ \E f \in OpenDashboards(fs) : f.url[1] = current

SelectionInv ==
    /\ IsGeography(geography) /\ IsElection(election) /\ lostUpdate \in BOOLEAN
    /\ malformed = TRUE \/ IsPath(geography)
    /\ GoodLists(geography, election, lists, lists, malformed)
    /\ GoodFlights(geography, election, flights, lists, lists, malformed)
    /\ GoodCache(responseCache, malformed)
    /\ DistrictIsListed(election, lists)
    /\ HasGeographicCoverage(geography) => election.party = "" \/ lostUpdate
    /\ hasCoverageLock \/ ProvinceIsListed(geography, lists)
    /\ overtaken \/ ShowsOrWill(shown.request, flights, Current)

LEMMA SelectionProperties ==
    SelectionInv => /\ ListsMatchSelection /\ GeographyIsNested /\ ElectionIsCoherent
                    /\ DashboardShowsSelection
<1> SUFFICES ASSUME SelectionInv
             PROVE  /\ ListsMatchSelection /\ GeographyIsNested /\ ElectionIsCoherent
                    /\ DashboardShowsSelection
  OBVIOUS
<1> USE DEF SelectionInv
<1>1. ListsMatchSelection
  <2> SUFFICES ASSUME NEW l \in DOMAIN lists
               PROVE  /\ Asks(l, geography, election)
                      /\ CASE l = "partyLists"  -> lists[l] = PartyLists
                           [] l = "legislative" -> lists[l] = Legislative(geography)
                           [] OTHER -> malformed \/ Complete(Url(l, geography, lists), lists[l])
    BY DEF ListsMatchSelection
  <2>1. Asks(l, geography, election) /\ GoodList(l, Url(l, geography, lists), lists[l], malformed)
    BY DEF GoodLists
  <2>2. l = "legislative" => Url(l, geography, lists)[2] = geography
    BY DEF Url
  <2> QED BY <2>1, <2>2 DEF GoodList
<1>2. GeographyIsNested
  BY DEF GeographyIsNested
<1>3. ElectionIsCoherent
  <2>1. parseElectionSelection(applyElectionSelectionToSearch(election)) = election
    BY DEF IsElection, parseElectionSelection, applyElectionSelectionToSearch
  <2> QED BY <2>1 DEF ElectionIsCoherent, DistrictIsListed
<1>4. DashboardShowsSelection
  BY DEF DashboardShowsSelection, ShowsOrWill
<1> QED BY <1>1, <1>2, <1>3, <1>4

(* What the effect of a list depends on tells whether and what it asks.    *)
LEMMA DepsTell ==
    ASSUME NEW l \in ListNames, NEW g1, NEW e1, NEW ls1, NEW g2, NEW e2, NEW ls2,
           Deps(l, g1, e1, ls1) = Deps(l, g2, e2, ls2)
    PROVE  /\ Asks(l, g1, e1) <=> Asks(l, g2, e2)
           /\ Url(l, g1, ls1) = Url(l, g2, ls2)
<1>1. CASE l \in {"provinces", "districts"}
  <2>1. g1.region = g2.region
    BY <1>1 DEF Deps
  <2> QED BY <1>1, <2>1 DEF Asks, Url, isNCR
<1>2. CASE l = "localities"
  <2>1. g1.region = g2.region /\ SelectedProvince(g1, ls1) = SelectedProvince(g2, ls2)
    BY <1>2 DEF Deps
  <2> QED BY <1>2, <2>1 DEF Asks, Url, isNCR
<1>3. CASE l = "legislative"
  <2>1. g1 = g2 /\ e1.mode = e2.mode
    BY <1>3 DEF Deps
  <2> QED BY <1>3, <2>1 DEF Asks, Url
<1>4. CASE l = "partyLists"
  <2>1. HasGeographicCoverage(g1) <=> HasGeographicCoverage(g2)
    BY <1>4 DEF Deps
  <2> QED BY <1>4, <2>1 DEF Asks, Url
<1> QED BY <1>1, <1>2, <1>3, <1>4 DEF ListNames

(* Whether a list is asked for does not depend on what effects clear.      *)
LEMMA ClearedElection ==
    ASSUME NEW changed, NEW g, NEW e, IsElection(e)
    PROVE  /\ IsElection(Cleared(changed, g, e)) /\ Cleared(changed, g, e).mode = e.mode
           /\ Cleared(changed, g, e).district \in {"", e.district}
           /\ \A l \in ListNames : Asks(l, g, Cleared(changed, g, e)) <=> Asks(l, g, e)
<1>1. /\ IsElection(Cleared(changed, g, e)) /\ Cleared(changed, g, e).mode = e.mode
      /\ Cleared(changed, g, e).district \in {"", e.district}
  BY DEF Cleared, IsElection
<1> QED BY <1>1 DEF Asks, ListNames

(* The known provinces of a list are codes, or the answer was bad.         *)
LEMMA ListedProvinces ==
    ASSUME NEW g, NEW e, NEW ls, NEW old, NEW bad, GoodLists(g, e, ls, old, bad), bad # TRUE, IsGeography(g)
    PROVE  /\ List(ls, "provinces") # {} => g.region \in Regions
           /\ \A u \in List(ls, "provinces") :
                 u.code \in ProvinceCodes(g.region) /\ u.code \notin {"", INDEPENDENT_CITIES_FILTER}
<1>1. CASE "provinces" \notin DOMAIN ls
  BY <1>1 DEF List
<1>2. CASE "provinces" \in DOMAIN ls
  <2>1. g.region # "" /\ Complete(Provinces(g.region), ls["provinces"])
    BY <1>2 DEF GoodLists, Asks, Url, GoodList
  <2>2. g.region \in Regions
    BY <2>1 DEF IsGeography
  <2>3. ls["provinces"] = {u \in UnitsIn(g.region) : isProvince(u)}
    BY <2>1, Urls DEF Complete
  <2>4. List(ls, "provinces") = {u \in UnitsIn(g.region) : isProvince(u)}
    BY <1>2, <2>3 DEF List
  <2>5. \A u \in List(ls, "provinces") : u.code \in ProvinceCodes(g.region)
    BY <2>4 DEF ProvinceCodes
  <2> QED BY <2>2, <2>5, PlacesAssumption
<1> QED BY <1>1, <1>2

(* No province is known that is not one.                                   *)
OnlyProvinces(ls) ==
    \A u \in List(ls, "provinces") : u.code # INDEPENDENT_CITIES_FILTER

LEMMA GoodUrls ==
    ASSUME NEW g, NEW e, NEW ls, NEW bad, NEW l \in GeographyLists, IsGeography(g),
           bad = TRUE \/ IsPath(g), bad = TRUE \/ OnlyProvinces(ls), Asks(l, g, e)
    PROVE  GoodUrl(Url(l, g, ls), bad)
<1>1. g.region \in Regions
  <2>1. g.region # ""
    BY PagesAssumption, PlacesAssumption DEF Asks, GeographyLists, isNCR
  <2> QED BY <2>1 DEF IsGeography
<1>2. CASE l \in {"provinces", "districts"}
  <2>1. Url(l, g, ls) = Provinces(g.region) \/ Url(l, g, ls) = Districts(g.region)
    BY <1>2 DEF Url
  <2> QED BY <1>1, <2>1, Urls DEF GoodUrl, IsGeographyUrl, IsSound
<1>3. CASE l = "localities"
  <2> DEFINE prv == IF isNCR(g) THEN "" ELSE SelectedProvince(g, ls)
  <2>1. Url(l, g, ls) = Municipalities(g.region, prv)
    BY <1>3 DEF Url
  <2>2. ASSUME bad # TRUE, prv # ""
        PROVE  prv \in ProvinceCodes(g.region)
    <3>1. prv = g.province /\ g.province # ""
          /\ g.province \in Fallback \cup {u.code : u \in List(ls, "provinces")}
      BY <2>2 DEF SelectedProvince
    <3>2. g.province # INDEPENDENT_CITIES_FILTER
      BY <1>1, <2>2, <3>1, PlacesAssumption DEF OnlyProvinces
    <3> QED BY <2>2, <3>1, <3>2 DEF IsPath, Province
  <2>3. IsGeographyUrl(Municipalities(g.region, prv))
    BY <1>1 DEF IsGeographyUrl
  <2>4. ASSUME bad # TRUE
        PROVE  IsSound(Municipalities(g.region, prv))
    <3>1. prv \in {""} \cup ProvinceCodes(g.region)
      BY <2>2, <2>4
    <3> HIDE DEF prv
    <3>2. PICK url : url = Municipalities(g.region, prv)
      OBVIOUS
    <3>3. url[1] = "municipalities" /\ url[2] = g.region /\ url[3] = prv
      BY <3>2, Urls
    <3> QED BY <3>1, <3>2, <3>3 DEF IsSound
  <2> QED BY <2>1, <2>3, <2>4 DEF GoodUrl
<1> QED BY <1>2, <1>3 DEF GeographyLists

LEMMA OtherUrls ==
    ASSUME NEW l \in ListNames, l # "localities", NEW g, NEW ls1, NEW ls2
    PROVE  Url(l, g, ls1) = Url(l, g, ls2)
BY DEF Url, ListNames

(* The lists, the requests under way and the URLs asked for, so far.       *)
IsStage(now) ==
    now = [lists |-> now.lists, flights |-> now.flights, asked |-> now.asked]

(* After Refind every list is the one for the provinces that are known.    *)
KeptByRefind(now, before, cache, g, e, bad) ==
    LET next == Refind(now, before, cache, g, e) IN
    /\ GoodLists(g, e, next.lists, next.lists, bad)
    /\ GoodFlights(g, e, next.flights, next.lists, next.lists, bad)
    /\ GoodAsked(next.asked, bad)
    /\ OpenDashboards(next.flights) = OpenDashboards(now.flights)
    /\ SameOn(ListNames \ {"localities"}, next.lists, now.lists)

LEMMA RefindKeeps ==
    ASSUME NEW g, NEW e, NEW now, NEW before, NEW cache, NEW bad,
           IsStage(now),
           IsGeography(g), bad = TRUE \/ IsPath(g), bad = TRUE \/ OnlyProvinces(now.lists),
           GoodLists(g, e, now.lists, before, bad),
           GoodFlights(g, e, now.flights, now.lists, before, bad),
           GoodCache(cache, bad), GoodAsked(now.asked, bad)
    PROVE  KeptByRefind(now, before, cache, g, e, bad)
<1> PICK next : next = Refind(now, before, cache, g, e)
  OBVIOUS
<1> SUFFICES /\ GoodLists(g, e, next.lists, next.lists, bad)
             /\ GoodFlights(g, e, next.flights, next.lists, next.lists, bad)
             /\ GoodAsked(next.asked, bad)
             /\ OpenDashboards(next.flights) = OpenDashboards(now.flights)
             /\ SameOn(ListNames \ {"localities"}, next.lists, now.lists)
  BY DEF KeptByRefind
<1> DEFINE url == Url("localities", g, now.lists)
           others == Restrict(now.lists, DOMAIN now.lists \ {"localities"})
           Deps1 == Deps("localities", g, e, now.lists)
           Deps2 == Deps("localities", g, e, before)
<1>1. "localities" \in ListNames /\ "localities" \in GeographyLists
  BY DEF ListNames, GeographyLists
<1>2. CASE ~Asks("localities", g, e) \/ Deps1 = Deps2
  <2>1. next = now
    BY <1>2 DEF Refind
  <2>2. ASSUME NEW l \in ListNames, Asks(l, g, e)
        PROVE  Url(l, g, now.lists) = Url(l, g, before)
    BY <1>2, <2>2, OtherUrls, DepsTell
  <2>3. GoodLists(g, e, next.lists, next.lists, bad)
    BY <2>1, <2>2 DEF GoodLists
  <2>4. \A f \in next.flights : GoodFlight(f, g, e, now.lists, bad)
    BY <2>1, <2>2 DEF GoodFlights, GoodFlight
  <2> QED BY <2>1, <2>3, <2>4 DEF GoodFlights, SameOn
<1>3. CASE Asks("localities", g, e) /\ Deps1 # Deps2
  <2>1. DOMAIN others = DOMAIN now.lists \ {"localities"}
        /\ \A l \in DOMAIN others : others[l] = now.lists[l]
    BY DEF Restrict
  <2>2. GoodUrl(url, bad)
    BY <1>1, <1>3, GoodUrls
  <2> HIDE DEF others
  <2>3. ASSUME NEW ls, \A l : l # "localities" =>
                          /\ l \in DOMAIN ls <=> l \in DOMAIN now.lists
                          /\ l \in DOMAIN ls => ls[l] = now.lists[l]
        PROVE  /\ Url("localities", g, ls) = url
               /\ \A l \in DOMAIN ls \ {"localities"} :
                     l \in ListNames /\ Asks(l, g, e) /\ GoodList(l, Url(l, g, ls), ls[l], bad)
               /\ \A f \in Aborting(now.flights, {"localities"}) :
                     GoodFlight(f, g, e, ls, bad) /\ f.of # "localities"
                     /\ f.of \notin DOMAIN now.lists
    <3>1. List(ls, "provinces") = List(now.lists, "provinces")
      BY <2>3 DEF List
    <3>2. Url("localities", g, ls) = url
      BY <3>1 DEF Url, SelectedProvince
    <3>3. \A l \in DOMAIN ls \ {"localities"} :
             l \in ListNames /\ Asks(l, g, e) /\ GoodList(l, Url(l, g, ls), ls[l], bad)
      BY <2>3, OtherUrls DEF GoodLists
    <3>4. \A f \in Aborting(now.flights, {"localities"}) :
             GoodFlight(f, g, e, ls, bad) /\ f.of # "localities" /\ f.of \notin DOMAIN now.lists
      BY OtherUrls DEF GoodFlights, GoodFlight, Aborting
    <3> QED BY <3>2, <3>3, <3>4
  <2>4. CASE url \in DOMAIN cache
    <3>1. /\ next.lists = Put(others, "localities", cache[url])
          /\ next.flights = Aborting(now.flights, {"localities"}) /\ next.asked = now.asked
      BY <1>3, <2>4 DEF Refind, others
    <3>2. /\ DOMAIN next.lists = DOMAIN others \cup {"localities"}
          /\ next.lists["localities"] = cache[url]
          /\ \A l \in DOMAIN others : next.lists[l] = others[l]
      <4> HIDE DEF url
      <4>1. PICK ls : ls = Put(others, "localities", cache[url])
        OBVIOUS
      <4>2. "localities" \notin DOMAIN others
        BY <2>1
      <4>3. /\ DOMAIN ls = DOMAIN others \cup {"localities"} /\ ls["localities"] = cache[url]
            /\ \A l \in DOMAIN others : l # "localities" => ls[l] = others[l]
        BY <4>1 DEF Put
      <4> QED BY <3>1, <4>1, <4>2, <4>3
    <3>3. \A l : l # "localities" =>
             /\ l \in DOMAIN next.lists <=> l \in DOMAIN now.lists
             /\ l \in DOMAIN next.lists => next.lists[l] = now.lists[l]
      BY <2>1, <3>2
    <3>4. bad = TRUE \/ Complete(url, cache[url])
      BY <2>4 DEF GoodCache
    <3>5. GoodList("localities", url, cache[url], bad)
      BY <3>4 DEF GoodList
    <3>6. GoodLists(g, e, next.lists, next.lists, bad)
      BY <1>1, <1>3, <2>3, <3>2, <3>3, <3>5 DEF GoodLists
    <3>7. \A f \in next.flights : f \in now.flights
      BY <3>1 DEF Aborting
    <3>8. GoodFlights(g, e, next.flights, next.lists, next.lists, bad)
      BY <2>3, <3>1, <3>3, <3>7 DEF GoodFlights
    <3>9. OpenDashboards(next.flights) = OpenDashboards(now.flights)
      BY <3>1 DEF OpenDashboards, Aborting
    <3> QED BY <3>1, <3>3, <3>6, <3>8, <3>9 DEF SameOn
  <2>5. CASE url \notin DOMAIN cache
    <3>1. /\ next.lists = others /\ next.asked = now.asked \cup {url}
          /\ next.flights = Aborting(now.flights, {"localities"})
                               \cup {ListFlight("localities", g, e, now.lists)}
      BY <1>3, <2>5 DEF Refind, others
    <3>2. \A l : l # "localities" =>
             /\ l \in DOMAIN next.lists <=> l \in DOMAIN now.lists
             /\ l \in DOMAIN next.lists => next.lists[l] = now.lists[l]
      BY <2>1, <3>1
    <3>3. "localities" \notin DOMAIN next.lists
      BY <2>1, <3>1
    <3>4. PICK f0 : f0 = ListFlight("localities", g, e, now.lists)
      OBVIOUS
    <3>5. f0.of = "localities" /\ f0.url = url
      BY <3>4 DEF ListFlight
    <3>6. GoodLists(g, e, next.lists, next.lists, bad)
      BY <2>3, <3>2, <3>3 DEF GoodLists
    <3>7. GoodFlight(f0, g, e, next.lists, bad)
      BY <1>1, <1>3, <2>2, <2>3, <3>2, <3>5 DEF GoodFlight
    <3>8. \A f \in next.flights : f = f0 \/ f \in Aborting(now.flights, {"localities"})
      BY <3>1, <3>4
    <3>9. \A f \in Aborting(now.flights, {"localities"}) : f \in now.flights
      BY DEF Aborting
    <3>10. GoodFlights(g, e, next.flights, next.lists, next.lists, bad)
      <4>1. \A f \in next.flights : GoodFlight(f, g, e, next.lists, bad) /\ f.of \notin DOMAIN next.lists
        BY <2>3, <3>2, <3>3, <3>5, <3>7, <3>8
      <4>2. \A f \in next.flights : f.of \in ElectionLists => f \in now.flights
        BY <3>5, <3>8, <3>9 DEF ElectionLists
      <4> QED BY <4>1, <4>2 DEF GoodFlights
    <3>11. OpenDashboards(next.flights) = OpenDashboards(now.flights)
      BY <3>1, <3>4, <3>5 DEF OpenDashboards, Aborting
    <3> QED BY <2>2, <3>1, <3>2, <3>6, <3>10, <3>11 DEF SameOn, GoodAsked
  <2> QED BY <2>4, <2>5
<1> QED BY <1>2, <1>3

(* What the effects of one render have done before the localities are      *)
(* asked for again, if they are.                                           *)
Rendered(changed, g, e, ls, fs, cache) ==
    LET asking == {l \in changed : Asks(l, g, e)}
        cached == {l \in asking : Url(l, g, ls) \in DOMAIN cache}
    IN [lists |-> [l \in (DOMAIN ls \ changed) \cup cached |->
                      IF l \in cached THEN cache[Url(l, g, ls)] ELSE ls[l]],
        flights |-> Aborting(fs, changed) \cup {ListFlight(l, g, e, ls) : l \in asking \ cached},
        asked |-> {Url(l, g, ls) : l \in (asking \ cached) \ {"legislative", "partyLists"}}]

LEMMA NotGeography ==
    ASSUME NEW g, NEW ls, NEW l \in {"legislative", "partyLists"}
    PROVE  ~IsGeographyUrl(Url(l, g, ls))
<1>1. Url(l, g, ls)[1] = l
  BY DEF Url
<1> QED BY <1>1, GeographyUrls

LEMMA NoDashboard1 == "dashboard" \notin ListNames
BY DEF ListNames

KeptByRender(changed, g, e, ls, fs, cache, bad) ==
    LET now == Rendered(changed, g, e, ls, fs, cache) IN
    /\ GoodLists(g, e, now.lists, ls, bad)
    /\ GoodFlights(g, e, now.flights, now.lists, ls, bad)
    /\ GoodAsked(now.asked, bad)
    /\ OpenDashboards(now.flights) = OpenDashboards(fs)
    /\ IsStage(now)
    /\ SameOn(ListNames \ changed, now.lists, ls)
    /\ DOMAIN now.lists \cap changed \subseteq GeographyLists

LEMMA RenderedIsGood ==
    ASSUME NEW g, NEW e, NEW g0, NEW e0, NEW ls, NEW fs, NEW cache, NEW bad,
           NEW changed \in SUBSET ListNames,
           IsGeography(g), IsElection(e), bad = TRUE \/ IsPath(g), bad = TRUE \/ OnlyProvinces(ls),
           GoodLists(g0, e0, ls, ls, bad), GoodFlights(g0, e0, fs, ls, ls, bad),
           GoodCache(cache, bad),
           \A l \in ListNames \ changed : Deps(l, g, e, ls) = Deps(l, g0, e0, ls),
           \/ "legislative" \in changed
           \/ \A f \in fs : f.of = "legislative" => e.district = e0.district
    PROVE  KeptByRender(changed, g, e, ls, fs, cache, bad)
<1> PICK now : now = Rendered(changed, g, e, ls, fs, cache)
  OBVIOUS
<1> SUFFICES /\ GoodLists(g, e, now.lists, ls, bad)
             /\ GoodFlights(g, e, now.flights, now.lists, ls, bad)
             /\ GoodAsked(now.asked, bad)
             /\ OpenDashboards(now.flights) = OpenDashboards(fs)
             /\ IsStage(now)
             /\ SameOn(ListNames \ changed, now.lists, ls)
             /\ DOMAIN now.lists \cap changed \subseteq GeographyLists
  BY DEF KeptByRender
<1> DEFINE asking == {l \in changed : Asks(l, g, e)}
           cached == {l \in asking : Url(l, g, ls) \in DOMAIN cache}
<1>1. /\ now.lists = [l \in (DOMAIN ls \ changed) \cup cached |->
                          IF l \in cached THEN cache[Url(l, g, ls)] ELSE ls[l]]
      /\ now.flights = Aborting(fs, changed) \cup {ListFlight(l, g, e, ls) : l \in asking \ cached}
      /\ now.asked = {Url(l, g, ls) : l \in (asking \ cached) \ {"legislative", "partyLists"}}
      /\ IsStage(now)
  BY DEF Rendered, IsStage
<1>2. cached \subseteq GeographyLists /\ GeographyLists \subseteq ListNames
  <2>1. \A l \in cached : IsGeographyUrl(Url(l, g, ls))
    BY DEF GoodCache
  <2>2. \A l \in cached : l \notin {"legislative", "partyLists"}
    BY <2>1, NotGeography
  <2> QED BY <2>2 DEF GeographyLists, ListNames
<1>3. DOMAIN ls \subseteq ListNames
  BY DEF GoodLists
<1>4. \A l \in ListNames \ changed : (Asks(l, g, e) <=> Asks(l, g0, e0)) /\ Url(l, g, ls) = Url(l, g0, ls)
  BY DepsTell
<1>5. GoodLists(g, e, now.lists, ls, bad)
  <2> SUFFICES ASSUME NEW l \in DOMAIN now.lists
               PROVE  l \in ListNames /\ Asks(l, g, e) /\ GoodList(l, Url(l, g, ls), now.lists[l], bad)
    BY DEF GoodLists
  <2>1. CASE l \in cached
    <3>1. now.lists[l] = cache[Url(l, g, ls)]
      BY <1>1, <2>1
    <3>2. bad = TRUE \/ Complete(Url(l, g, ls), cache[Url(l, g, ls)])
      BY <2>1 DEF GoodCache
    <3> QED BY <1>2, <2>1, <3>1, <3>2 DEF GoodList, GeographyLists
  <2>2. CASE l \notin cached
    <3>1. l \in DOMAIN ls \ changed /\ now.lists[l] = ls[l]
      BY <1>1, <2>2
    <3> QED BY <1>3, <1>4, <3>1 DEF GoodLists
  <2> QED BY <2>1, <2>2
<1>6. GoodAsked(now.asked, bad)
  <2>1. \A l \in changed : l \notin {"legislative", "partyLists"} => l \in GeographyLists
    BY DEF GeographyLists, ListNames
  <2>2. \A l \in asking : l \in GeographyLists => GoodUrl(Url(l, g, ls), bad)
    BY GoodUrls
  <2>3. \A l \in asking \ {"legislative", "partyLists"} : l \in GeographyLists
    BY <2>1
  <2> HIDE DEF asking, cached
  <2> QED BY <1>1, <2>2, <2>3 DEF GoodAsked
<1>7. ASSUME NEW f \in now.flights
      PROVE  /\ GoodFlight(f, g, e, ls, bad) /\ f.of \notin DOMAIN now.lists
             /\ f.of \in ElectionLists =>
                   IF f.of \in changed THEN f = ListFlight(f.of, g, e, ls) ELSE f \in fs
  <2>1. CASE f \in Aborting(fs, changed)
    <3>1. f \in fs /\ f.of \notin changed /\ GoodFlight(f, g0, e0, ls, bad) /\ f.of \notin DOMAIN ls
      BY <2>1 DEF Aborting, GoodFlights
    <3>2. CASE f.of = "dashboard"
      BY <1>1, <3>1, <3>2 DEF GoodFlight
    <3>3. CASE f.of # "dashboard"
      <4>1. f.of \in ListNames \ changed
        BY <3>1, <3>3 DEF GoodFlight
      <4>2. f.of = "legislative" => e.mode = e0.mode /\ e.district = e0.district
        <5>1. f.of = "legislative" => e.mode = e0.mode
          BY <4>1 DEF Deps
        <5> QED BY <3>1, <5>1
      <4> QED BY <1>1, <1>4, <3>1, <3>3, <4>1, <4>2 DEF GoodFlight
    <3> QED BY <3>2, <3>3
  <2>2. CASE f \notin Aborting(fs, changed)
    <3>1. PICK l \in asking \ cached : f = ListFlight(l, g, e, ls)
      BY <1>1, <2>2
    <3>2. /\ f.of = l /\ f.url = Url(l, g, ls) /\ (l = "legislative" => f.value = e)
          /\ l \in ListNames /\ l # "dashboard" /\ l \in changed
      BY <3>1, NoDashboard1 DEF ListFlight
    <3>3. Asks(l, g, e)
      OBVIOUS
    <3>4. l \notin DOMAIN now.lists
      BY <1>1, <3>1
    <3> HIDE DEF asking, cached
    <3>5. l \in GeographyLists => GoodUrl(f.url, bad)
      BY <3>2, <3>3, GoodUrls
    <3>6. GoodFlight(f, g, e, ls, bad)
      BY <3>2, <3>3, <3>5 DEF GoodFlight
    <3>7. f = ListFlight(f.of, g, e, ls) /\ f.of \in changed
      BY <3>1, <3>2
    <3> QED BY <3>2, <3>4, <3>6, <3>7
  <2> QED BY <2>1, <2>2
<1>8. GoodFlights(g, e, now.flights, now.lists, ls, bad)
  BY <1>7 DEF GoodFlights
<1>9. OpenDashboards(now.flights) = OpenDashboards(fs)
  <2>1. \A l \in asking : ListFlight(l, g, e, ls).of # "dashboard"
    BY NoDashboard1 DEF ListFlight
  <2> QED BY <1>1, <2>1, NoDashboard1 DEF OpenDashboards, Aborting
<1>10. /\ SameOn(ListNames \ changed, now.lists, ls)
       /\ DOMAIN now.lists \cap changed \subseteq GeographyLists
  BY <1>1, <1>2 DEF SameOn
<1> QED BY <1>1, <1>5, <1>6, <1>8, <1>9, <1>10

(* What a render must keep in mind: a selection that fits, and of the      *)
(* effects that do not run what they would have found.                     *)
Fits(changed, g, e) ==
    /\ IsGeography(g) /\ IsElection(e)
    /\ malformed = TRUE \/ IsPath(g)
    /\ \A l \in ListNames \ changed : Deps(l, g, e, lists) = Deps(l, geography, election, lists)
    /\ "legislative" \in changed
          \/ /\ DistrictIsListed(e, lists)
             /\ \A f \in flights : f.of = "legislative" => e.district = election.district
    /\ "partyLists" \in changed \/ (HasGeographicCoverage(g) => e.party = "" \/ lostUpdate)

LEMMA AskedIsExact ==
    ASSUME ServiceInv, NEW urls, GoodAsked(urls, malformed), NEW hs,
           DOMAIN hs \subseteq DOMAIN handlers, \A url \in DOMAIN hs : hs[url] = handlers[url],
           handlers' = Asked(urls, hs), UNCHANGED <<psaResponseCache, malformed>>
    PROVE  ServiceInv'
<1>1. /\ DOMAIN handlers' = DOMAIN hs \cup urls
      /\ \A url \in DOMAIN handlers' :
            handlers'[url] = IF url \in DOMAIN hs THEN handlers[url] ELSE Arrived(url)
  BY DEF Asked
<1>2. \A url \in DOMAIN handlers' : IsGeographyUrl(url)
  BY <1>1 DEF ServiceInv, GoodUrl, GoodAsked
<1>3. ASSUME malformed # TRUE
      PROVE  ServiceIsExact'
  <2>1. ServiceIsExact
    BY <1>3 DEF ServiceInv
  <2>2. ASSUME NEW url \in DOMAIN handlers'
        PROVE  IsSound(url) /\ HandlerIsExact(url, handlers'[url])
    <3>1. CASE url \in DOMAIN hs
      BY <1>1, <2>1, <3>1 DEF ServiceIsExact
    <3>2. CASE url \notin DOMAIN hs
      <4>1. GoodUrl(url, malformed) /\ handlers'[url] = Arrived(url)
        BY <1>1, <3>2 DEF GoodAsked
      <4> QED BY <1>3, <4>1, ArrivedIsExact DEF GoodUrl
    <3> QED BY <3>1, <3>2
  <2> QED BY <2>1, <2>2 DEF ServiceIsExact
<1> QED BY <1>2, <1>3 DEF ServiceInv

(* What the effects leave behind, whatever they ask for.                   *)
KeptByEffects(changed, dashboards, g, e) ==
    /\ ServiceInv' /\ UNCHANGED malformed
    /\ geography' = g /\ IsElection(election') /\ lostUpdate' \in BOOLEAN
    /\ malformed' = TRUE \/ IsPath(geography')
    /\ GoodLists(geography', election', lists', lists', malformed')
    /\ GoodFlights(geography', election', flights', lists', lists', malformed')
    /\ GoodCache(responseCache', malformed')
    /\ DistrictIsListed(election', lists')
    /\ HasGeographicCoverage(geography') => election'.party = "" \/ lostUpdate'
    /\ "provinces" \notin changed => List(lists', "provinces") = List(lists, "provinces")
    /\ OpenDashboards(flights) \cup dashboards \subseteq OpenDashboards(flights')
    /\ \/ Current' = DashboardRequest(g, e)
       \/ \E f \in OpenDashboards(flights') : f.url[1] = Current'

LEMMA EffectsKeep ==
    ASSUME SelectionInv, ServiceInv, NEW changed \in SUBSET ListNames, NEW dashboards,
           NEW g, NEW e, Fits(changed, g, e),
           \A f \in dashboards : f.of = "dashboard" /\ Len(f.url) = 1,
           Effects(changed, dashboards, g, e)
    PROVE  KeptByEffects(changed, dashboards, g, e)
<1> SUFFICES /\ ServiceInv' /\ UNCHANGED malformed
             /\ geography' = g /\ IsElection(election') /\ lostUpdate' \in BOOLEAN
             /\ malformed' = TRUE \/ IsPath(geography')
             /\ GoodLists(geography', election', lists', lists', malformed')
             /\ GoodFlights(geography', election', flights', lists', lists', malformed')
             /\ GoodCache(responseCache', malformed')
             /\ DistrictIsListed(election', lists')
             /\ HasGeographicCoverage(geography') => election'.party = "" \/ lostUpdate'
             /\ "provinces" \notin changed => List(lists', "provinces") = List(lists, "provinces")
             /\ OpenDashboards(flights) \cup dashboards \subseteq OpenDashboards(flights')
             /\ \/ Current' = DashboardRequest(g, e)
                \/ \E f \in OpenDashboards(flights') : f.url[1] = Current'
  BY DEF KeptByEffects
<1>0. /\ IsGeography(g) /\ IsElection(e)
      /\ malformed = TRUE \/ IsPath(g)
      /\ \A l \in ListNames \ changed : Deps(l, g, e, lists) = Deps(l, geography, election, lists)
      /\ "legislative" \in changed
            \/ /\ DistrictIsListed(e, lists)
               /\ \A f \in flights : f.of = "legislative" => e.district = election.district
      /\ "partyLists" \in changed \/ (HasGeographicCoverage(g) => e.party = "" \/ lostUpdate)
  BY DEF Fits
<1>1. PICK now : now = Rendered(changed, g, e, lists, flights, responseCache)
  OBVIOUS
<1>2. PICK next : next = Refind(now, lists, responseCache, g, e)
  OBVIOUS
<1>3. PICK settled : settled = Cleared(changed, g, e)
  OBVIOUS
<1>4. PICK more : more = (IF settled = e THEN {} ELSE {DashboardFlight(DashboardRequest(g, settled))})
  OBVIOUS
<1>5. /\ geography' = g /\ election' = settled /\ lists' = next.lists
      /\ flights' = (next.flights \cup dashboards) \cup more
      /\ lostUpdate' = (lostUpdate \/ (ClearsParty(changed, g, e) /\ ClearsDistrict(changed, g, e)))
      /\ handlers' = Asked(next.asked, handlers)
      /\ UNCHANGED <<psaResponseCache, malformed, responseCache>>
  BY <1>1, <1>2, <1>3, <1>4 DEF Effects, Rendered
<1>6. /\ malformed = TRUE \/ OnlyProvinces(lists)
      /\ IsGeography(geography) /\ IsElection(election)
      /\ GoodLists(geography, election, lists, lists, malformed)
      /\ GoodFlights(geography, election, flights, lists, lists, malformed)
      /\ GoodCache(responseCache, malformed)
  <2>1. ASSUME malformed # TRUE
        PROVE  OnlyProvinces(lists)
    BY <2>1, ListedProvinces DEF SelectionInv, OnlyProvinces
  <2> QED BY <2>1 DEF SelectionInv
<1>7. /\ GoodLists(g, e, now.lists, lists, malformed)
      /\ GoodFlights(g, e, now.flights, now.lists, lists, malformed)
      /\ GoodAsked(now.asked, malformed)
      /\ OpenDashboards(now.flights) = OpenDashboards(flights)
      /\ IsStage(now)
      /\ SameOn(ListNames \ changed, now.lists, lists)
      /\ DOMAIN now.lists \cap changed \subseteq GeographyLists
  <2>1. \/ "legislative" \in changed
        \/ \A f \in flights : f.of = "legislative" => e.district = election.district
    BY <1>0
  <2>2. /\ IsGeography(g) /\ IsElection(e)
        /\ malformed = TRUE \/ IsPath(g)
    BY <1>0
  <2>3. \A l \in ListNames \ changed : Deps(l, g, e, lists) = Deps(l, geography, election, lists)
    BY <1>0
  <2>4. KeptByRender(changed, g, e, lists, flights, responseCache, malformed)
    BY <1>6, <2>1, <2>2, <2>3, RenderedIsGood
  <2> QED BY <1>1, <2>4 DEF KeptByRender
<1>8. malformed = TRUE \/ OnlyProvinces(now.lists)
  <2> SUFFICES ASSUME malformed # TRUE PROVE OnlyProvinces(now.lists)
    OBVIOUS
  <2> QED BY <1>0, <1>7, ListedProvinces DEF OnlyProvinces
<1>9. /\ GoodLists(g, e, next.lists, next.lists, malformed)
      /\ GoodFlights(g, e, next.flights, next.lists, next.lists, malformed)
      /\ GoodAsked(next.asked, malformed)
      /\ OpenDashboards(next.flights) = OpenDashboards(now.flights)
      /\ SameOn(ListNames \ {"localities"}, next.lists, now.lists)
  <2>1. /\ IsGeography(g)
        /\ malformed = TRUE \/ IsPath(g)
    BY <1>0
  <2>2. /\ GoodLists(g, e, now.lists, lists, malformed)
        /\ GoodFlights(g, e, now.flights, now.lists, lists, malformed)
        /\ GoodAsked(now.asked, malformed)
        /\ IsStage(now)
    BY <1>7
  <2>3. GoodCache(responseCache, malformed)
    BY <1>6
  <2>4. KeptByRefind(now, lists, responseCache, g, e, malformed)
    BY <1>8, <2>1, <2>2, <2>3, RefindKeeps
  <2> QED BY <1>2, <2>4 DEF KeptByRefind
<1>10. /\ IsElection(settled) /\ settled.mode = e.mode /\ settled.district \in {"", e.district}
       /\ \A l \in ListNames : Asks(l, g, settled) <=> Asks(l, g, e)
  <2>1. IsElection(e)
    BY <1>0
  <2> QED BY <1>3, <2>1, ClearedElection
<1>11. ServiceInv'
  <2>1. PICK hs : hs = handlers
    OBVIOUS
  <2>2. handlers' = Asked(next.asked, hs)
    BY <1>5, <2>1
  <2> QED BY <1>5, <1>9, <2>1, <2>2, AskedIsExact
<1>12. GoodLists(g, settled, next.lists, next.lists, malformed)
  BY <1>9, <1>10 DEF GoodLists
<1>13. \A f \in more : f.of = "dashboard" /\ f.url = <<DashboardRequest(g, settled)>>
  BY <1>4 DEF DashboardFlight, OpenDashboards
<1>14. GoodFlights(g, settled, flights', next.lists, next.lists, malformed)
  <2>1. ASSUME NEW f \in next.flights
        PROVE  GoodFlight(f, g, settled, next.lists, malformed)
    <3>1. GoodFlight(f, g, e, next.lists, malformed)
      BY <1>9 DEF GoodFlights
    <3>2. f.of = "legislative" => Asks("legislative", g, e)
      BY <3>1 DEF GoodFlight
    <3>3. ASSUME Asks("legislative", g, e)
          PROVE  settled.district = e.district
      <4>1. settled = e \/ settled = [e EXCEPT !.party = ""]
        BY <1>3, <3>3 DEF Cleared, ClearsDistrict
      <4>2. e = [mode |-> e.mode, district |-> e.district, party |-> e.party]
        BY <1>0 DEF IsElection
      <4> QED BY <4>1, <4>2
    <3> QED BY <1>10, <3>1, <3>2, <3>3 DEF GoodFlight
  <2>2. \A f \in dashboards \cup more : f.of = "dashboard" /\ Len(f.url) = 1
    <3>1. \A r : Len(<<r>>) = 1
      OBVIOUS
    <3> QED BY <1>13, <3>1
  <2>3. "dashboard" \notin DOMAIN next.lists
    BY <1>9, NoDashboard1 DEF GoodLists
  <2>4. \A f \in flights' : GoodFlight(f, g, settled, next.lists, malformed) /\ f.of \notin DOMAIN next.lists
    BY <1>5, <1>9, <2>1, <2>2, <2>3 DEF GoodFlight, GoodFlights
  <2>5. \A f \in flights' : f.of \in ElectionLists => f \in next.flights
    BY <1>5, <2>2 DEF ElectionLists
  <2> QED BY <1>9, <2>4, <2>5 DEF GoodFlights
<1>15. DistrictIsListed(settled, next.lists)
  <2> SUFFICES ASSUME "legislative" \in DOMAIN next.lists
               PROVE  settled.district \in next.lists["legislative"] \cup {""}
    BY DEF DistrictIsListed
  <2>1. "legislative" \in DOMAIN now.lists /\ next.lists["legislative"] = now.lists["legislative"]
    BY <1>9 DEF SameOn, ListNames
  <2>2. "legislative" \notin changed /\ "legislative" \in ListNames
    BY <1>7, <2>1 DEF GeographyLists, ListNames
  <2>3. "legislative" \in DOMAIN lists /\ now.lists["legislative"] = lists["legislative"]
    BY <1>7, <2>1, <2>2 DEF SameOn
  <2> QED BY <1>0, <1>10, <2>1, <2>2, <2>3 DEF DistrictIsListed
<1>16. HasGeographicCoverage(g) => settled.party = "" \/ lostUpdate'
  <2> SUFFICES ASSUME HasGeographicCoverage(g), settled.party # "" PROVE lostUpdate'
    OBVIOUS
  <2>1. CASE e.party = ""
    BY <1>0, <1>3, <2>1 DEF Cleared, ClearsParty, IsElection
  <2>2. CASE e.party # "" /\ "partyLists" \notin changed
    BY <1>0, <1>5, <2>2
  <2>3. CASE e.party # "" /\ "partyLists" \in changed
    <3>1. ClearsParty(changed, g, e)
      BY <2>3 DEF ClearsParty
    <3>2. ASSUME ~ClearsDistrict(changed, g, e) PROVE FALSE
      <4>1. settled = [e EXCEPT !.party = ""]
        BY <1>3, <3>1, <3>2 DEF Cleared
      <4>2. settled.party = ""
        BY <1>0, <4>1 DEF IsElection
      <4> QED BY <4>2
    <3> QED BY <1>5, <3>1, <3>2
  <2> QED BY <2>1, <2>2, <2>3
<1>17. "provinces" \notin changed => List(next.lists, "provinces") = List(lists, "provinces")
  BY <1>7, <1>9 DEF List, ListNames, SameOn
<1>18. OpenDashboards(flights) \cup dashboards \subseteq OpenDashboards(flights')
  BY <1>5, <1>7, <1>9 DEF OpenDashboards
<1>19. \/ Current' = DashboardRequest(g, e)
       \/ \E f \in OpenDashboards(flights') : f.url[1] = Current'
  <2>1. Current' = DashboardRequest(g, settled)
    BY <1>5 DEF Current
  <2>2. ASSUME settled # e
        PROVE  \E f \in OpenDashboards(flights') : f.url[1] = DashboardRequest(g, settled)
    <3>1. PICK f : f \in more
      BY <1>4, <2>2
    <3>2. f \in OpenDashboards(flights')
      BY <1>5, <1>13, <3>1 DEF OpenDashboards
    <3>3. f.url[1] = DashboardRequest(g, settled)
      BY <1>13, <3>1
    <3> QED BY <3>2, <3>3
  <2> QED BY <2>1, <2>2
<1>20. lostUpdate' \in BOOLEAN
  BY <1>5 DEF SelectionInv
<1> QED BY <1>0, <1>5, <1>6, <1>10, <1>11, <1>12, <1>14, <1>15, <1>16, <1>17, <1>18, <1>19, <1>20

LEMMA RenderKeeps ==
    ASSUME SelectionInv, ServiceInv, NEW g, NEW e, NEW changed,
           changed = {l \in ListNames : Deps(l, g, e, lists) # Deps(l, geography, election, lists)},
           Fits(changed, g, e), Render(g, e),
           \/ hasCoverageLock' \/ g.province \in {"", INDEPENDENT_CITIES_FILTER}
           \/ "provinces" \notin changed /\ ProvinceIsListed(g, lists)
    PROVE  SelectionInv' /\ ServiceInv'
<1>1. PICK dashboards : dashboards = RequestDashboards(g, e)
  OBVIOUS
<1>2. /\ changed \in SUBSET ListNames
      /\ Effects(changed, dashboards, g, e)
      /\ UNCHANGED <<shown, overtaken>>
  BY <1>1 DEF Render
<1>3. \A f \in dashboards : f.of = "dashboard" /\ f.url = <<DashboardRequest(g, e)>>
  <2>1. \A f \in dashboards : f = DashboardFlight(DashboardRequest(g, e))
    BY <1>1 DEF RequestDashboards
  <2>2. PICK d : d = DashboardFlight(DashboardRequest(g, e))
    OBVIOUS
  <2>3. d.of = "dashboard" /\ d.url = <<DashboardRequest(g, e)>>
    BY <2>2 DEF DashboardFlight
  <2> QED BY <2>1, <2>2, <2>3
<1>4. \A r : Len(<<r>>) = 1
  OBVIOUS
<1>5. /\ ServiceInv' /\ geography' = g /\ IsElection(election') /\ lostUpdate' \in BOOLEAN
      /\ malformed' = TRUE \/ IsPath(geography')
      /\ GoodLists(geography', election', lists', lists', malformed')
      /\ GoodFlights(geography', election', flights', lists', lists', malformed')
      /\ GoodCache(responseCache', malformed')
      /\ DistrictIsListed(election', lists')
      /\ HasGeographicCoverage(geography') => election'.party = "" \/ lostUpdate'
      /\ "provinces" \notin changed => List(lists', "provinces") = List(lists, "provinces")
      /\ OpenDashboards(flights) \cup dashboards \subseteq OpenDashboards(flights')
      /\ \/ Current' = DashboardRequest(g, e)
         \/ \E f \in OpenDashboards(flights') : f.url[1] = Current'
  <2>1. \A f \in dashboards : f.of = "dashboard" /\ Len(f.url) = 1
    BY <1>3, <1>4
  <2>2. KeptByEffects(changed, dashboards, g, e)
    BY <1>2, <2>1, EffectsKeep
  <2> QED BY <2>2 DEF KeptByEffects
<1>6. hasCoverageLock' \/ ProvinceIsListed(geography', lists')
  BY <1>5 DEF ProvinceIsListed
<1>7. overtaken' \/ ShowsOrWill((shown.request)', flights', Current')
  <2> SUFFICES ASSUME ~overtaken'
               PROVE  ShowsOrWill((shown.request)', flights', Current')
    OBVIOUS
  <2>1. ~overtaken
    BY <1>2
  <2>2. CASE \E f \in OpenDashboards(flights') : f.url[1] = Current'
    BY <2>2 DEF ShowsOrWill
  <2>3. CASE Current' = DashboardRequest(g, e) /\ Current' = Current
    <3>1. ShowsOrWill(shown.request, flights, Current)
      BY <2>1 DEF SelectionInv
    <3>2. ShowsOrWill(shown.request, flights', Current)
      BY <1>5, <3>1 DEF ShowsOrWill
    <3> QED BY <1>2, <2>3, <3>2
  <2>4. CASE Current' = DashboardRequest(g, e) /\ Current' # Current
    <3>1. DashboardFlight(DashboardRequest(g, e)) \in dashboards
      BY <1>1, <2>4 DEF RequestDashboards
    <3>2. PICK f \in OpenDashboards(flights') : f.url = <<DashboardRequest(g, e)>>
      BY <1>3, <1>5, <3>1
    <3>3. f.url[1] = DashboardRequest(g, e)
      <4>1. \A r : <<r>>[1] = r
        OBVIOUS
      <4> QED BY <3>2, <4>1
    <3> QED BY <2>4, <3>3 DEF ShowsOrWill
  <2>5. \/ Current' = DashboardRequest(g, e)
        \/ \E f \in OpenDashboards(flights') : f.url[1] = Current'
    BY <1>5
  <2> QED BY <2>2, <2>3, <2>4, <2>5
<1>8. IsGeography(geography')
  BY <1>5 DEF Fits
<1> QED BY <1>5, <1>6, <1>7, <1>8 DEF SelectionInv
-----------------------------------------------------------------------------
(***************************************************************************)
(* The choices of the user, and another account.                           *)
(***************************************************************************)
Changes(g, e) == {l \in ListNames : Deps(l, g, e, lists) # Deps(l, geography, election, lists)}

LEMMA ChangeOfPlaceFits ==
    ASSUME SelectionInv, NEW g, NEW changed, changed = Changes(g, election),
           IsGeography(g), malformed = TRUE \/ IsPath(g)
    PROVE  /\ Fits(changed, g, election)
           /\ g.region = geography.region => "provinces" \notin changed
<1>0. g.region = geography.region => "provinces" \notin changed
  BY DEF Changes, Deps
<1> SUFFICES Fits(changed, g, election)
  BY <1>0
<1>1. {"legislative", "partyLists", "provinces"} \subseteq ListNames
  BY DEF ListNames
<1>2. \A l \in ListNames \ changed :
         Deps(l, g, election, lists) = Deps(l, geography, election, lists)
  BY DEF Changes
<1>3. CASE "legislative" \notin changed
  <2>1. Deps("legislative", g, election, lists) = Deps("legislative", geography, election, lists)
    BY <1>1, <1>2, <1>3
  <2>2. g = geography
    BY <2>1 DEF Deps
  <2> QED BY <1>2, <2>2 DEF Fits, SelectionInv
<1>4. CASE "legislative" \in changed
  <2>1. CASE "partyLists" \in changed
    BY <1>2, <1>4, <2>1 DEF Fits, SelectionInv
  <2>2. CASE "partyLists" \notin changed
    <3>1. Deps("partyLists", g, election, lists) = Deps("partyLists", geography, election, lists)
      BY <1>1, <1>2, <2>2
    <3>2. HasGeographicCoverage(g) <=> HasGeographicCoverage(geography)
      BY <3>1 DEF Deps, HasGeographicCoverage
    <3> QED BY <1>2, <1>4, <3>2 DEF Fits, SelectionInv
  <2> QED BY <2>1, <2>2
<1> QED BY <1>3, <1>4

LEMMA ChangeOfElectionFits ==
    ASSUME SelectionInv, NEW e, NEW changed, changed = Changes(geography, e), IsElection(e),
           e.party = election.party \/ ~HasGeographicCoverage(geography),
           \/ e.mode # election.mode
           \/ /\ DistrictIsListed(e, lists)
              /\ e.district = election.district \/ ~Loading("legislative")
    PROVE  Fits(changed, geography, e) /\ "provinces" \notin changed
<1>1. {"legislative", "partyLists", "provinces"} \subseteq ListNames
  BY DEF ListNames
<1>2. \A l \in ListNames \ changed :
         Deps(l, geography, e, lists) = Deps(l, geography, election, lists)
  BY DEF Changes
<1>3. HasGeographicCoverage(geography) => e.party = "" \/ lostUpdate
  BY DEF SelectionInv
<1>4. "legislative" \in changed
         \/ /\ DistrictIsListed(e, lists)
            /\ \A f \in flights : f.of = "legislative" => e.district = election.district
  <2>1. CASE e.mode # election.mode
    <3>1. Deps("legislative", geography, e, lists) # Deps("legislative", geography, election, lists)
      BY <2>1 DEF Deps
    <3> QED BY <1>1, <3>1 DEF Changes
  <2>2. CASE e.mode = election.mode
    BY <2>2 DEF Loading
  <2> QED BY <2>1, <2>2
<1>5. "provinces" \notin changed
  BY DEF Changes, Deps
<1> QED BY <1>2, <1>3, <1>4, <1>5 DEF Fits, SelectionInv

LEMMA PlaceIsChosen ==
    ASSUME SelectionInv, ServiceInv, NEW g, IsGeography(g), malformed = TRUE \/ IsPath(g),
           Chooses(g, election),
           \/ hasCoverageLock' \/ g.province \in {"", INDEPENDENT_CITIES_FILTER}
           \/ g.region = geography.region /\ ProvinceIsListed(g, lists)
    PROVE  SelectionInv' /\ ServiceInv'
<1>1. PICK e : e = election
  OBVIOUS
<1>2. PICK changed : changed = Changes(g, e)
  OBVIOUS
<1>3. Render(g, e)
  BY <1>1 DEF Chooses
<1>4. Fits(changed, g, e) /\ (g.region = geography.region => "provinces" \notin changed)
  BY <1>1, <1>2, ChangeOfPlaceFits
<1>5. changed = {l \in ListNames : Deps(l, g, e, lists) # Deps(l, geography, election, lists)}
  BY <1>2 DEF Changes
<1> QED BY <1>3, <1>4, <1>5, RenderKeeps

LEMMA ElectionIsChosen ==
    ASSUME SelectionInv, ServiceInv, NEW e, IsElection(e), Chooses(geography, e), UNCHANGED user,
           e.party = election.party \/ ~HasGeographicCoverage(geography),
           \/ e.mode # election.mode
           \/ /\ DistrictIsListed(e, lists)
              /\ e.district = election.district \/ ~Loading("legislative")
    PROVE  SelectionInv' /\ ServiceInv'
<1>1. PICK g : g = geography
  OBVIOUS
<1>2. PICK changed : changed = Changes(geography, e)
  OBVIOUS
<1>3. Render(g, e)
  BY <1>1 DEF Chooses
<1>4. Fits(changed, geography, e) /\ "provinces" \notin changed
  BY <1>2, ChangeOfElectionFits
<1>5. changed = {l \in ListNames : Deps(l, g, e, lists) # Deps(l, geography, election, lists)}
  BY <1>1, <1>2 DEF Changes
<1>6. hasCoverageLock' \/ ProvinceIsListed(g, lists)
  BY <1>1 DEF SelectionInv, hasCoverageLock
<1>7. Fits(changed, g, e)
  BY <1>1, <1>4
<1> QED BY <1>3, <1>4, <1>5, <1>6, <1>7, RenderKeeps

LEMMA RegionOnly ==
    ASSUME NEW g, NEW region \in Regions \cup {""}, g = [National EXCEPT !.region = region]
    PROVE  IsGeography(g) /\ IsPath(g) /\ g.region = region /\ g.province = "" /\ g.locality = ""
<1>0. g = [region |-> region, province |-> "", district |-> "", locality |-> ""]
  BY DEF National
<1>1. /\ "" \notin GroupFilters /\ "" # INDEPENDENT_CITIES_FILTER
  BY DEF GroupFilters, INDEPENDENT_CITIES_FILTER
<1>2. /\ g.region = region
      /\ g.province = "" /\ g.district = "" /\ g.locality = ""
  BY <1>0 DEF National
<1>3. IsGeography(g)
  BY <1>0, <1>2 DEF IsGeography
<1>4. Province(g) = "" /\ SpecificLocality(g) = ""
  BY <1>1, <1>2 DEF Province, SpecificLocality
<1> QED BY <1>2, <1>3, <1>4 DEF IsPath

LEMMA ListedDistricts ==
    ASSUME NEW g, NEW e, NEW ls, NEW old, NEW bad, GoodLists(g, e, ls, old, bad), bad # TRUE,
           IsGeography(g)
    PROVE  \A u \in List(ls, "districts") : u.code \in DOMAIN NCRDistricts
<1>1. CASE "districts" \notin DOMAIN ls
  BY <1>1 DEF List
<1>2. CASE "districts" \in DOMAIN ls
  <2>1. Complete(Districts(g.region), ls["districts"])
    BY <1>2 DEF GoodLists, Asks, Url, GoodList
  <2>2. ls["districts"] = {[code |-> d, level |-> "Dist", prv |-> ""] : d \in DOMAIN NCRDistricts}
    BY <2>1, Urls DEF Complete
  <2>3. ASSUME NEW d \in DOMAIN NCRDistricts, NEW u, u = [code |-> d, level |-> "Dist", prv |-> ""]
        PROVE  u.code \in DOMAIN NCRDistricts
    BY <2>3
  <2>4. \A u \in ls["districts"] : u.code \in DOMAIN NCRDistricts
    BY <2>2, <2>3
  <2> QED BY <1>2, <2>4 DEF List
<1> QED BY <1>1, <1>2

(* The localities that are offered are below what is selected.             *)
LEMMA ListedLocalities ==
    ASSUME SelectionInv, ~hasCoverageLock, malformed # TRUE, geography.region # ""
    PROVE  \A u \in filteredLocalities :
              /\ u \in UnitsIn(geography.region) /\ isMunicipalityOrCity(u)
              /\ geography.province \in ProvinceCodes(geography.region) => u.prv = geography.province
              /\ isNCR(geography) /\ geography.district # "" =>
                    u.code \in NCRDistricts[geography.district]
<1> DEFINE reg == geography.region
           prv == IF isNCR(geography) THEN "" ELSE SelectedProvince(geography, lists)
           url == Municipalities(reg, prv)
<1> SUFFICES ASSUME NEW u \in filteredLocalities
             PROVE  /\ u \in UnitsIn(reg) /\ isMunicipalityOrCity(u)
                    /\ geography.province \in ProvinceCodes(reg) => u.prv = geography.province
                    /\ isNCR(geography) /\ geography.district # "" =>
                          u.code \in NCRDistricts[geography.district]
  OBVIOUS
<1>1. u \in List(lists, "localities")
  BY DEF filteredLocalities, independentCities
<1>2. "localities" \in DOMAIN lists /\ u \in lists["localities"]
  BY <1>1 DEF List
<1>3. GoodList("localities", Url("localities", geography, lists), lists["localities"], malformed)
  BY <1>2 DEF SelectionInv, GoodLists
<1>4. Complete(url, lists["localities"])
  BY <1>3 DEF GoodList, Url
<1>5. lists["localities"] = {v \in UnitsIn(reg) : isMunicipalityOrCity(v) /\ prv \in {"", v.prv}}
  <2> HIDE DEF prv, reg, url
  <2>1. PICK q : q = Municipalities(reg, prv)
    OBVIOUS
  <2>2. q[1] = "municipalities" /\ q[2] = reg /\ q[3] = prv
    BY <2>1 DEF Municipalities
  <2>3. Complete(q, lists["localities"])
    BY <1>4, <2>1 DEF url
  <2> QED BY <2>2, <2>3 DEF Complete
<1>6. u \in UnitsIn(reg) /\ isMunicipalityOrCity(u) /\ prv \in {"", u.prv}
  BY <1>2, <1>5
<1>7. CASE isNCR(geography)
  <2>1. ProvinceCodes(reg) = {}
    BY <1>7, PagesAssumption DEF isNCR
  <2>2. geography.district # "" => geography.district \in DOMAIN NCRDistricts
    BY DEF SelectionInv, IsPath
  <2>3. geography.district \in DOMAIN NCRDistricts => u.code \in NCRDistricts[geography.district]
    BY <1>7 DEF filteredLocalities
  <2> QED BY <1>6, <2>1, <2>2, <2>3
<1>8. CASE ~isNCR(geography) /\ prv # ""
  <2>1. prv = geography.province
    BY <1>8 DEF SelectedProvince
  <2> QED BY <1>6, <1>8, <2>1
<1>9. CASE ~isNCR(geography) /\ prv = ""
  <2>1. geography.province \notin {v.code : v \in List(lists, "provinces")} \/ geography.province = ""
    BY <1>9 DEF SelectedProvince
  <2>2. geography.province \in {"", INDEPENDENT_CITIES_FILTER}
    BY <2>1 DEF SelectionInv, ProvinceIsListed
  <2>3. reg \in Regions
    BY DEF SelectionInv, IsGeography
  <2>4. geography.province \notin ProvinceCodes(reg)
    BY <2>2, <2>3, PlacesAssumption
  <2> QED BY <1>6, <1>9, <2>4
<1> QED BY <1>7, <1>8, <1>9

LEMMA RegionIsChosen ==
    ASSUME SelectionInv, ServiceInv, NEW region \in Regions \cup {""}, ChooseRegion(region)
    PROVE  SelectionInv' /\ ServiceInv'
<1>1. PICK g : g = [National EXCEPT !.region = region]
  OBVIOUS
<1>2. Chooses(g, election)
  BY <1>1 DEF ChooseRegion
<1>3. IsGeography(g) /\ IsPath(g) /\ g.province = ""
  BY <1>1, RegionOnly
<1> QED BY <1>2, <1>3, PlaceIsChosen

LEMMA ProvinceIsChosen ==
    ASSUME SelectionInv, ServiceInv, NEW province, ChooseProvince(province)
    PROVE  SelectionInv' /\ ServiceInv'
<1>0. PICK region : region = geography.region
  OBVIOUS
<1>1. PICK g : g = [National EXCEPT !.region = region, !.province = province]
  OBVIOUS
<1>2. /\ region # "" /\ geography.region = region
      /\ \/ province \in {""} \cup {u.code : u \in List(lists, "provinces")}
         \/ province = INDEPENDENT_CITIES_FILTER
  BY <1>0 DEF ChooseProvince
<1>3. g = [region |-> region, province |-> province, district |-> "", locality |-> ""]
  BY <1>1 DEF National
<1>4. Chooses(g, election)
  BY <1>0, <1>1 DEF ChooseProvince
<1>5. g.region = region /\ g.province = province /\ g.district = "" /\ g.locality = ""
  BY <1>3
<1>6. region \in Regions
  BY <1>2 DEF SelectionInv, IsGeography
<1>7. IsGeography(g)
  BY <1>3, <1>5, <1>6 DEF IsGeography
<1>8. ASSUME malformed # TRUE PROVE IsPath(g)
  <2>1. \A u \in List(lists, "provinces") : u.code \in ProvinceCodes(region)
    BY <1>2, <1>8, ListedProvinces DEF SelectionInv
  <2>2. Province(g) # "" => Province(g) \in ProvinceCodes(region)
    BY <1>2, <1>5, <2>1 DEF Province
  <2>3. SpecificLocality(g) = ""
    BY <1>5 DEF SpecificLocality
  <2> QED BY <1>5, <2>2, <2>3 DEF IsPath
<1>9. ProvinceIsListed(g, lists)
  BY <1>2, <1>5 DEF ProvinceIsListed
<1> QED BY <1>2, <1>4, <1>5, <1>7, <1>8, <1>9, PlaceIsChosen

LEMMA DistrictIsChosen ==
    ASSUME SelectionInv, ServiceInv, NEW district, ChooseDistrict(district)
    PROVE  SelectionInv' /\ ServiceInv'
<1>0. PICK region : region = geography.region
  OBVIOUS
<1>1. PICK g : g = [National EXCEPT !.region = region, !.district = district]
  OBVIOUS
<1>2. /\ region = NCRRegion /\ geography.region = region
      /\ district \in {""} \cup {u.code : u \in List(lists, "districts")}
  BY <1>0 DEF ChooseDistrict, isNCR
<1>3. g = [region |-> region, province |-> "", district |-> district, locality |-> ""]
  BY <1>1 DEF National
<1>4. Chooses(g, election)
  BY <1>0, <1>1 DEF ChooseDistrict
<1>5. g.region = region /\ g.province = "" /\ g.district = district /\ g.locality = ""
  BY <1>3
<1>6. region \in Regions
  BY <1>2, PagesAssumption
<1>7. IsGeography(g)
  BY <1>3, <1>5, <1>6 DEF IsGeography
<1>8. ASSUME malformed # TRUE PROVE IsPath(g)
  <2>1. \A u \in List(lists, "districts") : u.code \in DOMAIN NCRDistricts
    BY <1>2, <1>8, ListedDistricts DEF SelectionInv
  <2>2. district # "" => isNCR(g) /\ district \in DOMAIN NCRDistricts
    BY <1>2, <1>5, <2>1 DEF isNCR
  <2>3. SpecificLocality(g) = "" /\ Province(g) = ""
    BY <1>5 DEF SpecificLocality, Province
  <2> QED BY <1>5, <2>2, <2>3 DEF IsPath
<1> QED BY <1>4, <1>5, <1>7, <1>8, PlaceIsChosen

LEMMA LocalityIsChosen ==
    ASSUME SelectionInv, ServiceInv, NEW locality, ChooseLocality(locality), UNCHANGED user
    PROVE  SelectionInv' /\ ServiceInv'
<1>0. PICK old : old = geography
  OBVIOUS
<1>1. PICK g : g = [old EXCEPT !.locality = locality]
  OBVIOUS
<1>2. /\ ~hasCoverageLock /\ geography.region # ""
      /\ \/ locality \in {""} \cup {u.code : u \in filteredLocalities}
         \/ \E u \in filteredLocalities :
               locality = (IF u.level = "city" THEN "all-cities" ELSE "all-municipalities")
  BY DEF ChooseLocality
<1>3. Chooses(g, election)
  BY <1>0, <1>1 DEF ChooseLocality
<1>4. IsGeography(old)
  BY <1>0 DEF SelectionInv
<1>5. /\ g.region = old.region /\ g.province = old.province /\ g.district = old.district
      /\ g.locality = locality
      /\ g = [region |-> old.region, province |-> old.province, district |-> old.district,
              locality |-> locality]
  BY <1>1, <1>4 DEF IsGeography
<1>6. IsGeography(g)
  BY <1>4, <1>5 DEF IsGeography
<1>7. ASSUME malformed # TRUE PROVE IsPath(g)
  <2>1. IsPath(old)
    BY <1>0, <1>7 DEF SelectionInv
  <2>2. Province(g) = Province(old) /\ (isNCR(g) <=> isNCR(old))
    BY <1>5 DEF Province, isNCR
  <2>3. ASSUME SpecificLocality(g) # ""
        PROVE  \E u \in UnitsIn(g.region) :
                  /\ u.code = SpecificLocality(g) /\ isMunicipalityOrCity(u)
                  /\ g.province \in ProvinceCodes(g.region) => u.prv = g.province
                  /\ isNCR(g) /\ g.district # "" => SpecificLocality(g) \in NCRDistricts[g.district]
    <3>1. SpecificLocality(g) = locality /\ locality # "" /\ locality \notin GroupFilters
      BY <1>5, <2>3 DEF SpecificLocality
    <3>2. locality \notin {"all-cities", "all-municipalities"}
      BY <3>1 DEF GroupFilters
    <3>3. PICK u \in filteredLocalities : u.code = locality
      BY <1>2, <3>1, <3>2
    <3>4. /\ u \in UnitsIn(geography.region) /\ isMunicipalityOrCity(u)
          /\ geography.province \in ProvinceCodes(geography.region) => u.prv = geography.province
          /\ isNCR(geography) /\ geography.district # "" =>
                u.code \in NCRDistricts[geography.district]
      BY <1>2, <1>7, ListedLocalities
    <3> QED BY <1>0, <1>5, <2>2, <3>1, <3>3, <3>4
  <2> QED BY <1>5, <2>1, <2>2, <2>3 DEF IsPath
<1>8. ProvinceIsListed(g, lists)
  BY <1>0, <1>2, <1>5 DEF SelectionInv, ProvinceIsListed
<1> QED BY <1>0, <1>3, <1>5, <1>6, <1>7, <1>8, PlaceIsChosen

LEMMA ModeIsChosen ==
    ASSUME SelectionInv, ServiceInv, NEW mode, ChooseMode(mode), UNCHANGED user
    PROVE  SelectionInv' /\ ServiceInv'
<1>1. PICK old : old = election
  OBVIOUS
<1>2. PICK e : e = [old EXCEPT !.mode = mode, !.district = ""]
  OBVIOUS
<1>3. Chooses(geography, e) /\ mode # old.mode
  BY <1>1, <1>2 DEF ChooseMode
<1>4. old = [mode |-> old.mode, district |-> old.district, party |-> old.party]
  BY <1>1 DEF SelectionInv, IsElection
<1>5. e.mode = mode /\ e.district = "" /\ e.party = old.party
      /\ e = [mode |-> mode, district |-> "", party |-> old.party]
  BY <1>2, <1>4
<1>6. IsElection(e)
  BY <1>5 DEF IsElection
<1> QED BY <1>1, <1>3, <1>5, <1>6, ElectionIsChosen

LEMMA LegislativeIsChosen ==
    ASSUME SelectionInv, ServiceInv, NEW d, ChooseLegislative(d), UNCHANGED user
    PROVE  SelectionInv' /\ ServiceInv'
<1>1. PICK old : old = election
  OBVIOUS
<1>2. PICK e : e = [old EXCEPT !.district = d]
  OBVIOUS
<1>3. /\ Chooses(geography, e) /\ old.mode = "legislative"
      /\ ~Loading("legislative") /\ d \in {""} \cup List(lists, "legislative")
  BY <1>1, <1>2 DEF ChooseLegislative
<1>4. old = [mode |-> old.mode, district |-> old.district, party |-> old.party]
  BY <1>1 DEF SelectionInv, IsElection
<1>5. e.mode = old.mode /\ e.district = d /\ e.party = old.party
      /\ e = [mode |-> old.mode, district |-> d, party |-> old.party]
  BY <1>2, <1>4
<1>6. IsElection(e)
  BY <1>3, <1>5 DEF IsElection
<1>7. DistrictIsListed(e, lists)
  BY <1>3, <1>5 DEF DistrictIsListed, List
<1> QED BY <1>1, <1>3, <1>5, <1>6, <1>7, ElectionIsChosen

LEMMA PartyListIsChosen ==
    ASSUME SelectionInv, ServiceInv, NEW p, ChoosePartyList(p), UNCHANGED user
    PROVE  SelectionInv' /\ ServiceInv'
<1>1. PICK old : old = election
  OBVIOUS
<1>2. PICK e : e = [old EXCEPT !.party = p]
  OBVIOUS
<1>3. Chooses(geography, e) /\ ~HasGeographicCoverage(geography)
  BY <1>1, <1>2 DEF ChoosePartyList
<1>4. old = [mode |-> old.mode, district |-> old.district, party |-> old.party]
      /\ (old.mode = "legislative" \/ old.district = "") /\ DistrictIsListed(old, lists)
  BY <1>1 DEF SelectionInv, IsElection
<1>5. e.mode = old.mode /\ e.district = old.district /\ e.party = p
      /\ e = [mode |-> old.mode, district |-> old.district, party |-> p]
  BY <1>2, <1>4
<1>6. IsElection(e)
  BY <1>4, <1>5 DEF IsElection
<1>7. DistrictIsListed(e, lists)
  BY <1>4, <1>5 DEF DistrictIsListed
<1> QED BY <1>1, <1>3, <1>5, <1>6, <1>7, ElectionIsChosen

LEMMA ChoiceKeeps == SelectionInv /\ ServiceInv /\ Choose /\ UNCHANGED user => SelectionInv' /\ ServiceInv'
BY RegionIsChosen, ProvinceIsChosen, DistrictIsChosen, LocalityIsChosen, ModeIsChosen,
   LegislativeIsChosen, PartyListIsChosen DEF Choose

(* An account that is not locked is assigned to no place.                  *)
LEMMA AssignedPlace ==
    ASSUME AccountsAreNested, NEW u \in Users, NEW g, g = AssignedTo[u]
    PROVE  /\ IsGeography(g) /\ IsPath(g)
           /\ IsLocked(readPersistedUsers[u]) \/ g.province = ""
<1>1. g = National => IsGeography(g) /\ IsPath(g) /\ g.province = ""
  <2>1. PICK n : n = [region |-> "", province |-> "", district |-> "", locality |-> ""]
    OBVIOUS
  <2>2. n.region = "" /\ n.province = "" /\ n.district = "" /\ n.locality = ""
    BY <2>1
  <2>3. Province(n) = "" /\ SpecificLocality(n) = ""
    BY <2>2 DEF Province, SpecificLocality
  <2>4. IsGeography(n) /\ IsPath(n)
    BY <2>1, <2>2, <2>3 DEF IsGeography, IsPath
  <2> QED BY <2>1, <2>2, <2>4 DEF National
<1>2. IsGeography(g) /\ IsPath(g)
  <2>1. CASE g = National
    BY <1>1, <2>1
  <2>2. CASE g # National
    <3>1. g \in [region : Regions, province : STRING, district : STRING, locality : STRING]
          /\ IsPath(g)
      BY <2>2 DEF AccountsAreNested
    <3> QED BY <3>1 DEF IsGeography
  <2> QED BY <2>1, <2>2
<1>3. ~IsLocked(readPersistedUsers[u]) => g = National
  <2>1. AssignedTo[u] = getAssignedGeographySelection(readPersistedUsers[u])
    BY DEF AssignedTo
  <2> QED BY <2>1 DEF getAssignedGeographySelection
<1> QED BY <1>1, <1>2, <1>3

(* Another account: the page goes to the place it is assigned to.          *)
LEMMA ReassignKeeps ==
    ASSUME SelectionInv, ServiceInv, AccountsAreNested, NEW u \in Users, user' = u, Reassign(u)
    PROVE  SelectionInv' /\ ServiceInv'
<1>1. PICK g : g = AssignedTo[u]
  OBVIOUS
<1>2. Chooses(g, election)
  BY <1>1 DEF Reassign
<1>3. hasCoverageLock' <=> IsLocked(readPersistedUsers[u])
  BY DEF hasCoverageLock
<1>4. /\ IsGeography(g) /\ IsPath(g)
      /\ hasCoverageLock' \/ g.province \in {"", INDEPENDENT_CITIES_FILTER}
  BY <1>1, <1>3, AssignedPlace
<1> QED BY <1>2, <1>4, PlaceIsChosen

-----------------------------------------------------------------------------
(***************************************************************************)
(* The page is opened, and answers arrive.                                 *)
(***************************************************************************)
LEMMA MountKeeps ==
    ASSUME SelectionInv, ServiceInv, AccountsAreNested, user \in Users, UNCHANGED user,
           NEW b, Mount(AssignedTo[user], parseElectionSelection(b))
    PROVE  SelectionInv' /\ ServiceInv'
<1>1. PICK u \in Users : u = user
  OBVIOUS
<1>2. PICK g : g = AssignedTo[u]
  OBVIOUS
<1>3. PICK e : e = parseElectionSelection(b)
  OBVIOUS
<1>4. PICK dashboards : dashboards = {DashboardFlight(DashboardRequest(g, e))}
  OBVIOUS
<1>5. /\ Effects(ListNames, dashboards, g, e) /\ UNCHANGED overtaken
      /\ shown' = [request |-> DashboardRequest(g, e), answered |-> FALSE, usingPlaceholder |-> TRUE]
  BY <1>1, <1>2, <1>3, <1>4 DEF Mount
<1>6. (shown.request)' = DashboardRequest(g, e)
  BY <1>5
<1>7. hasCoverageLock' <=> IsLocked(readPersistedUsers[u])
  BY <1>1 DEF hasCoverageLock
<1>8. /\ IsGeography(g) /\ IsPath(g)
      /\ hasCoverageLock' \/ g.province = ""
  BY <1>2, <1>7, AssignedPlace
<1>9. IsElection(e)
  BY <1>3 DEF parseElectionSelection, IsElection
<1>10. Fits(ListNames, g, e)
  BY <1>8, <1>9 DEF Fits, ListNames
<1>11. \A f \in dashboards : f.of = "dashboard" /\ Len(f.url) = 1
  <2>1. PICK d : d = DashboardFlight(DashboardRequest(g, e))
    OBVIOUS
  <2>2. \A r : Len(<<r>>) = 1
    OBVIOUS
  <2>3. d.of = "dashboard" /\ Len(d.url) = 1
    BY <2>1, <2>2 DEF DashboardFlight
  <2> QED BY <1>4, <2>1, <2>3
<1>12. ListNames \in SUBSET ListNames
  OBVIOUS
<1>13. KeptByEffects(ListNames, dashboards, g, e)
  BY <1>5, <1>10, <1>11, <1>12, EffectsKeep
<1>14. hasCoverageLock' \/ ProvinceIsListed(geography', lists')
  BY <1>8, <1>13 DEF KeptByEffects, ProvinceIsListed
<1>15. ShowsOrWill((shown.request)', flights', Current')
  BY <1>6, <1>13 DEF KeptByEffects, ShowsOrWill
<1> QED BY <1>8, <1>13, <1>14, <1>15 DEF KeptByEffects, SelectionInv

(* A list of the geography routes arrives: what waited for it are effects  *)
(* of the present selection.                                               *)
LEMMA ListArrivedKeeps ==
    ASSUME SelectionInv, ServiceInv, UNCHANGED user, NEW url \in DOMAIN handlers, ListArrived(url)
    PROVE  SelectionInv' /\ ServiceInv'
<1>1. PICK g : g = geography
  OBVIOUS
<1>2. PICK e : e = election
  OBVIOUS
<1>3. PICK ok \in BOOLEAN : ok <=> handlers[url].status = "ok"
  OBVIOUS
<1>4. PICK records : records = handlers[url].records
  OBVIOUS
<1>5. PICK waiting : waiting = IF ok THEN {f.of : f \in {f \in flights : f.url = url}} ELSE {}
  OBVIOUS
<1>6. PICK cache : cache = IF ok THEN Put(responseCache, url, records) ELSE responseCache
  OBVIOUS
<1>7. PICK now : now = [lists |-> [l \in DOMAIN lists \cup waiting |->
                                      IF l \in waiting THEN records ELSE lists[l]],
                        flights |-> {f \in flights : f.url # url},
                        asked |-> {}]
  OBVIOUS
<1>8. PICK next : next = Refind(now, lists, cache, g, e)
  OBVIOUS
<1>9. /\ responseCache' = cache /\ lists' = next.lists /\ flights' = next.flights
      /\ handlers' = Asked(next.asked, Restrict(handlers, DOMAIN handlers \ {url}))
      /\ UNCHANGED <<psaResponseCache, malformed, geography, election, shown, lostUpdate, overtaken>>
  BY <1>1, <1>2, <1>3, <1>4, <1>5, <1>6, <1>7, <1>8 DEF ListArrived
<1>10. /\ DOMAIN now.lists = DOMAIN lists \cup waiting
       /\ \A l \in DOMAIN now.lists : now.lists[l] = IF l \in waiting THEN records ELSE lists[l]
       /\ now.flights = {f \in flights : f.url # url} /\ now.asked = {}
       /\ IsStage(now)
  BY <1>7 DEF IsStage
<1>11. /\ IsGeographyUrl(url)
       /\ malformed = TRUE \/ ~ok \/ Complete(url, records)
  BY <1>3, <1>4 DEF ServiceInv, ServiceIsExact, HandlerIsExact
<1>12. /\ GoodLists(g, e, lists, lists, malformed) /\ GoodFlights(g, e, flights, lists, lists, malformed)
       /\ GoodCache(responseCache, malformed) /\ IsGeography(g)
       /\ malformed = TRUE \/ IsPath(g)
  BY <1>1, <1>2 DEF SelectionInv
<1>13. GoodCache(cache, malformed)
  <2>1. CASE ~ok
    BY <1>6, <1>12, <2>1
  <2>2. CASE ok
    <3>1. DOMAIN cache = DOMAIN responseCache \cup {url}
          /\ \A k \in DOMAIN cache : cache[k] = IF k = url THEN records ELSE responseCache[k]
      BY <1>6, <2>2 DEF Put
    <3> QED BY <1>11, <1>12, <2>2, <3>1 DEF GoodCache
  <2> QED BY <2>1, <2>2
<1>14. ASSUME NEW l \in waiting
       PROVE  /\ l \in GeographyLists /\ l \in ListNames /\ l # "dashboard" /\ l \notin DOMAIN lists
              /\ Asks(l, g, e) /\ url = Url(l, g, lists) /\ ok
  <2>1. ok /\ \E f \in flights : f.url = url /\ f.of = l
    BY <1>5
  <2>2. PICK f \in flights : f.url = url /\ f.of = l
    BY <2>1
  <2>3. GoodFlight(f, g, e, lists, malformed) /\ f.of \notin DOMAIN lists
    BY <1>12 DEF GoodFlights
  <2>4. Len(url) = 3
    BY <1>11, GeographyUrls
  <2>5. l # "dashboard" /\ l \in ListNames /\ Asks(l, g, e) /\ url = Url(l, g, lists)
    BY <2>2, <2>3, <2>4 DEF GoodFlight
  <2>6. l \notin {"legislative", "partyLists"}
    BY <1>11, <2>5, NotGeography
  <2> QED BY <2>1, <2>2, <2>3, <2>5, <2>6 DEF GeographyLists, ListNames
<1>15. GoodLists(g, e, now.lists, lists, malformed)
  <2> SUFFICES ASSUME NEW l \in DOMAIN now.lists
               PROVE  /\ l \in ListNames /\ Asks(l, g, e)
                      /\ GoodList(l, Url(l, g, lists), now.lists[l], malformed)
    BY DEF GoodLists
  <2>1. CASE l \in waiting
    <3>1. now.lists[l] = records /\ l \in GeographyLists
      BY <1>10, <1>14, <2>1
    <3>2. malformed = TRUE \/ Complete(Url(l, g, lists), records)
      BY <1>11, <1>14, <2>1
    <3>3. GoodList(l, Url(l, g, lists), now.lists[l], malformed)
      BY <3>1, <3>2 DEF GoodList, GeographyLists
    <3> QED BY <1>14, <2>1, <3>3
  <2>2. CASE l \notin waiting
    BY <1>10, <1>12, <2>2 DEF GoodLists
  <2> QED BY <2>1, <2>2
<1>16. GoodFlights(g, e, now.flights, now.lists, lists, malformed)
  <2>1. ASSUME NEW f \in now.flights
        PROVE  f \in flights /\ GoodFlight(f, g, e, lists, malformed) /\ f.of \notin DOMAIN now.lists
    <3>1. f \in flights /\ f.url # url
      BY <1>10
    <3>2. GoodFlight(f, g, e, lists, malformed) /\ f.of \notin DOMAIN lists
      BY <1>12, <3>1 DEF GoodFlights
    <3>3. f.of \notin waiting
      <4>1. ASSUME f.of \in waiting PROVE FALSE
        <5>1. f.of # "dashboard" /\ url = Url(f.of, g, lists)
          BY <1>14, <4>1
        <5> QED BY <3>1, <3>2, <5>1 DEF GoodFlight
      <4> QED BY <4>1
    <3> QED BY <1>10, <3>1, <3>2, <3>3
  <2> QED BY <1>12, <2>1 DEF GoodFlights
<1>17. malformed = TRUE \/ OnlyProvinces(now.lists)
  <2> SUFFICES ASSUME malformed # TRUE PROVE OnlyProvinces(now.lists)
    OBVIOUS
  <2> QED BY <1>12, <1>15, ListedProvinces DEF OnlyProvinces
<1>18. GoodAsked(now.asked, malformed)
  BY <1>10 DEF GoodAsked
<1>19. KeptByRefind(now, lists, cache, g, e, malformed)
  BY <1>10, <1>12, <1>13, <1>15, <1>16, <1>17, <1>18, RefindKeeps
<1>20. /\ GoodLists(g, e, next.lists, next.lists, malformed)
       /\ GoodFlights(g, e, next.flights, next.lists, next.lists, malformed)
       /\ GoodAsked(next.asked, malformed)
       /\ OpenDashboards(next.flights) = OpenDashboards(now.flights)
       /\ SameOn(ListNames \ {"localities"}, next.lists, now.lists)
  BY <1>8, <1>19 DEF KeptByRefind
<1>21. ServiceInv'
  <2>1. PICK hs : hs = Restrict(handlers, DOMAIN handlers \ {url})
    OBVIOUS
  <2>2. DOMAIN hs \subseteq DOMAIN handlers /\ \A u \in DOMAIN hs : hs[u] = handlers[u]
    BY <2>1 DEF Restrict
  <2>3. handlers' = Asked(next.asked, hs)
    BY <1>9, <2>1
  <2> QED BY <1>9, <1>20, <2>2, <2>3, AskedIsExact
<1>22. DistrictIsListed(election, next.lists)
  <2>1. "legislative" \notin waiting
    BY <1>14 DEF GeographyLists
  <2>2. "legislative" \in DOMAIN next.lists =>
           "legislative" \in DOMAIN lists /\ next.lists["legislative"] = lists["legislative"]
    BY <1>10, <1>20, <2>1 DEF SameOn, ListNames
  <2> QED BY <2>2 DEF SelectionInv, DistrictIsListed
<1>23. hasCoverageLock' \/ ProvinceIsListed(geography, next.lists)
  <2>1. hasCoverageLock' <=> hasCoverageLock
    BY DEF hasCoverageLock
  <2>2. ASSUME ~hasCoverageLock PROVE ProvinceIsListed(geography, next.lists)
    <3>1. ProvinceIsListed(geography, lists)
      BY <2>2 DEF SelectionInv
    <3>2. "provinces" \in DOMAIN lists =>
             "provinces" \in DOMAIN next.lists /\ next.lists["provinces"] = lists["provinces"]
      BY <1>10, <1>14, <1>20 DEF SameOn, ListNames
    <3>3. \A u \in List(lists, "provinces") : u \in List(next.lists, "provinces")
      BY <3>2 DEF List
    <3> QED BY <3>1, <3>3 DEF ProvinceIsListed
  <2> QED BY <2>1, <2>2
<1>24. overtaken \/ ShowsOrWill(shown.request, next.flights, Current)
  <2>1. \A f \in OpenDashboards(flights) : f \in OpenDashboards(next.flights)
    <3>1. \A f \in OpenDashboards(flights) : f.url # url
      <4>1. Len(url) = 3
        BY <1>11, GeographyUrls
      <4> QED BY <1>12, <4>1 DEF OpenDashboards, GoodFlights, GoodFlight
    <3> QED BY <1>10, <1>20, <3>1 DEF OpenDashboards
  <2> QED BY <2>1 DEF SelectionInv, ShowsOrWill
<1>25. Current' = Current /\ (shown.request)' = shown.request
  BY <1>9 DEF Current
<1> QED BY <1>1, <1>2, <1>9, <1>12, <1>13, <1>20, <1>21, <1>22, <1>23, <1>24, <1>25 DEF SelectionInv
(* The lists of the election controls tell nothing of the places.          *)
KeptByPut(after, ls, l, list) ==
    /\ DOMAIN after = DOMAIN ls \cup {l} /\ after[l] = list
    /\ \A k \in DOMAIN ls : k # l => after[k] = ls[k]
    /\ List(after, "provinces") = List(ls, "provinces")
    /\ \A k, g : Url(k, g, after) = Url(k, g, ls)

LEMMA ElectionListPut ==
    ASSUME NEW ls, NEW l \in {"legislative", "partyLists"}, NEW list, NEW after,
           after = Put(ls, l, list)
    PROVE  KeptByPut(after, ls, l, list)
<1>1. /\ DOMAIN after = DOMAIN ls \cup {l} /\ after[l] = list
      /\ \A k \in DOMAIN ls : k # l => after[k] = ls[k]
  BY DEF Put
<1>2. List(after, "provinces") = List(ls, "provinces")
  BY <1>1 DEF List
<1>3. \A g : SelectedProvince(g, after) = SelectedProvince(g, ls)
  BY <1>2 DEF SelectedProvince
<1>4. \A k, g : Url(k, g, after) = Url(k, g, ls)
  BY <1>3 DEF Url
<1> QED BY <1>1, <1>2, <1>4 DEF KeptByPut

(* The list of an effect of the present selection arrives.                 *)
LEMMA ElectionListKeeps ==
    ASSUME SelectionInv, NEW l \in {"legislative", "partyLists"}, NEW list, NEW e, NEW ls, NEW fs,
           IsElection(e), e.mode = election.mode, ls = Put(lists, l, list),
           Asks(l, geography, election), GoodList(l, Url(l, geography, lists), list, malformed),
           \A f \in fs : (f.of = "dashboard" /\ Len(f.url) = 1) \/ (f \in flights /\ f.of # l),
           e.district = election.district \/ l = "legislative"
    PROVE  /\ GoodLists(geography, e, ls, ls, malformed)
           /\ GoodFlights(geography, e, fs, ls, ls, malformed)
<1>1. /\ DOMAIN ls = DOMAIN lists \cup {l} /\ ls[l] = list
      /\ \A k \in DOMAIN lists : k # l => ls[k] = lists[k]
      /\ \A k, g : Url(k, g, ls) = Url(k, g, lists)
  <2>1. KeptByPut(ls, lists, l, list)
    BY ElectionListPut
  <2> QED BY <2>1 DEF KeptByPut
<1>2. \A k \in ListNames : Asks(k, geography, e) <=> Asks(k, geography, election)
  BY DEF Asks, ListNames
<1>3. /\ GoodLists(geography, election, lists, lists, malformed)
      /\ GoodFlights(geography, election, flights, lists, lists, malformed)
      /\ l \in ListNames
  BY DEF SelectionInv, ListNames
<1>4. GoodLists(geography, e, ls, ls, malformed)
  <2> SUFFICES ASSUME NEW k \in DOMAIN ls
               PROVE  /\ k \in ListNames /\ Asks(k, geography, e)
                      /\ GoodList(k, Url(k, geography, ls), ls[k], malformed)
    BY DEF GoodLists
  <2>1. CASE k = l
    BY <1>1, <1>2, <1>3, <2>1
  <2>2. CASE k # l
    BY <1>1, <1>2, <1>3, <2>2 DEF GoodLists
  <2> QED BY <2>1, <2>2
<1>5. ASSUME NEW f \in fs
      PROVE  GoodFlight(f, geography, e, ls, malformed) /\ f.of \notin DOMAIN ls
  <2>1. CASE f.of = "dashboard"
    <3>1. "dashboard" \notin DOMAIN ls
      BY <1>4, NoDashboard1 DEF GoodLists
    <3>2. Len(f.url) = 1
      BY <1>3, <2>1 DEF GoodFlights, GoodFlight
    <3> QED BY <2>1, <3>1, <3>2 DEF GoodFlight
  <2>2. CASE f.of # "dashboard"
    <3>1. f \in flights /\ f.of # l
      BY <2>2
    <3>2. GoodFlight(f, geography, election, lists, malformed) /\ f.of \notin DOMAIN lists
      BY <1>3, <3>1 DEF GoodFlights
    <3> QED BY <1>1, <1>2, <2>2, <3>1, <3>2 DEF GoodFlight
  <2> QED BY <2>1, <2>2
<1>6. \A f1, f2 \in fs : f1.of = f2.of /\ f1.of \in ElectionLists => f1 = f2
  BY <1>3 DEF GoodFlights, ElectionLists
<1> QED BY <1>4, <1>5, <1>6 DEF GoodFlights

(* What the answer makes of the selection is listed, and of its mode.      *)
LEMMA ResolvedElection ==
    ASSUME NEW f, NEW data, NEW e, e = election, IsElection(e), IsElection(f.value),
           f.value.mode = e.mode, f.value.district = e.district
    PROVE  /\ IsElection(Resolved(f, data)) /\ Resolved(f, data).mode = e.mode
           /\ Resolved(f, data).district \in data \cup {""}
<1> DEFINE c == f.value
           locality == SpecificLocality(f.url[2])
<1>0. c = [mode |-> c.mode, district |-> c.district, party |-> c.party]
  BY DEF IsElection
<1>1. CASE c.mode = "legislative" /\ locality # "" /\ Cardinality(data) = 1
  <2>1. CASE c.district \in data
    BY <1>1, <2>1 DEF Resolved
  <2>2. CASE c.district \notin data
    <3>1. PICK d : d = CHOOSE x \in data : TRUE
      OBVIOUS
    <3>2. ASSUME data = {} PROVE FALSE
      <4>1. Cardinality({}) = 0
        BY FS_EmptySet
      <4>2. Cardinality(data) = 1
        BY <1>1
      <4>3. Cardinality(data) = 0
        BY <3>2, <4>1
      <4> QED BY <4>2, <4>3
    <3>3. d \in data
      BY <3>1, <3>2
    <3>4. Resolved(f, data) = [c EXCEPT !.district = d]
      BY <1>1, <2>2, <3>1 DEF Resolved
    <3> HIDE DEF c
    <3>5. PICK n : n = [c EXCEPT !.district = d]
      OBVIOUS
    <3>6. n = [mode |-> c.mode, district |-> d, party |-> c.party]
      BY <1>0, <3>5
    <3>7. n.mode = c.mode /\ n.district = d
      BY <3>6
    <3>8. IsElection(n)
      BY <1>1, <3>6, <3>7 DEF IsElection
    <3>9. c.mode = e.mode
      BY DEF c
    <3> QED BY <3>3, <3>4, <3>5, <3>7, <3>8, <3>9
  <2> QED BY <2>1, <2>2
<1>2. CASE ~(c.mode = "legislative" /\ locality # "" /\ Cardinality(data) = 1)
  <2>1. CASE c.district # "" /\ c.district \notin data
    <3>1. Resolved(f, data) = [c EXCEPT !.district = ""]
      BY <1>2, <2>1 DEF Resolved
    <3> HIDE DEF c
    <3>2. PICK n : n = [c EXCEPT !.district = ""]
      OBVIOUS
    <3>3. n = [mode |-> c.mode, district |-> "", party |-> c.party]
      BY <1>0, <3>2
    <3>4. n.mode = c.mode /\ n.district = "" /\ IsElection(n)
      BY <3>3 DEF IsElection
    <3>5. c.mode = e.mode
      BY DEF c
    <3> QED BY <3>1, <3>2, <3>4, <3>5
  <2>2. CASE ~(c.district # "" /\ c.district \notin data)
    BY <1>2, <2>2 DEF Resolved
  <2> QED BY <2>1, <2>2
<1> QED BY <1>1, <1>2

LEMMA LegislativeArrivedKeeps ==
    ASSUME SelectionInv, ServiceInv, UNCHANGED user, NEW f \in flights, LegislativeArrived(f)
    PROVE  SelectionInv' /\ ServiceInv'
<1>1. PICK g : g = geography
  OBVIOUS
<1>2. PICK e : e = election
  OBVIOUS
<1>3. PICK data : data = Legislative(f.url[2])
  OBVIOUS
<1>4. PICK next : next = Resolved(f, data)
  OBVIOUS
<1>5. PICK dashboards : dashboards = RequestDashboards(g, next)
  OBVIOUS
<1>6. /\ election' = next /\ lists' = Put(lists, "legislative", data)
      /\ flights' = (flights \ {f}) \cup dashboards
      /\ lostUpdate' = (lostUpdate \/ next.party # election.party)
      /\ UNCHANGED <<serviceVars, geography, responseCache, shown, overtaken>>
      /\ f.of = "legislative"
  BY <1>1, <1>3, <1>4, <1>5 DEF LegislativeArrived
<1>7. UNCHANGED <<psaResponseCache, handlers, malformed>>
  BY <1>6 DEF serviceVars
<1>8. /\ GoodFlight(f, g, e, lists, malformed)
      /\ \A f2 \in flights : f2.of = "legislative" => f2 = f
      /\ IsElection(e)
  BY <1>1, <1>2, <1>6 DEF SelectionInv, GoodFlights, ElectionLists
<1>9. /\ Asks("legislative", g, e) /\ f.url = Url("legislative", g, lists)
      /\ IsElection(f.value) /\ f.value.mode = e.mode /\ f.value.district = e.district
  BY <1>6, <1>8 DEF GoodFlight
<1>10. /\ IsElection(next) /\ next.mode = e.mode /\ next.district \in data \cup {""}
  BY <1>2, <1>4, <1>8, <1>9, ResolvedElection
<1>11. GoodList("legislative", Url("legislative", g, lists), data, malformed)
  BY <1>3, <1>9 DEF GoodList
<1>12. \A d \in dashboards : d.of = "dashboard" /\ d.url = <<DashboardRequest(g, next)>>
  <2>1. PICK d : d = DashboardFlight(DashboardRequest(g, next))
    OBVIOUS
  <2>2. d.of = "dashboard" /\ d.url = <<DashboardRequest(g, next)>>
    BY <2>1 DEF DashboardFlight
  <2>3. \A d2 \in dashboards : d2 = d
    BY <1>5, <2>1 DEF RequestDashboards
  <2> QED BY <2>2, <2>3
<1>13. \A r : Len(<<r>>) = 1 /\ <<r>>[1] = r
  OBVIOUS
<1>14. PICK ls : ls = Put(lists, "legislative", data)
  OBVIOUS
<1>15. PICK fs : fs = (flights \ {f}) \cup dashboards
  OBVIOUS
<1>16. \A f2 \in fs : (f2.of = "dashboard" /\ Len(f2.url) = 1) \/ (f2 \in flights /\ f2.of # "legislative")
  BY <1>8, <1>12, <1>13, <1>15
<1>17. /\ GoodLists(geography, next, ls, ls, malformed)
       /\ GoodFlights(geography, next, fs, ls, ls, malformed)
  BY <1>1, <1>2, <1>9, <1>10, <1>11, <1>14, <1>16, ElectionListKeeps
<1>18. KeptByPut(ls, lists, "legislative", data)
  BY <1>14, ElectionListPut
<1>19. DistrictIsListed(next, ls)
  BY <1>10, <1>18 DEF KeptByPut, DistrictIsListed
<1>20. HasGeographicCoverage(geography) => next.party = "" \/ lostUpdate'
  BY <1>6 DEF SelectionInv
<1>21. hasCoverageLock' \/ ProvinceIsListed(geography, ls)
  BY <1>18 DEF KeptByPut, hasCoverageLock, SelectionInv, ProvinceIsListed
<1>22. Current' = DashboardRequest(g, next)
  BY <1>1, <1>6 DEF Current
<1>23. overtaken \/ ShowsOrWill(shown.request, fs, DashboardRequest(g, next))
  <2>1. CASE DashboardRequest(g, next) = Current
    <3>1. \A d \in OpenDashboards(flights) : d \in OpenDashboards(fs)
      BY <1>6, <1>15 DEF OpenDashboards
    <3> QED BY <2>1, <3>1 DEF SelectionInv, ShowsOrWill
  <2>2. CASE DashboardRequest(g, next) # Current
    <3>1. DashboardFlight(DashboardRequest(g, next)) \in dashboards
      BY <1>5, <2>2 DEF RequestDashboards
    <3>2. PICK d \in dashboards : d = DashboardFlight(DashboardRequest(g, next))
      BY <3>1
    <3>3. d \in OpenDashboards(fs) /\ d.url[1] = DashboardRequest(g, next)
      <4>1. d.of = "dashboard" /\ d.url = <<DashboardRequest(g, next)>>
        BY <1>12
      <4> QED BY <1>13, <1>15, <4>1 DEF OpenDashboards
    <3> QED BY <3>3 DEF ShowsOrWill
  <2> QED BY <2>1, <2>2
<1>24. ServiceInv'
  BY <1>7 DEF ServiceInv, ServiceIsExact
<1>25. /\ lists' = ls /\ flights' = fs /\ lostUpdate' \in BOOLEAN
  BY <1>6, <1>14, <1>15 DEF SelectionInv
<1>26. (shown.request)' = shown.request
  BY <1>6
<1> QED BY <1>6, <1>7, <1>10, <1>17, <1>19, <1>20, <1>21, <1>22, <1>23, <1>24, <1>25, <1>26 DEF SelectionInv

LEMMA PartyListsArrivedKeeps ==
    ASSUME SelectionInv, ServiceInv, UNCHANGED user, NEW f \in flights, PartyListsArrived(f)
    PROVE  SelectionInv' /\ ServiceInv'
<1>1. PICK ls : ls = Put(lists, "partyLists", PartyLists)
  OBVIOUS
<1>2. PICK fs : fs = flights \ {f}
  OBVIOUS
<1>3. /\ lists' = ls /\ flights' = fs /\ f.of = "partyLists"
      /\ UNCHANGED <<serviceVars, geography, election, responseCache, shown, lostUpdate, overtaken>>
  BY <1>1, <1>2 DEF PartyListsArrived
<1>4. UNCHANGED <<psaResponseCache, handlers, malformed>>
  BY <1>3 DEF serviceVars
<1>5. PICK e : e = election
  OBVIOUS
<1>6. /\ GoodFlights(geography, e, flights, lists, lists, malformed)
      /\ IsElection(e)
  BY <1>5 DEF SelectionInv
<1>7. Asks("partyLists", geography, e) /\ f.url = Url("partyLists", geography, lists)
  BY <1>3, <1>6 DEF GoodFlights, GoodFlight
<1>8. GoodList("partyLists", Url("partyLists", geography, lists), PartyLists, malformed)
  BY DEF GoodList
<1>9. \A f2 \in fs :
        (f2.of = "dashboard" /\ Len(f2.url) = 1) \/ (f2 \in flights /\ f2.of # "partyLists")
  <2> SUFFICES ASSUME NEW f2 \in fs, f2.of = "partyLists" PROVE FALSE
    <3>1. \A f2 \in fs : f2 \in flights
      BY <1>2
    <3> QED BY <3>1
  <2>1. f2 \in flights /\ f2 # f
    BY <1>2
  <2> QED BY <1>3, <1>6, <2>1 DEF GoodFlights, ElectionLists
<1>10. /\ GoodLists(geography, e, ls, ls, malformed)
       /\ GoodFlights(geography, e, fs, ls, ls, malformed)
  BY <1>1, <1>5, <1>6, <1>7, <1>8, <1>9, ElectionListKeeps
<1>11. KeptByPut(ls, lists, "partyLists", PartyLists)
  BY <1>1, ElectionListPut
<1>12. DistrictIsListed(election, ls)
  BY <1>11 DEF KeptByPut, DistrictIsListed, SelectionInv
<1>13. hasCoverageLock' \/ ProvinceIsListed(geography, ls)
  BY <1>11 DEF KeptByPut, hasCoverageLock, SelectionInv, ProvinceIsListed
<1>14. overtaken \/ ShowsOrWill(shown.request, fs, Current)
  <2>1. \A d \in OpenDashboards(flights) : d \in OpenDashboards(fs)
    BY <1>2, <1>3 DEF OpenDashboards
  <2> QED BY <2>1 DEF SelectionInv, ShowsOrWill
<1>15. Current' = Current /\ (shown.request)' = shown.request
  BY <1>3 DEF Current
<1>16. ServiceInv'
  BY <1>4 DEF ServiceInv, ServiceIsExact
<1> QED BY <1>3, <1>4, <1>5, <1>10, <1>12, <1>13, <1>14, <1>15, <1>16 DEF SelectionInv

LEMMA ElectionListFailedKeeps ==
    ASSUME SelectionInv, ServiceInv, UNCHANGED user, NEW f \in flights, ElectionListFailed(f)
    PROVE  SelectionInv' /\ ServiceInv'
<1>1. PICK fs : fs = flights \ {f}
  OBVIOUS
<1>2. /\ flights' = fs /\ f.of \in {"legislative", "partyLists"}
      /\ UNCHANGED <<psaResponseCache, handlers, malformed, geography, election, lists,
                     responseCache, shown, lostUpdate, overtaken>>
  BY <1>1 DEF ElectionListFailed
<1>3. \A f2 \in fs : f2 \in flights
  BY <1>1
<1>4. GoodFlights(geography, election, fs, lists, lists, malformed)
  BY <1>3 DEF SelectionInv, GoodFlights
<1>5. overtaken \/ ShowsOrWill(shown.request, fs, Current)
  <2>1. \A d \in OpenDashboards(flights) : d \in OpenDashboards(fs)
    BY <1>1, <1>2 DEF OpenDashboards
  <2> QED BY <2>1 DEF SelectionInv, ShowsOrWill
<1>6. Current' = Current /\ (shown.request)' = shown.request /\ (hasCoverageLock' <=> hasCoverageLock)
  BY <1>2 DEF Current, hasCoverageLock
<1>7. ServiceInv'
  BY <1>2 DEF ServiceInv, ServiceIsExact
<1> QED BY <1>2, <1>4, <1>5, <1>6, <1>7 DEF SelectionInv

(* Whichever dashboard is answered, the current one is shown, on its way,  *)
(* or has been overtaken.                                                  *)
LEMMA DashboardArrivedKeeps ==
    ASSUME SelectionInv, ServiceInv, UNCHANGED user, NEW f \in flights, DashboardArrived(f)
    PROVE  SelectionInv' /\ ServiceInv'
<1>1. PICK fs : fs = flights \ {f}
  OBVIOUS
<1>2. /\ flights' = fs /\ f.of = "dashboard"
      /\ overtaken' = IF f.url[1] = Current THEN FALSE
                      ELSE ~ \E d \in OpenDashboards(flights) : d.url[1] = Current
      /\ UNCHANGED <<serviceVars, geography, election, lists, responseCache, lostUpdate>>
  BY <1>1 DEF DashboardArrived
<1>3. UNCHANGED <<psaResponseCache, handlers, malformed>>
  BY <1>2 DEF serviceVars
<1>4. (shown.request)' = f.url[1]
  BY DEF DashboardArrived
<1>5. \A f2 \in fs : f2 \in flights
  BY <1>1
<1>6. GoodFlights(geography, election, fs, lists, lists, malformed)
  BY <1>5 DEF SelectionInv, GoodFlights
<1>7. Current' = Current /\ (hasCoverageLock' <=> hasCoverageLock)
  BY <1>2 DEF Current, hasCoverageLock
<1>8. overtaken' \/ ShowsOrWill(f.url[1], fs, Current)
  <2>1. CASE f.url[1] = Current
    BY <2>1 DEF ShowsOrWill
  <2>2. CASE f.url[1] # Current /\ \E d \in OpenDashboards(flights) : d.url[1] = Current
    <3>1. PICK d \in OpenDashboards(flights) : d.url[1] = Current
      BY <2>2
    <3>2. d \in OpenDashboards(fs)
      BY <1>1, <2>2, <3>1 DEF OpenDashboards
    <3> QED BY <3>1, <3>2 DEF ShowsOrWill
  <2>3. CASE f.url[1] # Current /\ ~ \E d \in OpenDashboards(flights) : d.url[1] = Current
    BY <1>2, <2>3
  <2> QED BY <2>1, <2>2, <2>3
<1>9. ServiceInv'
  BY <1>3 DEF ServiceInv, ServiceIsExact
<1> QED BY <1>2, <1>3, <1>4, <1>6, <1>7, <1>8, <1>9 DEF SelectionInv

LEMMA RerequestKeeps ==
    ASSUME SelectionInv, ServiceInv, UNCHANGED user, Rerequest
    PROVE  SelectionInv' /\ ServiceInv'
<1>1. PICK d : d = DashboardFlight(Current)
  OBVIOUS
<1>2. PICK fs : fs = flights \cup {d}
  OBVIOUS
<1>3. /\ flights' = fs
      /\ UNCHANGED <<serviceVars, geography, election, lists, responseCache, shown, lostUpdate,
                     overtaken>>
  BY <1>1, <1>2 DEF Rerequest
<1>4. UNCHANGED <<psaResponseCache, handlers, malformed>>
  BY <1>3 DEF serviceVars
<1>5. d.of = "dashboard" /\ Len(d.url) = 1
  <2>1. \A r : Len(<<r>>) = 1
    OBVIOUS
  <2> QED BY <1>1, <2>1 DEF DashboardFlight
<1>6. GoodFlights(geography, election, fs, lists, lists, malformed)
  <2>1. "dashboard" \notin DOMAIN lists /\ "dashboard" \notin ElectionLists
    BY NoDashboard1 DEF SelectionInv, GoodLists, ElectionLists
  <2> QED BY <1>2, <1>5, <2>1 DEF SelectionInv, GoodFlights, GoodFlight
<1>7. overtaken \/ ShowsOrWill(shown.request, fs, Current)
  BY <1>2 DEF SelectionInv, ShowsOrWill, OpenDashboards
<1>8. Current' = Current /\ (shown.request)' = shown.request /\ (hasCoverageLock' <=> hasCoverageLock)
  BY <1>3 DEF Current, hasCoverageLock
<1>9. ServiceInv'
  BY <1>4 DEF ServiceInv, ServiceIsExact
<1> QED BY <1>3, <1>4, <1>6, <1>7, <1>8, <1>9 DEF SelectionInv

(* The routes go on reading.  A malformed answer spares the rest nothing.  *)
LEMMA ServiceKeepsSelection ==
    ASSUME SelectionInv, ServiceInv, UNCHANGED user, ServiceNext, UNCHANGED selectionVars
    PROVE  SelectionInv' /\ ServiceInv'
<1>1. ServiceInv'
  BY ServiceStep
<1>2. UNCHANGED <<geography, election, lists, flights, responseCache, shown, lostUpdate, overtaken>>
  BY DEF selectionVars
<1>3. malformed = TRUE => malformed' = TRUE
  BY DEF ServiceNext, Read, Received, Refused, Expired, ServiceInv
<1>4. PICK g : g = geography
  OBVIOUS
<1>5. PICK e : e = election
  OBVIOUS
<1>6. PICK ls : ls = lists
  OBVIOUS
<1>7. PICK fs : fs = flights
  OBVIOUS
<1>8. PICK cache : cache = responseCache
  OBVIOUS
<1>9. /\ GoodLists(g, e, ls, ls, malformed) /\ GoodFlights(g, e, fs, ls, ls, malformed)
      /\ GoodCache(cache, malformed)
      /\ malformed = TRUE \/ IsPath(g)
  BY <1>4, <1>5, <1>6, <1>7, <1>8 DEF SelectionInv
<1>10. /\ GoodLists(g, e, ls, ls, malformed') /\ GoodCache(cache, malformed')
       /\ malformed' = TRUE \/ IsPath(g)
  BY <1>3, <1>9 DEF GoodLists, GoodList, GoodCache
<1>11. GoodFlights(g, e, fs, ls, ls, malformed')
  BY <1>3, <1>9 DEF GoodFlights, GoodFlight, GoodUrl
<1>12. Current' = Current /\ (shown.request)' = shown.request /\ (hasCoverageLock' <=> hasCoverageLock)
  BY <1>2 DEF Current, hasCoverageLock
<1> QED BY <1>1, <1>2, <1>4, <1>5, <1>6, <1>7, <1>8, <1>10, <1>11, <1>12 DEF SelectionInv

LEMMA SelectionStep ==
    SelectionInv /\ ServiceInv /\ SelectionNext /\ UNCHANGED user => SelectionInv' /\ ServiceInv'
BY ChoiceKeeps, ListArrivedKeeps, LegislativeArrivedKeeps, PartyListsArrivedKeeps,
   ElectionListFailedKeeps, DashboardArrivedKeeps, RerequestKeeps, ServiceKeepsSelection
   DEF SelectionNext
-----------------------------------------------------------------------------
(***************************************************************************)
(* The coverage filter in the application: on the other pages it keeps what*)
(* it starts with, whoever the user is.                                    *)
(***************************************************************************)
FilterInv ==
    /\ SelectionInv /\ ServiceInv
    /\ page # "overview" => geography.province = ""

LEMMA InitEstablishesFilter == Init => FilterInv
<1> SUFFICES ASSUME Init PROVE FilterInv
  OBVIOUS
<1>1. /\ geography = National /\ election = NothingRead /\ lists = <<>> /\ responseCache = <<>>
      /\ flights = {} /\ shown = NoDashboard /\ lostUpdate = FALSE
      /\ psaResponseCache = <<>> /\ handlers = <<>> /\ malformed = FALSE
  BY DEF Init, SelectionInit, ServiceInit
<1>2. \A k : k \notin DOMAIN <<>>
  OBVIOUS
<1>3. IsGeography(National) /\ IsPath(National) /\ National.province = "" /\ ~HasGeographicCoverage(National)
  <2>1. PICK n : n = [National EXCEPT !.region = ""]
    OBVIOUS
  <2>2. n = National
    BY <2>1 DEF National
  <2>3. IsGeography(n) /\ IsPath(n) /\ n.province = ""
    BY <2>1, RegionOnly
  <2> QED BY <2>2, <2>3 DEF HasGeographicCoverage
<1>4. IsElection(NothingRead)
  BY DEF NothingRead, IsElection
<1>5. /\ GoodLists(geography, election, lists, lists, malformed) /\ GoodCache(responseCache, malformed)
      /\ DistrictIsListed(election, lists)
  BY <1>1, <1>2 DEF GoodLists, GoodCache, DistrictIsListed
<1>6. GoodFlights(geography, election, flights, lists, lists, malformed)
  BY <1>1 DEF GoodFlights
<1>7. ServiceInv
  BY <1>1, <1>2 DEF ServiceInv, ServiceIsExact
<1>8. ShowsOrWill(shown.request, flights, Current)
  BY <1>1 DEF ShowsOrWill, NoDashboard, Current
<1>9. ProvinceIsListed(geography, lists)
  BY <1>1, <1>3 DEF ProvinceIsListed
<1> QED BY <1>1, <1>3, <1>4, <1>5, <1>6, <1>7, <1>8, <1>9 DEF SelectionInv, FilterInv

LEMMA OtherPagesKeep ==
    ASSUME FilterInv, UNCHANGED otherVars, page # "overview"
    PROVE  FilterInv'
<1>1. UNCHANGED <<psaResponseCache, handlers, malformed, geography, election, lists, flights,
                  responseCache, shown, lostUpdate, overtaken>>
  BY DEF otherVars
<1>2. ServiceInv'
  BY <1>1 DEF FilterInv, ServiceInv, ServiceIsExact
<1>3. geography.province = ""
  BY DEF FilterInv
<1>4. Current' = Current /\ (shown.request)' = shown.request
  BY <1>1 DEF Current
<1>5. ProvinceIsListed(geography, lists)
  BY <1>3 DEF ProvinceIsListed
<1> QED BY <1>1, <1>2, <1>3, <1>4, <1>5 DEF FilterInv, SelectionInv

LEMMA PagesKeepFilter ==
    AccountsAreNested /\ FilterInv /\ user \in Users /\ user' \in Users /\ [Next]_vars => FilterInv'
<1> SUFFICES ASSUME AccountsAreNested, FilterInv, user \in Users, user' \in Users, [Next]_vars
             PROVE  FilterInv'
  OBVIOUS
<1>1. CASE OpenFieldReports \/ OpenLocation \/ FieldReportsStep \/ LocationStep
  <2>1. page # "overview" /\ UNCHANGED otherVars
    BY <1>1 DEF OpenFieldReports, OpenLocation, FieldReportsStep, LocationStep, otherVars,
                serviceVars, selectionVars
  <2> QED BY <2>1, OtherPagesKeep
<1>2. CASE OpenOverview
  <2>1. PICK b \in Bookmarks : Mount(AssignedTo[user], parseElectionSelection(b))
    BY <1>2 DEF OpenOverview
  <2>2. page' = "overview" /\ UNCHANGED user
    BY <1>2 DEF OpenOverview, consoleVars
  <2>3. SelectionInv' /\ ServiceInv'
    BY <2>1, <2>2, MountKeeps DEF FilterInv
  <2> QED BY <2>2, <2>3 DEF FilterInv
<1>3. CASE OverviewStep
  <2>1. page = "overview" /\ page' = page
    BY <1>3 DEF OverviewStep
  <2>2. CASE SelectionNext /\ UNCHANGED consoleVars
    <3>1. UNCHANGED user
      BY <2>2 DEF consoleVars
    <3> QED BY <2>1, <2>2, <3>1, SelectionStep DEF FilterInv
  <2>3. ASSUME NEW u \in Users, SwitchUser(u), Reassign(u)
        PROVE  FilterInv'
    <3>1. user' = u
      BY <2>3 DEF SwitchUser
    <3> QED BY <2>1, <2>3, <3>1, ReassignKeeps DEF FilterInv
  <2> QED BY <1>3, <2>2, <2>3 DEF OverviewStep
<1>4. CASE UNCHANGED vars
  <2>1. /\ UNCHANGED <<psaResponseCache, handlers, malformed, geography, election, lists, flights,
                       responseCache, shown, lostUpdate, overtaken>>
        /\ UNCHANGED user /\ UNCHANGED page
    BY <1>4 DEF vars, consoleVars, serviceVars, selectionVars
  <2>2. ServiceInv'
    BY <2>1 DEF FilterInv, ServiceInv, ServiceIsExact
  <2>3. Current' = Current /\ (shown.request)' = shown.request /\ (hasCoverageLock' <=> hasCoverageLock)
    BY <2>1 DEF Current, hasCoverageLock
  <2> QED BY <2>1, <2>2, <2>3 DEF FilterInv, SelectionInv
<1> QED BY <1>1, <1>2, <1>3, <1>4 DEF Next

LEMMA FilterInvariant == AccountsAreNested => (Spec => []FilterInv)
<1>1. ConsoleInv => user \in Users
  BY DEF ConsoleInv, ConsoleTypeOK
<1>2. ConsoleInv' => user' \in Users
  BY DEF ConsoleInv, ConsoleTypeOK
<1>3. ASSUME AccountsAreNested PROVE Spec => []FilterInv
  <2>1. FilterInv /\ ConsoleInv /\ ConsoleInv' /\ [Next]_vars => FilterInv'
    BY <1>1, <1>2, <1>3, PagesKeepFilter
  <2> QED BY <2>1, InitEstablishesFilter, PagesImplementConsole, ConsoleInvariant, PTL DEF Spec
<1> QED BY <1>3

(* If every account is assigned to a path of the hierarchy: whatever is    *)
(* selected, cached, lost or answered in which order, a list on the page is*)
(* the complete one for what is selected now, unless the PSGC service      *)
(* answered with something else than units.                                *)
THEOREM ListsFollowTheSelection == AccountsAreNested => (Spec => []ListsMatchSelection)
<1>1. FilterInv => ListsMatchSelection
  BY SelectionProperties DEF FilterInv
<1>2. ASSUME AccountsAreNested PROVE Spec => []ListsMatchSelection
  BY <1>1, <1>2, FilterInvariant, PTL
<1> QED BY <1>2

(* Under the same hypothesis: once no dashboard is on its way the page     *)
(* shows the one for what is selected, unless an older request was answered*)
(* last.                                                                   *)
THEOREM DashboardFollowsTheSelection == AccountsAreNested => (Spec => []DashboardShowsSelection)
<1>1. FilterInv => DashboardShowsSelection
  BY SelectionProperties DEF FilterInv
<1>2. ASSUME AccountsAreNested PROVE Spec => []DashboardShowsSelection
  BY <1>1, <1>2, FilterInvariant, PTL
<1> QED BY <1>2

(* Under the same hypothesis: what the filter selects is a path of the     *)
(* hierarchy, and the election selection survives the address of the page, *)
(* is listed, and has no party list beside a place unless an update was    *)
(* lost.                                                                   *)
THEOREM FilterStaysCoherent == AccountsAreNested => (Spec => [](GeographyIsNested /\ ElectionIsCoherent))
<1>1. FilterInv => GeographyIsNested /\ ElectionIsCoherent
  BY SelectionProperties DEF FilterInv
<1>2. ASSUME AccountsAreNested PROVE Spec => [](GeographyIsNested /\ ElectionIsCoherent)
  BY <1>1, <1>2, FilterInvariant, PTL
<1> QED BY <1>2
-----------------------------------------------------------------------------
(***************************************************************************)
(* The dashboard that the service answers with.                            *)
(***************************************************************************)
LEMMA Multiples ==
    ASSUME NEW w \in Nat \ {0}, NEW a \in Int, NEW b \in Int
    PROVE  /\ w * a <= w * b => a <= b
           /\ w * a < w * b => a < b
OBVIOUS

LEMMA Quotient ==
    ASSUME NEW n \in Int, NEW w \in Nat \ {0}
    PROVE  /\ n \div (2 * w) \in Int
           /\ w * (2 * (n \div (2 * w))) <= n /\ n < w * (2 * (n \div (2 * w)) + 2)
OBVIOUS

(* Three rounded shares are off by less than two tenths together.          *)
LEMMA SharesAddUp ==
    ASSUME NEW p \in Nat, NEW n \in Nat, NEW g \in Nat, p + n + g # 0
    PROVE  roundPercentage(p, p + n + g) + roundPercentage(n, p + n + g)
              + roundPercentage(g, p + n + g) \in 999..1001
<1>1. PICK w \in Nat \ {0} : w = p + n + g
  OBVIOUS
<1>2. PICK x \in Int : x = roundPercentage(p, w) /\ w * (2 * x) <= 2000 * p + w
                                               /\ 2000 * p + w < w * (2 * x + 2)
  BY Quotient DEF roundPercentage
<1>3. PICK y \in Int : y = roundPercentage(n, w) /\ w * (2 * y) <= 2000 * n + w
                                               /\ 2000 * n + w < w * (2 * y + 2)
  BY Quotient DEF roundPercentage
<1>4. PICK z \in Int : z = roundPercentage(g, w) /\ w * (2 * z) <= 2000 * g + w
                                               /\ 2000 * g + w < w * (2 * z + 2)
  BY Quotient DEF roundPercentage
<1>5. w * (2 * (x + y + z)) <= w * 2003 /\ w * 2003 < w * (2 * (x + y + z) + 6)
  <2>1. /\ w * (2 * (x + y + z)) = w * (2 * x) + w * (2 * y) + w * (2 * z)
        /\ w * (2 * (x + y + z) + 6) = w * (2 * x + 2) + w * (2 * y + 2) + w * (2 * z + 2)
    OBVIOUS
  <2>2. w * 2003 = (2000 * p + w) + (2000 * n + w) + (2000 * g + w)
    BY <1>1
  <2>3. /\ w * (2 * x) \in Int /\ w * (2 * y) \in Int /\ w * (2 * z) \in Int
        /\ w * (2 * x + 2) \in Int /\ w * (2 * y + 2) \in Int /\ w * (2 * z + 2) \in Int
    OBVIOUS
  <2> QED BY <1>2, <1>3, <1>4, <2>1, <2>2, <2>3
<1>6. 2 * (x + y + z) <= 2003 /\ 2003 < 2 * (x + y + z) + 6
  BY <1>5, Multiples
<1>7. x + y + z \in 999..1001
  BY <1>6
<1>8. /\ roundPercentage(p, p + n + g) = x /\ roundPercentage(n, p + n + g) = y
      /\ roundPercentage(g, p + n + g) = z
  BY <1>1, <1>2, <1>3, <1>4
<1> QED BY <1>7, <1>8

LEMMA SentimentAddsUp ==
    ASSUME NEW counts,
           \A kind \in {"positive", "neutral", "negative"} : counts[kind] \in Nat
    PROVE  LET share == mapSentiment(counts)
           IN share.positive + share.neutral + share.negative \in 999..1001 \cup {0}
<1>1. CASE Known(counts) = 0
  BY <1>1 DEF mapSentiment
<1>2. CASE Known(counts) # 0
  <2>1. PICK p, n, g \in Nat : p = counts.positive /\ n = counts.neutral /\ g = counts.negative
    OBVIOUS
  <2>2. PICK share : share = mapSentiment(counts)
    OBVIOUS
  <2>3. /\ share.positive = roundPercentage(p, p + n + g)
        /\ share.neutral = roundPercentage(n, p + n + g)
        /\ share.negative = roundPercentage(g, p + n + g)
    BY <1>2, <2>1, <2>2 DEF mapSentiment, Known
  <2>4. p + n + g # 0
    BY <1>2, <2>1 DEF Known
  <2> QED BY <2>2, <2>3, <2>4, SharesAddUp
<1> QED BY <1>1, <1>2

(* A term is only said to rise if it has more documents than before.       *)
LEMMA RisingIsMore ==
    ASSUME NEW current \in Nat, NEW previous \in Nat,
           calculateTrend(calculateChange(current, previous)) = "up"
    PROVE  current > previous
<1>1. calculateChange(current, previous) >= 50
  BY DEF calculateTrend, calculateChange
<1>2. CASE previous = 0
  BY <1>1, <1>2 DEF calculateChange
<1>3. CASE previous # 0
  <2>1. PICK change \in Int :
           /\ change = roundPercentage(current - previous, previous)
           /\ previous * (2 * change) <= 2000 * (current - previous) + previous
    BY <1>3, Quotient DEF roundPercentage
  <2>2. change >= 50
    BY <1>1, <1>3, <2>1 DEF calculateChange
  <2>3. previous * 100 <= previous * (2 * change)
    BY <1>3, <2>1, <2>2
  <2> QED BY <1>3, <2>1, <2>3
<1> QED BY <1>2, <1>3

LEMMA DashboardsAreSound ==
    ASSUME NEW request, NEW jurisdiction, NEW m, IsAnswer(m)
    PROVE  Sound(request, jurisdiction, m, Dashboard(request, jurisdiction, m))
<1>1. PICK area : area = ResolvedArea(request, jurisdiction)
  OBVIOUS
<1>2. PICK data : data = Dashboard(request, jurisdiction, m)
  OBVIOUS
<1> SUFFICES ASSUME data.live = TRUE
             PROVE  /\ \A a \in Selected(area) :
                          data.scope = a /\ (m.counts[a].total > 0 => data.mentions = m.counts[a].total)
                    /\ Selected(area) = {} => data.scope = "national"
                    /\ data.sentiment.positive + data.sentiment.neutral + data.sentiment.negative
                          \in 999..1001 \cup {0}
                    /\ \A i \in data.issues : \A t \in m.terms :
                          i.name = t.name /\ i.trend = "up" =>
                              t.current > t.previous \/ ~Works(m, "previous")
  BY <1>1, <1>2 DEF Sound
<1>3. data = buildDashboard(area, m)
  BY <1>1, <1>2 DEF Dashboard, Placeholder
<1>4. PICK scoped : scoped = applyAreaScope(area, m)
  OBVIOUS
<1>5. /\ data.scope = scoped.scope /\ data.mentions = scoped.mentions
      /\ data.sentiment = scoped.sentiment /\ data.issues = QuickIssues(m)
  BY <1>3, <1>4 DEF buildDashboard
<1>6. /\ \A a \in Selected(area) :
             scoped.scope = a /\ (m.counts[a].total > 0 => scoped.mentions = m.counts[a].total)
      /\ Selected(area) = {} => scoped.scope = "national"
      /\ \E search \in Areas \cup {"main"} : scoped.sentiment = mapSentiment(m.counts[search])
  <2>1. CASE Selected(area) = {}
    BY <1>4, <2>1 DEF applyAreaScope
  <2>2. CASE Selected(area) # {}
    <3>1. PICK a \in Selected(area) : a = CHOOSE x \in Selected(area) : TRUE
      BY <2>2
    <3>2. a \in Areas /\ \A b \in Selected(area) : b = a
      BY <3>1 DEF Selected
    <3>3. /\ scoped.scope = a /\ scoped.sentiment = mapSentiment(m.counts[a])
          /\ scoped.mentions = IF m.counts[a].total # 0 THEN m.counts[a].total
                               ELSE m.counts["main"].total
      BY <1>4, <2>2, <3>1 DEF applyAreaScope
    <3> QED BY <2>2, <3>2, <3>3
  <2> QED BY <2>1, <2>2
<1>7. data.sentiment.positive + data.sentiment.neutral + data.sentiment.negative \in 999..1001 \cup {0}
  <2>1. PICK search \in Areas \cup {"main"} : data.sentiment = mapSentiment(m.counts[search])
    BY <1>5, <1>6
  <2>2. \A kind \in {"positive", "neutral", "negative"} : m.counts[search][kind] \in Nat
    BY DEF IsAnswer
  <2> QED BY <2>1, <2>2, SentimentAddsUp
<1>8. ASSUME NEW i \in data.issues, NEW t \in m.terms, i.name = t.name, i.trend = "up",
             Works(m, "previous")
      PROVE  t.current > t.previous
  <2>1. PICK u \in m.terms :
           i = [name |-> u.name,
                trend |-> calculateTrend(calculateChange(u.current,
                    IF IssuesConfigured \/ Works(m, "previous") THEN u.previous ELSE 0))]
    BY <1>5, <1>8 DEF QuickIssues
  <2>2. /\ i.name = u.name
        /\ i.trend = calculateTrend(calculateChange(u.current, u.previous))
    BY <1>8, <2>1
  <2>3. u = t /\ t.current \in Nat /\ t.previous \in Nat
    BY <1>8, <2>2 DEF IsAnswer
  <2> QED BY <1>8, <2>2, <2>3, RisingIsMore
<1> QED BY <1>5, <1>6, <1>7, <1>8

(* The dashboard on the page is sound for the place it was requested for,  *)
(* whatever Meltwater answered and however often its calls failed: it is   *)
(* about that place, its shares add up but for the rounding, and an issue  *)
(* that is said to rise has risen or has no earlier count.                 *)
THEOREM DashboardStaysSound == Spec => []DashboardIsSound
<1>1. DashboardIsSound
  <2> SUFFICES ASSUME NEW n \in DOMAIN Meltwater
               PROVE  Sound(shown.request, jurisdictionName, Meltwater[n], DataShown(Meltwater[n]))
    BY DEF DashboardIsSound
  <2>1. CASE shown.usingPlaceholder
    BY <2>1 DEF DataShown, Placeholder, Sound
  <2>2. CASE ~shown.usingPlaceholder
    BY <2>2, MeltwaterAssumption, DashboardsAreSound DEF DataShown
  <2> QED BY <2>1, <2>2
<1> QED BY <1>1, PTL
-----------------------------------------------------------------------------
(***************************************************************************)
(* The location page.  A place is what the page may be at: a path of the   *)
(* hierarchy with localities.                                              *)
(***************************************************************************)
IsPlace(g) ==
    /\ IsGeography(g)
    /\ g.province \in {"", INDEPENDENT_CITIES_FILTER} \cup ProvinceCodes(g.region)
    /\ g.district # "" => isNCR(g) /\ g.district \in DOMAIN NCRDistricts
    /\ isNCR(g) => g.province = ""
    /\ g.region = "" => g = National
    /\ UnitsOf(g) # {}

(* The lists last loaded are those of the place they were loaded for.      *)
CoverageInv ==
    /\ \/ coverage = Coverage(coverage.of)
       \/ coverage.groups = {} /\ coverage.units = {} /\ (coverageLoading \/ coverage.failed)
    /\ ~coverageLoading => coverage.of = location

(* What the map shows when no polygons are on their way.                   *)
MapShows ==
    \/ boundary.error \/ abandoned
    \/ basis # "" /\ boundary.dedicated /\ boundary.features = {DistrictPolygons[basis]}
    \/ /\ ~boundary.dedicated /\ (basis # "" => boundary.notice)
       /\ boundary.features \subseteq getBoundaryWhereClause(BoundaryUrl(location))

MapInv ==
    /\ mapFlight = "district" => basis # ""
    /\ mapFlight = "" => MapShows

PanelInv ==
    /\ strayed \in BOOLEAN
    /\ strayed \/ IsPlace(location)
    /\ CoverageInv
    /\ MapInv
    /\ page = "" => basis = ""

IsSelection(g) ==
    g = [region |-> g.region, province |-> g.province, district |-> g.district,
         locality |-> g.locality]

LEMMA Filters ==
    /\ "" \notin GroupFilters /\ "" # INDEPENDENT_CITIES_FILTER
    /\ INDEPENDENT_CITIES_FILTER \notin GroupFilters
    /\ "" \notin Regions /\ NCRRegion \in Regions
    /\ \A reg \in Regions : {"", INDEPENDENT_CITIES_FILTER} \cap ProvinceCodes(reg) = {}
BY PlacesAssumption, PagesAssumption DEF GroupFilters, INDEPENDENT_CITIES_FILTER

LEMMA NationalIs ==
    /\ National.region = "" /\ National.province = "" /\ National.district = ""
    /\ National.locality = "" /\ IsGeography(National) /\ ~isNCR(National)
<1>1. PICK n : n = [region |-> "", province |-> "", district |-> "", locality |-> ""]
  OBVIOUS
<1>2. n.region = "" /\ n.province = "" /\ n.district = "" /\ n.locality = ""
  BY <1>1
<1>3. IsGeography(n) /\ ~isNCR(n)
  BY <1>1, <1>2, Filters DEF IsGeography, isNCR
<1> QED BY <1>1, <1>2, <1>3 DEF National

LEMMA NationIsPlace == IsPlace(National)
<1>1. UnitsOf(National) = RegionUnits
  BY NationalIs DEF UnitsOf
<1>2. RegionUnits # {}
  BY Filters DEF RegionUnits
<1> QED BY <1>1, <1>2, NationalIs DEF IsPlace

LEMMA PlaceWith ==
    ASSUME NEW g, IsGeography(g), g.region \in Regions,
           g.province \in {"", INDEPENDENT_CITIES_FILTER} \cup ProvinceCodes(g.region),
           g.district # "" => isNCR(g) /\ g.district \in DOMAIN NCRDistricts,
           isNCR(g) => g.province = "",
           NEW u \in AllLocalities(g.region), IsOf(u, g)
    PROVE  IsPlace(g)
<1>1. g.region # ""
  BY Filters
<1>2. u \in UnitsOf(g)
  BY <1>1 DEF UnitsOf
<1> QED BY <1>1, <1>2 DEF IsPlace

LEMMA AccountIsPlace ==
    ASSUME AccountsAreNested, AccountsHavePlaces, NEW u \in Users, NEW g, g = AssignedTo[u]
    PROVE  IsPlace(g)
<1>1. CASE g = National
  BY <1>1, NationIsPlace
<1>2. CASE g # National
  <2>1. g \in [region : Regions, province : STRING, district : STRING, locality : STRING]
        /\ IsPath(g)
    BY <1>2 DEF AccountsAreNested
  <2>2. UnitsOf(g) # {} /\ g.province # INDEPENDENT_CITIES_FILTER
    BY <1>2 DEF AccountsHavePlaces
  <2>3. g.region \in Regions /\ g.region # "" /\ IsGeography(g)
    BY <2>1, Filters DEF IsGeography
  <2>4. g.province \in {"", INDEPENDENT_CITIES_FILTER} \cup ProvinceCodes(g.region)
    BY <2>1, <2>2 DEF IsPath, Province
  <2>5. isNCR(g) => g.province = ""
    BY <2>2, <2>4, PagesAssumption DEF isNCR
  <2> QED BY <2>1, <2>2, <2>3, <2>4, <2>5 DEF IsPlace, IsPath
<1> QED BY <1>1, <1>2

(* The localities in reach of a place are those every part of it, but for  *)
(* a locality, says.                                                       *)
LEMMA LocalitiesInReach ==
    ASSUME NEW g, IsPlace(g), g.region # ""
    PROVE  /\ \A u : u \in administrativeLocalities(g) <=>
                 /\ u \in AllLocalities(g.region)
                 /\ g.province = INDEPENDENT_CITIES_FILTER =>
                       u.level = "city" /\ Independent(u, g.region)
                 /\ Province(g) # "" => u.prv = g.province
                 /\ g.district # "" => u.code \in NCRDistricts[g.district]
           /\ g.region \in Regions
<1>1. g.region \in Regions
  BY DEF IsPlace, IsGeography
<1>2. ProvinceCodes(g.region) \cap {"", INDEPENDENT_CITIES_FILTER} = {}
  BY <1>1, Filters
<1> DEFINE localities == {u \in AllLocalities(g.region) :
                             g.province \in ProvinceCodes(g.region) => u.prv = g.province}
<1>3. CASE g.province = INDEPENDENT_CITIES_FILTER
  <2>1. g.province \notin ProvinceCodes(g.region) /\ Province(g) = "" /\ ~isNCR(g) /\ g.district = ""
    BY <1>2, <1>3, Filters DEF Province, IsPlace
  <2>2. administrativeLocalities(g) =
            {u \in localities : u.level = "city" /\ Independent(u, g.region)}
    BY <1>3 DEF administrativeLocalities
  <2> QED BY <1>1, <1>3, <2>1, <2>2
<1>4. CASE g.province # INDEPENDENT_CITIES_FILTER
  <2>1. Province(g) = g.province /\ (g.province # "" => g.province \in ProvinceCodes(g.region))
    BY <1>4 DEF Province, IsPlace
  <2>2. Province(g) # "" <=> g.province \in ProvinceCodes(g.region)
    BY <1>2, <2>1
  <2>3. CASE g.district # ""
    <3>1. administrativeLocalities(g) = {u \in localities : u.code \in NCRDistricts[g.district]}
      BY <1>4, <2>3 DEF administrativeLocalities, IsPlace
    <3> QED BY <1>1, <1>4, <2>2, <2>3, <3>1
  <2>4. CASE g.district = ""
    <3>1. administrativeLocalities(g) = localities
      BY <1>4, <2>4 DEF administrativeLocalities
    <3> QED BY <1>1, <1>4, <2>2, <2>4, <3>1
  <2> QED BY <2>3, <2>4
<1> QED BY <1>3, <1>4

LEMMA UnitsInScope ==
    ASSUME NEW g, IsPlace(g), g.region # ""
    PROVE  UnitsOf(g) = {u \in scopedLocalities(g) : SpecificLocality(g) # "" => u.code = g.locality}
<1>1. \A u : u \in scopedLocalities(g) <=>
          /\ u \in administrativeLocalities(g)
          /\ g.locality \in GroupFilters => u.level = LevelOf[g.locality]
  BY DEF scopedLocalities
<1>2. \A u : u \in UnitsOf(g) <=> u \in AllLocalities(g.region) /\ IsOf(u, g)
  BY DEF UnitsOf
<1>3. \A u : u \in UnitsOf(g) <=>
         u \in scopedLocalities(g) /\ (SpecificLocality(g) # "" => u.code = g.locality)
  BY <1>1, <1>2, LocalitiesInReach DEF IsOf
<1> QED BY <1>3

-----------------------------------------------------------------------------
(* Where the user can go from a place.                                     *)
LEMMA RegionIsPlace ==
    ASSUME NEW reg \in Regions \cup {""}, NEW g, g = [National EXCEPT !.region = reg]
    PROVE  IsPlace(g)
<1>1. /\ IsGeography(g) /\ g.region = reg /\ g.province = "" /\ g.locality = "" /\ g.district = ""
      /\ g = [region |-> reg, province |-> "", district |-> "", locality |-> ""]
  BY RegionOnly DEF National
<1>2. CASE reg = ""
  BY <1>1, <1>2, NationIsPlace DEF National
<1>3. CASE reg \in Regions
  <2>1. PICK u \in AllLocalities(reg) : TRUE
    BY <1>3, UnitsAssumption
  <2>2. IsOf(u, g)
    BY <1>1, Filters DEF IsOf, Province, SpecificLocality
  <2> QED BY <1>1, <1>3, <2>1, <2>2, PlaceWith
<1> QED BY <1>2, <1>3

LEMMA LocalityIsPlace ==
    ASSUME NEW g, IsPlace(g), g.region # "", NEW u \in administrativeLocalities(g),
           NEW h, h = [g EXCEPT !.locality = u.code]
    PROVE  IsPlace(h)
<1>1. /\ h.region = g.region /\ h.province = g.province /\ h.district = g.district
      /\ h.locality = u.code
      /\ h = [region |-> h.region, province |-> h.province, district |-> h.district,
              locality |-> h.locality]
  <2>1. PICK r, p, d, l : g = [region |-> r, province |-> p, district |-> d, locality |-> l]
    BY DEF IsPlace, IsGeography
  <2>2. PICK c : c = u.code
    OBVIOUS
  <2>3. h = [region |-> r, province |-> p, district |-> d, locality |-> c]
    BY <2>1, <2>2
  <2> QED BY <2>1, <2>2, <2>3
<1>2. /\ g.region \in Regions /\ u \in AllLocalities(g.region)
      /\ g.province = INDEPENDENT_CITIES_FILTER => u.level = "city" /\ Independent(u, g.region)
      /\ Province(g) # "" => u.prv = g.province
      /\ g.district # "" => u.code \in NCRDistricts[g.district]
  BY LocalitiesInReach
<1>3. u.code \notin GroupFilters
  BY <1>2, UnitsAssumption DEF AllLocalities
<1>4. IsOf(u, h)
  <2>1. Province(h) = Province(g)
    BY <1>1 DEF Province
  <2> QED BY <1>1, <1>2, <1>3, <2>1 DEF IsOf
<1>5. IsGeography(h) /\ (isNCR(h) <=> isNCR(g))
  BY <1>1, <1>2 DEF IsGeography, isNCR
<1> QED BY <1>1, <1>2, <1>4, <1>5, PlaceWith DEF IsPlace

LEMMA AboveIsPlace ==
    ASSUME NEW g, IsPlace(g), g # National, NEW h,
           \/ h = [g EXCEPT !.locality = ""]
           \/ g.locality = "" /\ h = [g EXCEPT !.district = ""]
           \/ g.locality = "" /\ h = [g EXCEPT !.province = ""]
    PROVE  IsPlace(h)
<1>1. /\ h.region = g.region
      /\ h.province \in {"", g.province} /\ h.district \in {"", g.district}
      /\ h.locality \in {"", g.locality}
      /\ h = [region |-> h.region, province |-> h.province, district |-> h.district,
              locality |-> h.locality]
  <2>1. PICK r, p, d, l : g = [region |-> r, province |-> p, district |-> d, locality |-> l]
    BY DEF IsPlace, IsGeography
  <2>2. \/ h = [region |-> r, province |-> p, district |-> d, locality |-> ""]
        \/ h = [region |-> r, province |-> p, district |-> "", locality |-> l]
        \/ h = [region |-> r, province |-> "", district |-> d, locality |-> l]
    BY <2>1
  <2> QED BY <2>1, <2>2
<1>2. g.region \in Regions /\ g.region # ""
  BY DEF IsPlace, IsGeography
<1>3. PICK u \in AllLocalities(g.region) : IsOf(u, g)
  BY <1>2 DEF IsPlace, UnitsOf
<1>4. IsOf(u, h)
  <2>1. Province(h) \in {"", Province(g)} /\ SpecificLocality(h) \in {"", SpecificLocality(g)}
    BY <1>1 DEF Province, SpecificLocality
  <2>2. h.province = INDEPENDENT_CITIES_FILTER => g.province = INDEPENDENT_CITIES_FILTER
    BY <1>1, Filters
  <2>3. Province(h) # "" => Province(g) # "" /\ h.province = g.province
    BY <1>1, <2>1, Filters DEF Province
  <2>4. SpecificLocality(h) # "" => SpecificLocality(g) # "" /\ h.locality = g.locality
    BY <1>1, <2>1, Filters DEF SpecificLocality
  <2>5. h.locality \in GroupFilters => h.locality = g.locality
    BY <1>1, Filters
  <2> QED BY <1>1, <1>3, <2>2, <2>3, <2>4, <2>5 DEF IsOf
<1>5. IsGeography(h) /\ (isNCR(h) <=> isNCR(g))
  BY <1>1, <1>2 DEF IsGeography, isNCR
<1> QED BY <1>1, <1>2, <1>3, <1>4, <1>5, PlaceWith DEF IsPlace

(* Through a group.                                                        *)
Chosen(g, c) ==
    CASE c \in DOMAIN NCRDistricts ->
            [g EXCEPT !.province = "", !.district = c, !.locality = ""]
      [] c \in GroupFilters -> [g EXCEPT !.locality = c]
      [] OTHER -> [g EXCEPT !.province = c, !.district = "", !.locality = ""]

IsChosen(g, c, h) ==
    /\ IsSelection(h) /\ h.region = g.region
    /\ c \in DOMAIN NCRDistricts =>
          h.province = "" /\ h.district = c /\ h.locality = ""
    /\ c \in GroupFilters =>
          h.province = g.province /\ h.district = g.district /\ h.locality = c
    /\ c \notin GroupFilters \cup DOMAIN NCRDistricts =>
          h.province = c /\ h.district = "" /\ h.locality = ""

LEMMA ChosenIs ==
    ASSUME NEW g, IsGeography(g), NEW c, NEW h, h = Chosen(g, c)
    PROVE  IsChosen(g, c, h)
<1>1. PICK r, p, d, l : g = [region |-> r, province |-> p, district |-> d, locality |-> l]
  BY DEF IsGeography
<1>2. g.region = r /\ g.province = p /\ g.district = d
  BY <1>1
<1>3. DOMAIN NCRDistricts \cap GroupFilters = {}
  BY UnitsAssumption
<1>4. CASE c \in DOMAIN NCRDistricts
  <2>1. h = [g EXCEPT !.province = "", !.district = c, !.locality = ""]
    BY <1>3, <1>4 DEF Chosen
  <2>2. /\ IsSelection(h)
        /\ h.region = r /\ h.province = "" /\ h.district = c /\ h.locality = ""
    BY <1>1, <2>1 DEF IsSelection
  <2> QED BY <1>2, <1>3, <1>4, <2>2 DEF IsChosen
<1>5. CASE c \in GroupFilters
  <2>1. h = [g EXCEPT !.locality = c]
    BY <1>3, <1>5 DEF Chosen
  <2>2. IsSelection(h) /\ h.region = r /\ h.province = p /\ h.district = d /\ h.locality = c
    BY <1>1, <2>1 DEF IsSelection
  <2> QED BY <1>2, <1>3, <1>5, <2>2 DEF IsChosen
<1>6. CASE c \notin GroupFilters \cup DOMAIN NCRDistricts
  <2>1. h = [g EXCEPT !.province = c, !.district = "", !.locality = ""]
    BY <1>6 DEF Chosen
  <2>2. /\ IsSelection(h)
        /\ h.region = r /\ h.province = c /\ h.district = "" /\ h.locality = ""
    BY <1>1, <2>1 DEF IsSelection
  <2> QED BY <1>2, <1>6, <2>2 DEF IsChosen
<1> QED BY <1>4, <1>5, <1>6

(* The groups of a place, and the units each of them is for.               *)
LEMMA GroupsAre ==
    ASSUME NEW g, IsPlace(g), NEW grp \in administrativeGroups(g)
    PROVE  /\ g.locality = ""
           /\ \/ /\ isNCR(g) /\ g.district = ""
                 /\ grp.code \in DOMAIN NCRDistricts
                 /\ grp.units = {u \in administrativeLocalities(g) : u.code \in NCRDistricts[grp.code]}
              \/ /\ ~isNCR(g) /\ g.province = "" /\ grp.code \in ProvinceCodes(g.region)
                 /\ grp.units = {u \in AllLocalities(g.region) : u.prv = grp.code}
              \/ /\ ~isNCR(g) /\ g.province = "" /\ grp.code = INDEPENDENT_CITIES_FILTER
                 /\ grp.units = {u \in administrativeLocalities(g) : Independent(u, g.region)}
                 /\ grp.units # {}
              \/ /\ g.province = INDEPENDENT_CITIES_FILTER /\ grp.code = "all-cities"
                 /\ grp.units = scopedLocalities(g)
              \/ /\ g.province # INDEPENDENT_CITIES_FILTER
                 /\ grp.code \in GroupFilters /\ grp.units # {}
                 /\ grp.units = {u \in scopedLocalities(g) : u.level = LevelOf[grp.code]}
<1>1. g.locality = ""
  BY DEF administrativeGroups
<1>2. \A c, us : Group(c, us).code = c /\ Group(c, us).units = us
  BY DEF Group
<1>3. CASE isNCR(g) /\ g.district = ""
  <2>1. grp \in ByDistrict(g)
    BY <1>1, <1>3 DEF administrativeGroups
  <2>2. PICK d \in DOMAIN NCRDistricts :
           grp = Group(d, {u \in administrativeLocalities(g) : u.code \in NCRDistricts[d]})
    BY <2>1 DEF ByDistrict
  <2>3. grp.code = d /\ grp.units = {u \in administrativeLocalities(g) : u.code \in NCRDistricts[d]}
    BY <1>2, <2>2
  <2> QED BY <1>1, <1>3, <2>3
<1>4. CASE ~isNCR(g) /\ g.province = ""
  <2> DEFINE apart == {u \in administrativeLocalities(g) : Independent(u, g.region)}
  <2>1. grp \in ByProvince(g)
    BY <1>1, <1>4 DEF administrativeGroups
  <2>2. \/ \E p \in ProvinceCodes(g.region) :
              grp = Group(p, {u \in AllLocalities(g.region) : u.prv = p})
        \/ apart # {} /\ grp = Group(INDEPENDENT_CITIES_FILTER, apart)
    BY <2>1 DEF ByProvince
  <2>3. ASSUME NEW p \in ProvinceCodes(g.region),
               grp = Group(p, {u \in AllLocalities(g.region) : u.prv = p})
        PROVE  grp.code = p /\ grp.units = {u \in AllLocalities(g.region) : u.prv = p}
    BY <1>2, <2>3
  <2>4. ASSUME grp = Group(INDEPENDENT_CITIES_FILTER, apart)
        PROVE  grp.code = INDEPENDENT_CITIES_FILTER /\ grp.units = apart
    BY <1>2, <2>4
  <2> QED BY <1>1, <1>4, <2>2, <2>3, <2>4
<1>5. CASE ~(isNCR(g) /\ g.district = "") /\ ~(~isNCR(g) /\ g.province = "")
           /\ g.province = INDEPENDENT_CITIES_FILTER
  <2>1. grp = Group("all-cities", scopedLocalities(g))
    BY <1>1, <1>5 DEF administrativeGroups
  <2>2. grp.code = "all-cities" /\ grp.units = scopedLocalities(g)
    BY <1>2, <2>1
  <2> QED BY <1>1, <1>5, <2>2
<1>6. CASE ~(isNCR(g) /\ g.district = "") /\ ~(~isNCR(g) /\ g.province = "")
           /\ g.province # INDEPENDENT_CITIES_FILTER
  <2>1. grp \in ByType(g)
    BY <1>1, <1>6 DEF administrativeGroups
  <2>2. grp.units # {} /\ \E all \in GroupFilters :
            grp = Group(all, {u \in scopedLocalities(g) : u.level = LevelOf[all]})
    BY <2>1 DEF ByType
  <2>3. PICK all \in GroupFilters :
            grp = Group(all, {u \in scopedLocalities(g) : u.level = LevelOf[all]})
    BY <2>2
  <2>4. grp.code = all /\ grp.units = {u \in scopedLocalities(g) : u.level = LevelOf[all]}
    BY <1>2, <2>3
  <2> QED BY <1>1, <1>6, <2>2, <2>4
<1> QED BY <1>3, <1>4, <1>5, <1>6

LEMMA GroupIsPlace ==
    ASSUME NEW g, IsPlace(g), g.region # "", NEW grp \in administrativeGroups(g),
           NEW h, h = Chosen(g, grp.code)
    PROVE  IsPlace(h)
<1>1. IsGeography(g) /\ g.region \in Regions /\ g.locality = ""
  BY GroupsAre, LocalitiesInReach DEF IsPlace
<1>c. PICK c : c = grp.code
  OBVIOUS
<1>0. /\ IsSelection(h) /\ h.region = g.region
      /\ c \in DOMAIN NCRDistricts =>
            h.province = "" /\ h.district = c /\ h.locality = ""
      /\ c \in GroupFilters =>
            h.province = g.province /\ h.district = g.district /\ h.locality = c
      /\ c \notin GroupFilters \cup DOMAIN NCRDistricts =>
            h.province = c /\ h.district = "" /\ h.locality = ""
  <2>1. IsChosen(g, c, h)
    BY <1>1, <1>c, ChosenIs
  <2> QED BY <2>1 DEF IsChosen
<1>2. h.region = g.region /\ IsGeography(h) /\ (isNCR(h) <=> isNCR(g))
  <2>1. h.region = g.region /\ IsSelection(h)
    BY <1>0
  <2> QED BY <1>1, <2>1 DEF IsGeography, IsSelection, isNCR
<1>3. CASE isNCR(g) /\ grp.code \in DOMAIN NCRDistricts
  <2>1. h.province = "" /\ h.district = grp.code /\ h.locality = ""
    BY <1>0, <1>c, <1>3
  <2>2. PICK u \in AllLocalities(g.region) : u.code \in NCRDistricts[grp.code]
    BY <1>3, UnitsAssumption DEF isNCR
  <2>3. IsOf(u, h)
    BY <2>1, <2>2, Filters DEF IsOf, Province, SpecificLocality
  <2> QED BY <1>1, <1>2, <1>3, <2>1, <2>3, PlaceWith
<1>4. CASE ~isNCR(g) /\ g.province = "" /\ grp.code \in ProvinceCodes(g.region)
  <2>1. grp.code \notin GroupFilters \cup DOMAIN NCRDistricts
    BY <1>1, <1>4, UnitsAssumption
  <2>2. h.province = grp.code /\ h.district = "" /\ h.locality = ""
    BY <1>0, <1>c, <2>1
  <2>3. PICK u \in AllLocalities(g.region) : u.prv = grp.code
    BY <1>1, <1>4, UnitsAssumption
  <2>4. IsOf(u, h)
    BY <1>1, <1>4, <2>2, <2>3, Filters DEF IsOf, Province, SpecificLocality
  <2> QED BY <1>1, <1>2, <1>4, <2>2, <2>4, PlaceWith
<1>5. CASE ~isNCR(g) /\ g.province = "" /\ grp.code = INDEPENDENT_CITIES_FILTER /\ grp.units # {}
           /\ grp.units = {u \in administrativeLocalities(g) : Independent(u, g.region)}
  <2>1. grp.code \notin GroupFilters \cup DOMAIN NCRDistricts
    BY <1>5, Filters, UnitsAssumption
  <2>2. h.province = INDEPENDENT_CITIES_FILTER /\ h.district = "" /\ h.locality = ""
    BY <1>0, <1>c, <1>5, <2>1
  <2>3. \E u \in AllLocalities(g.region) : Independent(u, g.region)
    BY <1>5, LocalitiesInReach
  <2>4. PICK u \in AllLocalities(g.region) : u.level = "city" /\ Independent(u, g.region)
    BY <1>1, <2>3, UnitsAssumption
  <2>5. IsOf(u, h)
    BY <1>2, <2>2, <2>4, Filters DEF IsOf, Province, SpecificLocality
  <2> QED BY <1>1, <1>2, <1>5, <2>2, <2>5, PlaceWith
<1>6. CASE grp.code \in GroupFilters /\ grp.units \subseteq scopedLocalities(g)
           /\ \E u \in grp.units : u.level = LevelOf[grp.code]
  <2>1. h.province = g.province /\ h.district = g.district /\ h.locality = grp.code
    BY <1>0, <1>c, <1>6, UnitsAssumption
  <2>2. PICK u \in scopedLocalities(g) : u.level = LevelOf[grp.code]
    BY <1>6
  <2>3. u \in administrativeLocalities(g) /\ u \in AllLocalities(g.region)
    BY <2>2, LocalitiesInReach DEF scopedLocalities
  <2>4. IsOf(u, h)
    BY <1>2, <1>6, <2>1, <2>2, <2>3, LocalitiesInReach DEF IsOf, Province, SpecificLocality
  <2> QED BY <1>1, <1>2, <2>1, <2>3, <2>4, PlaceWith DEF IsPlace
<1>7. CASE g.province = INDEPENDENT_CITIES_FILTER /\ grp.code = "all-cities"
           /\ grp.units = scopedLocalities(g)
  <2>1. PICK u : u \in UnitsOf(g)
    BY DEF IsPlace
  <2>2. u \in scopedLocalities(g)
    BY <2>1, UnitsInScope
  <2>3. u.level = "city"
    BY <1>7, <2>2, LocalitiesInReach DEF scopedLocalities
  <2>4. "all-cities" \in GroupFilters /\ LevelOf["all-cities"] = "city"
    BY DEF GroupFilters, LevelOf
  <2>5. \E v \in grp.units : v.level = LevelOf[grp.code]
    BY <1>7, <2>2, <2>3, <2>4
  <2> QED BY <1>6, <1>7, <2>4, <2>5
<1>8. CASE /\ grp.code \in GroupFilters /\ grp.units # {}
           /\ grp.units = {u \in scopedLocalities(g) : u.level = LevelOf[grp.code]}
  <2>1. PICK u : u \in grp.units
    BY <1>8
  <2> QED BY <1>6, <1>8, <2>1
<1>9. \/ isNCR(g) /\ grp.code \in DOMAIN NCRDistricts
      \/ ~isNCR(g) /\ g.province = "" /\ grp.code \in ProvinceCodes(g.region)
      \/ /\ ~isNCR(g) /\ g.province = "" /\ grp.code = INDEPENDENT_CITIES_FILTER /\ grp.units # {}
         /\ grp.units = {u \in administrativeLocalities(g) : Independent(u, g.region)}
      \/ /\ g.province = INDEPENDENT_CITIES_FILTER /\ grp.code = "all-cities"
         /\ grp.units = scopedLocalities(g)
      \/ /\ grp.code \in GroupFilters /\ grp.units # {}
         /\ grp.units = {u \in scopedLocalities(g) : u.level = LevelOf[grp.code]}
  BY GroupsAre
<1> QED BY <1>3, <1>4, <1>5, <1>7, <1>8, <1>9
-----------------------------------------------------------------------------
(* What the page shows of a place: its units, each in one group.           *)
OneOf(groups, u) ==
    \E grp \in groups : u \in grp.units /\ \A o \in groups : u \in o.units => o = grp

LEMMA OneGroup ==
    ASSUME NEW groups, NEW u, OneOf(groups, u)
    PROVE  Cardinality({grp \in groups : u \in grp.units}) = 1
<1>1. PICK grp \in groups : u \in grp.units /\ \A o \in groups : u \in o.units => o = grp
  BY DEF OneOf
<1>2. {o \in groups : u \in o.units} = {grp}
  BY <1>1
<1> QED BY <1>2, FS_Singleton

LEMMA GroupOf ==
    ASSUME NEW c, NEW us
    PROVE  Group(c, us).code = c /\ Group(c, us).units = us
BY DEF Group

LEMMA UnitsAreGrouped ==
    ASSUME NEW g, IsPlace(g), g.region # "", administrativeGroups(g) # {},
           NEW u \in scopedLocalities(g)
    PROVE  OneOf(administrativeGroups(g), u)
<1>1. PICK some : some \in administrativeGroups(g)
  OBVIOUS
<1>2. g.locality = "" /\ g.region \in Regions
  BY <1>1, GroupsAre, LocalitiesInReach
<1>3. u \in administrativeLocalities(g) /\ u \in AllLocalities(g.region)
  BY LocalitiesInReach DEF scopedLocalities
<1>4. CASE isNCR(g) /\ g.district = ""
  <2> DEFINE Of(d) == Group(d, {v \in administrativeLocalities(g) : v.code \in NCRDistricts[d]})
  <2>1. administrativeGroups(g) = {Of(d) : d \in DOMAIN NCRDistricts}
    BY <1>2, <1>4 DEF administrativeGroups, ByDistrict
  <2>2. PICK d \in DOMAIN NCRDistricts :
           \A c \in DOMAIN NCRDistricts : u.code \in NCRDistricts[c] <=> c = d
    BY <1>3, <1>4, UnitsAssumption DEF isNCR
  <2>3. \A c : Of(c).units = {v \in administrativeLocalities(g) : v.code \in NCRDistricts[c]}
    BY GroupOf
  <2> HIDE DEF Of
  <2>4. u \in Of(d).units
    BY <1>3, <2>2, <2>3
  <2>5. ASSUME NEW c \in DOMAIN NCRDistricts, u \in Of(c).units PROVE c = d
    BY <2>2, <2>3, <2>5
  <2> QED BY <2>1, <2>4, <2>5 DEF OneOf
<1>5. CASE ~isNCR(g) /\ g.province = ""
  <2> DEFINE apart == {v \in administrativeLocalities(g) : Independent(v, g.region)}
             Of(p) == Group(p, {v \in AllLocalities(g.region) : v.prv = p})
             others == Group(INDEPENDENT_CITIES_FILTER, apart)
  <2>1. administrativeGroups(g) = {Of(p) : p \in ProvinceCodes(g.region)}
                                  \cup (IF apart = {} THEN {} ELSE {others})
    BY <1>2, <1>5 DEF administrativeGroups, ByProvince
  <2>2. (\A p : Of(p).units = {v \in AllLocalities(g.region) : v.prv = p}) /\ others.units = apart
    BY GroupOf
  <2>3. u \in apart <=> u.prv \notin ProvinceCodes(g.region)
    BY <1>3 DEF Independent
  <2> HIDE DEF apart, Of, others
  <2>4. CASE u.prv \in ProvinceCodes(g.region)
    <3>1. u \in Of(u.prv).units /\ Of(u.prv) \in administrativeGroups(g)
      BY <1>3, <2>1, <2>2, <2>4
    <3>2. ASSUME NEW o \in administrativeGroups(g), u \in o.units PROVE o = Of(u.prv)
      <4>1. o # others
        BY <2>2, <2>3, <2>4, <3>2
      <4>2. PICK p \in ProvinceCodes(g.region) : o = Of(p)
        BY <2>1, <3>2, <4>1
      <4> QED BY <2>2, <3>2, <4>2
    <3> QED BY <3>1, <3>2 DEF OneOf
  <2>5. CASE u.prv \notin ProvinceCodes(g.region)
    <3>1. u \in others.units /\ others \in administrativeGroups(g)
      BY <2>1, <2>2, <2>3, <2>5
    <3>2. ASSUME NEW o \in administrativeGroups(g), u \in o.units PROVE o = others
      <4>1. ASSUME NEW p \in ProvinceCodes(g.region) PROVE o # Of(p)
        <5>1. u \notin Of(p).units
          BY <2>2, <2>5
        <5> QED BY <3>2, <5>1
      <4> QED BY <2>1, <3>2, <4>1
    <3> QED BY <3>1, <3>2 DEF OneOf
  <2> QED BY <2>4, <2>5
<1>6. CASE ~(isNCR(g) /\ g.district = "") /\ ~(~isNCR(g) /\ g.province = "")
           /\ g.province = INDEPENDENT_CITIES_FILTER
  <2>1. administrativeGroups(g) = {Group("all-cities", scopedLocalities(g))}
    BY <1>2, <1>6 DEF administrativeGroups
  <2>2. Group("all-cities", scopedLocalities(g)).units = scopedLocalities(g)
    BY GroupOf
  <2> QED BY <2>1, <2>2 DEF OneOf
<1>7. CASE ~(isNCR(g) /\ g.district = "") /\ ~(~isNCR(g) /\ g.province = "")
           /\ g.province # INDEPENDENT_CITIES_FILTER
  <2> DEFINE Of(all) == Group(all, {v \in scopedLocalities(g) : v.level = LevelOf[all]})
  <2>1. administrativeGroups(g) = {grp \in {Of(all) : all \in GroupFilters} : grp.units # {}}
    BY <1>1, <1>2, <1>7 DEF administrativeGroups, ByType
  <2>2. \A all : Of(all).units = {v \in scopedLocalities(g) : v.level = LevelOf[all]}
    BY GroupOf
  <2>3. PICK all \in GroupFilters : \A other \in GroupFilters : u.level = LevelOf[other] <=> other = all
    <3>1. u.level = "city" \/ u.level = "mun"
      BY <1>3 DEF AllLocalities, isMunicipalityOrCity
    <3>2. LevelOf["all-cities"] = "city" /\ LevelOf["all-municipalities"] = "mun"
      BY DEF LevelOf, GroupFilters
    <3> QED BY <3>1, <3>2 DEF GroupFilters
  <2> HIDE DEF Of
  <2>4. u \in Of(all).units
    BY <2>2, <2>3
  <2>5. Of(all) \in administrativeGroups(g)
    BY <2>1, <2>4
  <2>6. ASSUME NEW o \in administrativeGroups(g), u \in o.units PROVE o = Of(all)
    <3>1. PICK other \in GroupFilters : o = Of(other)
      BY <2>1, <2>6
    <3>2. u.level = LevelOf[other]
      BY <2>2, <2>6, <3>1
    <3> QED BY <2>3, <3>1, <3>2
  <2> QED BY <2>4, <2>5, <2>6 DEF OneOf
<1> QED BY <1>4, <1>5, <1>6, <1>7

LEMMA CoverageOf ==
    ASSUME NEW g, IsPlace(g), NEW c, c = Coverage(g)
    PROVE  /\ c.units = UnitsOf(g) /\ (g.region = "" => c.groups = {})
           /\ g.region # "" => c.groups = administrativeGroups(g)
           /\ c.groups # {} =>
                 \A u \in c.units : Cardinality({grp \in c.groups : u \in grp.units}) = 1
<1>1. CASE g.region = ""
  <2>1. c = [of |-> g, units |-> RegionUnits, groups |-> {}, failed |-> FALSE]
    BY <1>1 DEF Coverage
  <2>2. c.units = RegionUnits /\ c.groups = {}
    BY <2>1
  <2> QED BY <1>1, <2>2 DEF UnitsOf
<1>2. CASE g.region # ""
  <2> DEFINE selected == {u \in scopedLocalities(g) : u.code = g.locality}
  <2>1. c = [of |-> g, groups |-> administrativeGroups(g), failed |-> FALSE,
             units |-> IF selected # {} THEN selected ELSE scopedLocalities(g)]
    BY <1>2 DEF Coverage
  <2>2. /\ c.groups = administrativeGroups(g)
        /\ c.units = IF selected # {} THEN selected ELSE scopedLocalities(g)
    BY <2>1
  <2>3. UnitsOf(g) = {u \in scopedLocalities(g) : SpecificLocality(g) # "" => u.code = g.locality}
    BY <1>2, UnitsInScope
  <2>4. UnitsOf(g) = IF selected # {} THEN selected ELSE scopedLocalities(g)
    <3>1. CASE SpecificLocality(g) # ""
      <4>1. UnitsOf(g) = selected /\ UnitsOf(g) # {}
        BY <2>3, <3>1 DEF IsPlace
      <4> QED BY <4>1
    <3>2. CASE SpecificLocality(g) = ""
      <4>1. g.locality \in GroupFilters \cup {""}
        BY <3>2 DEF SpecificLocality
      <4>2. selected = {}
        <5>1. ASSUME NEW u \in scopedLocalities(g) PROVE u.code # g.locality
          <6>1. u \in UnitsIn(g.region) /\ g.region \in Regions
            BY <1>2, LocalitiesInReach DEF scopedLocalities, AllLocalities
          <6> QED BY <4>1, <6>1, UnitsAssumption
        <5> QED BY <5>1
      <4> QED BY <2>3, <3>2, <4>2
    <3> QED BY <3>1, <3>2
  <2>5. ASSUME c.groups # {}, NEW u \in UnitsOf(g)
        PROVE  Cardinality({grp \in c.groups : u \in grp.units}) = 1
    <3>1. u \in scopedLocalities(g)
      BY <2>3
    <3>2. OneOf(c.groups, u)
      BY <1>2, <2>2, <2>5, <3>1, UnitsAreGrouped
    <3> QED BY <3>2, OneGroup
  <2> QED BY <1>2, <2>2, <2>4, <2>5
<1> QED BY <1>1, <1>2
(* What the map shows of a place lies in it.                               *)
LEMMA UrlIs ==
    ASSUME NEW g, IsGeography(g), NEW url, url = BoundaryUrl(g)
    PROVE  /\ url.region = g.region /\ url.province = Province(g) /\ url.district = g.district
           /\ url.locality = SpecificLocality(g)
<1>1. PICK r, p, d, l : g = [region |-> r, province |-> p, district |-> d, locality |-> l]
  BY DEF IsGeography
<1>2. PICK x, y : x = Province(g) /\ y = SpecificLocality(g)
  OBVIOUS
<1>3. url = [g EXCEPT !.province = x, !.locality = y]
  BY <1>2 DEF BoundaryUrl
<1>4. url.region = r /\ url.province = x /\ url.district = d /\ url.locality = y
  BY <1>1, <1>3
<1> QED BY <1>1, <1>2, <1>4

LEMMA PolygonsOfPlace ==
    ASSUME NEW g, IsPlace(g), NEW f \in getBoundaryWhereClause(BoundaryUrl(g)),
           g.province = INDEPENDENT_CITIES_FILTER \/ g.locality \in GroupFilters =>
               \E u \in UnitsOf(g) : u.code \in f.codes
    PROVE  \E u \in UnitsOf(g) : u.code \in f.of
<1>1. PICK url : url = BoundaryUrl(g)
  OBVIOUS
<1>2. /\ url.region = g.region /\ url.province = Province(g) /\ url.district = g.district
      /\ url.locality = SpecificLocality(g)
  BY <1>1, UrlIs DEF IsPlace
<1>3. CASE g.region = ""
  <2>1. g.province = "" /\ g.locality = ""
    BY <1>3, NationalIs DEF IsPlace
  <2>2. url.province = "" /\ url.locality = ""
    BY <1>2, <2>1, Filters DEF Province, SpecificLocality
  <2>3. resolvedRegion(url) = {}
    BY <1>2, <1>3, <2>2, UnitsAssumption DEF resolvedRegion
  <2>4. f \in RegionPolygons
    BY <1>1, <2>3 DEF getBoundaryWhereClause
  <2>5. PICK reg \in Regions : reg \in f.of
    BY <2>4, PolygonsAssumption
  <2>6. PICK u : u = [code |-> reg, level |-> "reg", prv |-> ""]
    OBVIOUS
  <2>7. u \in UnitsOf(g) /\ u.code = reg
    BY <1>3, <2>6 DEF UnitsOf, RegionUnits
  <2> QED BY <2>5, <2>7
<1>4. CASE g.region # ""
  <2>1. g.region \in Regions /\ \A u : u \in UnitsOf(g) <=> u \in AllLocalities(g.region) /\ IsOf(u, g)
    BY <1>4 DEF IsPlace, IsGeography, UnitsOf
  <2>2. resolvedRegion(url) = {g.region}
    BY <1>2, <1>4 DEF resolvedRegion
  <2>3. f \in Polygons /\
        IF url.locality # ""
        THEN (IF url.locality \in Divided THEN url.locality \in f.of ELSE url.locality = f.code)
        ELSE IF url.district # "" THEN url.district \in f.codes
        ELSE IF url.province # "" THEN url.province \in f.of
        ELSE url.region \in f.of
    BY <1>1, <2>2 DEF getBoundaryWhereClause
  <2>4. CASE SpecificLocality(g) # ""
    <3>1. PICK u \in UnitsOf(g) : TRUE
      BY DEF IsPlace
    <3>2. u.code = g.locality /\ url.locality = g.locality
      BY <1>2, <2>1, <2>4, <3>1 DEF IsOf, SpecificLocality
    <3>3. url.locality \in f.of
      BY <1>2, <2>3, <2>4, PolygonsAssumption
    <3> QED BY <3>2, <3>3
  <2>5. CASE g.province = INDEPENDENT_CITIES_FILTER \/ g.locality \in GroupFilters
    <3>1. PICK u \in UnitsOf(g) : u.code \in f.codes
      BY <2>5
    <3>2. u.code \in f.of
      BY <2>1, <2>3, <3>1, PolygonsAssumption
    <3> QED BY <3>2
  <2>6. CASE /\ SpecificLocality(g) = "" /\ g.province # INDEPENDENT_CITIES_FILTER
             /\ g.locality \notin GroupFilters
    <3>1. Province(g) = g.province /\ g.locality = ""
      BY <2>6 DEF Province, SpecificLocality
    <3>2. \A u \in AllLocalities(g.region) :
             /\ g.province # "" => u.prv = g.province
             /\ g.district # "" => u.code \in NCRDistricts[g.district]
             => u \in UnitsOf(g)
      BY <2>1, <2>6, <3>1 DEF IsOf
    <3>3. CASE g.district # ""
      <4>1. isNCR(g) /\ g.district \in DOMAIN NCRDistricts /\ g.province = ""
        BY <3>3 DEF IsPlace
      <4>2. g.district \in f.codes
        BY <1>2, <2>3, <2>6, <3>3
      <4>3. PICK d \in DOMAIN NCRDistricts : d = g.district /\ d \in f.codes
        BY <4>1, <4>2
      <4>4. PICK u \in AllLocalities(NCRRegion) : u.code \in NCRDistricts[d] \cap f.of
        BY <2>3, <4>3, PolygonsAssumption
      <4> QED BY <3>2, <4>1, <4>3, <4>4 DEF isNCR
    <3>4. CASE g.district = "" /\ g.province # ""
      <4>1. g.province \in ProvinceCodes(g.region)
        BY <2>6, <3>4 DEF IsPlace
      <4>2. g.province \in f.of
        BY <1>2, <2>3, <2>6, <3>1, <3>4
      <4>3. \A p \in ProvinceCodes(g.region) \cap f.of :
               \E u \in AllLocalities(g.region) : u.prv = p /\ u.code \in f.of
        BY <2>1, <2>3, PolygonsAssumption
      <4>4. PICK u \in AllLocalities(g.region) : u.prv = g.province /\ u.code \in f.of
        BY <4>1, <4>2, <4>3
      <4> QED BY <3>2, <3>4, <4>4
    <3>5. CASE g.district = "" /\ g.province = ""
      <4>1. g.region \in f.of
        BY <1>2, <2>3, <2>6, <3>1, <3>5
      <4>2. PICK u \in AllLocalities(g.region) : u.code \in f.of
        BY <2>1, <2>3, <4>1, PolygonsAssumption
      <4> QED BY <3>2, <3>5, <4>2
    <3> QED BY <3>3, <3>4, <3>5
  <2> QED BY <2>4, <2>5, <2>6
<1> QED BY <1>3, <1>4

LEMMA PanelProperties ==
    ASSUME PanelInv
    PROVE  LocationIsNested /\ LocationShowsSelection
<1>1. LocationIsNested
  <2>1. ASSUME IsPlace(location)
        PROVE  /\ Province(location) # "" => location.province \in ProvinceCodes(location.region)
               /\ location.district # "" => isNCR(location)
               /\ UnitsOf(location) # {}
    BY <2>1 DEF IsPlace, Province
  <2> QED BY <2>1 DEF PanelInv, LocationIsNested
<1>2. ASSUME ~coverageLoading, mapFlight = "", ~strayed
      PROVE  /\ \/ coverage.failed
                \/ /\ coverage.units = UnitsOf(location)
                   /\ coverage.groups # {} =>
                         \A u \in coverage.units :
                             Cardinality({grp \in coverage.groups : u \in grp.units}) = 1
             /\ \/ boundary.error \/ abandoned
                \/ /\ basis # "" /\ boundary.dedicated
                   /\ boundary.features = {DistrictPolygons[basis]}
                \/ /\ basis # "" => boundary.notice
                   /\ \A f \in displayedBoundaryData :
                         \E u \in UnitsOf(location) : u.code \in f.of
  <2>1. IsPlace(location) /\ coverage.of = location
    BY <1>2 DEF PanelInv, CoverageInv
  <2>2. \/ coverage = Coverage(location)
        \/ coverage.units = {} /\ coverage.failed
    BY <1>2, <2>1 DEF PanelInv, CoverageInv
  <2>3. ASSUME coverage = Coverage(location)
        PROVE  /\ coverage.units = UnitsOf(location)
               /\ coverage.groups # {} =>
                     \A u \in coverage.units :
                         Cardinality({grp \in coverage.groups : u \in grp.units}) = 1
    BY <2>1, <2>3, CoverageOf
  <2>4. coverage.units \subseteq UnitsOf(location)
    BY <2>1, <2>2, CoverageOf
  <2>5. ASSUME ~boundary.dedicated,
               boundary.features \subseteq getBoundaryWhereClause(BoundaryUrl(location)),
               NEW f \in displayedBoundaryData
        PROVE  \E u \in UnitsOf(location) : u.code \in f.of
    <3>1. f \in getBoundaryWhereClause(BoundaryUrl(location))
      BY <2>5 DEF displayedBoundaryData
    <3>2. location.province = INDEPENDENT_CITIES_FILTER \/ location.locality \in GroupFilters =>
              \E u \in UnitsOf(location) : u.code \in f.codes
      BY <2>4, <2>5 DEF displayedBoundaryData
    <3> QED BY <2>1, <3>1, <3>2, PolygonsOfPlace
  <2>6. MapShows
    BY <1>2 DEF PanelInv, MapInv
  <2>7. \/ boundary.error \/ abandoned
        \/ basis # "" /\ boundary.dedicated /\ boundary.features = {DistrictPolygons[basis]}
        \/ /\ basis # "" => boundary.notice
           /\ \A f \in displayedBoundaryData : \E u \in UnitsOf(location) : u.code \in f.of
    <3>1. CASE /\ ~boundary.dedicated /\ (basis # "" => boundary.notice)
               /\ boundary.features \subseteq getBoundaryWhereClause(BoundaryUrl(location))
      BY <2>5, <3>1
    <3> QED BY <2>6, <3>1 DEF MapShows
  <2> QED BY <2>2, <2>3, <2>7
<1> QED BY <1>1, <1>2 DEF LocationShowsSelection
-----------------------------------------------------------------------------
(* The steps of the page.                                                  *)
LEMMA MapDrawn ==
    ASSUME NEW g, NEW b, DrawMap(g, b), location' = g, basis' = b
    PROVE  MapInv'
<1> DEFINE url == BoundaryUrl(g)
           cached == b = "" /\ url \in boundaryCache
           joins == b = "" /\ ~cached /\ mapFlight = "administrative" /\ url = BoundaryUrl(location)
<1>1. CASE b # ""
  <2>1. mapFlight' = "district"
    BY <1>1 DEF DrawMap
  <2> QED BY <1>1, <2>1 DEF MapInv
<1>2. CASE cached
  <2>1. boundary' = Drawn(getBoundaryWhereClause(url), FALSE, FALSE) /\ mapFlight' = ""
    BY <1>2 DEF DrawMap
  <2>2. ~boundary'.dedicated /\ boundary'.features = getBoundaryWhereClause(url)
    BY <2>1 DEF Drawn
  <2> QED BY <1>2, <2>1, <2>2 DEF MapInv, MapShows
<1>3. CASE joins
  <2>1. abandoned' /\ mapFlight' = ""
    BY <1>3 DEF DrawMap
  <2> QED BY <2>1 DEF MapInv, MapShows
<1>4. CASE b = "" /\ ~cached /\ ~joins
  <2>1. mapFlight' = "administrative"
    BY <1>4 DEF DrawMap
  <2> QED BY <2>1 DEF MapInv
<1> QED BY <1>1, <1>2, <1>3, <1>4

LEMMA CoverageKept ==
    ASSUME CoverageInv, coverage' = coverage, coverageLoading'
    PROVE  CoverageInv'
<1>1. Coverage(coverage.of)' = Coverage(coverage'.of)
  BY DEF Coverage, administrativeGroups, administrativeLocalities, scopedLocalities, ByDistrict,
         ByProvince, ByType
<1> QED BY <1>1 DEF CoverageInv

LEMMA LocatesKeeps ==
    ASSUME PanelInv, NEW g, Locates(g), page' # "", strayed' \in BOOLEAN, strayed' \/ IsPlace(g)
    PROVE  PanelInv'
<1>1. MapInv'
  BY MapDrawn DEF Locates
<1>2. CoverageInv'
  BY CoverageKept DEF PanelInv, Locates
<1> QED BY <1>1, <1>2 DEF PanelInv, Locates

LEMMA GroupSelectKeeps ==
    ASSUME PanelInv, page' # "", NEW grp \in coverage.groups, onGroupSelect(grp)
    PROVE  PanelInv'
<1>1. PICK h : h = Chosen(location, grp.code)
  OBVIOUS
<1>2. Locates(h)
  BY <1>1 DEF onGroupSelect, Chosen
<1>3. ASSUME ~strayed' PROVE IsPlace(h)
  <2>1. coverage.of = location /\ ~strayed
    BY <1>3 DEF onGroupSelect
  <2>2. IsPlace(location) /\ coverage = Coverage(location)
    BY <2>1 DEF PanelInv, CoverageInv
  <2>3. location.region # "" /\ grp \in administrativeGroups(location)
    BY <2>2, CoverageOf
  <2> QED BY <1>1, <2>2, <2>3, GroupIsPlace
<1>4. strayed' \in BOOLEAN
  BY DEF onGroupSelect, PanelInv
<1> QED BY <1>2, <1>3, <1>4, LocatesKeeps

LEMMA FilterKeeps ==
    ASSUME PanelInv, page' # "",
           \/ \E reg \in Regions \cup {""} : FilterRegion(reg)
           \/ location.region # "" /\ \E u \in administrativeLocalities(location) : FilterLocality(u)
    PROVE  PanelInv'
<1>1. ASSUME NEW reg \in Regions \cup {""}, FilterRegion(reg) PROVE PanelInv'
  <2>1. PICK h : h = [National EXCEPT !.region = reg]
    OBVIOUS
  <2>2. IsPlace(h) /\ Locates(h) /\ strayed' = FALSE
    BY <1>1, <2>1, RegionIsPlace DEF FilterRegion
  <2> QED BY <2>2, LocatesKeeps
<1>2. ASSUME location.region # "", NEW u \in administrativeLocalities(location), FilterLocality(u)
      PROVE  PanelInv'
  <2>1. PICK h : h = [location EXCEPT !.locality = u.code]
    OBVIOUS
  <2>2. Locates(h) /\ strayed' = strayed
    BY <1>2, <2>1 DEF FilterLocality
  <2>3. strayed \/ IsPlace(h)
    BY <1>2, <2>1, LocalityIsPlace DEF PanelInv
  <2> QED BY <2>2, <2>3, LocatesKeeps DEF PanelInv
<1> QED BY <1>1, <1>2

LEMMA MoveUpKeeps ==
    ASSUME PanelInv, page' # "", moveUpOneLevel
    PROVE  PanelInv'
<1>1. PICK h : h = IF location.locality # "" THEN [location EXCEPT !.locality = ""]
                   ELSE IF location.district # "" THEN [location EXCEPT !.district = ""]
                   ELSE [location EXCEPT !.province = ""]
  OBVIOUS
<1>2. Locates(h) /\ strayed' = strayed
  BY <1>1 DEF moveUpOneLevel
<1>3. location # National
  BY NationalIs DEF moveUpOneLevel
<1>4. ASSUME IsPlace(location) PROVE IsPlace(h)
  <2>1. \/ h = [location EXCEPT !.locality = ""]
        \/ location.locality = "" /\ h = [location EXCEPT !.district = ""]
        \/ location.locality = "" /\ h = [location EXCEPT !.province = ""]
    BY <1>1
  <2> QED BY <1>3, <1>4, <2>1, AboveIsPlace
<1> QED BY <1>2, <1>4, LocatesKeeps DEF PanelInv

LEMMA RelocateKeeps ==
    ASSUME PanelInv, AccountsAreNested, AccountsHavePlaces, page' = page, page # "",
           NEW u \in Users, Relocate(u)
    PROVE  PanelInv'
<1>1. CASE AssignedTo[u] \in {National, location}
  <2>1. UNCHANGED panelVars
    BY <1>1 DEF Relocate
  <2> QED BY <2>1 DEF panelVars, PanelInv, CoverageInv, MapInv, MapShows
<1>2. CASE AssignedTo[u] \notin {National, location}
  <2>1. PICK g : g = AssignedTo[u]
    OBVIOUS
  <2>2. Locates(g) /\ strayed' = FALSE
    BY <1>2, <2>1 DEF Relocate
  <2>3. IsPlace(g)
    BY <2>1, AccountIsPlace
  <2> QED BY <2>2, <2>3, LocatesKeeps
<1> QED BY <1>1, <1>2

LEMMA OpenKeeps ==
    ASSUME PanelInv, AccountsAreNested, AccountsHavePlaces, user \in Users,
           page = "", MountPanel(AssignedTo[user]), page' # ""
    PROVE  PanelInv'
<1>1. PICK g : g = AssignedTo[user]
  OBVIOUS
<1>2. /\ location' = g /\ coverageLoading' /\ DrawMap(g, "") /\ basis' = basis
      /\ coverage' = coverage /\ strayed' = strayed
  BY <1>1 DEF MountPanel
<1>3. basis' = ""
  BY <1>2 DEF PanelInv
<1>4. IsPlace(g)
  BY <1>1, AccountIsPlace
<1> QED BY <1>2, <1>3, <1>4, MapDrawn, CoverageKept DEF PanelInv

LEMMA ResolvesKeeps ==
    ASSUME PanelInv, page' # "", NEW b, Resolves(b)
    PROVE  PanelInv'
<1>1. /\ DrawMap(location, b) /\ basis' = b
      /\ UNCHANGED <<location, coverage, coverageLoading, strayed>>
  BY DEF Resolves
<1>2. MapInv'
  BY <1>1, MapDrawn
<1>3. CoverageInv'
  BY <1>1 DEF CoverageInv, PanelInv
<1> QED BY <1>1, <1>2, <1>3 DEF PanelInv

LEMMA AnswerKeeps ==
    ASSUME PanelInv, page' = page,
           \/ CoverageLoaded \/ CoverageFailed \/ DistrictDrawn \/ DistrictNotDrawn
           \/ BoundaryArrived \/ BoundaryFailed
    PROVE  PanelInv'
<1>1. UNCHANGED <<location, basis, strayed, abandoned>>
  BY DEF CoverageLoaded, CoverageFailed, DistrictDrawn, DistrictNotDrawn, BoundaryArrived,
         BoundaryFailed
<1>2. CASE CoverageLoaded \/ CoverageFailed
  <2>1. MapInv'
    BY <1>1, <1>2 DEF CoverageLoaded, CoverageFailed, MapInv, MapShows, PanelInv
  <2>2. \/ coverage' = Coverage(location)
        \/ coverage' = [of |-> location, units |-> {}, groups |-> {}, failed |-> TRUE]
    BY <1>2 DEF CoverageLoaded, CoverageFailed
  <2>3. CoverageInv'
    <3>1. CASE coverage' = Coverage(location)
      <4>1. coverage'.of = location
        BY <3>1 DEF Coverage
      <4> QED BY <1>1, <3>1, <4>1 DEF CoverageInv
    <3>2. CASE coverage' = [of |-> location, units |-> {}, groups |-> {}, failed |-> TRUE]
      <4>1. coverage'.of = location /\ coverage'.units = {} /\ coverage'.groups = {} /\ coverage'.failed
        BY <3>2
      <4> QED BY <1>1, <4>1 DEF CoverageInv
    <3> QED BY <2>2, <3>1, <3>2
  <2> QED BY <1>1, <2>1, <2>3 DEF PanelInv
<1>3. CASE DistrictDrawn \/ DistrictNotDrawn \/ BoundaryArrived \/ BoundaryFailed
  <2>1. UNCHANGED <<coverage, coverageLoading>>
    BY <1>3 DEF DistrictDrawn, DistrictNotDrawn, BoundaryArrived, BoundaryFailed
  <2>2. CoverageInv'
    BY <1>1, <2>1 DEF CoverageInv, PanelInv
  <2>3. MapInv'
    <3>1. CASE DistrictDrawn
      <4>1. /\ mapFlight = "district" /\ mapFlight' = ""
            /\ boundary' = Drawn({DistrictPolygons[basis]}, TRUE, FALSE)
        BY <3>1 DEF DistrictDrawn
      <4>2. boundary'.dedicated /\ boundary'.features = {DistrictPolygons[basis]}
        BY <4>1 DEF Drawn
      <4> QED BY <1>1, <4>1, <4>2 DEF MapInv, MapShows, PanelInv
    <3>2. ASSUME NEW notice, mapFlight' = "", (basis # "" => notice),
                 boundary' = Drawn(getBoundaryWhereClause(BoundaryUrl(location)), FALSE, notice)
          PROVE  MapInv'
      <4>1. /\ ~boundary'.dedicated /\ boundary'.notice = notice
            /\ boundary'.features = getBoundaryWhereClause(BoundaryUrl(location))
        BY <3>2 DEF Drawn
      <4> QED BY <1>1, <3>2, <4>1 DEF MapInv, MapShows
    <3>3. CASE DistrictNotDrawn
      <4>1. CASE BoundaryUrl(location) \in boundaryCache
        <5>1. /\ mapFlight' = ""
              /\ boundary' = Drawn(getBoundaryWhereClause(BoundaryUrl(location)), FALSE, TRUE)
          BY <3>3, <4>1 DEF DistrictNotDrawn
        <5> QED BY <3>2, <5>1
      <4>2. CASE BoundaryUrl(location) \notin boundaryCache
        BY <3>3, <4>2 DEF DistrictNotDrawn, MapInv
      <4> QED BY <4>1, <4>2
    <3>4. CASE BoundaryArrived
      BY <3>2, <3>4 DEF BoundaryArrived
    <3>5. CASE BoundaryFailed
      <4>1. mapFlight' = "" /\ boundary' = NotDrawn
        BY <3>5 DEF BoundaryFailed
      <4>2. boundary'.error
        BY <4>1 DEF NotDrawn
      <4> QED BY <4>1, <4>2 DEF MapInv, MapShows
    <3> QED BY <1>3, <3>1, <3>3, <3>4, <3>5
  <2> QED BY <1>1, <2>2, <2>3 DEF PanelInv
<1> QED BY <1>2, <1>3

LEMMA InitEstablishesPanel == Init => PanelInv
<1>1. ASSUME Init PROVE PanelInv
  <2>1. /\ location = National /\ basis = "" /\ coverageLoading /\ mapFlight = "" /\ strayed = FALSE
        /\ coverage = [of |-> National, units |-> {}, groups |-> {}, failed |-> FALSE]
        /\ boundary = Drawn({}, FALSE, FALSE)
    BY <1>1 DEF Init, PanelInit
  <2>2. coverage.units = {} /\ coverage.groups = {}
    BY <2>1
  <2>3. ~boundary.dedicated /\ boundary.features = {}
    BY <2>1 DEF Drawn
  <2> QED BY <2>1, <2>2, <2>3, NationIsPlace DEF PanelInv, CoverageInv, MapInv, MapShows
<1> QED BY <1>1

LEMMA PagesKeepPanel ==
    ASSUME AccountsAreNested, AccountsHavePlaces, PanelInv, user \in Users, [Next]_vars
    PROVE  PanelInv'
<1>1. CASE UNCHANGED panelVars /\ (page' = "" => page = "")
  BY <1>1 DEF panelVars, PanelInv, CoverageInv, MapInv, MapShows
<1>2. CASE OpenLocation
  BY <1>2, OpenKeeps DEF OpenLocation
<1>3. CASE LocationStep
  <2>1. page # "" /\ page' = page /\ page' # ""
    BY <1>3 DEF LocationStep
  <2>2. CASE PanelNext
    BY <2>1, <2>2, FilterKeeps, ResolvesKeeps, GroupSelectKeeps, MoveUpKeeps, AnswerKeeps
    DEF PanelNext
  <2>3. CASE \E u \in Users : Relocate(u)
    BY <2>1, <2>3, RelocateKeeps
  <2> QED BY <1>3, <2>2, <2>3 DEF LocationStep
<1>4. CASE OpenFieldReports \/ OpenOverview \/ FieldReportsStep \/ OverviewStep \/ UNCHANGED vars
  <2>1. UNCHANGED panelVars
    BY <1>4 DEF OpenFieldReports, OpenOverview, FieldReportsStep, OverviewStep, vars
  <2>2. page' = "" => page = ""
    BY <1>4 DEF OpenFieldReports, OpenOverview, FieldReportsStep, OverviewStep, vars
  <2> QED BY <1>1, <2>1, <2>2
<1> QED BY <1>2, <1>3, <1>4 DEF Next

LEMMA PanelInvariant == AccountsAreNested /\ AccountsHavePlaces => (Spec => []PanelInv)
<1>1. ConsoleInv => user \in Users
  BY DEF ConsoleInv, ConsoleTypeOK
<1>2. ASSUME AccountsAreNested, AccountsHavePlaces PROVE Spec => []PanelInv
  <2>1. PanelInv /\ ConsoleInv /\ [Next]_vars => PanelInv'
    BY <1>1, <1>2, PagesKeepPanel
  <2> QED BY <2>1, InitEstablishesPanel, PagesImplementConsole, ConsoleInvariant, PTL DEF Spec
<1> QED BY <1>2

(* If every account is assigned to a path of the hierarchy with localities:*)
(* neither the filter nor the location page leaves the hierarchy, whatever *)
(* is chosen in which order, but through a group that was chosen while it  *)
(* was outdated.                                                           *)
THEOREM SelectionsStayCoherent ==
    AccountsAreNested /\ AccountsHavePlaces => (Spec => []SelectionsAreCoherent)
<1>1. FilterInv => GeographyIsNested /\ ElectionIsCoherent
  BY SelectionProperties DEF FilterInv
<1>2. PanelInv => LocationIsNested
  BY PanelProperties
<1>3. ASSUME AccountsAreNested, AccountsHavePlaces PROVE Spec => []SelectionsAreCoherent
  <2>1. FilterInv /\ PanelInv => SelectionsAreCoherent
    BY <1>1, <1>2 DEF SelectionsAreCoherent
  <2> QED BY <1>3, <2>1, FilterInvariant, PanelInvariant, PTL
<1> QED BY <1>3

(* Under the same hypotheses: once both effects have ended the location    *)
(* page shows the units of the selected place, each in one of its groups,  *)
(* and the polygon of the selected district or polygons of the place only, *)
(* unless a group was chosen while it was outdated or the map was given up *)
(* with a request that it had joined.                                      *)
THEOREM LocationFollowsTheSelection ==
    AccountsAreNested /\ AccountsHavePlaces => (Spec => []LocationShowsSelection)
<1>1. PanelInv => LocationShowsSelection
  BY PanelProperties
<1>2. ASSUME AccountsAreNested, AccountsHavePlaces PROVE Spec => []LocationShowsSelection
  BY <1>1, <1>2, PanelInvariant, PTL
<1> QED BY <1>2
=============================================================================
