------------------------------ MODULE MobileSync -------------------------------
(***************************************************************************)
(* The mobile client's reports and their synchronisation:                  *)
(* mobile/src/context/ReportsContext.tsx and SessionContext.tsx, the       *)
(* storage and API modules they call, and the server's mobile sessions     *)
(* (backend/src/services/mobileSessions.service.ts, middleware/auth.ts).   *)
(*                                                                         *)
(* The device keeps the list of reports three times: as React state        *)
(* (reports), as a reference that an effect brings up to date after a      *)
(* render (ref), and in AsyncStorage (stored, written asynchronously from  *)
(* the snapshot toStore).  A press of the user runs on the list as ref     *)
(* shows it and is rendered, effects included, before the next event; what *)
(* continues after an await leaves ref behind until the next render.       *)
(*                                                                         *)
(* The server is abstract: createFieldReport stores one report per client  *)
(* id whatever the overlap of its requests, which is what FieldReports     *)
(* shows (IdempotentCreate).  Users, tenants, the API not being configured *)
(* and the review of reports are left out.                                 *)
(***************************************************************************)
EXTENDS Naturals, Sequences, FiniteSets, SequencesExt

CONSTANTS
    Clients,        \* client ids, one per report
    Contents,       \* what the user can enter into a report
    Evidence,       \* client id -> the files attached to the report
    Accepted,       \* the files whose type the server's upload filter accepts
    NoFile,         \* no remote file
    Nothing,        \* nothing to load, store or answer
    SaveBeforeLoad, \* TRUE if a report can be saved before the stored ones are read
    MaxSessions,    \* bound: how often a user signs in
    MaxFaults       \* bound: failures, restarts of the app or the server, expiries

Files == UNION {Range(Evidence[c]) : c \in Clients}

ASSUME MobileSyncAssumption ==
    /\ MaxSessions \in Nat \ {0}
    /\ MaxFaults \in Nat
    /\ SaveBeforeLoad \in BOOLEAN
    /\ \A c \in Clients : Evidence[c] \in Seq(Files)
    /\ NoFile \notin Accepted

VARIABLES
    reports,        \* the list in React state
    ref,            \* reportsRef
    toStore,        \* the snapshot a storage write is under way with
    stored,         \* votes.mobile.field-reports.v1
    mounting,       \* the stored list the app has read and not shown yet
    ops,            \* running calls of syncReport (syncingClientIds and its closure)
    adrift,         \* submissions the device gave up that may reach the server
    listing,        \* the request of refreshReports
    session,        \* token of the signed-in session, 0 for none
    storedSession,  \* votes.mobile.session.v1
    leaving,        \* signOut waits for the revocation
    tokens,         \* the server's sessions
    server,         \* field_reports, by client id
    latest,         \* ghost: what the user entered last, by client id
    deleted,        \* ghost: the drafts the user deleted
    torn,           \* ghost: reports whose last change was not stored at a restart
    faults          \* ghost: faults so far

deviceVars == <<reports, ref, toStore, stored, mounting, ops, listing>>
sessionVars == <<session, storedSession, leaving>>
ghostVars == <<latest, deleted, torn>>
vars == <<deviceVars, adrift, sessionVars, tokens, server, ghostVars, faults>>

-------------------------------------------------------------------------------
\* What is attached, and the remote copy of it; the server knows nothing of a
\* file that it has not accepted.
Attachment == [file : Files \cup {NoFile}, remote : Files \cup {NoFile}]

AttachmentLists == Seq(Attachment)

Report == [status   : {"draft", "queued", "sync-failed", "submitted"},
           sync     : {"local", "queued", "syncing", "failed", "synced"},
           content  : Contents,
           evidence : AttachmentLists]

Lists == [Clients -> Report \cup {Nothing}]
EmptyList == [c \in Clients |-> Nothing]

\* A stored report: what the user entered and the remote files it refers to.
StoredReport == [content : Contents, files : Seq(Files \cup {NoFile})]
StoredReports == [Clients -> StoredReport \cup {Nothing}]

Tokens == 1 .. MaxSessions

Submission == [client : Clients, token : Tokens, report : Report]

\* copy is the report as syncReport took it; answer is the stored report.
Op == [phase : {"upload", "post", "answered"}, token : Tokens, copy : Report,
       answer : StoredReport \cup {Nothing}]

Listing == [token : Tokens, rows : StoredReports \cup {Nothing}]

ASSUME NothingAssumption ==
    /\ Nothing \notin Contents
    /\ Nothing \notin Report
    /\ Nothing \notin Lists
    /\ Nothing \notin StoredReport
    /\ Nothing \notin StoredReports
    /\ Nothing \notin Op
    /\ Nothing \notin Listing

MobileSyncTypeOK ==
    /\ {reports, ref, stored} \subseteq Lists
    /\ {toStore, mounting} \subseteq Lists \cup {Nothing}
    /\ ops \in [Clients -> Op \cup {Nothing}]
    /\ adrift \subseteq Submission
    /\ listing \in Listing \cup {Nothing}
    /\ {session, storedSession} \subseteq Tokens \cup {0}
    /\ leaving \in BOOLEAN
    /\ tokens \in [Tokens -> {"unused", "live", "revoked", "expired"}]
    /\ server \in StoredReports
    /\ latest \in [Clients -> Contents \cup {Nothing}]
    /\ deleted \subseteq Clients /\ torn \subseteq Clients
    /\ faults \in 0 .. MaxFaults

-------------------------------------------------------------------------------
Saved == {c \in Clients : latest[c] # Nothing}
SignedIn == session # 0 /\ ~leaving
Fault == faults < MaxFaults /\ faults' = faults + 1
Live(token) == tokens[token] = "live"

\* setReports(updated) with void storeReports(updated).
SetReports(list) == reports' = list /\ toStore' = list

\* A press is rendered and its effects are run before the next event.
PressReports(list) == SetReports(list) /\ ref' = list

\* replaceReport changes reports that are still in the list.
Replaced(list, next) ==
    [c \in Clients |-> IF c \in DOMAIN next /\ list[c] # Nothing THEN next[c] ELSE list[c]]

\* syncReport up to its first await, for the reports in copies (a function on
\* client ids) none of which is being synchronised already.
Startable(copies) == {c \in DOMAIN copies : ops[c] = Nothing}
Syncing(copies) ==
    [c \in DOMAIN copies |->
        IF c \in Startable(copies) THEN [copies[c] EXCEPT !.sync = "syncing"] ELSE copies[c]]
Start(copies) ==
    ops' = [c \in Clients |->
        IF c \in Startable(copies)
        THEN [phase |-> "upload", token |-> session, copy |-> Syncing(copies)[c], answer |-> Nothing]
        ELSE ops[c]]

\* A report as saveReport and updateDraft store it for the two intents.
Entered(content, evidence, intent) ==
    [status |-> IF intent = "draft" THEN "draft" ELSE "queued",
     sync |-> IF intent = "draft" THEN "local" ELSE "queued",
     content |-> content, evidence |-> evidence]

Intents == {"draft", "submit"}

\* Attachments as the picker returns them.
Picked(c) == [i \in DOMAIN Evidence[c] |-> [file |-> Evidence[c][i], remote |-> NoFile]]

-------------------------------------------------------------------------------
(***************************************************************************)
(* The user's presses.                                                     *)
(***************************************************************************)

SaveReport(c, content, intent) ==
    /\ SignedIn
    /\ mounting = Nothing \/ SaveBeforeLoad
    /\ c \notin Saved
    /\ LET report == [x \in {c} |-> Entered(content, Picked(c), intent)] IN
        IF intent = "draft"
        THEN PressReports([reports EXCEPT ![c] = report[c]]) /\ UNCHANGED ops
        ELSE PressReports([reports EXCEPT ![c] = Syncing(report)[c]]) /\ Start(report)
    /\ latest' = [latest EXCEPT ![c] = content]
    /\ UNCHANGED <<stored, mounting, listing, adrift, sessionVars, tokens, server, deleted, torn, faults>>

\* Mutant: any report that is not on the server yet can be edited.
UpdateDraftUnlessSent(c, content, intent) ==
    /\ SignedIn
    /\ ref[c] # Nothing /\ ref[c].status # "submitted"
    /\ LET report == [x \in {c} |-> Entered(content, ref[c].evidence, intent)] IN
        IF intent = "draft"
        THEN PressReports(Replaced(reports, report)) /\ UNCHANGED ops
        ELSE PressReports(Replaced(reports, Syncing(report))) /\ Start(report)
    /\ latest' = [latest EXCEPT ![c] = content]
    /\ UNCHANGED <<stored, mounting, listing, adrift, sessionVars, tokens, server, deleted, torn, faults>>

UpdateDraft(c, content, intent) ==
    /\ SignedIn
    /\ ref[c] # Nothing /\ ref[c].status = "draft"
    /\ LET report == [x \in {c} |-> Entered(content, ref[c].evidence, intent)] IN
        IF intent = "draft"
        THEN PressReports(Replaced(reports, report)) /\ UNCHANGED ops
        ELSE PressReports(Replaced(reports, Syncing(report))) /\ Start(report)
    /\ latest' = [latest EXCEPT ![c] = content]
    /\ UNCHANGED <<stored, mounting, listing, adrift, sessionVars, tokens, server, deleted, torn, faults>>

\* Mutant: a report that failed to synchronise can be deleted like a draft.
DeleteUnsent(c) ==
    /\ SignedIn
    /\ ref[c] # Nothing /\ ref[c].status \in {"draft", "sync-failed"}
    /\ PressReports([reports EXCEPT ![c] = Nothing])
    /\ deleted' = deleted \cup {c}
    /\ UNCHANGED <<stored, mounting, ops, listing, adrift, sessionVars, tokens, server, latest, torn, faults>>

DeleteDraft(c) ==
    /\ SignedIn
    /\ ref[c] # Nothing /\ ref[c].status = "draft"
    /\ PressReports([reports EXCEPT ![c] = Nothing])
    /\ deleted' = deleted \cup {c}
    /\ UNCHANGED <<stored, mounting, ops, listing, adrift, sessionVars, tokens, server, latest, torn, faults>>

\* submitReports, and retryReport for one report.
SubmitReports(ids) ==
    /\ SignedIn
    /\ \A c \in ids : ref[c] # Nothing /\ ref[c].status \in {"draft", "sync-failed"}
    /\ LET queued == [c \in ids |-> [ref[c] EXCEPT !.status = "queued", !.sync = "queued"]] IN
        PressReports(Replaced(reports, Syncing(queued))) /\ Start(queued)
    /\ UNCHANGED <<stored, mounting, listing, adrift, sessionVars, tokens, server, ghostVars, faults>>

-------------------------------------------------------------------------------
(***************************************************************************)
(* What happens without the user.                                          *)
(***************************************************************************)

\* The stored reports are read; they replace the list and are not stored again.
LoadReports ==
    /\ mounting # Nothing
    /\ reports' = mounting
    /\ mounting' = Nothing
    /\ UNCHANGED <<ref, toStore, stored, ops, listing, adrift, sessionVars, tokens, server, ghostVars, faults>>

\* The effect that sets reportsRef.
CatchUp ==
    /\ ref # reports
    /\ ref' = reports
    /\ UNCHANGED <<reports, toStore, stored, mounting, ops, listing, adrift, sessionVars, tokens, server, ghostVars, faults>>

Persist ==
    /\ toStore # Nothing
    /\ stored' = toStore
    /\ toStore' = Nothing
    /\ UNCHANGED <<reports, ref, mounting, ops, listing, adrift, sessionVars, tokens, server, ghostVars, faults>>

\* Mutant: reports are retried by what their last synchronisation says.
RetriedBySync(report) == report.sync \in {"queued", "failed"}

Retried(report) == report.status \in {"queued", "sync-failed"}

Pending(list) == {c \in Clients : list[c] # Nothing /\ Retried(list[c])}

\* synchronizePending: the network is back, or the session has changed.
NetworkReturns ==
    /\ SignedIn
    /\ LET copies == [c \in Pending(ref) |-> ref[c]] IN
        /\ Startable(copies) # {}
        /\ SetReports(Replaced(reports, [c \in Startable(copies) |-> Syncing(copies)[c]]))
        /\ Start(copies)
    /\ UNCHANGED <<ref, stored, mounting, listing, adrift, sessionVars, tokens, server, ghostVars, faults>>

\* POST /upload: of the attachments sent, files of another type are left out of
\* the answer.
Filtered(evidence, sent) == {i \in sent : evidence[i].file \in Accepted}

Unsent(evidence) == {i \in DOMAIN evidence : evidence[i].remote = NoFile}

\* How many of the places in S there are up to i.
Upto(S, i) == Cardinality({j \in S : j <= i})

\* Mutant: the index into the answer is advanced before it is used.
UploadedNext(evidence) ==
    LET sent      == Unsent(evidence)
        taken     == Filtered(evidence, sent)
        Answer(i) == {j \in taken : Upto(taken, j) = Upto(sent, i) + 1} IN
    [i \in DOMAIN evidence |->
        IF i \in sent /\ Answer(i) # {}
        THEN [evidence[i] EXCEPT !.remote = evidence[CHOOSE j \in Answer(i) : TRUE].file]
        ELSE evidence[i]]

\* uploadFieldReportAttachments: the files without a remote copy are sent in one
\* request; the n-th file of the answer goes to the n-th attachment sent.
Uploaded(evidence) ==
    LET sent      == Unsent(evidence)
        taken     == Filtered(evidence, sent)
        Answer(i) == {j \in taken : Upto(taken, j) = Upto(sent, i)} IN
    [i \in DOMAIN evidence |->
        IF i \in sent /\ Answer(i) # {}
        THEN [evidence[i] EXCEPT !.remote = evidence[CHOOSE j \in Answer(i) : TRUE].file]
        ELSE evidence[i]]

Upload(c) ==
    /\ ops[c] # Nothing /\ ops[c].phase = "upload"
    /\ Live(ops[c].token) \/ Unsent(ops[c].copy.evidence) = {}
    /\ ops' = [ops EXCEPT ![c].phase = "post", ![c].copy.evidence = Uploaded(@)]
    /\ UNCHANGED <<reports, ref, toStore, stored, mounting, listing, adrift, sessionVars, tokens, server, ghostVars, faults>>

Remotes(evidence) == [i \in DOMAIN evidence |-> evidence[i].remote]

\* createFieldReport: a report with this client id is kept.
Created(c, report) ==
    IF server[c] # Nothing THEN server
    ELSE [server EXCEPT ![c] = [content |-> report.content, files |-> Remotes(report.evidence)]]

\* The server handles the submission a device waits for ...
Create(c) ==
    /\ ops[c] # Nothing /\ ops[c].phase = "post"
    /\ Live(ops[c].token)
    /\ server' = Created(c, ops[c].copy)
    /\ ops' = [ops EXCEPT ![c].phase = "answered", ![c].answer = server'[c]]
    /\ UNCHANGED <<reports, ref, toStore, stored, mounting, listing, adrift, sessionVars, tokens, ghostVars, faults>>

\* ... or one that nobody waits for any more.
CreateLate(submission) ==
    /\ submission \in adrift
    /\ adrift' = adrift \ {submission}
    /\ server' = IF Live(submission.token) THEN Created(submission.client, submission.report) ELSE server
    /\ UNCHANGED <<deviceVars, sessionVars, tokens, ghostVars, faults>>

\* A report as the server returns it.
FromServer(answer) ==
    [status |-> "submitted", sync |-> "synced", content |-> answer.content,
     evidence |-> [i \in DOMAIN answer.files |-> [file |-> answer.files[i], remote |-> answer.files[i]]]]

\* The answer arrives: replaceReport(synchronized).
Finish(c) ==
    /\ ops[c] # Nothing /\ ops[c].phase = "answered"
    /\ SetReports(Replaced(reports, [x \in {c} |-> FromServer(ops[c].answer)]))
    /\ ops' = [ops EXCEPT ![c] = Nothing]
    /\ UNCHANGED <<ref, stored, mounting, listing, adrift, sessionVars, tokens, server, ghostVars, faults>>

Failed(copy) == [copy EXCEPT !.status = "sync-failed", !.sync = "failed"]

Waiting(c) ==
    IF ops[c] # Nothing /\ ops[c].phase = "post"
    THEN {[client |-> c, token |-> ops[c].token, report |-> ops[c].copy]} ELSE {}

\* A request fails: the server refuses the token, or the network fails before or
\* after the server has handled it, or while it is still under way.
Fail(c) ==
    /\ ops[c] # Nothing
    /\ \/ /\ ops[c].phase # "answered" /\ ~Live(ops[c].token)
          /\ UNCHANGED <<adrift, faults>>
       \/ /\ Fault
          /\ adrift' \in {adrift, adrift \cup Waiting(c)}
    /\ SetReports(Replaced(reports, [x \in {c} |-> Failed(ops[c].copy)]))
    /\ ops' = [ops EXCEPT ![c] = Nothing]
    /\ UNCHANGED <<ref, stored, mounting, listing, sessionVars, tokens, server, ghostVars>>

-------------------------------------------------------------------------------
(***************************************************************************)
(* refreshReports.                                                         *)
(***************************************************************************)

RequestList ==
    /\ SignedIn /\ mounting = Nothing /\ listing = Nothing
    /\ listing' = [token |-> session, rows |-> Nothing]
    /\ UNCHANGED <<reports, ref, toStore, stored, mounting, ops, adrift, sessionVars, tokens, server, ghostVars, faults>>

\* The server answers with the reports it has, or refuses the token; the request may fail.
AnswerList ==
    /\ listing # Nothing /\ listing.rows = Nothing
    /\ \/ /\ Live(listing.token)
          /\ listing' = [listing EXCEPT !.rows = server]
          /\ UNCHANGED faults
       \/ /\ ~Live(listing.token)
          /\ listing' = Nothing
          /\ UNCHANGED faults
       \/ Fault /\ listing' = Nothing
    /\ UNCHANGED <<reports, ref, toStore, stored, mounting, ops, adrift, sessionVars, tokens, server, ghostVars>>

\* Mutant: the list of the server replaces everything but drafts.
KeepsDraftsOnly(report) == report.status = "draft"

\* Reports that exist on the device alone.
KeepsLocal(report) == report.status \in {"draft", "queued", "sync-failed"}

ApplyList ==
    /\ listing # Nothing /\ listing.rows # Nothing
    /\ SetReports([c \in Clients |->
           IF listing.rows[c] # Nothing THEN FromServer(listing.rows[c])
           ELSE IF reports[c] # Nothing /\ KeepsLocal(reports[c]) THEN reports[c]
           ELSE Nothing])
    /\ listing' = Nothing
    /\ UNCHANGED <<ref, stored, mounting, ops, adrift, sessionVars, tokens, server, ghostVars, faults>>

-------------------------------------------------------------------------------
(***************************************************************************)
(* Sessions, restarts and expiries.                                        *)
(***************************************************************************)

\* createMobileSession and revokeMobileSession on the server.
Issued(token) == [tokens EXCEPT ![token] = "live"]
Forgotten(token) == [tokens EXCEPT ![token] = IF @ = "live" THEN "revoked" ELSE @]

SignIn ==
    /\ session = 0
    /\ \E token \in Tokens :
        /\ tokens[token] = "unused"
        /\ \A earlier \in 1 .. token - 1 : tokens[earlier] # "unused"
        /\ tokens' = Issued(token)
        /\ session' = token /\ storedSession' = token
    /\ UNCHANGED <<deviceVars, adrift, leaving, server, ghostVars, faults>>

\* signOut: the server forgets the session, or the request fails ...
Revoke ==
    /\ SignedIn
    /\ \E token \in Tokens : tokens[token] = "unused"
    /\ leaving' = TRUE
    /\ \/ /\ tokens' = Forgotten(session)
          /\ UNCHANGED faults
       \/ Fault /\ UNCHANGED tokens
    /\ UNCHANGED <<deviceVars, adrift, session, storedSession, server, ghostVars>>

\* ... and the device forgets it in either case.
Leave ==
    /\ leaving
    /\ leaving' = FALSE /\ session' = 0 /\ storedSession' = 0
    /\ UNCHANGED <<deviceVars, adrift, tokens, server, ghostVars, faults>>

\* A session expires, or the server restarts with its sessions in memory.
Expire ==
    /\ Fault
    /\ \E token \in Tokens, how \in {"expired", "revoked"} :
        /\ Live(token)
        /\ tokens' = [tokens EXCEPT ![token] = how]
    /\ UNCHANGED <<deviceVars, adrift, sessionVars, server, ghostVars>>

\* The app is killed at any moment and started again; loadStoredSession drops a
\* session that has expired.
Restart ==
    /\ Fault
    /\ LET kept == IF storedSession # 0 /\ tokens[storedSession] = "expired" THEN 0 ELSE storedSession IN
        session' = kept /\ storedSession' = kept
    /\ leaving' = FALSE
    /\ reports' = EmptyList /\ ref' = EmptyList
    /\ toStore' = Nothing
    /\ mounting' = stored
    /\ ops' = [c \in Clients |-> Nothing]
    /\ listing' = Nothing
    /\ adrift' \in {adrift, adrift \cup UNION {Waiting(c) : c \in Clients}}
    /\ torn' = IF toStore = Nothing THEN torn
               ELSE torn \cup {c \in Clients : toStore[c] # stored[c]}
    /\ UNCHANGED <<stored, tokens, server, latest, deleted>>

-------------------------------------------------------------------------------
\* The app is opened for the first time after an installation.
Init ==
    /\ reports = EmptyList /\ ref = EmptyList /\ stored = EmptyList
    /\ toStore = Nothing /\ mounting = stored
    /\ ops = [c \in Clients |-> Nothing]
    /\ adrift = {} /\ listing = Nothing
    /\ session = 0 /\ storedSession = 0 /\ leaving = FALSE
    /\ tokens = [t \in Tokens |-> "unused"]
    /\ server = EmptyList
    /\ latest = EmptyList /\ deleted = {} /\ torn = {}
    /\ faults = 0

Press ==
    \/ \E c \in Clients, content \in Contents, intent \in Intents :
        SaveReport(c, content, intent) \/ UpdateDraft(c, content, intent)
    \/ \E c \in Clients : DeleteDraft(c)
    \/ \E ids \in (SUBSET Clients) \ {{}} : SubmitReports(ids)

Synchronise == \E c \in Clients : Upload(c) \/ Create(c) \/ Finish(c) \/ Fail(c)

Next ==
    \/ Press \/ Synchronise
    \/ LoadReports \/ CatchUp \/ Persist \/ NetworkReturns
    \/ \E submission \in adrift : CreateLate(submission)
    \/ RequestList \/ AnswerList \/ ApplyList
    \/ SignIn \/ Revoke \/ Leave \/ Expire \/ Restart

Spec == Init /\ [][Next]_vars

\* Rendering, storage and answered requests go on by themselves; the network
\* comes back, and each time the device is told.
Fairness ==
    /\ WF_vars(LoadReports) /\ WF_vars(CatchUp) /\ WF_vars(Persist)
    /\ WF_vars(NetworkReturns) /\ WF_vars(Leave)
    /\ \A c \in Clients : WF_vars(Upload(c) \/ Create(c) \/ Finish(c) \/ Fail(c))

FairSpec == Spec /\ Fairness

-------------------------------------------------------------------------------
\* The list the user sees, or is about to see.
Shown == IF mounting = Nothing THEN reports ELSE mounting

\* Nothing the user saved and did not delete disappears from the device before
\* it is on the server, whatever list of the server is applied when, and across
\* restarts once its last change is stored; what is shown as submitted is there.
NothingLost ==
    /\ MobileSyncTypeOK
    /\ \A c \in Saved \ (deleted \cup torn) : Shown[c] # Nothing \/ server[c] # Nothing
    /\ \A c \in Clients :
        Shown[c] # Nothing /\ Shown[c].status = "submitted" => server[c] # Nothing

\* A draft the user deleted is gone: nothing sends it and nothing brings it back.
DeletedIsGone ==
    \A c \in deleted \ torn :
        Shown[c] = Nothing /\ ops[c] = Nothing /\ server[c] = Nothing

\* The server keeps the text the user entered last, however often and in
\* whatever order the attempts to send it arrive.
ServerHasLatest ==
    \A c \in Saved \ torn : server[c] # Nothing => server[c].content = latest[c]

\* A report whose files the server accepts arrives with every one of them, each
\* at its own attachment.
EvidenceArrives ==
    \A c \in Clients :
        /\ server[c] # Nothing
        /\ Range(Evidence[c]) \subseteq Accepted
        => server[c].files = Evidence[c]

\* A report that is queued or failed in the storage of the device reaches the
\* server, provided that the device ends up signed in with a live session.
QueuedIsSent ==
    <>[](session # 0 /\ tokens[session] = "live") =>
        \A c \in Clients : (c \in Pending(stored)) ~> (server[c] # Nothing)
=============================================================================
