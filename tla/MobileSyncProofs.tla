--------------------------- MODULE MobileSyncProofs ---------------------------
(***************************************************************************)
(* Proofs about MobileSync, for every set of reports, contents and files   *)
(* and every number of sessions and faults.                                *)
(*                                                                         *)
(* MobileInv relates every copy the device has of one report (the list it  *)
(* shows, the list the presses see, the one it writes, the one it has read *)
(* and the one a running synchronisation carries) to what the user did and *)
(* to what the server has.  It holds whether or not a report can be saved  *)
(* before the stored ones are shown (SaveBeforeLoad), and implies that     *)
(* deleted drafts stay deleted, that the server keeps the latest text and  *)
(* that files arrive at their attachments.  ShownInv adds, for a device    *)
(* that saves nothing before the stored list is shown, that what is shown  *)
(* is what the storage will hold; with it no saved report is lost.         *)
(*                                                                         *)
(* A step leaves most reports alone (Untouched); each lemma named          *)
(* ...Preserves deals with the report that its action is about.            *)
(***************************************************************************)
EXTENDS MobileSync, FiniteSetTheorems, TLAPS

(* What the storage holds once the write under way has ended, and what has *)
(* been read from it and is not shown yet.                                 *)
Kept == IF toStore = Nothing THEN stored ELSE toStore
Read == IF mounting = Nothing THEN EmptyList ELSE mounting

(* Everything the device has of a report, apart from a stored version that *)
(* is being replaced.                                                      *)
Copies(c) == {reports[c], ref[c], Kept[c], Read[c]}

Submitted(report) == report # Nothing /\ report.status = "submitted"
Draft(report) == report # Nothing /\ report.status = "draft"

ListingWaits == mounting # Nothing => listing = Nothing

(* Whatever the device takes for the server's answer is what it stores.    *)
AnswerIsStored(c) ==
    /\ ops[c] # Nothing /\ ops[c].phase = "answered" =>
          server[c] # Nothing /\ ops[c].answer = server[c]
    /\ listing # Nothing /\ listing.rows # Nothing =>
          listing.rows[c] \in {server[c], Nothing}
    /\ \A copy \in Copies(c) \cup {stored[c]} : Submitted(copy) => server[c] # Nothing

OnlyLocal(c) ==
    /\ ops[c] = Nothing /\ server[c] = Nothing
    /\ \A submission \in adrift : submission.client # c

UnsavedIsNowhere(c) ==
    c \notin Saved =>
        /\ \A copy \in Copies(c) \cup {stored[c]} : copy = Nothing
        /\ OnlyLocal(c) /\ c \notin deleted

(* Nobody works on a report that has been read and is not shown yet.       *)
ReadIsApart(c) ==
    Read[c] # Nothing => reports[c] = Nothing /\ ref[c] = Nothing /\ ops[c] = Nothing

(* A draft has never been sent, and the presses see it as it is.           *)
DraftIsLocal(c) ==
    c \notin torn =>
        /\ \A copy \in Copies(c) : Draft(copy) => OnlyLocal(c)
        /\ Draft(ref[c]) => reports[c] \in {ref[c], Nothing}

DeletedIsNowhere(c) ==
    c \in deleted \ torn => (\A copy \in Copies(c) : copy = Nothing) /\ OnlyLocal(c)

(* Every copy of a report that is on its way has the text entered last.    *)
ContentIsLatest(c) ==
    c \notin torn =>
        /\ \A copy \in Copies(c) \cup {server[c]} : copy # Nothing => copy.content = latest[c]
        /\ ops[c] # Nothing => ops[c].copy.content = latest[c]
        /\ \A submission \in adrift :
              submission.client = c => submission.report.content = latest[c]

(* Each file is at its own attachment, with its own remote copy or none.   *)
InPlace(c, evidence) ==
    /\ DOMAIN evidence = DOMAIN Evidence[c]
    /\ \A i \in DOMAIN Evidence[c] :
        /\ evidence[i].file = Evidence[c][i]
        /\ evidence[i].remote \in {NoFile, Evidence[c][i]}

EvidenceIsInPlace(c) ==
    Range(Evidence[c]) \subseteq Accepted =>
        /\ \A copy \in Copies(c) \cup {stored[c]} : copy # Nothing => InPlace(c, copy.evidence)
        /\ ops[c] # Nothing => InPlace(c, ops[c].copy.evidence)
        /\ ops[c] # Nothing /\ ops[c].phase = "post" => Remotes(ops[c].copy.evidence) = Evidence[c]
        /\ \A submission \in adrift :
              submission.client = c => Remotes(submission.report.evidence) = Evidence[c]
        /\ server[c] # Nothing => server[c].files = Evidence[c]

ReportInv(c) ==
    /\ AnswerIsStored(c)
    /\ UnsavedIsNowhere(c)
    /\ ReadIsApart(c)
    /\ DraftIsLocal(c)
    /\ DeletedIsNowhere(c)
    /\ ContentIsLatest(c)
    /\ EvidenceIsInPlace(c)

MobileInv ==
    /\ MobileSyncTypeOK
    /\ ListingWaits
    /\ \A c \in Clients : ReportInv(c)

-------------------------------------------------------------------------------
LEMMA UploadedType ==
    ASSUME NEW evidence \in AttachmentLists
    PROVE  /\ Uploaded(evidence) \in AttachmentLists
           /\ DOMAIN Uploaded(evidence) = DOMAIN evidence
           /\ \A i \in DOMAIN evidence : Uploaded(evidence)[i].file = evidence[i].file
<1> DEFINE sent == Unsent(evidence)
           taken == Filtered(evidence, sent)
           Answer(i) == {j \in taken : Upto(taken, j) = Upto(sent, i)}
           up == [i \in DOMAIN evidence |->
                    IF i \in sent /\ Answer(i) # {}
                    THEN [evidence[i] EXCEPT !.remote = evidence[CHOOSE j \in Answer(i) : TRUE].file]
                    ELSE evidence[i]]
<1>1. Uploaded(evidence) = up
  BY DEF Uploaded
<1>2. taken \subseteq DOMAIN evidence
  BY DEF Filtered, Unsent
<1>3. \A i \in DOMAIN evidence : evidence[i] \in Attachment
  BY DEF AttachmentLists
<1>4. ASSUME NEW i \in DOMAIN evidence
      PROVE  up[i] \in Attachment /\ up[i].file = evidence[i].file
  <2>1. CASE i \in sent /\ Answer(i) # {}
    <3> DEFINE j == CHOOSE j \in Answer(i) : TRUE
    <3>1. j \in DOMAIN evidence
      BY <2>1, <1>2
    <3>2. up[i] = [evidence[i] EXCEPT !.remote = evidence[j].file]
      BY <2>1
    <3> HIDE DEF j, up
    <3> QED BY <3>1, <3>2, <1>3, <1>4 DEF Attachment
  <2>2. CASE ~(i \in sent /\ Answer(i) # {})
    BY <2>2, <1>3, <1>4
  <2> QED BY <2>1, <2>2
<1>5. DOMAIN up = DOMAIN evidence
  OBVIOUS
<1>6. up = [i \in DOMAIN evidence |-> up[i]]
  OBVIOUS
<1> HIDE DEF up
<1>7. up \in [1 .. Len(evidence) -> Attachment] /\ Len(evidence) \in Nat
  BY <1>4, <1>5, <1>6 DEF AttachmentLists
<1>8. up \in AttachmentLists
  BY <1>7 DEF AttachmentLists
<1> QED BY <1>1, <1>4, <1>5, <1>8

(* Two places of a finite set of naturals are not preceded by equally many.*)
LEMMA UptoIsInjective ==
    ASSUME NEW n \in Nat, NEW S \in SUBSET (1 .. n), NEW i \in S, NEW j \in S,
           Upto(S, i) = Upto(S, j)
    PROVE  i = j
<1>1. ASSUME NEW a \in S, NEW b \in S, a < b
      PROVE  Upto(S, a) < Upto(S, b)
  <2> DEFINE A == {k \in S : k <= a}
             B == {k \in S : k <= b}
  <2>1. IsFiniteSet(1 .. n)
    BY FS_Interval
  <2>2. IsFiniteSet(B)
    BY <2>1, FS_Subset
  <2>3. a \in Int /\ b \in Int /\ \A k \in S : k \in Int
    OBVIOUS
  <2>4. A \subseteq B /\ A # B
    <3>1. \A k \in S : k <= a => k <= b
      BY <1>1, <2>3
    <3>2. b <= b /\ ~(b <= a)
      BY <1>1, <2>3
    <3>3. b \in B /\ b \notin A
      BY <3>2
    <3> QED BY <3>1, <3>3
  <2> HIDE DEF A, B
  <2>5. /\ IsFiniteSet(A) /\ Cardinality(A) <= Cardinality(B)
        /\ Cardinality(B) # Cardinality(A)
    BY <2>2, <2>4, FS_Subset
  <2>6. Cardinality(A) \in Nat /\ Cardinality(B) \in Nat
    BY <2>2, <2>5, FS_CardinalityType
  <2>7. Cardinality(A) < Cardinality(B)
    BY <2>5, <2>6
  <2> QED BY <2>7 DEF Upto, A, B
<1>2. Upto(S, i) \in Nat
  <2>1. IsFiniteSet({k \in S : k <= i})
    BY FS_Interval, FS_Subset, 1 \in Int, n \in Int
  <2> QED BY <2>1, FS_CardinalityType DEF Upto
<1> QED BY <1>1, <1>2

(* When the server accepts every file, each attachment gets its own.       *)
LEMMA UploadedInPlace ==
    ASSUME NEW c \in Clients, Range(Evidence[c]) \subseteq Accepted,
           NEW evidence \in AttachmentLists, InPlace(c, evidence)
    PROVE  /\ InPlace(c, Uploaded(evidence))
           /\ Remotes(Uploaded(evidence)) = Evidence[c]
<1> DEFINE sent == Unsent(evidence)
           taken == Filtered(evidence, sent)
           Answer(i) == {j \in taken : Upto(taken, j) = Upto(sent, i)}
<1>1. /\ Evidence[c] \in Seq(Files)
      /\ DOMAIN evidence = 1 .. Len(evidence) /\ Len(evidence) \in Nat
      /\ DOMAIN evidence = DOMAIN Evidence[c]
  BY MobileSyncAssumption DEF AttachmentLists, InPlace
<1>2. \A i \in DOMAIN evidence : Evidence[c][i] \in Accepted /\ Evidence[c][i] # NoFile
  BY <1>1, MobileSyncAssumption DEF Range
<1>3. taken = sent
  BY <1>1, <1>2 DEF Filtered, Unsent, InPlace
<1>4. ASSUME NEW i \in sent
      PROVE  Answer(i) # {} /\ (CHOOSE j \in Answer(i) : TRUE) = i
  <2>1. i \in Answer(i)
    BY <1>3
  <2>2. \A j \in Answer(i) : j = i
    BY <1>1, <1>3, UptoIsInjective DEF Unsent
  <2> QED BY <2>1, <2>2
<1>5. ASSUME NEW i \in DOMAIN evidence
      PROVE  /\ Uploaded(evidence)[i].file = Evidence[c][i]
             /\ Uploaded(evidence)[i].remote = Evidence[c][i]
  <2>1. evidence[i] \in Attachment /\ evidence[i].file = Evidence[c][i]
    BY <1>1 DEF InPlace, AttachmentLists
  <2>2. CASE i \in sent
    <3>1. Uploaded(evidence)[i] = [evidence[i] EXCEPT !.remote = evidence[i].file]
      BY <1>4, <2>2 DEF Uploaded
    <3> QED BY <3>1, <2>1 DEF Attachment
  <2>3. CASE i \notin sent
    BY <2>1, <2>3, <1>1 DEF Uploaded, Unsent, InPlace
  <2> QED BY <2>2, <2>3
<1>6. DOMAIN Uploaded(evidence) = DOMAIN evidence
  BY UploadedType
<1>7. InPlace(c, Uploaded(evidence))
  BY <1>1, <1>5, <1>6 DEF InPlace
<1>8. Remotes(Uploaded(evidence)) = Evidence[c]
  <2>1. Remotes(Uploaded(evidence)) = [i \in DOMAIN Evidence[c] |-> Evidence[c][i]]
    BY <1>1, <1>5, <1>6 DEF Remotes
  <2>2. Evidence[c] = [i \in DOMAIN Evidence[c] |-> Evidence[c][i]]
    BY <1>1
  <2> QED BY <2>1, <2>2
<1> QED BY <1>7, <1>8

LEMMA PickedType ==
    ASSUME NEW c \in Clients
    PROVE  Picked(c) \in AttachmentLists
<1>1. Evidence[c] \in Seq(Files)
  BY MobileSyncAssumption
<1>2. \A i \in DOMAIN Evidence[c] : Evidence[c][i] \in Files
  BY <1>1
<1>3. DOMAIN Evidence[c] = 1 .. Len(Evidence[c]) /\ Len(Evidence[c]) \in Nat
  BY <1>1
<1>4. Picked(c) \in [1 .. Len(Evidence[c]) -> Attachment]
  BY <1>2, <1>3 DEF Picked, Attachment
<1> QED BY <1>3, <1>4 DEF AttachmentLists

LEMMA EnteredType ==
    ASSUME NEW content \in Contents, NEW evidence \in AttachmentLists, NEW intent \in Intents
    PROVE  Entered(content, evidence, intent) \in Report
BY DEF Entered, Report, Intents

LEMMA FromServerType ==
    ASSUME NEW answer \in StoredReport
    PROVE  FromServer(answer) \in Report
<1> DEFINE evidence == [i \in DOMAIN answer.files |-> [file |-> answer.files[i], remote |-> answer.files[i]]]
<1>1. answer.files \in Seq(Files \cup {NoFile}) /\ answer.content \in Contents
  BY DEF StoredReport
<1>2. DOMAIN answer.files = 1 .. Len(answer.files) /\ Len(answer.files) \in Nat
  BY <1>1
<1>3. evidence \in [1 .. Len(answer.files) -> Attachment]
  BY <1>1, <1>2 DEF Attachment
<1>4. evidence \in AttachmentLists
  BY <1>2, <1>3 DEF AttachmentLists
<1> HIDE DEF evidence
<1>5. FromServer(answer) = [status |-> "submitted", sync |-> "synced", content |-> answer.content, evidence |-> evidence]
  BY DEF FromServer, evidence
<1> QED BY <1>1, <1>4, <1>5 DEF Report

LEMMA RemotesType ==
    ASSUME NEW evidence \in AttachmentLists
    PROVE  Remotes(evidence) \in Seq(Files \cup {NoFile})
<1>1. DOMAIN evidence = 1 .. Len(evidence) /\ Len(evidence) \in Nat
  BY DEF AttachmentLists
<1>2. \A i \in DOMAIN evidence : evidence[i].remote \in Files \cup {NoFile}
  <2>1. \A i \in DOMAIN evidence : evidence[i] \in Attachment
    BY DEF AttachmentLists
  <2> QED BY <2>1 DEF Attachment
<1>3. Remotes(evidence) \in [1 .. Len(evidence) -> Files \cup {NoFile}]
  BY <1>1, <1>2 DEF Remotes
<1> QED BY <1>1, <1>3

LEMMA ReplacedType ==
    ASSUME NEW list \in Lists, NEW next, \A c \in Clients \cap DOMAIN next : next[c] \in Report
    PROVE  /\ Replaced(list, next) \in Lists
           /\ \A c \in Clients : Replaced(list, next)[c] =
                IF c \in DOMAIN next /\ list[c] # Nothing THEN next[c] ELSE list[c]
BY DEF Replaced, Lists

LEMMA CreatedType ==
    ASSUME MobileSyncTypeOK, NEW c \in Clients, NEW report \in Report
    PROVE  /\ Created(c, report) \in StoredReports
           /\ Created(c, report)[c] \in StoredReport
           /\ \A x \in Clients : x # c \/ server[c] # Nothing => Created(c, report)[x] = server[x]
           /\ server[c] = Nothing => Created(c, report)[c] =
                 [content |-> report.content, files |-> Remotes(report.evidence)]
<1>1. [content |-> report.content, files |-> Remotes(report.evidence)] \in StoredReport
  BY RemotesType DEF Report, StoredReport
<1>2. server \in [Clients -> StoredReport \cup {Nothing}]
  BY DEF MobileSyncTypeOK, StoredReports
<1> QED BY <1>1, <1>2, NothingAssumption DEF Created, StoredReports

(* The lists of a device whose list is replaced.                           *)
LEMMA SyncingType ==
    ASSUME MobileSyncTypeOK, session \in Tokens,
           NEW copies, \A c \in Clients \cap DOMAIN copies : copies[c] \in Report
    PROVE  /\ DOMAIN Syncing(copies) = DOMAIN copies
           /\ \A c \in Clients \cap DOMAIN copies : Syncing(copies)[c] \in Report
           /\ Start(copies) => ops' \in [Clients -> Op \cup {Nothing}]
<1>1. /\ DOMAIN Syncing(copies) = DOMAIN copies
      /\ \A c \in Clients \cap DOMAIN copies : Syncing(copies)[c] \in Report
  BY DEF Syncing, Report
<1>2. ASSUME NEW c \in Clients, c \in Startable(copies)
      PROVE  [phase |-> "upload", token |-> session, copy |-> Syncing(copies)[c], answer |-> Nothing] \in Op
  BY <1>1, <1>2 DEF Op, Startable
<1>3. ops \in [Clients -> Op \cup {Nothing}]
  BY DEF MobileSyncTypeOK
<1>4. ASSUME Start(copies)
      PROVE  ops' \in [Clients -> Op \cup {Nothing}]
  BY <1>2, <1>3, <1>4 DEF Start
<1> QED BY <1>1, <1>4

LEMMA SaveReportType ==
    ASSUME MobileSyncTypeOK, NEW c \in Clients, NEW content \in Contents, NEW intent \in Intents,
           SaveReport(c, content, intent)
    PROVE  MobileSyncTypeOK'
<1> DEFINE report == [x \in {c} |-> Entered(content, Picked(c), intent)]
<1>1. \A x \in Clients \cap DOMAIN report : report[x] \in Report
  BY PickedType, EnteredType
<1>2. session \in Tokens
  BY DEF SaveReport, SignedIn, MobileSyncTypeOK
<1> HIDE DEF report
<1>3. ops' \in [Clients -> Op \cup {Nothing}] /\ reports' \in Lists /\ toStore' \in Lists /\ ref' \in Lists
  <2>1. /\ \A x \in Clients \cap DOMAIN report : Syncing(report)[x] \in Report
        /\ Start(report) => ops' \in [Clients -> Op \cup {Nothing}]
    BY <1>1, <1>2, SyncingType
  <2>2. report[c] \in Report /\ Syncing(report)[c] \in Report
    BY <2>1, <1>1 DEF report
  <2>3. CASE intent = "draft"
    BY <2>2, <2>3 DEF SaveReport, PressReports, SetReports, MobileSyncTypeOK, Lists, report
  <2>4. CASE intent # "draft"
    BY <2>1, <2>2, <2>4 DEF SaveReport, PressReports, SetReports, MobileSyncTypeOK, Lists, report
  <2> QED BY <2>3, <2>4
<1> QED BY <1>3 DEF SaveReport, MobileSyncTypeOK, sessionVars

LEMMA UpdateDraftType ==
    ASSUME MobileSyncTypeOK, NEW c \in Clients, NEW content \in Contents, NEW intent \in Intents,
           UpdateDraft(c, content, intent)
    PROVE  MobileSyncTypeOK'
<1>1. PICK report : report = [x \in {c} |-> Entered(content, ref[c].evidence, intent)]
  OBVIOUS
<1>2. \A x \in Clients \cap DOMAIN report : report[x] \in Report
  <2>1. ref[c] \in Report
    BY DEF UpdateDraft, MobileSyncTypeOK, Lists
  <2>2. ref[c].evidence \in AttachmentLists
    BY <2>1 DEF Report
  <2> QED BY <1>1, <2>2, EnteredType
<1>3. session \in Tokens
  BY DEF UpdateDraft, SignedIn, MobileSyncTypeOK
<1>4. /\ \A x \in Clients \cap DOMAIN Syncing(report) : Syncing(report)[x] \in Report
      /\ Start(report) => ops' \in [Clients -> Op \cup {Nothing}]
  BY <1>2, <1>3, SyncingType
<1>5. reports \in Lists
  BY DEF MobileSyncTypeOK
<1>6. Replaced(reports, report) \in Lists /\ Replaced(reports, Syncing(report)) \in Lists
  BY <1>2, <1>4, <1>5, ReplacedType
<1>7. /\ reports' \in Lists /\ toStore' = reports' /\ ref' = reports'
      /\ ops' \in [Clients -> Op \cup {Nothing}]
  <2>1. CASE intent = "draft"
    BY <1>1, <1>6, <2>1 DEF UpdateDraft, PressReports, SetReports, MobileSyncTypeOK
  <2>2. CASE intent # "draft"
    BY <1>1, <1>4, <1>6, <2>2 DEF UpdateDraft, PressReports, SetReports
  <2> QED BY <2>1, <2>2
<1> QED BY <1>7 DEF UpdateDraft, MobileSyncTypeOK, sessionVars

LEMMA DeleteDraftType ==
    ASSUME MobileSyncTypeOK, NEW c \in Clients, DeleteDraft(c)
    PROVE  MobileSyncTypeOK'
<1>1. [reports EXCEPT ![c] = Nothing] \in Lists
  BY DEF MobileSyncTypeOK, Lists
<1> QED BY <1>1 DEF DeleteDraft, PressReports, SetReports, MobileSyncTypeOK, sessionVars

LEMMA SubmitReportsType ==
    ASSUME MobileSyncTypeOK, NEW ids \in SUBSET Clients, SubmitReports(ids)
    PROVE  MobileSyncTypeOK'
<1>1. PICK queued : queued = [c \in ids |-> [ref[c] EXCEPT !.status = "queued", !.sync = "queued"]]
  OBVIOUS
<1>2. \A x \in Clients \cap DOMAIN queued : queued[x] \in Report
  <2>1. \A c \in ids : ref[c] \in Report
    BY DEF SubmitReports, MobileSyncTypeOK, Lists
  <2> QED BY <1>1, <2>1, ZenonT(60) DEF Report
<1>3. session \in Tokens
  BY DEF SubmitReports, SignedIn, MobileSyncTypeOK
<1>4. /\ \A x \in Clients \cap DOMAIN Syncing(queued) : Syncing(queued)[x] \in Report
      /\ Start(queued) => ops' \in [Clients -> Op \cup {Nothing}]
  BY <1>2, <1>3, SyncingType
<1>5. reports \in Lists
  BY DEF MobileSyncTypeOK
<1>6. Replaced(reports, Syncing(queued)) \in Lists
  BY <1>4, <1>5, ReplacedType
<1>7. /\ reports' \in Lists /\ toStore' = reports' /\ ref' = reports'
      /\ ops' \in [Clients -> Op \cup {Nothing}]
  BY <1>1, <1>4, <1>6 DEF SubmitReports, PressReports, SetReports
<1> QED BY <1>7 DEF SubmitReports, MobileSyncTypeOK, sessionVars, ghostVars

LEMMA NetworkReturnsType ==
    ASSUME MobileSyncTypeOK, NetworkReturns
    PROVE  MobileSyncTypeOK'
<1>1. PICK copies : copies = [c \in Pending(ref) |-> ref[c]]
  OBVIOUS
<1>2. PICK started : started = [c \in Startable(copies) |-> Syncing(copies)[c]]
  OBVIOUS
<1>3. \A x \in Clients \cap DOMAIN copies : copies[x] \in Report
  BY <1>1 DEF Pending, MobileSyncTypeOK, Lists
<1>4. session \in Tokens
  BY DEF NetworkReturns, SignedIn, MobileSyncTypeOK
<1>5. /\ \A x \in Clients \cap DOMAIN copies : Syncing(copies)[x] \in Report
      /\ Start(copies) => ops' \in [Clients -> Op \cup {Nothing}]
  BY <1>3, <1>4, SyncingType
<1>6. \A x \in Clients \cap DOMAIN started : started[x] \in Report
  BY <1>2, <1>5 DEF Startable
<1>7. reports \in Lists
  BY DEF MobileSyncTypeOK
<1>8. Replaced(reports, started) \in Lists
  BY <1>6, <1>7, ReplacedType
<1>9. /\ reports' \in Lists /\ toStore' = reports'
      /\ ops' \in [Clients -> Op \cup {Nothing}]
  BY <1>1, <1>2, <1>5, <1>8 DEF NetworkReturns, SetReports
<1> QED BY <1>9 DEF NetworkReturns, MobileSyncTypeOK, sessionVars, ghostVars

LEMMA UploadType ==
    ASSUME MobileSyncTypeOK, NEW c \in Clients, Upload(c)
    PROVE  MobileSyncTypeOK'
<1>1. ops[c] \in Op
  BY DEF Upload, MobileSyncTypeOK
<1>2. Uploaded(ops[c].copy.evidence) \in AttachmentLists
  BY <1>1, UploadedType DEF Op, Report
<1>3. ops' \in [Clients -> Op \cup {Nothing}]
  BY <1>1, <1>2 DEF Upload, MobileSyncTypeOK, Op, Report
<1> QED BY <1>3 DEF Upload, MobileSyncTypeOK, sessionVars, ghostVars

LEMMA CreateType ==
    ASSUME MobileSyncTypeOK, NEW c \in Clients, Create(c)
    PROVE  MobileSyncTypeOK'
<1>1. ops[c] \in Op
  BY DEF Create, MobileSyncTypeOK
<1>2. server' \in StoredReports /\ server'[c] \in StoredReport
  BY <1>1, CreatedType DEF Create, Op
<1>3. ops' \in [Clients -> Op \cup {Nothing}]
  BY <1>1, <1>2 DEF Create, MobileSyncTypeOK, Op
<1> QED BY <1>2, <1>3 DEF Create, MobileSyncTypeOK, sessionVars, ghostVars

LEMMA CreateLateType ==
    ASSUME MobileSyncTypeOK, NEW submission \in adrift, CreateLate(submission)
    PROVE  MobileSyncTypeOK'
<1>1. submission \in Submission
  BY DEF MobileSyncTypeOK
<1>2. Created(submission.client, submission.report) \in StoredReports
  BY <1>1, CreatedType DEF Submission
<1> QED BY <1>2 DEF CreateLate, MobileSyncTypeOK, deviceVars, sessionVars, ghostVars

LEMMA FinishType ==
    ASSUME MobileSyncTypeOK, NEW c \in Clients, Finish(c), ops[c].answer # Nothing
    PROVE  MobileSyncTypeOK'
<1>1. ops[c] \in Op
  BY DEF Finish, MobileSyncTypeOK
<1>2. FromServer(ops[c].answer) \in Report
  BY <1>1, FromServerType DEF Op
<1>3. reports \in Lists
  BY DEF MobileSyncTypeOK
<1>4. PICK next : next = [x \in {c} |-> FromServer(ops[c].answer)]
  OBVIOUS
<1>5. Replaced(reports, next) \in Lists
  BY <1>2, <1>3, <1>4, ReplacedType
<1>6. ops' \in [Clients -> Op \cup {Nothing}]
  BY DEF Finish, MobileSyncTypeOK
<1> QED BY <1>4, <1>5, <1>6 DEF Finish, SetReports, MobileSyncTypeOK, sessionVars, ghostVars

LEMMA WaitingType ==
    ASSUME MobileSyncTypeOK, NEW c \in Clients
    PROVE  Waiting(c) \subseteq Submission
BY DEF Waiting, Submission, MobileSyncTypeOK, Op

LEMMA FailType ==
    ASSUME MobileSyncTypeOK, NEW c \in Clients, Fail(c)
    PROVE  MobileSyncTypeOK'
<1>1. ops[c] \in Op
  BY DEF Fail, MobileSyncTypeOK
<1>2. Failed(ops[c].copy) \in Report
  BY <1>1 DEF Op, Report, Failed
<1>3. reports \in Lists
  BY DEF MobileSyncTypeOK
<1>4. PICK next : next = [x \in {c} |-> Failed(ops[c].copy)]
  OBVIOUS
<1>5. Replaced(reports, next) \in Lists
  BY <1>2, <1>3, <1>4, ReplacedType
<1>6. ops' \in [Clients -> Op \cup {Nothing}]
  BY DEF Fail, MobileSyncTypeOK
<1>7. adrift' \subseteq Submission /\ faults' \in 0 .. MaxFaults
  BY WaitingType, MobileSyncAssumption DEF Fail, Fault, MobileSyncTypeOK
<1> QED BY <1>4, <1>5, <1>6, <1>7 DEF Fail, SetReports, MobileSyncTypeOK, sessionVars, ghostVars

LEMMA ListingType ==
    ASSUME MobileSyncTypeOK, RequestList \/ AnswerList \/ ApplyList
    PROVE  MobileSyncTypeOK'
<1>1. CASE RequestList
  <2>1. listing' \in Listing
    BY <1>1 DEF RequestList, SignedIn, MobileSyncTypeOK, Listing
  <2> QED BY <1>1, <2>1 DEF RequestList, MobileSyncTypeOK, sessionVars, ghostVars
<1>2. CASE AnswerList
  <2>1. listing' \in Listing \cup {Nothing}
    BY <1>2 DEF AnswerList, MobileSyncTypeOK, Listing
  <2>2. faults' \in 0 .. MaxFaults
    BY <1>2, MobileSyncAssumption DEF AnswerList, Fault, MobileSyncTypeOK
  <2> QED BY <1>2, <2>1, <2>2 DEF AnswerList, MobileSyncTypeOK, sessionVars, ghostVars
<1>3. CASE ApplyList
  <2>1. listing.rows \in StoredReports
    BY <1>3 DEF ApplyList, MobileSyncTypeOK, Listing
  <2>2. \A c \in Clients : listing.rows[c] # Nothing => FromServer(listing.rows[c]) \in Report
    BY <2>1, FromServerType DEF StoredReports
  <2>3. reports' \in Lists /\ toStore' = reports'
    BY <1>3, <2>2 DEF ApplyList, SetReports, MobileSyncTypeOK, Lists
  <2> QED BY <1>3, <2>3 DEF ApplyList, MobileSyncTypeOK, sessionVars, ghostVars
<1> QED BY <1>1, <1>2, <1>3

LEMMA SessionType ==
    ASSUME MobileSyncTypeOK, SignIn \/ Revoke \/ Leave \/ Expire
    PROVE  MobileSyncTypeOK'
<1>1. tokens' \in [Tokens -> {"unused", "live", "revoked", "expired"}]
  BY DEF MobileSyncTypeOK, SignIn, Revoke, Leave, Expire, Issued, Forgotten
<1>2. {session', storedSession'} \subseteq Tokens \cup {0} /\ leaving' \in BOOLEAN
  BY DEF MobileSyncTypeOK, SignIn, Revoke, Leave, Expire, sessionVars
<1>3. faults' \in 0 .. MaxFaults
  BY MobileSyncAssumption DEF MobileSyncTypeOK, SignIn, Revoke, Leave, Expire, Fault
<1> QED BY <1>1, <1>2, <1>3 DEF MobileSyncTypeOK, SignIn, Revoke, Leave, Expire, deviceVars, ghostVars

LEMMA RestartType ==
    ASSUME MobileSyncTypeOK, Restart
    PROVE  MobileSyncTypeOK'
<1>1. EmptyList \in Lists
  BY DEF EmptyList, Lists
<1>2. {session', storedSession'} \subseteq Tokens \cup {0}
  BY DEF MobileSyncTypeOK, Restart
<1>3. faults' \in 0 .. MaxFaults
  BY MobileSyncAssumption DEF MobileSyncTypeOK, Restart, Fault
<1>4. adrift' \subseteq Submission
  BY WaitingType DEF MobileSyncTypeOK, Restart
<1>5. torn' \subseteq Clients
  BY DEF MobileSyncTypeOK, Restart
<1> QED BY <1>1, <1>2, <1>3, <1>4, <1>5 DEF MobileSyncTypeOK, Restart

LEMMA StorageType ==
    ASSUME MobileSyncTypeOK, LoadReports \/ CatchUp \/ Persist
    PROVE  MobileSyncTypeOK'
BY DEF MobileSyncTypeOK, LoadReports, CatchUp, Persist, sessionVars, ghostVars
-------------------------------------------------------------------------------
(* A step that leaves a report alone: it shows, stores, renders or drops    *)
(* what the device has already, or gives up what is under way.              *)
Untouched(c) ==
    /\ server'[c] = server[c] /\ latest'[c] = latest[c]
    /\ c \in deleted' <=> c \in deleted
    /\ c \in torn => c \in torn'
    /\ \A copy \in Copies(c)' : copy \in Copies(c) \cup {Nothing} \/ (copy = stored[c] /\ c \in torn')
    /\ stored'[c] \in Copies(c) \cup {stored[c]}
    /\ Read'[c] # Nothing => reports'[c] = Nothing /\ ref'[c] = Nothing /\ ops'[c] = Nothing
    /\ \/ ref'[c] = ref[c] /\ reports'[c] \in {reports[c], Nothing}
       \/ ref'[c] \in {reports'[c], Nothing}
    /\ ops'[c] \in {ops[c], Nothing}
    /\ \A submission \in adrift' :
          submission.client = c => submission \in adrift \cup Waiting(c)
    /\ listing' # Nothing /\ listing'.rows # Nothing =>
          \/ listing'.rows[c] = server[c]
          \/ listing # Nothing /\ listing.rows # Nothing /\ listing'.rows[c] = listing.rows[c]

LEMMA UntouchedPreserves ==
    ASSUME NEW c \in Clients, ReportInv(c), Untouched(c)
    PROVE  ReportInv(c)'
<1>1. \A submission \in Waiting(c) :
        ops[c] # Nothing /\ ops[c].phase = "post" /\ submission.report = ops[c].copy
  BY DEF Waiting
<1>2. ref[c] \in Copies(c) /\ Kept[c] \in Copies(c)
  BY DEF Copies
<1>3. AnswerIsStored(c)'
  BY DEF ReportInv, AnswerIsStored, Untouched, Submitted
<1>4. UnsavedIsNowhere(c)'
  BY <1>1 DEF ReportInv, UnsavedIsNowhere, Untouched, OnlyLocal, Saved
<1>5. ReadIsApart(c)'
  BY DEF ReadIsApart, Untouched
<1>6. DraftIsLocal(c)'
  BY <1>1, <1>2 DEF ReportInv, DraftIsLocal, Untouched, Draft, OnlyLocal
<1>7. DeletedIsNowhere(c)'
  BY <1>1 DEF ReportInv, DeletedIsNowhere, Untouched, OnlyLocal
<1>8. ContentIsLatest(c)'
  BY <1>1 DEF ReportInv, ContentIsLatest, Untouched
<1>9. EvidenceIsInPlace(c)'
  BY <1>1 DEF ReportInv, EvidenceIsInPlace, Untouched, InPlace
<1> QED BY <1>3, <1>4, <1>5, <1>6, <1>7, <1>8, <1>9 DEF ReportInv

(* What replaces the list is stored next.                                  *)
LEMMA NewListIsKept ==
    ASSUME MobileSyncTypeOK', toStore' = reports', mounting' = mounting
    PROVE  Kept' = reports' /\ Read' = Read
BY NothingAssumption DEF MobileSyncTypeOK, Kept, Read

LEMMA StutterUntouched ==
    ASSUME MobileInv, UNCHANGED <<deviceVars, adrift, server, ghostVars>>
    PROVE  \A c \in Clients : Untouched(c)
<1>1. Read' = Read /\ Kept' = Kept
  BY DEF deviceVars, Read, Kept
<1>2. \A c \in Clients : Copies(c)' = Copies(c)
  BY <1>1 DEF deviceVars, Copies
<1> QED BY <1>1, <1>2 DEF Untouched, deviceVars, ghostVars, MobileInv, ReportInv, ReadIsApart

LEMMA StoragePreserves ==
    ASSUME MobileInv, LoadReports \/ CatchUp \/ Persist
    PROVE  MobileInv'
<1>1. MobileSyncTypeOK'
  BY StorageType DEF MobileInv
<1>2. UNCHANGED <<ops, listing, adrift, server, latest, deleted, torn>>
  BY DEF LoadReports, CatchUp, Persist, ghostVars
<1>3. ListingWaits' /\ \A c \in Clients : EmptyList[c] = Nothing
  BY DEF LoadReports, CatchUp, Persist, MobileInv, ListingWaits, EmptyList
<1>4. ASSUME NEW c \in Clients PROVE Untouched(c)
  <2>1. CASE LoadReports
    <3>1. /\ reports'[c] = Read[c] /\ Read'[c] = Nothing /\ Kept' = Kept
          /\ ref' = ref /\ stored' = stored
      BY <1>3, <2>1 DEF LoadReports, Read, Kept
    <3>2. ref[c] # Nothing => Read[c] = Nothing
      BY DEF MobileInv, ReportInv, ReadIsApart
    <3> QED BY <1>2, <3>1, <3>2 DEF Untouched, Copies
  <2>2. CASE CatchUp
    <3>1. ref' = reports /\ reports' = reports /\ Read' = Read /\ Kept' = Kept /\ stored' = stored
      BY <2>2 DEF CatchUp, Read, Kept
    <3> QED BY <1>2, <3>1 DEF Untouched, Copies, MobileInv, ReportInv, ReadIsApart
  <2>3. CASE Persist
    <3>1. /\ ref' = ref /\ reports' = reports /\ Read' = Read /\ Kept' = Kept /\ stored' = Kept
      BY <2>3 DEF Persist, Read, Kept
    <3> QED BY <1>2, <3>1 DEF Untouched, Copies, MobileInv, ReportInv, ReadIsApart
  <2> QED BY <2>1, <2>2, <2>3
<1> QED BY <1>1, <1>3, <1>4, UntouchedPreserves DEF MobileInv

LEMMA SessionPreserves ==
    ASSUME MobileInv, SignIn \/ Revoke \/ Leave \/ Expire
    PROVE  MobileInv'
<1>1. MobileSyncTypeOK'
  BY SessionType DEF MobileInv
<1>2. UNCHANGED <<deviceVars, adrift, server, ghostVars>>
  BY Zenon DEF SignIn, Revoke, Leave, Expire
<1>3. ListingWaits'
  BY <1>2 DEF MobileInv, ListingWaits, deviceVars
<1>4. \A c \in Clients : Untouched(c)
  BY <1>2, StutterUntouched
<1> QED BY <1>1, <1>3, <1>4, UntouchedPreserves DEF MobileInv

LEMMA AskingPreserves ==
    ASSUME MobileInv, RequestList \/ AnswerList
    PROVE  MobileInv'
<1>1. MobileSyncTypeOK'
  BY ListingType DEF MobileInv
<1>2. UNCHANGED <<reports, ref, toStore, stored, mounting, ops, adrift, server, ghostVars>>
  BY DEF RequestList, AnswerList
<1>3. ListingWaits' /\ Read' = Read /\ Kept' = Kept
  BY <1>2 DEF RequestList, AnswerList, MobileInv, ListingWaits, Read, Kept
<1>4. \A c \in Clients : listing' # Nothing /\ listing'.rows # Nothing => listing'.rows[c] = server[c]
  <2>1. CASE RequestList
    BY <2>1 DEF RequestList
  <2>2. CASE AnswerList
    BY <2>2 DEF AnswerList, MobileInv, MobileSyncTypeOK, Listing
  <2> QED BY <2>1, <2>2
<1>5. \A c \in Clients : Untouched(c)
  BY <1>2, <1>3, <1>4 DEF Untouched, Copies, ghostVars, MobileInv, ReportInv, ReadIsApart
<1> QED BY <1>1, <1>3, <1>5, UntouchedPreserves DEF MobileInv

LEMMA RestartPreserves ==
    ASSUME MobileInv, Restart
    PROVE  MobileInv'
<1>1. MobileSyncTypeOK'
  BY RestartType DEF MobileInv
<1>2. /\ reports' = EmptyList /\ ref' = EmptyList /\ toStore' = Nothing
      /\ mounting' = stored /\ listing' = Nothing /\ ops' = [c \in Clients |-> Nothing]
      /\ UNCHANGED <<stored, server, latest, deleted>>
  BY DEF Restart
<1>3. stored # Nothing
  BY NothingAssumption DEF MobileInv, MobileSyncTypeOK
<1>4. ListingWaits' /\ Read' = stored /\ Kept' = stored
  BY <1>2, <1>3 DEF ListingWaits, Read, Kept
<1>5. ASSUME NEW c \in Clients
      PROVE  Untouched(c)
  <2>1. Kept[c] = stored[c] \/ c \in torn'
    BY DEF Restart, Kept
  <2>2. torn \subseteq torn'
    BY DEF Restart
  <2>3. ASSUME NEW submission \in adrift', submission.client = c
        PROVE  submission \in adrift \cup Waiting(c)
    BY <2>3 DEF Restart, Waiting
  <2>4. reports'[c] = Nothing /\ ref'[c] = Nothing /\ ops'[c] = Nothing
    BY <1>2 DEF EmptyList
  <2> QED BY <1>2, <1>4, <2>1, <2>2, <2>3, <2>4 DEF Untouched, Copies
<1> QED BY <1>1, <1>4, <1>5, UntouchedPreserves DEF MobileInv

LEMMA PickedInPlace ==
    ASSUME NEW c \in Clients
    PROVE  InPlace(c, Picked(c))
BY DEF InPlace, Picked

(* What a press makes of a report, and the operation it starts, if any.    *)
Pressed(c, content, evidence) ==
    /\ reports'[c] # Nothing =>
          /\ reports'[c].status \in {"draft", "queued"}
          /\ reports'[c].status = "draft" => ops'[c] = ops[c]
          /\ reports'[c].content = content /\ reports'[c].evidence = evidence
    /\ ops'[c] # ops[c] =>
          /\ ops'[c].phase = "upload"
          /\ ops'[c].copy.content = content /\ ops'[c].copy.evidence = evidence

LEMMA EnteredIsPressed ==
    ASSUME MobileSyncTypeOK, session \in Tokens, NEW c \in Clients,
           NEW content \in Contents, NEW evidence \in AttachmentLists, NEW intent \in Intents,
           NEW report, report = [x \in {c} |-> Entered(content, evidence, intent)],
           IF intent = "draft" THEN reports'[c] \in {report[c], Nothing} /\ UNCHANGED ops
           ELSE reports'[c] \in {Syncing(report)[c], Nothing} /\ Start(report)
    PROVE  /\ Pressed(c, content, evidence)
           /\ report[c] # Nothing /\ Syncing(report)[c] # Nothing
           /\ \A x \in Clients : x # c => ops'[x] = ops[x]
<1>1. /\ report[c] \in Report /\ report[c].content = content /\ report[c].evidence = evidence
      /\ report[c].status = IF intent = "draft" THEN "draft" ELSE "queued"
  BY EnteredType DEF Entered
<1>2. /\ Syncing(report)[c] \in Report
      /\ Syncing(report)[c].content = content /\ Syncing(report)[c].evidence = evidence
      /\ Syncing(report)[c].status = report[c].status
  BY <1>1 DEF Syncing, Report
<1>3. CASE intent = "draft"
  BY <1>1, <1>2, <1>3, NothingAssumption DEF Pressed
<1>4. CASE intent # "draft"
  <2>1. Startable(report) \subseteq {c}
    BY DEF Startable
  <2>2. /\ ops'[c] # ops[c] => ops'[c].phase = "upload" /\ ops'[c].copy = Syncing(report)[c]
        /\ \A x \in Clients : x # c => ops'[x] = ops[x]
    BY <1>4, <2>1 DEF Start
  <2> QED BY <1>1, <1>2, <1>4, <2>2, NothingAssumption DEF Pressed
<1> QED BY <1>3, <1>4

LEMMA SaveReportPreserves ==
    ASSUME MobileInv, NEW c \in Clients, NEW content \in Contents,
           NEW intent \in Intents, SaveReport(c, content, intent)
    PROVE  MobileInv'
<1>1. MobileSyncTypeOK'
  BY SaveReportType DEF MobileInv
<1>2. /\ mounting' = mounting /\ toStore' = reports' /\ ref' = reports'
      /\ UNCHANGED <<stored, listing, adrift, server, deleted, torn>>
      /\ c \notin Saved /\ latest' = [latest EXCEPT ![c] = content]
  BY DEF SaveReport, PressReports, SetReports
<1>3. Kept' = reports' /\ Read' = Read /\ ListingWaits'
  BY <1>1, <1>2, NewListIsKept DEF MobileInv, ListingWaits
<1>4. /\ \A copy \in Copies(c) \cup {stored[c]} : copy = Nothing
      /\ OnlyLocal(c) /\ c \notin deleted
  BY <1>2 DEF MobileInv, ReportInv, UnsavedIsNowhere
<1>5. PICK report : report = [x \in {c} |-> Entered(content, Picked(c), intent)]
  OBVIOUS
<1>6. /\ IF intent = "draft" THEN reports'[c] = report[c] /\ UNCHANGED ops
          ELSE reports'[c] = Syncing(report)[c] /\ Start(report)
      /\ \A x \in Clients : x # c => reports'[x] = reports[x]
  BY <1>5 DEF SaveReport, PressReports, SetReports, MobileInv, MobileSyncTypeOK, Lists
<1>7. /\ Pressed(c, content, Picked(c)) /\ reports'[c] # Nothing
      /\ \A x \in Clients : x # c => ops'[x] = ops[x]
  <2>1. session \in Tokens
    BY DEF SaveReport, SignedIn, MobileInv, MobileSyncTypeOK
  <2> QED BY <1>5, <1>6, <2>1, PickedType, EnteredIsPressed DEF MobileInv
<1>8. latest'[c] = content /\ \A x \in Clients : x # c => latest'[x] = latest[x]
  BY <1>2 DEF MobileInv, MobileSyncTypeOK
<1>9. ASSUME NEW x \in Clients, x # c
      PROVE  ReportInv(x)'
  <2>1. Untouched(x)
    BY <1>2, <1>3, <1>6, <1>7, <1>8, <1>9 DEF Untouched, Copies, MobileInv, ReportInv, ReadIsApart
  <2> QED BY <2>1, UntouchedPreserves DEF MobileInv
<1>10. Copies(c)' = {reports'[c], Nothing} /\ Read'[c] = Nothing
  BY <1>2, <1>3, <1>4 DEF Copies
<1>11. ReportInv(c)'
  <2>1. AnswerIsStored(c)'
    BY <1>2, <1>4, <1>7, <1>10 DEF MobileInv, ReportInv, AnswerIsStored, Submitted, Pressed, OnlyLocal
  <2>2. UnsavedIsNowhere(c)' /\ DeletedIsNowhere(c)' /\ ReadIsApart(c)'
    BY <1>2, <1>4, <1>8, <1>10, NothingAssumption
    DEF UnsavedIsNowhere, DeletedIsNowhere, ReadIsApart, Saved
  <2>3. DraftIsLocal(c)'
    BY <1>2, <1>4, <1>7, <1>10 DEF DraftIsLocal, OnlyLocal, Draft, Pressed
  <2>4. ContentIsLatest(c)'
    BY <1>2, <1>4, <1>7, <1>8, <1>10 DEF ContentIsLatest, OnlyLocal, Pressed
  <2>5. EvidenceIsInPlace(c)'
    <3>1. /\ stored'[c] = Nothing /\ server'[c] = Nothing
          /\ \A submission \in adrift' : submission.client # c
      BY <1>2, <1>4 DEF OnlyLocal
    <3>2. /\ reports'[c].evidence = Picked(c)
          /\ ops'[c] # Nothing => ops'[c].copy.evidence = Picked(c) /\ ops'[c].phase = "upload"
      BY <1>4, <1>7 DEF Pressed, OnlyLocal
    <3> QED BY <1>10, <3>1, <3>2, PickedInPlace DEF EvidenceIsInPlace, InPlace
  <2> QED BY <2>1, <2>2, <2>3, <2>4, <2>5 DEF ReportInv
<1> QED BY <1>1, <1>3, <1>9, <1>11 DEF MobileInv

LEMMA UpdateDraftPreserves ==
    ASSUME MobileInv, NEW c \in Clients, NEW content \in Contents,
           NEW intent \in Intents, UpdateDraft(c, content, intent)
    PROVE  MobileInv'
<1>1. MobileSyncTypeOK'
  BY UpdateDraftType DEF MobileInv
<1>2. /\ Draft(ref[c]) /\ ref[c] \in Copies(c)
      /\ mounting' = mounting /\ toStore' = reports' /\ ref' = reports'
      /\ UNCHANGED <<stored, listing, adrift, server, deleted, torn>>
      /\ latest' = [latest EXCEPT ![c] = content]
  BY DEF UpdateDraft, PressReports, SetReports, Draft, Copies
<1>3. Kept' = reports' /\ Read' = Read /\ ListingWaits'
  BY <1>1, <1>2, NewListIsKept DEF MobileInv, ListingWaits
<1>4. Read[c] = Nothing
  BY <1>2 DEF MobileInv, ReportInv, ReadIsApart, Draft
<1>5. PICK evidence : evidence = ref[c].evidence
  OBVIOUS
<1>6. evidence \in AttachmentLists
  <2>1. ref[c] \in Report
    BY <1>2 DEF MobileInv, MobileSyncTypeOK, Lists, Draft
  <2> QED BY <1>5, <2>1 DEF Report
<1>7. PICK report : report = [x \in {c} |-> Entered(content, evidence, intent)]
  OBVIOUS
<1>8. /\ IF intent = "draft" THEN reports' = Replaced(reports, report) /\ UNCHANGED ops
          ELSE reports' = Replaced(reports, Syncing(report)) /\ Start(report)
  BY <1>5, <1>7 DEF UpdateDraft, PressReports, SetReports
<1>9. DOMAIN report = {c} /\ DOMAIN Syncing(report) = {c}
  BY <1>7 DEF Syncing
<1>10. /\ \A x \in Clients : x # c => reports'[x] = reports[x]
       /\ reports[c] = Nothing => reports'[c] = Nothing
       /\ reports[c] # Nothing => reports'[c] = IF intent = "draft" THEN report[c] ELSE Syncing(report)[c]
  BY <1>8, <1>9 DEF Replaced
<1>11. /\ Pressed(c, content, evidence)
       /\ \A x \in Clients : x # c => ops'[x] = ops[x]
  <2>1. session \in Tokens
    BY DEF UpdateDraft, SignedIn, MobileInv, MobileSyncTypeOK
  <2> QED BY <1>6, <1>7, <1>8, <1>10, <2>1, EnteredIsPressed DEF MobileInv
<1>12. latest'[c] = content /\ \A x \in Clients : x # c => latest'[x] = latest[x]
  BY <1>2 DEF MobileInv, MobileSyncTypeOK
<1>13. c \in Saved
  BY <1>2 DEF MobileInv, ReportInv, UnsavedIsNowhere, Draft
<1>14. c \notin torn => OnlyLocal(c) /\ c \notin deleted
  BY <1>2 DEF MobileInv, ReportInv, DraftIsLocal, DeletedIsNowhere, Draft
<1>15. ASSUME NEW x \in Clients, x # c
       PROVE  ReportInv(x)'
  <2>1. Untouched(x)
    BY <1>2, <1>3, <1>10, <1>11, <1>12, <1>15 DEF Untouched, Copies, MobileInv, ReportInv, ReadIsApart
  <2> QED BY <2>1, UntouchedPreserves DEF MobileInv
<1>16. Copies(c)' = {reports'[c], Nothing} /\ Read'[c] = Nothing
  BY <1>2, <1>3, <1>4 DEF Copies
<1>17. ReportInv(c)'
  <2>1. AnswerIsStored(c)'
    BY <1>2, <1>11, <1>16 DEF MobileInv, ReportInv, AnswerIsStored, Submitted, Pressed
  <2>2. UnsavedIsNowhere(c)' /\ DeletedIsNowhere(c)' /\ ReadIsApart(c)'
    BY <1>2, <1>12, <1>13, <1>14, <1>16, NothingAssumption
    DEF UnsavedIsNowhere, DeletedIsNowhere, ReadIsApart, Saved
  <2>3. DraftIsLocal(c)'
    BY <1>2, <1>11, <1>14, <1>16 DEF DraftIsLocal, OnlyLocal, Draft, Pressed
  <2>4. ContentIsLatest(c)'
    BY <1>2, <1>11, <1>12, <1>14, <1>16 DEF ContentIsLatest, OnlyLocal, Pressed
  <2>5. Range(Evidence[c]) \subseteq Accepted => InPlace(c, evidence)
    BY <1>2, <1>5 DEF MobileInv, ReportInv, EvidenceIsInPlace, Draft
  <2>6. EvidenceIsInPlace(c)'
    BY <1>2, <1>11, <1>16, <2>5 DEF MobileInv, ReportInv, EvidenceIsInPlace, Pressed, InPlace
  <2> QED BY <2>1, <2>2, <2>3, <2>4, <2>6 DEF ReportInv
<1> QED BY <1>1, <1>3, <1>15, <1>17 DEF MobileInv

LEMMA DeleteDraftPreserves ==
    ASSUME MobileInv, NEW c \in Clients, DeleteDraft(c)
    PROVE  MobileInv'
<1>1. MobileSyncTypeOK'
  BY DeleteDraftType DEF MobileInv
<1>2. /\ Draft(ref[c]) /\ ref[c] \in Copies(c)
      /\ mounting' = mounting /\ toStore' = reports' /\ ref' = reports'
      /\ reports' = [reports EXCEPT ![c] = Nothing] /\ deleted' = deleted \cup {c}
      /\ UNCHANGED <<stored, ops, listing, adrift, server, latest, torn>>
  BY DEF DeleteDraft, PressReports, SetReports, Draft, Copies
<1>3. Kept' = reports' /\ Read' = Read /\ ListingWaits'
  BY <1>1, <1>2, NewListIsKept DEF MobileInv, ListingWaits
<1>4. reports'[c] = Nothing /\ \A x \in Clients : x # c => reports'[x] = reports[x]
  BY <1>2 DEF MobileInv, MobileSyncTypeOK, Lists
<1>5. c \in Saved /\ Read[c] = Nothing
  BY <1>2 DEF MobileInv, ReportInv, UnsavedIsNowhere, ReadIsApart, Draft
<1>6. c \notin torn => OnlyLocal(c)
  BY <1>2 DEF MobileInv, ReportInv, DraftIsLocal, Draft
<1>7. ASSUME NEW x \in Clients, x # c
      PROVE  ReportInv(x)'
  <2>1. Untouched(x)
    BY <1>2, <1>3, <1>4, <1>7 DEF Untouched, Copies, MobileInv, ReportInv, ReadIsApart
  <2> QED BY <2>1, UntouchedPreserves DEF MobileInv
<1>8. Copies(c)' = {Nothing} /\ Read'[c] = Nothing /\ ref'[c] = Nothing
  BY <1>2, <1>3, <1>4, <1>5 DEF Copies
<1>9. ReportInv(c)'
  <2>1. AnswerIsStored(c)'
    BY <1>2, <1>8 DEF MobileInv, ReportInv, AnswerIsStored, Submitted
  <2>2. UnsavedIsNowhere(c)' /\ DeletedIsNowhere(c)' /\ ReadIsApart(c)'
    BY <1>2, <1>5, <1>6, <1>8 DEF UnsavedIsNowhere, DeletedIsNowhere, ReadIsApart, Saved, OnlyLocal
  <2>3. DraftIsLocal(c)'
    BY <1>8 DEF DraftIsLocal, Draft
  <2>4. ContentIsLatest(c)'
    BY <1>2, <1>8 DEF MobileInv, ReportInv, ContentIsLatest
  <2>5. EvidenceIsInPlace(c)'
    BY <1>2, <1>8 DEF MobileInv, ReportInv, EvidenceIsInPlace, InPlace
  <2> QED BY <2>1, <2>2, <2>3, <2>4, <2>5 DEF ReportInv
<1> QED BY <1>1, <1>3, <1>7, <1>9 DEF MobileInv

(* A report is sent again, as the presses see it.                          *)
Resent(c) ==
    /\ ref[c] # Nothing
    /\ (reports'[c] = Nothing) = (reports[c] = Nothing)
    /\ reports'[c] # Nothing =>
          /\ reports'[c].status \in {"queued", "sync-failed"}
          /\ reports'[c].content = ref[c].content /\ reports'[c].evidence = ref[c].evidence
    /\ ops'[c] # ops[c] =>
          /\ ops'[c].phase = "upload"
          /\ ops'[c].copy.content = ref[c].content /\ ops'[c].copy.evidence = ref[c].evidence
    /\ ref'[c] = reports'[c] \/ (ref'[c] = ref[c] /\ ~Draft(ref[c]))

LEMMA ResentPreserves ==
    ASSUME NEW c \in Clients, ReportInv(c), Resent(c), Kept' = reports', Read' = Read,
           UNCHANGED <<stored, listing, adrift, server, latest, deleted, torn>>
    PROVE  ReportInv(c)'
<1>1. Read'[c] = Nothing /\ Copies(c)' = {reports'[c], ref'[c], Nothing} /\ ref[c] \in Copies(c)
  BY DEF ReportInv, ReadIsApart, Resent, Copies
<1>2. AnswerIsStored(c)'
  BY <1>1 DEF ReportInv, AnswerIsStored, Submitted, Resent
<1>3. UnsavedIsNowhere(c)' /\ DeletedIsNowhere(c)' /\ ReadIsApart(c)'
  BY <1>1 DEF ReportInv, UnsavedIsNowhere, DeletedIsNowhere, ReadIsApart, Saved, Resent
<1>4. DraftIsLocal(c)'
  BY <1>1 DEF DraftIsLocal, Draft, Resent
<1>5. ContentIsLatest(c)'
  BY <1>1 DEF ReportInv, ContentIsLatest, Resent
<1>6. EvidenceIsInPlace(c)'
  BY <1>1 DEF ReportInv, EvidenceIsInPlace, InPlace, Resent
<1> QED BY <1>2, <1>3, <1>4, <1>5, <1>6 DEF ReportInv

(* What Start makes of the reports it is given.                            *)
LEMMA StartedOps ==
    ASSUME MobileSyncTypeOK, NEW copies, DOMAIN copies \subseteq Clients,
           \A c \in DOMAIN copies : copies[c] \in Report, Start(copies), NEW c \in Clients
    PROVE  /\ c \notin Startable(copies) => ops'[c] = ops[c]
           /\ c \in Startable(copies) =>
                 /\ ops'[c].phase = "upload"
                 /\ ops'[c].copy.content = copies[c].content
                 /\ ops'[c].copy.evidence = copies[c].evidence
           /\ c \in DOMAIN copies =>
                 /\ Syncing(copies)[c] # Nothing
                 /\ Syncing(copies)[c].status = copies[c].status
                 /\ Syncing(copies)[c].content = copies[c].content
                 /\ Syncing(copies)[c].evidence = copies[c].evidence
<1>1. ASSUME c \in DOMAIN copies
      PROVE  /\ Syncing(copies)[c] \in Report
             /\ Syncing(copies)[c].status = copies[c].status
             /\ Syncing(copies)[c].content = copies[c].content
             /\ Syncing(copies)[c].evidence = copies[c].evidence
  BY <1>1 DEF Syncing, Report
<1>2. c \in Startable(copies) => c \in DOMAIN copies
  BY DEF Startable
<1> QED BY <1>1, <1>2, NothingAssumption DEF Start

LEMMA SubmitReportsPreserves ==
    ASSUME MobileInv, NEW ids \in SUBSET Clients, ids # {}, SubmitReports(ids)
    PROVE  MobileInv'
<1>1. MobileSyncTypeOK'
  BY SubmitReportsType DEF MobileInv
<1>2. \A c \in ids : ref[c] # Nothing /\ ref[c] \in Report
  BY DEF SubmitReports, MobileInv, MobileSyncTypeOK, Lists
<1>3. PICK queued : queued = [c \in ids |-> [ref[c] EXCEPT !.status = "queued", !.sync = "queued"]]
  OBVIOUS
<1>4. /\ mounting' = mounting /\ toStore' = reports' /\ ref' = reports'
      /\ reports' = Replaced(reports, Syncing(queued)) /\ Start(queued)
      /\ UNCHANGED <<stored, listing, adrift, server, latest, deleted, torn>>
  BY <1>3 DEF SubmitReports, PressReports, SetReports, ghostVars
<1>5. Kept' = reports' /\ Read' = Read /\ ListingWaits'
  BY <1>1, <1>4, NewListIsKept DEF MobileInv, ListingWaits
<1>6. /\ DOMAIN queued = ids /\ DOMAIN Syncing(queued) = ids
      /\ \A c \in ids : /\ queued[c] \in Report /\ queued[c].status = "queued"
                        /\ queued[c].content = ref[c].content
                        /\ queued[c].evidence = ref[c].evidence
  BY <1>2, <1>3 DEF Report, Syncing
<1>7. \A c \in Clients :
        reports'[c] = IF c \in ids /\ reports[c] # Nothing THEN Syncing(queued)[c] ELSE reports[c]
  BY <1>4, <1>6 DEF Replaced
<1>8. ASSUME NEW c \in Clients
      PROVE  ReportInv(c)'
  <2>1. CASE c \in ids
    <3>1. Resent(c)
      BY <1>2, <1>4, <1>6, <1>7, <2>1, StartedOps DEF Resent, MobileInv
    <3> QED BY <1>4, <1>5, <3>1, ResentPreserves DEF MobileInv
  <2>2. CASE c \notin ids
    <3>1. ops'[c] = ops[c]
      BY <1>4, <1>6, <2>2, StartedOps DEF MobileInv, Startable
    <3>2. Untouched(c)
      BY <1>4, <1>5, <1>7, <2>2, <3>1 DEF Untouched, Copies, MobileInv, ReportInv, ReadIsApart
    <3> QED BY <3>2, UntouchedPreserves DEF MobileInv
  <2> QED BY <2>1, <2>2
<1> QED BY <1>1, <1>5, <1>8 DEF MobileInv

LEMMA NetworkReturnsPreserves ==
    ASSUME MobileInv, NetworkReturns
    PROVE  MobileInv'
<1>1. MobileSyncTypeOK'
  BY NetworkReturnsType DEF MobileInv
<1>2. PICK copies : copies = [c \in Pending(ref) |-> ref[c]]
  OBVIOUS
<1>3. PICK started : started = [c \in Startable(copies) |-> Syncing(copies)[c]]
  OBVIOUS
<1>4. /\ DOMAIN copies \subseteq Clients /\ Startable(copies) \subseteq DOMAIN copies
      /\ \A c \in DOMAIN copies : /\ copies[c] = ref[c] /\ ref[c] # Nothing /\ ref[c] \in Report
                                  /\ ref[c].status \in {"queued", "sync-failed"}
  BY <1>2 DEF Pending, Retried, Startable, MobileInv, MobileSyncTypeOK, Lists
<1>5. /\ mounting' = mounting /\ toStore' = reports' /\ ref' = ref
      /\ reports' = Replaced(reports, started) /\ Start(copies)
      /\ UNCHANGED <<stored, listing, adrift, server, latest, deleted, torn>>
  BY <1>2, <1>3 DEF NetworkReturns, SetReports, ghostVars
<1>6. Kept' = reports' /\ Read' = Read /\ ListingWaits'
  BY <1>1, <1>5, NewListIsKept DEF MobileInv, ListingWaits
<1>7. \A c \in Clients :
        reports'[c] = IF c \in Startable(copies) /\ reports[c] # Nothing
                      THEN Syncing(copies)[c] ELSE reports[c]
  BY <1>3, <1>5 DEF Replaced
<1>8. ASSUME NEW c \in Clients
      PROVE  ReportInv(c)'
  <2>1. CASE c \in Startable(copies)
    <3>1. Resent(c)
      BY <1>4, <1>5, <1>7, <2>1, StartedOps DEF Resent, Draft, MobileInv
    <3> QED BY <1>5, <1>6, <3>1, ResentPreserves DEF MobileInv
  <2>2. CASE c \notin Startable(copies)
    <3>1. ops'[c] = ops[c]
      BY <1>4, <1>5, <2>2, StartedOps DEF MobileInv
    <3>2. Untouched(c)
      BY <1>5, <1>6, <1>7, <2>2, <3>1 DEF Untouched, Copies, MobileInv, ReportInv, ReadIsApart
    <3> QED BY <3>2, UntouchedPreserves DEF MobileInv
  <2> QED BY <2>1, <2>2
<1> QED BY <1>1, <1>6, <1>8 DEF MobileInv

LEMMA UploadPreserves ==
    ASSUME MobileInv, NEW c \in Clients, Upload(c)
    PROVE  MobileInv'
<1>1. MobileSyncTypeOK'
  BY UploadType DEF MobileInv
<1>2. UNCHANGED <<reports, ref, toStore, stored, mounting, listing, adrift, server, latest, deleted, torn>>
  BY DEF Upload, ghostVars
<1>3. ops[c] # Nothing /\ ops[c] \in Op /\ ops[c].copy \in Report
  BY DEF Upload, MobileInv, MobileSyncTypeOK, Op
<1>4. Kept' = Kept /\ Read' = Read /\ ListingWaits' /\ \A x \in Clients : Copies(x)' = Copies(x)
  BY <1>2 DEF MobileInv, ListingWaits, Kept, Read, Copies
<1>5. /\ ops'[c] # Nothing /\ ops'[c].phase = "post"
      /\ ops'[c].copy.content = ops[c].copy.content
      /\ ops'[c].copy.evidence = Uploaded(ops[c].copy.evidence)
      /\ \A x \in Clients : x # c => ops'[x] = ops[x]
  <2>1. PICK op \in Op : op = ops[c]
    BY <1>3
  <2>2. PICK next : next = [op EXCEPT !.phase = "post", !.copy.evidence = Uploaded(@)]
    OBVIOUS
  <2>3. ops \in [Clients -> Op \cup {Nothing}] /\ ops' = [ops EXCEPT ![c] = next]
    BY <2>1, <2>2 DEF Upload, MobileInv, MobileSyncTypeOK
  <2>4. ops'[c] = next /\ \A x \in Clients : x # c => ops'[x] = ops[x]
    BY <2>3
  <2>5. next.phase = "post" /\ next.copy = [op.copy EXCEPT !.evidence = Uploaded(op.copy.evidence)]
    BY <2>2 DEF Op
  <2>6. op.copy \in Report
    BY DEF Op
  <2>7. next.copy.content = op.copy.content /\ next.copy.evidence = Uploaded(op.copy.evidence)
    BY <2>5, <2>6 DEF Report
  <2>8. next # Nothing
    <3>1. next.copy \in Report
      BY <2>5, <2>6, UploadedType DEF Report
    <3>2. next \in Op
      BY <2>2, <2>5, <3>1 DEF Op
    <3> QED BY <3>2, NothingAssumption
  <2> QED BY <2>1, <2>4, <2>5, <2>7, <2>8
<1>6. ASSUME NEW x \in Clients, x # c
      PROVE  ReportInv(x)'
  <2>1. Untouched(x)
    BY <1>2, <1>4, <1>5, <1>6 DEF Untouched, MobileInv, ReportInv, ReadIsApart, Copies
  <2> QED BY <2>1, UntouchedPreserves DEF MobileInv
<1>7. ReportInv(c)'
  <2>1. AnswerIsStored(c)'
    BY <1>2, <1>4, <1>5 DEF MobileInv, ReportInv, AnswerIsStored, Submitted
  <2>2. UnsavedIsNowhere(c)' /\ DeletedIsNowhere(c)' /\ ReadIsApart(c)'
    BY <1>2, <1>3, <1>4 DEF MobileInv, ReportInv, UnsavedIsNowhere, DeletedIsNowhere, ReadIsApart, Saved, OnlyLocal
  <2>3. DraftIsLocal(c)'
    BY <1>2, <1>3, <1>4 DEF MobileInv, ReportInv, DraftIsLocal, Draft, OnlyLocal
  <2>4. ContentIsLatest(c)'
    BY <1>2, <1>3, <1>4, <1>5 DEF MobileInv, ReportInv, ContentIsLatest
  <2>5. ASSUME Range(Evidence[c]) \subseteq Accepted
        PROVE  /\ InPlace(c, ops'[c].copy.evidence)
               /\ Remotes(ops'[c].copy.evidence) = Evidence[c]
    <3>1. PICK evidence : evidence = ops[c].copy.evidence
      OBVIOUS
    <3>2. evidence \in AttachmentLists /\ InPlace(c, evidence)
      BY <1>3, <2>5, <3>1 DEF Report, MobileInv, ReportInv, EvidenceIsInPlace
    <3> QED BY <1>5, <2>5, <3>1, <3>2, UploadedInPlace
  <2>6. EvidenceIsInPlace(c)'
    BY <1>2, <1>4, <2>5 DEF MobileInv, ReportInv, EvidenceIsInPlace, InPlace
  <2> QED BY <2>1, <2>2, <2>3, <2>4, <2>6 DEF ReportInv
<1> QED BY <1>1, <1>4, <1>6, <1>7 DEF MobileInv

(* The server receives a report: from its device, or late.                 *)
Received(c, report) ==
    /\ server' = Created(c, report)
    /\ \/ ops[c] # Nothing /\ ops[c].phase = "post" /\ report = ops[c].copy
       \/ \E submission \in adrift : submission.client = c /\ report = submission.report
    /\ \/ ops'[c] = ops[c]
       \/ /\ ops[c] # Nothing /\ ops'[c] # Nothing
          /\ ops'[c].phase = "answered" /\ ops'[c].answer = server'[c]
          /\ ops'[c].copy = ops[c].copy
    /\ adrift' \subseteq adrift

LEMMA ReceivedPreserves ==
    ASSUME MobileSyncTypeOK, NEW c \in Clients, ReportInv(c), NEW report \in Report,
           Received(c, report), Copies(c)' = Copies(c), Read' = Read,
           UNCHANGED <<reports, ref, stored, listing, latest, deleted, torn>>
    PROVE  ReportInv(c)'
<1>1. /\ server'[c] # Nothing
      /\ server[c] # Nothing => server'[c] = server[c]
      /\ server[c] = Nothing =>
            server'[c].content = report.content /\ server'[c].files = Remotes(report.evidence)
  <2>1. /\ Created(c, report)[c] \in StoredReport
        /\ server[c] # Nothing => Created(c, report)[c] = server[c]
        /\ server[c] = Nothing => Created(c, report)[c] =
              [content |-> report.content, files |-> Remotes(report.evidence)]
    BY CreatedType
  <2>2. server' = Created(c, report)
    BY DEF Received
  <2> QED BY <2>1, <2>2, NothingAssumption
<1>2. ~OnlyLocal(c)
  BY DEF Received, OnlyLocal
<1>3. AnswerIsStored(c)'
  BY <1>1 DEF ReportInv, AnswerIsStored, Received, Submitted
<1>4. UnsavedIsNowhere(c)' /\ DeletedIsNowhere(c)' /\ ReadIsApart(c)'
  BY <1>1, <1>2 DEF ReportInv, UnsavedIsNowhere, DeletedIsNowhere, ReadIsApart, Saved, Received
<1>5. DraftIsLocal(c)'
  BY <1>2 DEF ReportInv, DraftIsLocal, Draft
<1>6. ContentIsLatest(c)'
  BY <1>1 DEF ReportInv, ContentIsLatest, Received
<1>7. EvidenceIsInPlace(c)'
  BY <1>1 DEF ReportInv, EvidenceIsInPlace, InPlace, Received
<1> QED BY <1>3, <1>4, <1>5, <1>6, <1>7 DEF ReportInv

LEMMA CreatePreserves ==
    ASSUME MobileInv, NEW c \in Clients, Create(c)
    PROVE  MobileInv'
<1>1. MobileSyncTypeOK'
  BY CreateType DEF MobileInv
<1>2. UNCHANGED <<reports, ref, toStore, stored, mounting, listing, adrift, latest, deleted, torn>>
  BY DEF Create, ghostVars
<1>3. ops[c] # Nothing /\ ops[c] \in Op /\ ops[c].copy \in Report
  BY DEF Create, MobileInv, MobileSyncTypeOK, Op
<1>4. Kept' = Kept /\ Read' = Read /\ ListingWaits' /\ \A x \in Clients : Copies(x)' = Copies(x)
  BY <1>2 DEF MobileInv, ListingWaits, Kept, Read, Copies
<1>5. PICK report \in Report : report = ops[c].copy
  BY <1>3
<1>6. Received(c, report) /\ \A x \in Clients : x # c => ops'[x] = ops[x]
  <2>1. PICK op \in Op : op = ops[c]
    BY <1>3
  <2>2. server'[c] \in StoredReport
    BY <1>5, CreatedType DEF Create, MobileInv
  <2>3. ops \in [Clients -> Op \cup {Nothing}]
    BY DEF MobileInv, MobileSyncTypeOK
  <2>4. /\ ops'[c] = [op EXCEPT !.phase = "answered", !.answer = server'[c]]
        /\ \A x \in Clients : x # c => ops'[x] = ops[x]
    BY <2>1, <2>3 DEF Create
  <2>5. ops'[c].phase = "answered" /\ ops'[c].answer = server'[c] /\ ops'[c].copy = op.copy
    BY <2>4 DEF Op
  <2>6. ops'[c] # Nothing
    <3>1. ops'[c] \in Op
      BY <2>2, <2>4 DEF Op
    <3> QED BY <3>1, NothingAssumption
  <2> QED BY <1>2, <1>3, <1>5, <2>1, <2>4, <2>5, <2>6 DEF Received, Create
<1>7. ASSUME NEW x \in Clients, x # c
      PROVE  ReportInv(x)'
  <2>1. server'[x] = server[x]
    BY <1>5, <1>6, <1>7, CreatedType DEF Received, MobileInv
  <2>2. Untouched(x)
    BY <1>2, <1>4, <1>6, <1>7, <2>1 DEF Untouched, Copies, MobileInv, ReportInv, ReadIsApart
  <2> QED BY <2>2, UntouchedPreserves DEF MobileInv
<1>8. ReportInv(c)'
  BY <1>2, <1>4, <1>6, ReceivedPreserves DEF MobileInv
<1> QED BY <1>1, <1>4, <1>7, <1>8 DEF MobileInv

LEMMA CreateLatePreserves ==
    ASSUME MobileInv, NEW submission \in adrift, CreateLate(submission)
    PROVE  MobileInv'
<1>1. MobileSyncTypeOK'
  BY CreateLateType DEF MobileInv
<1>2. UNCHANGED <<reports, ref, toStore, stored, mounting, ops, listing, latest, deleted, torn>>
  BY DEF CreateLate, ghostVars, deviceVars
<1>3. Kept' = Kept /\ Read' = Read /\ ListingWaits' /\ \A x \in Clients : Copies(x)' = Copies(x)
  BY <1>2 DEF MobileInv, ListingWaits, Kept, Read, Copies
<1>4. submission \in Submission /\ adrift' = adrift \ {submission}
  BY DEF CreateLate, MobileInv, MobileSyncTypeOK
<1>5. PICK c \in Clients, report \in Report : c = submission.client /\ report = submission.report
  BY <1>4 DEF Submission
<1>6. \A x \in Clients : server'[x] = server[x] => Untouched(x)
  BY <1>2, <1>3, <1>4 DEF Untouched, Copies, MobileInv, ReportInv, ReadIsApart
<1>7. CASE server' = server
  BY <1>1, <1>3, <1>6, <1>7, UntouchedPreserves DEF MobileInv
<1>8. CASE server' = Created(c, report)
  <2>1. Received(c, report)
    BY <1>2, <1>4, <1>5, <1>8 DEF Received
  <2>2. ReportInv(c)'
    BY <1>2, <1>3, <2>1, ReceivedPreserves DEF MobileInv
  <2>3. ASSUME NEW x \in Clients, x # c
        PROVE  ReportInv(x)'
    <3>1. server'[x] = server[x]
      BY <1>8, <2>3, CreatedType DEF MobileInv
    <3> QED BY <1>6, <3>1, UntouchedPreserves DEF MobileInv
  <2> QED BY <1>1, <1>3, <2>2, <2>3 DEF MobileInv
<1> QED BY <1>5, <1>7, <1>8 DEF CreateLate

LEMMA FromServerInPlace ==
    ASSUME NEW c \in Clients, NEW answer \in StoredReport, answer.files = Evidence[c]
    PROVE  InPlace(c, FromServer(answer).evidence)
BY DEF InPlace, FromServer

(* An operation ends: its outcome replaces the report, if it is there.     *)
Ended(c, report) ==
    /\ \A x \in Clients : reports'[x] = IF x = c /\ reports[c] # Nothing THEN report ELSE reports[x]
    /\ ops' = [ops EXCEPT ![c] = Nothing]
    /\ toStore' = reports'
    /\ UNCHANGED <<ref, stored, mounting, listing, server, latest, deleted, torn>>

LEMMA EndedPreserves ==
    ASSUME MobileInv, MobileSyncTypeOK', NEW c \in Clients, NEW report \in Report,
           ops[c] # Nothing, Ended(c, report),
           \A submission \in adrift' : submission \in adrift \cup Waiting(c),
           report.status \in {"sync-failed", "submitted"},
           report.status = "submitted" => server[c] # Nothing,
           c \notin torn => report.content = latest[c],
           Range(Evidence[c]) \subseteq Accepted => InPlace(c, report.evidence)
    PROVE  MobileInv'
<1>1. Kept' = reports' /\ Read' = Read /\ ListingWaits'
  BY NewListIsKept DEF Ended, MobileInv, ListingWaits
<1>2. Read[c] = Nothing
  BY DEF MobileInv, ReportInv, ReadIsApart
<1>3. ops'[c] = Nothing /\ \A x \in Clients : x # c => ops'[x] = ops[x]
  BY DEF Ended, MobileInv, MobileSyncTypeOK
<1>4. report # Nothing
  BY NothingAssumption
<1>5. \A submission \in Waiting(c) :
        /\ ops[c] # Nothing /\ ops[c].phase = "post"
        /\ submission.client = c /\ submission.report = ops[c].copy
  BY DEF Waiting
<1>6. ASSUME NEW x \in Clients, x # c
      PROVE  ReportInv(x)'
  <2>1. \A submission \in adrift' : submission.client = x => submission \in adrift
    BY <1>5, <1>6
  <2>2. Untouched(x)
    BY <1>1, <1>3, <1>6, <2>1 DEF Untouched, Copies, Ended, MobileInv, ReportInv, ReadIsApart
  <2> QED BY <2>2, UntouchedPreserves DEF MobileInv
<1>7. ReportInv(c)'
  <2>1. ~OnlyLocal(c) /\ (reports[c] \in Copies(c) /\ ref[c] \in Copies(c))
    BY DEF OnlyLocal, Copies
  <2>2. /\ Copies(c)' = {reports'[c], ref[c], Nothing} /\ Read'[c] = Nothing
        /\ reports'[c] = IF reports[c] # Nothing THEN report ELSE Nothing
    BY <1>1, <1>2 DEF Copies, Ended
  <2>3. AnswerIsStored(c)'
    BY <1>3, <2>1, <2>2 DEF MobileInv, ReportInv, AnswerIsStored, Submitted, Ended
  <2>4. UnsavedIsNowhere(c)' /\ DeletedIsNowhere(c)' /\ ReadIsApart(c)'
    BY <2>1, <2>2
    DEF MobileInv, ReportInv, UnsavedIsNowhere, DeletedIsNowhere, ReadIsApart, Saved, Ended
  <2>5. DraftIsLocal(c)'
    BY <2>1, <2>2 DEF MobileInv, ReportInv, DraftIsLocal, Draft, Ended
  <2>6. ContentIsLatest(c)'
    BY <1>3, <1>5, <2>1, <2>2 DEF MobileInv, ReportInv, ContentIsLatest, Ended
  <2>7. EvidenceIsInPlace(c)'
    BY <1>3, <1>5, <2>1, <2>2 DEF MobileInv, ReportInv, EvidenceIsInPlace, InPlace, Ended
  <2> QED BY <2>3, <2>4, <2>5, <2>6, <2>7 DEF ReportInv
<1> QED BY <1>1, <1>6, <1>7 DEF MobileInv

LEMMA FinishPreserves ==
    ASSUME MobileInv, NEW c \in Clients, Finish(c)
    PROVE  MobileInv'
<1>1. /\ ops[c] # Nothing /\ ops[c].phase = "answered" /\ ops[c] \in Op
      /\ server[c] # Nothing /\ ops[c].answer = server[c]
  BY DEF Finish, MobileInv, MobileSyncTypeOK, ReportInv, AnswerIsStored
<1>2. PICK answer \in StoredReport : answer = server[c]
  BY <1>1 DEF MobileInv, MobileSyncTypeOK, StoredReports
<1>3. MobileSyncTypeOK'
  BY <1>1, FinishType DEF MobileInv
<1>4. PICK next : next = [x \in {c} |-> FromServer(answer)]
  OBVIOUS
<1>5. reports' = Replaced(reports, next)
  BY <1>1, <1>2, <1>4 DEF Finish, SetReports
<1>6. PICK report \in Report : report = FromServer(answer)
  BY FromServerType
<1>7. Ended(c, report)
  BY <1>4, <1>5, <1>6 DEF Ended, Finish, SetReports, Replaced, ghostVars
<1>8. /\ report.status = "submitted" /\ report.content = answer.content
      /\ answer.files = Evidence[c] => InPlace(c, report.evidence)
  BY <1>6, FromServerInPlace DEF FromServer
<1>9. /\ c \notin torn => report.content = latest[c]
      /\ Range(Evidence[c]) \subseteq Accepted => InPlace(c, report.evidence)
  BY <1>1, <1>2, <1>8 DEF MobileInv, ReportInv, ContentIsLatest, EvidenceIsInPlace
<1>10. adrift' = adrift
  BY DEF Finish
<1> QED BY <1>1, <1>3, <1>7, <1>8, <1>9, <1>10, EndedPreserves

LEMMA FailPreserves ==
    ASSUME MobileInv, NEW c \in Clients, Fail(c)
    PROVE  MobileInv'
<1>1. ops[c] # Nothing /\ ops[c] \in Op /\ ops[c].copy \in Report
  BY DEF Fail, MobileInv, MobileSyncTypeOK, Op
<1>2. MobileSyncTypeOK'
  BY FailType DEF MobileInv
<1>3. PICK report \in Report : report = Failed(ops[c].copy)
  BY <1>1 DEF Failed, Report
<1>4. /\ report.status = "sync-failed" /\ report.content = ops[c].copy.content
      /\ report.evidence = ops[c].copy.evidence
  BY <1>1, <1>3 DEF Failed, Report
<1>5. PICK next : next = [x \in {c} |-> report]
  OBVIOUS
<1>6. reports' = Replaced(reports, next)
  BY <1>3, <1>5 DEF Fail, SetReports
<1>7. Ended(c, report)
  BY <1>5, <1>6 DEF Ended, Fail, SetReports, Replaced, ghostVars
<1>8. /\ c \notin torn => report.content = latest[c]
      /\ Range(Evidence[c]) \subseteq Accepted => InPlace(c, report.evidence)
  BY <1>1, <1>4 DEF MobileInv, ReportInv, ContentIsLatest, EvidenceIsInPlace, InPlace
<1>9. \A submission \in adrift' : submission \in adrift \cup Waiting(c)
  BY DEF Fail
<1> QED BY <1>1, <1>2, <1>4, <1>7, <1>8, <1>9, EndedPreserves

LEMMA ApplyListPreserves ==
    ASSUME MobileInv, ApplyList
    PROVE  MobileInv'
<1>1. MobileSyncTypeOK'
  BY ListingType DEF MobileInv
<1>2. mounting = Nothing /\ \A c \in Clients : Read[c] = Nothing
  BY DEF ApplyList, MobileInv, ListingWaits, Read, EmptyList
<1>3. /\ mounting' = Nothing /\ toStore' = reports' /\ listing' = Nothing
      /\ UNCHANGED <<ref, stored, ops, adrift, server, latest, deleted, torn>>
  BY <1>2 DEF ApplyList, SetReports, ghostVars
<1>4. Kept' = reports' /\ Read' = Read /\ ListingWaits'
  BY <1>1, <1>2, <1>3, NewListIsKept DEF ListingWaits
<1>5. ASSUME NEW c \in Clients
      PROVE  ReportInv(c)'
  <2>1. listing.rows \in StoredReports /\ listing.rows[c] \in {server[c], Nothing}
    BY DEF ApplyList, MobileInv, MobileSyncTypeOK, Listing, ReportInv, AnswerIsStored
  <2>2. reports'[c] = IF listing.rows[c] # Nothing THEN FromServer(listing.rows[c])
                      ELSE IF reports[c] # Nothing /\ KeepsLocal(reports[c]) THEN reports[c]
                      ELSE Nothing
    BY DEF ApplyList, SetReports
  <2>3. Copies(c)' = {reports'[c], ref[c], Nothing} /\ Read'[c] = Nothing
        /\ reports[c] \in Copies(c) /\ ref[c] \in Copies(c)
    BY <1>2, <1>3, <1>4 DEF Copies
  <2>4. ReadIsApart(c)'
    BY <2>3 DEF ReadIsApart
  <2>5. CASE listing.rows[c] # Nothing
    <3>1. PICK answer \in StoredReport : answer = server[c]
      BY <2>1, <2>5 DEF StoredReports
    <3>2. /\ server[c] # Nothing /\ reports'[c] = FromServer(answer)
          /\ reports'[c].status = "submitted" /\ reports'[c].content = answer.content
      BY <2>1, <2>2, <2>5, <3>1 DEF FromServer
    <3>3. ~OnlyLocal(c)
      BY <3>2 DEF OnlyLocal
    <3>4. AnswerIsStored(c)'
      BY <1>3, <2>3, <3>2 DEF MobileInv, ReportInv, AnswerIsStored, Submitted
    <3>5. UnsavedIsNowhere(c)' /\ DeletedIsNowhere(c)'
      BY <1>3, <2>3, <3>2, <3>3
      DEF MobileInv, ReportInv, UnsavedIsNowhere, DeletedIsNowhere, Saved
    <3>6. DraftIsLocal(c)'
      BY <1>3, <2>3, <3>2, <3>3 DEF MobileInv, ReportInv, DraftIsLocal, Draft
    <3>7. ContentIsLatest(c)'
      BY <1>3, <2>3, <3>1, <3>2 DEF MobileInv, ReportInv, ContentIsLatest
    <3>8. EvidenceIsInPlace(c)'
      BY <1>3, <2>3, <3>1, <3>2, FromServerInPlace DEF MobileInv, ReportInv, EvidenceIsInPlace, InPlace
    <3> QED BY <2>4, <3>4, <3>5, <3>6, <3>7, <3>8 DEF ReportInv
  <2>6. CASE listing.rows[c] = Nothing
    <3>1. reports'[c] \in {reports[c], Nothing}
      BY <2>2, <2>6
    <3>2. Untouched(c)
      BY <1>3, <1>4, <2>3, <3>1 DEF Untouched, Copies
    <3> QED BY <3>2, UntouchedPreserves DEF MobileInv
  <2> QED BY <2>5, <2>6
<1> QED BY <1>1, <1>4, <1>5 DEF MobileInv

-------------------------------------------------------------------------------
LEMMA InitEstablishesMobile == Init => MobileInv
<1> SUFFICES ASSUME Init PROVE MobileInv
  OBVIOUS
<1>1. \A c \in Clients : EmptyList[c] = Nothing
  BY DEF EmptyList
<1>2. EmptyList \in Lists /\ EmptyList \in StoredReports
  BY DEF EmptyList, Lists, StoredReports
<1>3. MobileSyncTypeOK
  <2>1. EmptyList \in [Clients -> Contents \cup {Nothing}]
    BY DEF EmptyList
  <2>2. ops \in [Clients -> Op \cup {Nothing}]
    BY DEF Init
  <2>3. tokens \in [Tokens -> {"unused", "live", "revoked", "expired"}]
    BY DEF Init
  <2>4. 0 \in 0 .. MaxFaults
    BY MobileSyncAssumption
  <2> QED BY <1>2, <2>1, <2>2, <2>3, <2>4 DEF Init, MobileSyncTypeOK
<1>4. ListingWaits /\ Kept = EmptyList /\ Read = EmptyList
  BY DEF Init, ListingWaits, Kept, Read
<1>5. ASSUME NEW c \in Clients PROVE ReportInv(c)
  <2>1. Copies(c) = {Nothing} /\ stored[c] = Nothing /\ Read[c] = Nothing
    BY <1>1, <1>4 DEF Copies, Init
  <2> QED BY <1>1, <2>1 DEF Init, ReportInv, AnswerIsStored, UnsavedIsNowhere, ReadIsApart,
        DraftIsLocal, DeletedIsNowhere, ContentIsLatest, EvidenceIsInPlace, OnlyLocal, Submitted,
        Draft, Saved
<1> QED BY <1>3, <1>4, <1>5 DEF MobileInv

LEMMA StepPreservesMobile == MobileInv /\ [Next]_vars => MobileInv'
<1>1. ASSUME MobileInv, Press PROVE MobileInv'
  <2>1. ASSUME NEW c \in Clients, NEW content \in Contents, NEW intent \in Intents,
               SaveReport(c, content, intent) \/ UpdateDraft(c, content, intent)
        PROVE  MobileInv'
    BY <1>1, <2>1, SaveReportPreserves, UpdateDraftPreserves
  <2>2. ASSUME NEW c \in Clients, DeleteDraft(c) PROVE MobileInv'
    BY <1>1, <2>2, DeleteDraftPreserves
  <2>3. ASSUME NEW ids \in (SUBSET Clients) \ {{}}, SubmitReports(ids) PROVE MobileInv'
    BY <1>1, <2>3, SubmitReportsPreserves
  <2> QED BY <1>1, <2>1, <2>2, <2>3 DEF Press
<1>2. ASSUME MobileInv, Synchronise PROVE MobileInv'
  BY <1>2, UploadPreserves, CreatePreserves, FinishPreserves, FailPreserves DEF Synchronise
<1>3. ASSUME MobileInv, UNCHANGED vars PROVE MobileInv'
  <2>1. MobileSyncTypeOK'
    BY <1>3 DEF vars, deviceVars, sessionVars, ghostVars, MobileInv, MobileSyncTypeOK
  <2>2. UNCHANGED <<deviceVars, adrift, server, ghostVars>>
    BY <1>3, Zenon DEF vars
  <2>3. ListingWaits'
    BY <1>3, <2>2 DEF deviceVars, MobileInv, ListingWaits
  <2>4. \A c \in Clients : Untouched(c)
    BY <1>3, <2>2, StutterUntouched
  <2> QED BY <1>3, <2>1, <2>3, <2>4, UntouchedPreserves DEF MobileInv
<1> QED BY <1>1, <1>2, <1>3, StoragePreserves, NetworkReturnsPreserves, CreateLatePreserves,
     AskingPreserves, ApplyListPreserves, SessionPreserves, RestartPreserves DEF Next

LEMMA MobileInvariant == Spec => []MobileInv
BY InitEstablishesMobile, StepPreservesMobile, PTL DEF Spec

(* A draft that deleteDraft has removed is never sent, by syncReport or    *)
(* synchronizePending, and no list brings it back.                         *)
THEOREM DeletedDraftsStayDeleted == Spec => []DeletedIsGone
<1>1. MobileInv => DeletedIsGone
  <2>1. ASSUME MobileInv, NEW c \in deleted \ torn
        PROVE  Shown[c] = Nothing /\ ops[c] = Nothing /\ server[c] = Nothing
    <3>1. c \in Clients
      BY <2>1 DEF MobileInv, MobileSyncTypeOK
    <3>2. reports[c] \in Copies(c) /\ Read[c] \in Copies(c)
      BY DEF Copies
    <3>3. Shown[c] \in {reports[c], Read[c]}
      BY DEF Shown, Read
    <3> QED BY <2>1, <3>1, <3>2, <3>3 DEF MobileInv, ReportInv, DeletedIsNowhere, OnlyLocal
  <2> QED BY <2>1 DEF DeletedIsGone
<1> QED BY <1>1, MobileInvariant, PTL

(* What the server stores of a report is the text that was entered last,   *)
(* whichever of the attempts of syncReport to send it arrives.             *)
THEOREM ServerStoresTheLatest == Spec => []ServerHasLatest
<1>1. MobileInv => ServerHasLatest
  BY DEF MobileInv, ReportInv, ServerHasLatest, ContentIsLatest, Saved
<1> QED BY <1>1, MobileInvariant, PTL

(* Files that the server accepts arrive, each at its own attachment:       *)
(* uploadFieldReportAttachments pairs the answer with what it sent.        *)
THEOREM FilesArriveInPlace == Spec => []EvidenceArrives
<1>1. MobileInv => EvidenceArrives
  BY DEF MobileInv, ReportInv, EvidenceArrives, EvidenceIsInPlace
<1> QED BY <1>1, MobileInvariant, PTL

-------------------------------------------------------------------------------
(* If no report is saved before the stored list is shown, the app works on *)
(* nothing until then, and what is shown is what the storage will hold.    *)
StartsEmpty ==
    mounting # Nothing =>
        /\ reports = EmptyList /\ ref = EmptyList /\ toStore = Nothing
        /\ ops = [c \in Clients |-> Nothing]

ShownIsKept == Shown = Kept

NotDropped(c) ==
    c \in Saved \ (deleted \cup torn) => Shown[c] # Nothing \/ server[c] # Nothing

ShownInv == StartsEmpty /\ ShownIsKept /\ \A c \in Clients : NotDropped(c)

(* While something is rendered, under way or written, the list is shown.   *)
LEMMA AppHasStarted ==
    ASSUME MobileInv, StartsEmpty,
           \/ \E c \in Clients : ref[c] # Nothing \/ ops[c] # Nothing
           \/ listing # Nothing \/ toStore # Nothing
    PROVE  mounting = Nothing
BY DEF MobileInv, ListingWaits, StartsEmpty, EmptyList

(* A step that leaves every list and what the user did alone.              *)
LEMMA QuietPreservesShown ==
    ASSUME ShownInv, UNCHANGED <<reports, toStore, stored, mounting, latest, deleted, torn>>,
           \A c \in Clients : server[c] # Nothing => server'[c] # Nothing,
           mounting # Nothing => ref' = EmptyList /\ ops' = ops
    PROVE  ShownInv'
<1>1. Shown' = Shown /\ Kept' = Kept
  BY DEF Shown, Kept
<1>2. StartsEmpty' /\ ShownIsKept'
  BY <1>1 DEF ShownInv, StartsEmpty, ShownIsKept
<1>3. \A c \in Clients : NotDropped(c)'
  BY <1>1 DEF ShownInv, NotDropped, Saved
<1> QED BY <1>2, <1>3 DEF ShownInv

(* A step that replaces the list keeps what is in it, stores it, or was    *)
(* told to delete it.                                                      *)
LEMMA NewListPreservesShown ==
    ASSUME ShownInv, MobileSyncTypeOK', mounting = Nothing, mounting' = Nothing,
           toStore' = reports', UNCHANGED <<server, torn>>, deleted \subseteq deleted',
           \A c \in Clients : reports[c] # Nothing =>
               reports'[c] # Nothing \/ server[c] # Nothing \/ c \in deleted',
           \A c \in Clients : latest'[c] # Nothing => latest[c] # Nothing \/ reports'[c] # Nothing
    PROVE  ShownInv'
<1>1. Shown = reports /\ Shown' = reports' /\ Kept' = reports' /\ StartsEmpty'
  BY NewListIsKept DEF Shown, StartsEmpty
<1>2. \A c \in Clients : NotDropped(c)'
  BY <1>1 DEF ShownInv, NotDropped, Saved
<1> QED BY <1>1, <1>2 DEF ShownInv, ShownIsKept

LEMMA PressKeepsShown ==
    ASSUME ~SaveBeforeLoad, MobileInv, MobileSyncTypeOK', ShownInv, Press
    PROVE  ShownInv'
<1>1. ASSUME NEW c \in Clients, NEW content \in Contents, NEW intent \in Intents,
             SaveReport(c, content, intent)
      PROVE  ShownInv'
  <2>1. /\ mounting = Nothing /\ mounting' = Nothing /\ toStore' = reports'
        /\ UNCHANGED <<server, torn, deleted>>
    BY <1>1 DEF SaveReport, PressReports, SetReports
  <2>2. latest' = [latest EXCEPT ![c] = content]
    BY <1>1 DEF SaveReport
  <2>3. reports'[c] # Nothing
    <3>1. PICK report : report = [x \in {c} |-> Entered(content, Picked(c), intent)]
      OBVIOUS
    <3>2. report[c] \in Report
      BY <3>1, PickedType, EnteredType
    <3>3. Syncing(report)[c] \in Report
      BY <3>1, <3>2 DEF Syncing, Report
    <3>4. reports'[c] \in {report[c], Syncing(report)[c]}
      BY <1>1, <3>1 DEF SaveReport, PressReports, SetReports, MobileInv, MobileSyncTypeOK, Lists
    <3> QED BY <3>2, <3>3, <3>4, NothingAssumption
  <2>4. \A x \in Clients : x # c => reports'[x] = reports[x] /\ latest'[x] = latest[x]
    BY <1>1 DEF SaveReport, PressReports, SetReports, MobileInv, MobileSyncTypeOK, Lists
  <2> QED BY <2>1, <2>3, <2>4, NewListPreservesShown
<1>2. ASSUME NEW c \in Clients, NEW content \in Contents, NEW intent \in Intents,
             UpdateDraft(c, content, intent)
      PROVE  ShownInv'
  <2>1. ref[c] # Nothing /\ ref[c] \in Report
    BY <1>2 DEF UpdateDraft, MobileInv, MobileSyncTypeOK, Lists
  <2>2. mounting = Nothing
    BY <2>1, AppHasStarted DEF ShownInv
  <2>3. PICK report : report = [x \in {c} |-> Entered(content, ref[c].evidence, intent)]
    OBVIOUS
  <2>4. report[c] \in Report
    <3>1. ref[c].evidence \in AttachmentLists
      BY <2>1 DEF Report
    <3> QED BY <2>3, <3>1, EnteredType
  <2>5. Syncing(report)[c] \in Report /\ DOMAIN report = {c} /\ DOMAIN Syncing(report) = {c}
    BY <2>3, <2>4 DEF Syncing, Report
  <2>6. reports' \in {Replaced(reports, report), Replaced(reports, Syncing(report))}
    BY <1>2, <2>3 DEF UpdateDraft, PressReports, SetReports
  <2>7. \A x \in Clients : reports[x] # Nothing => reports'[x] # Nothing
    BY <2>4, <2>5, <2>6, NothingAssumption DEF Replaced
  <2>8. /\ mounting' = Nothing /\ toStore' = reports'
        /\ UNCHANGED <<server, torn, deleted>> /\ latest' = [latest EXCEPT ![c] = content]
    BY <1>2, <2>2 DEF UpdateDraft, PressReports, SetReports
  <2>9. latest[c] # Nothing
    <3>1. ref[c] \in Copies(c)
      BY DEF Copies
    <3> QED BY <2>1, <3>1 DEF MobileInv, ReportInv, UnsavedIsNowhere, Saved
  <2>10. \A x \in Clients : latest'[x] # Nothing => latest[x] # Nothing
    BY <2>8, <2>9 DEF MobileInv, MobileSyncTypeOK
  <2> QED BY <2>2, <2>7, <2>8, <2>10, NewListPreservesShown
<1>3. ASSUME NEW c \in Clients, DeleteDraft(c)
      PROVE  ShownInv'
  <2>1. mounting = Nothing
    BY <1>3, AppHasStarted DEF DeleteDraft, ShownInv
  <2>2. /\ reports' = [reports EXCEPT ![c] = Nothing] /\ deleted' = deleted \cup {c}
        /\ mounting' = Nothing /\ toStore' = reports' /\ UNCHANGED <<server, torn, latest>>
    BY <1>3, <2>1 DEF DeleteDraft, PressReports, SetReports
  <2>3. \A x \in Clients : x # c => reports'[x] = reports[x]
    BY <2>2 DEF MobileInv, MobileSyncTypeOK, Lists
  <2> QED BY <2>1, <2>2, <2>3, NewListPreservesShown
<1>4. ASSUME NEW ids \in (SUBSET Clients) \ {{}}, SubmitReports(ids)
      PROVE  ShownInv'
  <2>1. \A c \in ids : ref[c] # Nothing /\ ref[c] \in Report
    BY <1>4, ZenonT(60) DEF SubmitReports, MobileInv, MobileSyncTypeOK, Lists
  <2>2. mounting = Nothing
    BY <1>4, <2>1, AppHasStarted DEF ShownInv
  <2>3. PICK queued : queued = [c \in ids |-> [ref[c] EXCEPT !.status = "queued", !.sync = "queued"]]
    OBVIOUS
  <2>4. /\ DOMAIN queued = ids /\ DOMAIN Syncing(queued) = ids
        /\ \A c \in ids : queued[c] \in Report
    BY <2>1, <2>3 DEF Report, Syncing
  <2>5. \A c \in ids : Syncing(queued)[c] # Nothing
    BY <2>4, NothingAssumption DEF Syncing, Report
  <2>6. /\ reports' = Replaced(reports, Syncing(queued)) /\ toStore' = reports'
        /\ mounting' = Nothing /\ UNCHANGED <<server, torn, latest, deleted>>
    BY <1>4, <2>2, <2>3 DEF SubmitReports, PressReports, SetReports, ghostVars
  <2>7. \A c \in Clients : reports[c] # Nothing => reports'[c] # Nothing
    BY <2>4, <2>5, <2>6 DEF Replaced
  <2> QED BY <2>2, <2>6, <2>7, NewListPreservesShown
<1> QED BY <1>1, <1>2, <1>3, <1>4 DEF Press

LEMMA ServerKeepsReports ==
    ASSUME MobileInv, NEW c \in Clients, NEW report \in Report, server' = Created(c, report)
    PROVE  \A x \in Clients : server[x] # Nothing => server'[x] # Nothing
BY CreatedType DEF MobileInv

LEMMA SynchroniseKeepsShown ==
    ASSUME MobileInv, MobileSyncTypeOK', ShownInv, NEW c \in Clients,
           Upload(c) \/ Create(c) \/ Finish(c) \/ Fail(c)
    PROVE  ShownInv'
<1>1. ops[c] # Nothing /\ ops[c] \in Op /\ ops[c].copy \in Report
  BY DEF Upload, Create, Finish, Fail, MobileInv, MobileSyncTypeOK, Op
<1>2. mounting = Nothing
  BY <1>1, AppHasStarted DEF ShownInv
<1>3. CASE Upload(c)
  <2>1. UNCHANGED <<reports, toStore, stored, mounting, latest, deleted, torn, server>>
    BY <1>3 DEF Upload, ghostVars
  <2> QED BY <1>2, <2>1, QuietPreservesShown
<1>4. CASE Create(c)
  <2>1. /\ UNCHANGED <<reports, toStore, stored, mounting, latest, deleted, torn>>
        /\ server' = Created(c, ops[c].copy)
    BY <1>4 DEF Create, ghostVars
  <2>2. PICK report \in Report : report = ops[c].copy
    BY <1>1
  <2>3. \A x \in Clients : server[x] # Nothing => server'[x] # Nothing
    BY <2>1, <2>2, ServerKeepsReports
  <2> QED BY <1>2, <2>1, <2>3, QuietPreservesShown
<1>5. CASE Finish(c)
  <2>1. ops[c].answer = server[c] /\ server[c] \in StoredReport
    BY <1>5 DEF Finish, MobileInv, ReportInv, AnswerIsStored, MobileSyncTypeOK, StoredReports
  <2>2. PICK report \in Report : report = FromServer(ops[c].answer)
    <3>1. PICK answer \in StoredReport : answer = ops[c].answer
      BY <2>1
    <3> QED BY <3>1, FromServerType
  <2>3. PICK next : next = [x \in {c} |-> report]
    OBVIOUS
  <2>4. /\ reports' = Replaced(reports, next) /\ toStore' = reports' /\ mounting' = Nothing
        /\ UNCHANGED <<server, torn, latest, deleted>>
    BY <1>2, <1>5, <2>2, <2>3 DEF Finish, SetReports, ghostVars
  <2>5. \A x \in Clients : reports[x] # Nothing => reports'[x] # Nothing
    BY <2>3, <2>4, NothingAssumption DEF Replaced
  <2> QED BY <1>2, <2>4, <2>5, NewListPreservesShown
<1>6. CASE Fail(c)
  <2>1. PICK report \in Report : report = Failed(ops[c].copy)
    BY <1>1 DEF Failed, Report
  <2>2. PICK next : next = [x \in {c} |-> report]
    OBVIOUS
  <2>3. /\ reports' = Replaced(reports, next) /\ toStore' = reports' /\ mounting' = Nothing
        /\ UNCHANGED <<server, torn, latest, deleted>>
    BY <1>2, <1>6, <2>1, <2>2 DEF Fail, SetReports, ghostVars
  <2>4. \A x \in Clients : reports[x] # Nothing => reports'[x] # Nothing
    BY <2>2, <2>3, NothingAssumption DEF Replaced
  <2> QED BY <1>2, <2>3, <2>4, NewListPreservesShown
<1> QED BY <1>3, <1>4, <1>5, <1>6

LEMMA NetworkKeepsShown ==
    ASSUME MobileInv, MobileSyncTypeOK', ShownInv, NetworkReturns
    PROVE  ShownInv'
<1>1. PICK copies : copies = [c \in Pending(ref) |-> ref[c]]
  OBVIOUS
<1>2. PICK started : started = [c \in Startable(copies) |-> Syncing(copies)[c]]
  OBVIOUS
<1>3. /\ DOMAIN copies \subseteq Clients /\ Startable(copies) \subseteq DOMAIN copies
      /\ \A c \in DOMAIN copies : copies[c] \in Report /\ ref[c] # Nothing
  BY <1>1 DEF Pending, Startable, MobileInv, MobileSyncTypeOK, Lists
<1>4. mounting = Nothing
  <2>1. \E c \in Clients : ref[c] # Nothing
    BY <1>1, <1>3 DEF NetworkReturns
  <2> QED BY <2>1, AppHasStarted DEF ShownInv
<1>5. /\ reports' = Replaced(reports, started) /\ toStore' = reports' /\ mounting' = Nothing
      /\ UNCHANGED <<server, torn, latest, deleted>>
  BY <1>1, <1>2, <1>4 DEF NetworkReturns, SetReports, ghostVars
<1>6. \A c \in DOMAIN copies : Syncing(copies)[c] # Nothing
  BY <1>3, NothingAssumption DEF Syncing, Report
<1>7. \A c \in Clients : reports[c] # Nothing => reports'[c] # Nothing
  BY <1>2, <1>3, <1>5, <1>6 DEF Replaced
<1> QED BY <1>4, <1>5, <1>7, NewListPreservesShown

LEMMA ListKeepsShown ==
    ASSUME MobileInv, MobileSyncTypeOK', ShownInv, ApplyList
    PROVE  ShownInv'
<1>1. mounting = Nothing
  BY DEF ApplyList, MobileInv, ListingWaits
<1>2. toStore' = reports' /\ mounting' = Nothing /\ UNCHANGED <<server, torn, latest, deleted>>
  BY <1>1 DEF ApplyList, SetReports, ghostVars
<1>3. ASSUME NEW c \in Clients, reports[c] # Nothing
      PROVE  reports'[c] # Nothing \/ server[c] # Nothing
  <2>1. listing.rows \in StoredReports /\ listing.rows[c] \in {server[c], Nothing}
    BY DEF ApplyList, MobileInv, MobileSyncTypeOK, Listing, ReportInv, AnswerIsStored
  <2>2. reports[c] \in Report /\ reports[c] \in Copies(c)
    BY <1>3 DEF MobileInv, MobileSyncTypeOK, Lists, Copies
  <2>3. KeepsLocal(reports[c]) \/ Submitted(reports[c])
    BY <1>3, <2>2 DEF KeepsLocal, Submitted, Report
  <2>4. CASE Submitted(reports[c])
    BY <2>2, <2>4 DEF MobileInv, ReportInv, AnswerIsStored
  <2>5. CASE KeepsLocal(reports[c]) /\ listing.rows[c] = Nothing
    BY <1>3, <2>5 DEF ApplyList, SetReports
  <2> QED BY <2>1, <2>3, <2>4, <2>5
<1> QED BY <1>1, <1>2, <1>3, NewListPreservesShown

LEMMA StorageKeepsShown ==
    ASSUME MobileInv, ShownInv, LoadReports \/ CatchUp \/ Persist
    PROVE  ShownInv'
<1>1. CASE LoadReports
  <2>1. /\ Shown' = Shown /\ Kept' = Kept /\ StartsEmpty'
        /\ UNCHANGED <<server, latest, deleted, torn>>
    BY <1>1 DEF LoadReports, Shown, Kept, StartsEmpty, ghostVars
  <2> QED BY <2>1 DEF ShownInv, ShownIsKept, NotDropped, Saved
<1>2. CASE CatchUp
  <2>1. UNCHANGED <<reports, toStore, stored, mounting, latest, deleted, torn, server>>
    BY <1>2 DEF CatchUp, ghostVars
  <2>2. mounting # Nothing => ref' = EmptyList /\ ops' = ops
    BY <1>2 DEF CatchUp, ShownInv, StartsEmpty
  <2> QED BY <2>1, <2>2, QuietPreservesShown
<1>3. CASE Persist
  <2>1. /\ Shown' = Shown /\ Kept' = Kept /\ StartsEmpty'
        /\ UNCHANGED <<server, latest, deleted, torn>>
    BY <1>3 DEF Persist, Shown, Kept, StartsEmpty, ShownInv, ghostVars
  <2> QED BY <2>1 DEF ShownInv, ShownIsKept, NotDropped, Saved
<1> QED BY <1>1, <1>2, <1>3

LEMMA RestartKeepsShown ==
    ASSUME MobileInv, ShownInv, Restart
    PROVE  ShownInv'
<1>1. /\ reports' = EmptyList /\ ref' = EmptyList /\ toStore' = Nothing /\ mounting' = stored
      /\ ops' = [c \in Clients |-> Nothing] /\ UNCHANGED <<stored, server, latest, deleted>>
  BY DEF Restart
<1>2. stored # Nothing
  BY NothingAssumption DEF MobileInv, MobileSyncTypeOK
<1>3. Shown' = stored /\ Kept' = stored /\ StartsEmpty'
  BY <1>1, <1>2 DEF Shown, Kept, StartsEmpty
<1>4. ASSUME NEW c \in Clients PROVE NotDropped(c)'
  <2>1. Shown[c] = stored[c] \/ c \in torn'
    BY DEF Restart, Kept, ShownInv, ShownIsKept
  <2>2. c \in torn => c \in torn'
    BY DEF Restart
  <2> QED BY <1>1, <1>3, <2>1, <2>2 DEF ShownInv, NotDropped, Saved
<1> QED BY <1>3, <1>4 DEF ShownInv, ShownIsKept

LEMMA RemainingKeepShown ==
    ASSUME MobileInv, ShownInv,
           \/ RequestList \/ AnswerList \/ SignIn \/ Revoke \/ Leave \/ Expire
           \/ (\E submission \in adrift : CreateLate(submission))
           \/ UNCHANGED vars
    PROVE  ShownInv'
<1>1. UNCHANGED <<reports, ref, toStore, stored, mounting, ops, latest, deleted, torn>>
  <2>1. CASE RequestList \/ AnswerList
    BY <2>1 DEF RequestList, AnswerList, ghostVars
  <2>2. CASE SignIn \/ Revoke \/ Leave \/ Expire
    BY <2>2 DEF SignIn, Revoke, Leave, Expire, deviceVars, ghostVars
  <2>3. CASE \E submission \in adrift : CreateLate(submission)
    BY <2>3 DEF CreateLate, deviceVars, ghostVars
  <2>4. CASE UNCHANGED vars
    BY <2>4 DEF vars, deviceVars, ghostVars
  <2> QED BY <2>1, <2>2, <2>3, <2>4
<1>2. \A c \in Clients : server[c] # Nothing => server'[c] # Nothing
  <2>1. CASE \E submission \in adrift : CreateLate(submission)
    <3>1. PICK submission \in adrift : CreateLate(submission)
      BY <2>1
    <3>2. PICK c \in Clients, report \in Report : c = submission.client /\ report = submission.report
      BY DEF MobileInv, MobileSyncTypeOK, Submission
    <3>3. server' = server \/ server' = Created(c, report)
      BY <3>1, <3>2 DEF CreateLate
    <3> QED BY <3>3, ServerKeepsReports
  <2>2. CASE RequestList \/ AnswerList \/ SignIn \/ Revoke \/ Leave \/ Expire \/ UNCHANGED vars
    BY <2>2 DEF RequestList, AnswerList, SignIn, Revoke, Leave, Expire, vars
  <2> QED BY <2>1, <2>2
<1>3. mounting # Nothing => ref' = EmptyList /\ ops' = ops
  BY <1>1 DEF ShownInv, StartsEmpty
<1> QED BY <1>1, <1>2, <1>3, QuietPreservesShown

LEMMA StepPreservesShown ==
    ~SaveBeforeLoad /\ MobileInv /\ ShownInv /\ [Next]_vars => ShownInv'
<1> SUFFICES ASSUME ~SaveBeforeLoad, MobileInv, ShownInv, [Next]_vars
             PROVE  ShownInv'
  OBVIOUS
<1>1. MobileSyncTypeOK'
  BY StepPreservesMobile DEF MobileInv
<1>2. CASE Press
  BY <1>1, <1>2, PressKeepsShown
<1>3. CASE Synchronise
  BY <1>1, <1>3, SynchroniseKeepsShown DEF Synchronise
<1>4. CASE NetworkReturns \/ ApplyList
  BY <1>1, <1>4, NetworkKeepsShown, ListKeepsShown
<1>5. CASE LoadReports \/ CatchUp \/ Persist \/ Restart
  BY <1>5, StorageKeepsShown, RestartKeepsShown
<1>6. CASE \/ RequestList \/ AnswerList \/ SignIn \/ Revoke \/ Leave \/ Expire
           \/ (\E submission \in adrift : CreateLate(submission))
           \/ UNCHANGED vars
  BY <1>6, RemainingKeepShown
<1> QED BY <1>2, <1>3, <1>4, <1>5, <1>6 DEF Next

LEMMA InitEstablishesShown == Init => ShownInv
<1> SUFFICES ASSUME Init PROVE ShownInv
  OBVIOUS
<1>1. \A c \in Clients : EmptyList[c] = Nothing
  BY DEF EmptyList
<1>2. Shown = EmptyList /\ Kept = EmptyList
  BY DEF Init, Shown, Kept
<1>3. StartsEmpty
  BY DEF Init, StartsEmpty
<1> QED BY <1>1, <1>2, <1>3 DEF Init, ShownInv, ShownIsKept, NotDropped, Saved

(* No saved report disappears from the device before the server has it,    *)
(* whatever saveReport, replaceReport, refreshReports and a restart do in  *)
(* which order, and what is shown as submitted has been stored: provided   *)
(* that nothing is saved while the effect that loads the stored reports    *)
(* has not replaced the list (ReportsContext.tsx:42).                      *)
THEOREM MobileLosesNothing == ~SaveBeforeLoad => (Spec => []NothingLost)
<1>1. MobileInv /\ ShownInv => NothingLost
  <2>1. ASSUME MobileInv, ShownInv, NEW c \in Clients
        PROVE  /\ c \in Saved \ (deleted \cup torn) => Shown[c] # Nothing \/ server[c] # Nothing
               /\ Shown[c] # Nothing /\ Shown[c].status = "submitted" => server[c] # Nothing
    <3>1. Shown[c] \in Copies(c) \cup {stored[c]}
      BY <2>1 DEF ShownInv, ShownIsKept, Copies
    <3> QED BY <2>1, <3>1 DEF ShownInv, NotDropped, MobileInv, ReportInv, AnswerIsStored, Submitted
  <2>2. Saved \subseteq Clients
    BY DEF Saved
  <2> QED BY <2>1, <2>2 DEF NothingLost, MobileInv
<1>2. ASSUME ~SaveBeforeLoad PROVE Spec => []NothingLost
  <2>1. MobileInv /\ ShownInv /\ [Next]_vars => ShownInv'
    BY <1>2, StepPreservesShown
  <2> QED BY <1>1, <2>1, InitEstablishesShown, MobileInvariant, PTL DEF Spec
<1> QED BY <1>2
===============================================================================
