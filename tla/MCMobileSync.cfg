SPECIFICATION FairSpec
CONSTANTS
    r1 = r1
    Clients = {r1}
    Contents = {1, 2}
    Evidence <- MCEvidence
    Accepted = {"photo", "scan"}
    NoFile = NoFile
    Nothing = Nothing
    SaveBeforeLoad = FALSE
    MaxSessions = 2
    MaxFaults = 1
INVARIANTS
    
    DeletedIsGone
    ServerHasLatest
    EvidenceArrives
PROPERTIES
    QueuedIsSent
CHECK_DEADLOCK FALSE
