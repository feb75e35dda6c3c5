SPECIFICATION FairSpec
CONSTANTS
    Ingestors = {p1, p2}
    StartLedger = 3
    PageLimit = 2
    MaxEvents = 3
    MaxLedger = 4
    MaxFailures = 1
INVARIANT ArchiveIsSound
PROPERTIES
    EventsAreArchived
    GapIsSignalled
CHECK_DEADLOCK FALSE
