SPECIFICATION FairSpec
CONSTANTS
    Couriers = {w1}
    MaxIncidents = 3
    MaxArchived = 1
    MaxAttempts = 2
    MaxFaults = 1
    Subjects = {a1}
    Defects = {"mismatch"}
    Reconcilers = {w1}
    BatchSize = 1
    AlertsConfigured = TRUE
    MaxChanges = 1
INVARIANT OperationsAreSound
PROPERTIES
    RowsEnd
    
    ArchiveFailureIsSignalled
CHECK_DEADLOCK FALSE
