SPECIFICATION FairSpec
CONSTANTS
    Keys = {k1}
    Hashes = {h1, h2}
    Addresses = {signer}
    Kinds = {0, 1}
    MaxRevision = 2
    MaxLedger = 4
    MinTtl = 10
    Threshold = 2
    ExtendTo = 10
    NoHash = NoHash
    Workers = {w1}
    MaxAttempts = 2
    MaxClaims = 5
    MaxTx = 3
    MaxCrashes = 1
    MaxRetries = 1
CONSTRAINT FirstContentGiven
INVARIANTS
    RegistryMatchesOutbox
    ConfirmedIsAnchored
    OutcomeRecoverable
    SubmittingIsRecoverable
PROPERTIES
    ImplementsLifecycle
    JobsEnd
CHECK_DEADLOCK FALSE
