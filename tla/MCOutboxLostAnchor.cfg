SPECIFICATION Spec
CONSTANTS
    Keys = {k1}
    Hashes = {h1}
    Addresses = {signer}
    Kinds = {0, 1}
    MaxRevision = 1
    MaxLedger = 3
    MinTtl = 10
    Threshold = 2
    ExtendTo = 10
    NoHash = NoHash
    Workers = {w1, w2}
    MaxAttempts = 2
    MaxClaims = 3
    MaxTx = 2
    MaxCrashes = 0
    MaxRetries = 0
SYMMETRY WorkerSymmetry
INVARIANT AnchoredIsNotLost
CHECK_DEADLOCK FALSE
