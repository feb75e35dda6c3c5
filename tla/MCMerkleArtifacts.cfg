SPECIFICATION ArtifactSpec
CONSTANTS
    k1 = k1
    k2 = k2
    Keys = {k1, k2}
    Subjects = {s1}
    Policies <- GatePolicies
    Payloads <- MCPayloads
    Signatures = {g1}
    Requests = {q1, q2, q3, q4}
    None = None
    MaxInFlight = 2
    Items = {"a", "b", "c"}
    Batches <- MCBatches
    MaxBatches = 2
SYMMETRY ArtifactSymmetry
INVARIANTS
    ApprovalIsFounded
    SuccessfulApprovalIsRecorded
    BatchesAreProvable
PROPERTIES
    ClosesForRevisionOnly
CHECK_DEADLOCK FALSE
