SPECIFICATION Spec
CONSTANTS
    ClientIds = {c1}
    Requests = {q1, q2, q3, q4}
    Contents = {e1, e2}
    Statuses = {submitted, verified}
    Submitted = submitted
    Assignees = {nobody, alice}
    Unassigned = nobody
    Keep = Keep
    NoReport = NoReport
    MaxInFlight = 4
SYMMETRY RequestSymmetry
INVARIANTS
    IdempotentCreate
    AcknowledgedIsChained
    ChainsComplete
    ReportMatchesChain
PROPERTIES
    ChainOnlyGrows
CHECK_DEADLOCK FALSE
