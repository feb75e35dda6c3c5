SPECIFICATION Spec
CONSTANTS
    ClientIds = {c1}
    Requests = {q1, q2, q3}
    Contents = {e1, e2}
    Statuses = {submitted, verified}
    Submitted = submitted
    Assignees = {nobody, alice}
    Unassigned = nobody
    Keep = Keep
    NoReport = NoReport
    MaxInFlight = 2
SYMMETRY RequestSymmetry
INVARIANT
    StatusAttested
CHECK_DEADLOCK FALSE
