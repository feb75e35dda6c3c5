SPECIFICATION Spec
CONSTANTS
    k1 = k1
    k2 = k2
    Keys = {k1, k2}
    Subjects = {s1, s2}
    Policies <- GatePolicies
    Payloads = {}
    Signatures = {g1}
    Requests = {q1, q2, q3, q4}
    None = None
    MaxInFlight = 2
SYMMETRY GateSymmetry
INVARIANTS
    OpenedByItsPolicy
CHECK_DEADLOCK FALSE
