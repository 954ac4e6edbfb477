SPECIFICATION SessionsSpec
CONSTANTS
    Change = {s1, s2, p1, p2, r1}
    Nobody = Nobody
    Launch = {s1, s2}
    NewPassword = {p1, p2}
    Revocation = {r1}
    Login = {l1}
SYMMETRY SessionsSymmetry
INVARIANTS AcknowledgedIsDurable DriftIsFailed AcceptedIsIssuedSince PasswordInForce StoredIsReadable
PROPERTIES ImplementsAtomicStore
CHECK_DEADLOCK FALSE
