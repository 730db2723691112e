SPECIFICATION Spec
CONSTANTS
    NoOne = NoOne
    Assignees = {p1}
    Clients = {c1}
    Requests = {q1}
    Grants = {1, 2, 3}
    Confirmations = {1, 2}
    Alerts = {a1}
    Callers = {u1, u2}
    AuthorizeTTL = 2
    CodeTTL = 1
    AccessTTL = 2
    RefreshTTL = 2
    ConfirmationTTL = 1
    MaxClock = 2
    MaxRevision = 2
SYMMETRY Symmetry
CHECK_DEADLOCK FALSE
INVARIANTS
    GrantsHaveConsent
    OneLiveGrant
    SessionIsBounded
    ConfirmedAsPrepared
