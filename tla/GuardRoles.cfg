SPECIFICATION Spec
CONSTANTS
    None = None
    First = first
    External = {x1}
    Custom = {r1}
    Ids = {1, 2, 3}
    Callers = {c1, c2}
    MaxFaults = 2
SYMMETRY Symmetry
CHECK_DEADLOCK FALSE
INVARIANTS
    AuditAgrees
PROPERTY LockedOutByProviderOnly
