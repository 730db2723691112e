SPECIFICATION Spec
CONSTANTS
    None = None
    Assets = {a1, a2}
    People = {p1, p2}
    Departments = {d1}
    Callers = {c1, c2}
    Groups = {1}
    Bulks = {1}
    Inputs <- Requests
    SingleAssets = {a1}
    BulkAssets <- AllAssets
    Returns = {3}
    MaxAssignments = 3
    MaxTime = 2
    MaxCalls = 3
    MaxFaults = 1
SYMMETRY Symmetry
CHECK_DEADLOCK FALSE
INVARIANTS
    OneActiveRole
    UnwarnedOverlapsRaced
    GroupKeepsHolders
    BulkIsWhole
