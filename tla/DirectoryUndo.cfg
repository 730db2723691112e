SPECIFICATION Spec
CONSTANTS
    Items = {1, 2}
    Kinds <- CreateAndUpdate
    Keys = {k1}
    Workers = {w1, w2}
    MaximumAttempts = 3
    MaxFaults = 2
    MaxRevision = 2
    AttemptsById = TRUE
CHECK_DEADLOCK FALSE
INVARIANT MappedTargetIsOwned
