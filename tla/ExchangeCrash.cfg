SPECIFICATION Spec
CONSTANTS
    w1 = w1
    w2 = w2
    r1 = r1
    r2 = r2
    Worker = {w1}
    Record = {r1, r2}
    Order <- TwoRecords
    Deps <- ChainDeps
    Blocked = {r1}
    Owned = {"free", "claimed", "foreign"}
    Faults = {"store", "audit", "guard", "lookup", "provider", "verify", "schema", "unlink", "crash"}
    MaxFaults = 3
    MaxUpdates = 16
INVARIANTS
    OutcomesAreDurable
    CreatedWasWritten
    WritesAreAttributed
    CompletedIsAudited
PROPERTIES
    ReopenedAfterReport
CHECK_DEADLOCK FALSE
