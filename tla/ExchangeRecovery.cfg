SPECIFICATION FairSpec
CONSTANTS
    w1 = w1
    w2 = w2
    r1 = r1
    r2 = r2
    Worker = {w1, w2}
    Record = {r1}
    Order <- OneRecord
    Deps <- NoDeps
    Blocked = {}
    Owned = {"free", "locked"}
    Faults = {"store", "provider", "verify", "guard", "lookup", "audit", "schema", "unlink", "crash", "stall", "claim"}
    MaxFaults = 2
    MaxUpdates = 30
INVARIANTS
    OneLeaseHolder
    ReportedLockExists
    NoPhantomFence
PROPERTIES
    ImportCompletes
    OutcomesArePermanent
    ClaimIsFinal
    ExistingLockIsKept
CHECK_DEADLOCK FALSE
