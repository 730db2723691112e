SPECIFICATION Spec
CONSTANTS
    NoOne = NoOne
    Signals = {1}
    Manual = {2}
    Callers = {c1, c2}
    MaximumAttempts = 2
    Routes = {TRUE, FALSE}
    MaxEvents = 2
SYMMETRY Symmetry
CHECK_DEADLOCK FALSE
INVARIANTS
    LogAgrees
    DeliveredWasCalled
    OneCallPerAttempt
    CallsUnderClaim
    SignalsDelivered
    GivenUpAfterFailure
    AttemptsBounded
PROPERTIES
    DeliveredIsFinal
