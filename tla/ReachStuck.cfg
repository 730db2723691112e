SPECIFICATION FairSpec
CONSTANTS
    NoOne = NoOne
    Signals = {1, 2}
    Manual = {}
    Callers = {c1}
    MaximumAttempts = 2
    Routes = {TRUE, FALSE}
    MaxEvents = 1
CHECK_DEADLOCK FALSE
PROPERTIES
    DeliveriesEnd
