SPECIFICATION Spec
CONSTANTS
    NoOne = NoOne
    AnyRule = AnyRule
    Assignees = {g1}
    Rules = {r1}
    Targets = {t1}
    Subscriptions = {s1, s2}
    Evaluators = {e1, e2}
    Operators = {o1}
    ForeignKeys = TRUE
    MaxCalls = 4
    MaxChanges = 4
    MaxFaults = 1
SYMMETRY Symmetry
CHECK_DEADLOCK FALSE
INVARIANTS
    HistoryAgrees
    EvaluationIsExact
    AnnouncedUnlessCut
PROPERTIES
    ImplementsLifecycle
