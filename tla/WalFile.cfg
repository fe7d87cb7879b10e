SPECIFICATION Spec
CONSTANTS
    Failures = TRUE
    MaxRecords = 3
    MaxCrashes = 2
INVARIANTS PromisedSurvives CutReplays
PROPERTIES ImplementsDurableLog
CHECK_DEADLOCK FALSE
