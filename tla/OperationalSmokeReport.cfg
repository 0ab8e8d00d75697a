SPECIFICATION Spec
CONSTANTS
    MaxPolls = 3
    MaxAttempts = 2
    MaxRuns = 1
    Garbled = Garbled
CHECK_DEADLOCK FALSE
INVARIANT ReportAgrees
