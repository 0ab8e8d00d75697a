SPECIFICATION Spec
CONSTANTS
    MaxPolls = 3
    MaxAttempts = 2
    MaxRuns = 2
    Garbled = Garbled
CHECK_DEADLOCK FALSE
INVARIANTS
    ResultTellsOfPod
    CompletedIsServed
    ReportTellsOfScenario
PROPERTY ScenarioEnds
