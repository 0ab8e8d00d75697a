SPECIFICATION Spec
CONSTANTS
    MaxPolls = 60
    MaxAttempts = 2
CHECK_DEADLOCK FALSE
INVARIANTS
    TypeOK
    NoSilentPod
    SuccessIsClean
    DeleteBudget
    KeptPodSurvives
    PassedIsServed
    ProbeBeforeDelete
PROPERTY ScriptEnds
