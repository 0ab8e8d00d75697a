SPECIFICATION Spec
CONSTANTS
    MaxPolls = 60
    MaxAttempts = 2
CHECK_DEADLOCK FALSE
INVARIANT NoAccidentalPod
