SPECIFICATION Spec
CHECK_DEADLOCK FALSE
CONSTANTS
    StderrIsError = TRUE
    MaxProbes = 1
    MaxPolls = 2
    MaxTries = 2
    MaxTime = 2
    MaxFaults = 1
    MaxCrashes = 1
INVARIANT
    SuccessIsReal
