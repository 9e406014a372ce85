\* One turn of up to two steps and two attempts, scheduled fairly, with one
\* cancellation, one store fault and one crash.
SPECIFICATION FairSpec
CONSTANTS
    MaxSteps = 2
    MaxAttempts = 2
    MaxRetries = 1
    HasVerifier = TRUE
    MaxTurns = 1
    MaxCancels = 1
    MaxFaults = 1
    MaxCrashes = 1
PROPERTIES OwnerReturns
CHECK_DEADLOCK FALSE
