\* Two turns of up to two steps and two attempts, with one cancellation, one
\* store fault and one crash.
SPECIFICATION Spec
CONSTANTS
    MaxSteps = 2
    MaxAttempts = 2
    MaxRetries = 1
    HasVerifier = TRUE
    MaxTurns = 2
    MaxCancels = 1
    MaxFaults = 1
    MaxCrashes = 1
INVARIANTS TypeOK OwnerLeavesNothingOpen HistoryStaysLegal RecoveryRepairs
           EndsAreTrue
CHECK_DEADLOCK FALSE
