\* One turn, one cancellation, and nothing else goes wrong.
SPECIFICATION Spec
CONSTANTS
    MaxSteps = 1
    MaxAttempts = 1
    MaxRetries = 0
    HasVerifier = FALSE
    MaxTurns = 1
    MaxCancels = 1
    MaxFaults = 0
    MaxCrashes = 0
INVARIANTS CancelledTurnIsClosed
CHECK_DEADLOCK FALSE
