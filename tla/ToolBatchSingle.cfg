\* One call, one cancellation.
SPECIFICATION Spec
CONSTANTS
    N = 1
    Reads = {}
    MaxCancels = 1
    MaxFaults = 0
    MaxCrashes = 0
INVARIANTS SingleResult
CHECK_DEADLOCK FALSE
