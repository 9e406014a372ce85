\* Liveness: one message, and the same troubles.
SPECIFICATION FairSpec
CONSTANTS
    Process = {p, q}
    MaxMessages = 1
    MaxFaults = 1
    MaxInterrupts = 1
    MaxStops = 1
PROPERTIES WorkSettles
CHECK_DEADLOCK FALSE
