\* Two processes, two messages; one store failure, one interrupt, one dispose or
\* crash.  With everything settled the system may rest.
SPECIFICATION Spec
CONSTANTS
    Process = {p, q}
    MaxMessages = 2
    MaxFaults = 1
    MaxInterrupts = 1
    MaxStops = 1
SYMMETRY Processes
INVARIANTS TypeOK RunsOnceInOrder ClaimsAreSettled
CHECK_DEADLOCK FALSE
