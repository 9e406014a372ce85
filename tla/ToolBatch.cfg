\* A write, two parallel reads and a write; one cancellation, one store fault,
\* one crash.
SPECIFICATION FairSpec
CONSTANTS
    N = 4
    Reads = {2, 3}
    MaxCancels = 1
    MaxFaults = 1
    MaxCrashes = 1
INVARIANTS TypeOK WritesRunAlone EveryCallAnswered
PROPERTIES DispatchOnRecord BatchReturns
CHECK_DEADLOCK FALSE
