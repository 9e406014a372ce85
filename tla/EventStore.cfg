\* Two processes on one database, a task each, two streams, empty batches and
\* batches of two, one crash; workers and callers are scheduled fairly.
SPECIFICATION FairSpec
CONSTANTS
    p1 = p1
    p2 = p2
    a1 = a1
    b1 = b1
    main = main
    other = other
    Stores = {p1, p2}
    Callers = {a1, b1}
    Streams = {main, other}
    StoreOf <- MCStoreOf
    MaxOps = 1
    BatchSizes = {0, 2}
    MaxCrashes = 1
INVARIANTS TypeOK AnswersAreTrue ClosedIsQuiet
PROPERTIES ImplementsAppendLog CallsReturn
CHECK_DEADLOCK FALSE
