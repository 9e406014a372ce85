\* Two patches and two services; the first review may be approved by either of
\* two operations.
SPECIFICATION FairSpec
CONSTANTS
    p = p
    q = q
    r1 = r1
    r2 = r2
    o1 = o1
    o2 = o2
    o3 = o3
    Services = {p, q}
    Requests = {r1, r2}
    Patch <- MCPatch
    Ops = {o1, o2, o3}
    ReviewOf <- MCReviewOf
    MaxTries = 2
    MaxCalls = 3
    MaxMoves = 1
    MaxFaults = 1
INVARIANTS TypeOK RecordsAreTrue AnswersAreTrue
PROPERTIES MovesAreApproved LandedIsRecorded
CHECK_DEADLOCK FALSE
