\* A root and its child.  Two parties call at a time: a host, and the turn of
\* the root, which may reach its child.  Four calls, one cancellation and one
\* failure, so that a create, its cancellation, a resume and a disposal, or
\* two disposals and a close, overlap in every order.
SPECIFICATION FairSpec
CONSTANTS
    root = root
    child = child
    Agents = {root, child}
    Owner <- OwnedByRoot
    Hosts = {h}
    MaxCalls = 4
    MaxCancels = 1
    MaxFaults = 1
INVARIANTS TypeOK ActivationsAreOwned
PROPERTIES DisposalIsComplete DisposalsReturn
CHECK_DEADLOCK FALSE
