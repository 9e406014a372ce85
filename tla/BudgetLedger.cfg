\* A root and its child; a turn of the child with a provider call in it, and a
\* rival of that call with a service of its own.
SPECIFICATION Spec
CONSTANTS
    root = root
    child = child
    turn = turn
    call = call
    e1 = e1
    e2 = e2
    e3 = e3
    p = p
    q = q
    Agents = {root, child}
    Kids = {child}
    Parent <- MCParent
    Limit <- MCLimit
    Ceiling <- MCCeiling
    Retained <- MCRetained
    Calls = {turn, call}
    Turns = {turn}
    AgentOf <- MCAgentOf
    Execs = {e1, e2, e3}
    CallOf <- MCCallOf
    Outer <- MCOuter
    Services = {p, q}
    ServiceOf <- MCServiceOf
    Host = p
    Desk = q
    MaxAsk = 1
    MaxRequests = 1
    MaxCancels = 1
    MaxFaults = 1
INVARIANTS TypeOK Solvent LedgerReplays CallsAreFunded HoldsAreSettled
CHECK_DEADLOCK FALSE
