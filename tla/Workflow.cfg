CONSTANTS
    Declared = {1, 2, 3, 4, 5}
    Children = {6, 7}
    Kind <- MCKind
    Preds <- MCPreds
    Parent <- MCParent
    Callers = {c1, c2}
    MaxCalls = 3
    MaxFaults = 1
    MaxCancels = 1
    MaxCrashes = 1
SPECIFICATION FairSpec
CHECK_DEADLOCK FALSE
INVARIANTS
    TypeOK
    HistoryIsReadable
    AnswersMatchHistory
PROPERTIES
    WorkIsOnRecord
    NothingFollowsAnOrphan
    RunsSettle
