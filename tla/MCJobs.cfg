SPECIFICATION FairSpec
CONSTANTS
    Jobs = {j1, j2}
    NoJob = NoJob
    PageBuffer = 1
    MaxPages = 2
    StreamBuffer = 1
    Attempts = 1
INVARIANT JobsAgree
PROPERTY NoPageIsLost
PROPERTY JobsLeaveTheBus
PROPERTY BudgetRunsOut
