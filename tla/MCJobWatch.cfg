SPECIFICATION FairWatch
CONSTANTS
    Paths <- TwoJobs
    WireBound = 1
CHECK_DEADLOCK FALSE
INVARIANT VerdictIsEarned
PROPERTY FollowSpec
PROPERTY FollowedToTheEnd
