SPECIFICATION FairSpec
CONSTANTS
    c1 = c1
    c2 = c2
    Cycles <- OneCycle
    History <- TwoPhases
    MaxBlocks = 3
    MaxPerBlock = 2
    Gaps <- NoGap
    Lag = 0
    BatchLimit = 1
    KnowsStart = TRUE
    Lookback = 1
    ClaimEnds = 3
    Budgets <- OneAtATime
INVARIANT PhaseCovers
PROPERTIES EventuallyIngested EventuallyLive
CHECK_DEADLOCK FALSE
