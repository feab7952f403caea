SPECIFICATION Spec
CONSTANTS
    c1 = c1
    c2 = c2
    Cycles <- TwoCycles
    History <- ShortHistory
    MaxBlocks = 4
    MaxPerBlock = 2
    Gaps <- NoGap
    Lag = 1
    BatchLimit = 2
    KnowsStart = TRUE
    Lookback = 1
    ClaimEnds = 3
    Budgets <- Overlapping
INVARIANT NothingPassedOver
SYMMETRY Symmetry
CHECK_DEADLOCK FALSE
