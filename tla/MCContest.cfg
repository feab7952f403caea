SPECIFICATION Spec
CONSTANTS
    Participants = {p1, p2}
    Configs <- MCConfigs
    Prices = {1, 2}
    Funds = 3
    MaxRoiBps = 10000
    MaxTime = 3
    MaxHolding = 2
    MaxLeaderboards = 2
    MaxGifts = 1
    MaxCallbacks = 1
SYMMETRY Accounts
INVARIANTS
    Solvency
    SealedMeansScored
    BoardConsistent
    NoForfeitedPrize
    WayOut
PROPERTIES
    ResultsFinal
    AssetsOnlyToOwner
    EscrowSpec
CHECK_DEADLOCK FALSE
