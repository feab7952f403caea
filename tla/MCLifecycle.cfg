SPECIFICATION FairLifecycle
CONSTANTS
    Participants = {p1, p2}
    Configs <- MCConfigs
    Prices = {1}
    Funds = 1
    MaxRoiBps = 9999
    MaxTime = 2
    MaxHolding = 1
    MaxLeaderboards = 1
    MaxGifts = 2
    MaxCallbacks = 0
    MaxFailures = 1
PROPERTY EventuallySettled
CHECK_DEADLOCK FALSE
