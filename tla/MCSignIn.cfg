SPECIFICATION FairSpec
CONSTANTS
    t1 = t1
    t2 = t2
    w1 = w1
    w2 = w2
    Tabs <- TwoTabs
    Wallets <- TwoWallets
    NonceTtl = 1
    MaxAge = 2
    UpdateAge = 1
    MaxTime = 2
    Budget <- MCBudget
INVARIANT SessionsAreBacked
PROPERTIES OnlyRacesAndFaultsFail TabsSettle
CHECK_DEADLOCK FALSE
