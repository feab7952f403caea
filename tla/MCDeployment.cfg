SPECIFICATION FairSpec
CONSTANTS
    t1 = t1
    t2 = t2
    k1 = k1
    k2 = k2
    Tabs <- TwoTabs
    k3 = k3
    Keys <- ThreeKeys
    First <- MCFirst
    Requests <- TwoRequests
    MaxVaults = 2
    MaxEntrants = 1
    Scenarios <- MCScenarios
INVARIANT CatalogueIsTrue
PROPERTIES NothingUndone FundedIsConfirmed
CHECK_DEADLOCK FALSE
