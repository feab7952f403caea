SPECIFICATION FairSpec
CONSTANTS
    u1 = u1
    u2 = u2
    org = org
    Users <- TwoUsers
    Organizer = org
    Capacity = 1
    RegistrationEnds = 1
    LiveEnds = 2
    ClaimsFrom = 3
    MaxTime = 3
    Approved <- TwoUsers
    Overlap = 2
    Scenarios <- MCScenarios
INVARIANT NeverAhead
PROPERTIES RevertsAreRaces NothingHangs
CHECK_DEADLOCK FALSE
