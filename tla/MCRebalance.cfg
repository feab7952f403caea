SPECIFICATION FairSpec
CONSTANTS
    u1 = u1
    base = base
    quote = quote
    other = other
    Users = {u1}
    Base = base
    Quote = quote
    Other = other
    Intents <- MCIntents
    MaxTradeAmount = 10
    Window = 2
    Deadline = 1
    ToleranceBps = 0
    RegistrationEnds = 1
    LiveEnds = 4
    Holding <- MCHolding
    MaxTime = 5
    Rates = {1, 2}
    Outs = {1, 2, 4}
    Overlap = 2
    Scenarios <- MCScenarios
INVARIANT TradesWereJudged
PROPERTIES VaultIsSafe PanelAnswers
CHECK_DEADLOCK FALSE
