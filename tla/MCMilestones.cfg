SPECIFICATION FairSpec
CONSTANTS
    p1 = p1
    p2 = p2
    m1 = m1
    Processes <- TwoProcesses
    Milestones <- OneMilestone
    MaxAttempts = 2
    EventRetries = 2
    Scenarios <- AllScenes
INVARIANTS BooksAreTrue RepetitionsPaidFor NeverGone
PROPERTY AttemptsRunOut
CHECK_DEADLOCK FALSE
