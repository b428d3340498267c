SPECIFICATION Spec
CONSTANTS
    r1 = r1
    r2 = r2
    Runs = {r1, r2}
    Budget <- MCBudget
    MaxParseRetries = 1
    Gates <- MCGates
    Lists <- MCLists
    None = None
INVARIANTS
    TypeOK
    ReportCountsAllCalls
    CostIsOfTheRun
    LogMatchesReport
CHECK_DEADLOCK FALSE
