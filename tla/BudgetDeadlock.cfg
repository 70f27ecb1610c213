SPECIFICATION FairBudgetSpec
CONSTANTS
    Served = {"r1", "r2"}
    NoRequest = "no"
    Tests = {"t1"}
    Budgets = {1, 4}
CHECK_DEADLOCK FALSE
PROPERTY EveryRequestEnds
