SPECIFICATION EconomySpec
CONSTANTS
    Paths = {"p", "q"}
    Keys = {"me", "k"}
    MaxCap = 2
    MaxDepth = 3
    Calls = {"t1", "t2", "u1"}
    TaskOf <- Tasks
    Bounty <- Bounties
    Required <- Needed
    Me = "me"
    Own <- Mine
    OwnEnforced <- Mine
    Bundles <- Results
    Incomes = {"i", "j"}
    IncomeOf <- Amounts
    Other = "other"
    Total = 5
    MaxReplays = 1
    NoBundle = NoBundle
    Faults <- Unlucky
    Traders = {"a", "b", "c"}
    Seed <- Capital
    MarketTasks = {1, 2}
    MarketClaims = {"x", "y"}
    Stakes = {12, 24}
    Truths = {"x", "z"}
    RoundBudget = 1
    MaxSubmits = 3
CHECK_DEADLOCK FALSE
INVARIANTS MoneyExact PaidRightly CapitalFollowsTruth
PROPERTIES HoldsEnd
