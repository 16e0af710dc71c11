SPECIFICATION FairSpec
CONSTANTS
    NumGoals = 3
    Bidders = {"a1"}
    Workers = {"w1"}
    Direct = {3}
    MaxTasks = 1
    MaxBidRetries = 2
    Twice = {1}
    Sooner = {3}
INVARIANTS AuctionTypeOK WorkedInOrder Attended NoPhantomLoad
PROPERTIES NeverReassigned EveryGoalSettles
