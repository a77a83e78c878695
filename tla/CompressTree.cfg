\* One to five leaves, two workers, two provers, channels of one item.
CONSTANTS
    w1 = w1
    w2 = w2
    p1 = p1
    p2 = p2
    LeafSender = LeafSender
    TreeThread = TreeThread
    Workers = {w1, w2}
    Provers <- TwoProvers
    InputCapacity = 1
    TraceCapacity = 1
    MaxShards = 4
    MaxDeferred = 1
    MaxFaults = 2
SPECIFICATION FairSpec
INVARIANTS OkIsRoot FailureIsNotOk HealthyRunAccepts FrontierCoversLeaves
PROPERTIES Terminates
CHECK_DEADLOCK FALSE
