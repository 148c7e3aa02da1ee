CONSTANTS
    Videos = {v1, v2}
    Images = {i1}
    NumRequests = 3
    Concurrencies <- SmallPools
    VideoLimit = 1
    MaxPending = 2
    MaxWaiters = 2
SPECIFICATION FairSpec
INVARIANTS WorkIsAccountedFor NoLostWakeup
PROPERTIES HighPriorityFirst EveryCallerIsServed
CHECK_DEADLOCK FALSE
