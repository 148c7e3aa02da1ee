\* Every command runs once, so the system stops when all of them are done.
CONSTANTS
    c1 = c1
    c2 = c2
    c3 = c3
    Commands <- ThreeCommands
    MaxConnections = 2
    MaxWorkers = 1
    NoOne = NoOne
SPECIFICATION FairSpecOfMixes
INVARIANTS PoolIsSound DestructiveWorkIsAlone
PROPERTIES ImplementsGate EveryCommandEnds
CHECK_DEADLOCK FALSE
