CONSTANTS
    Workers = 2
    Callers = {c1, c2, c3}
    Executors <- MCExecutors
    Capacity = 1
    MaxRequests = 4
    MaxAbandoned = 3
SPECIFICATION MCSpec
INVARIANTS
    PoolSound
    CallsSound
PROPERTIES
    EverybodyReturns
CHECK_DEADLOCK FALSE
