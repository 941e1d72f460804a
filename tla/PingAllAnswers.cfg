CONSTANTS
    Workers = 2
    Callers = {c1, c2}
    Executors <- MCExecutors
    Capacity = 1
    MaxRequests = 3
    MaxAbandoned = 1
SPECIFICATION MCSpec
INVARIANT PingAllAnswers
CHECK_DEADLOCK FALSE
