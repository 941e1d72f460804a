CONSTANTS
    a = a
    b = b
    c = c
    Tasks = {a, b, c}
    MaxParallel = 2
    MaxCalls = 2
SPECIFICATION FairSpec
INVARIANTS
    FirstCallSound
    NoTaskOutlivesCall
PROPERTIES
    ImplementsBuild
    EveryCallEnds
