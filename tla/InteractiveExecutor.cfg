CONSTANTS
    a = a
    b = b
    Tasks = {a, b}
    Handles = {h1, h2}
    MaxCommands = 3
SPECIFICATION FairSpec
INVARIANTS
    CommandsSound
PROPERTIES
    ImplementsBuild
    ExecutionEnds
CHECK_DEADLOCK FALSE
