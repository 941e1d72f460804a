CONSTANTS
    a = a
    Tasks = {a}
    Handles = {h1}
    MaxCommands = 2
SPECIFICATION FairSpec
PROPERTY ResumeWakes
CHECK_DEADLOCK FALSE
