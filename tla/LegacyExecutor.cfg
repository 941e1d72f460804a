CONSTANTS
    a = a
    b = b
    c = c
    d = d
    Tasks = {a, b, c, d}
SPECIFICATION FairSpec
INVARIANTS
    CallSound
PROPERTIES
    ImplementsBuild
    ReturnsWithAllSpecs
