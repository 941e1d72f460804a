CONSTANTS
    a = a
    b = b
    c = c
    d = d
    Tasks = {a, b, c, d}
    MaxBatch = 2
SPECIFICATION Spec
SYMMETRY Symmetry
INVARIANTS
    SchedulerSound
PROPERTIES
    
    StablePriorities
