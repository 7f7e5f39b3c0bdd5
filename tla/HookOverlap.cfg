CONSTANTS
    Hook = {h1, h2}
    Room = {r1, r2}
    MaxId = 3
    Budget = 2
    InOrder = TRUE
    Faulty = TRUE
SPECIFICATION Spec
SYMMETRY Interchangeable
INVARIANTS NothingMissed
