CONSTANTS
    Hook = {h1, h2}
    Room = {r1}
    MaxId = 3
    Budget = 3
    InOrder = TRUE
    Faulty = FALSE
SPECIFICATION Spec
PROPERTY CursorNeverRegresses
