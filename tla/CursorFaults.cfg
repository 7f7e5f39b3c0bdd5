CONSTANTS
    Proc = {p1, p2}
    Reader = {r1}
    Id = {a, b}
    Inode = {i1, i2, i3, i4}
    RaceRetryLimit = 2
    Faulty = TRUE
    NoId = NoId
    NoInode = NoInode
    NoProc = NoProc
SPECIFICATION Spec
SYMMETRY Interchangeable
INVARIANTS RenamesExclusive LostToRenames
PROPERTY ImplementsRegister
