\* Three machines, two messages, answers of at most one message, one session that ends.
CONSTANTS
    p1 = p1
    p2 = p2
    p3 = p3
    Peer = {p1, p2, p3}
    MaxId = 2
    Limit = 1
    MaxEnds = 1
    MaxLost = 1
    NoPeer = NoPeer
SPECIFICATION Spec
SYMMETRY Interchangeable
\* All messages may be sent and all sessions up.
CHECK_DEADLOCK FALSE
INVARIANTS JoinLosesNothing CopiesBounded
PROPERTY ImplementsRoom
