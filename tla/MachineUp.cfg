\* Two sessions of a room, one after the other or both at once, or a host; one clear,
\* and one sweep.
CONSTANTS
    s1 = s1
    s2 = s2
    h1 = h1
    Session = {s1, s2}
    Path = {1, 2, 3, 4, 5, 6}
    NoPath = 0
    MaxSweeps = 1
    Host = {h1}
    NoHost = NoHost
    Apart = TRUE
SPECIFICATION Spec
\* Every process may have ended.
CHECK_DEADLOCK FALSE
INVARIANTS NothingLeaked FailedLeavesNone ReadyIsListed StoppedIsGone
PROPERTIES OwnSocketOnly ReachableAtLast
