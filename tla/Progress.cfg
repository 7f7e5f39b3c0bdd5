\* One start at a time, again and again, after the last fault too; one hook, two rooms;
\* two advances.
CONSTANTS
    d1 = d1
    d2 = d2
    d3 = d3
    d4 = d4
    s1 = s1
    Daemon = {d1, d2, d3, d4}
    Starter = {s1}
    Lister = {}
    Stopper = {}
    Hook = {}
    Fault = {"crash", "session", "timeout"}
    MaxFaults = 3
    NoFile = NoFile
    Torn = Torn
    NoDaemon = NoDaemon
    h1 = h1
    r1 = r1
    r2 = r2
    Prompter = {h1}
    Room = {r1, r2}
    MaxId = 4
    Budget = 2
    p1 = p1
    p2 = p2
    a = a
    i1 = i1
    i2 = i2
    i3 = i3
    i4 = i4
    Proc = {p1, p2}
    CursorId = {a}
    Inode = {i1, i2, i3, i4}
    RaceRetryLimit = 2
    NoId = NoId
    NoInode = NoInode
    NoProc = NoProc
SPECIFICATION PartsSpec
\* The daemon processes the bound allows, and the ids, may all be used up.
CHECK_DEADLOCK FALSE
INVARIANTS SoleSession ParkedIsListed 
PROPERTIES ServedAtLast AllPassed AdvanceReturns
