\* An accept overlaps another writer of the same rooms.json.
CONSTANTS
    c1 = c1
    r1 = r1
    r2 = r2
    k1 = k1
    a1 = a1
    Claude = {c1}
    Topic = {r1, r2}
    Foreign = {r1}
    Token = {k1}
    Accepter = {a1}
    MaxIncarnation = 1
    NewerBinary = FALSE
    NoFile = NoFile
    NoToken = NoToken
    NoRequest = NoRequest
SPECIFICATION Spec
\* The world may end with every PID used up and nothing left to do.
CHECK_DEADLOCK FALSE
INVARIANTS AcceptedStaysBound
