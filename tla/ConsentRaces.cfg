\* Two Claudes, a foreign room and one they may create, one request and two accepts of
\* it; a newer release shares the home directory.  PIDs are not reused.
CONSTANTS
    c1 = c1
    c2 = c2
    r1 = r1
    r2 = r2
    k1 = k1
    a1 = a1
    a2 = a2
    Claude = {c1, c2}
    Topic = {r1, r2}
    Foreign = {r1}
    Token = {k1}
    Accepter = {a1, a2}
    MaxIncarnation = 1
    NewerBinary = TRUE
    NoFile = NoFile
    NoToken = NoToken
    NoRequest = NoRequest
SPECIFICATION Spec
SYMMETRY Interchangeable
\* The world may end with every PID used up and nothing left to do.
CHECK_DEADLOCK FALSE
INVARIANTS BindingsGranted SingleWinner
PROPERTIES ImplementsConsent SweepSparesTheLiving
