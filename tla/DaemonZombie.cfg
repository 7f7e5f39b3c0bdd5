\* A stop, under fairness.
CONSTANTS
    d1 = d1
    s1 = s1
    k1 = k1
    Daemon = {d1}
    Starter = {s1}
    Lister = {}
    Stopper = {k1}
    Hook = {}
    Fault = {}
    MaxFaults = 0
    NoFile = NoFile
    Torn = Torn
    NoDaemon = NoDaemon
SPECIFICATION FairSpec
\* The daemon processes the bound allows may all be used up.
CHECK_DEADLOCK FALSE
PROPERTY DrainEnds
