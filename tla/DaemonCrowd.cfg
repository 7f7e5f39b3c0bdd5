\* Everybody at once: two starts, a list, a stop, a hook, any fault.
CONSTANTS
    d1 = d1
    d2 = d2
    s1 = s1
    s2 = s2
    l1 = l1
    k1 = k1
    h1 = h1
    Daemon = {d1, d2}
    Starter = {s1, s2}
    Lister = {l1}
    Stopper = {k1}
    Hook = {h1}
    Fault = {"crash", "session", "timeout", "launcher"}
    MaxFaults = 1
    NoFile = NoFile
    Torn = Torn
    NoDaemon = NoDaemon
SPECIFICATION Spec
SYMMETRY Interchangeable
\* The daemon processes the bound allows may all be used up.
CHECK_DEADLOCK FALSE
INVARIANTS ActiveMeansUp ListedMeansServing
