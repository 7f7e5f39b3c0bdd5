\* The limiter: two authors, three windows, less than two cooldowns.  The files: two
\* runs or writers at once.  The walk: chains longer than MaxDepth.  The hook: three
\* rooms, texts over their budgets, messages that alone fill the output.
CONSTANTS
    a1 = a1
    a2 = a2
    Author = {a1, a2}
    Window = 1
    Max = 2
    Cooldown = 3
    MaxClock = 5
    Never = Never
    Proc = {1, 2}
    MaxRun = 3
    Writer = {1, 2}
    MaxWrite = 4
    Starter = {1, 2, 3}
    k1 = k1
    k2 = k2
    Seed = {k1, k2}
    t1 = t1
    t2 = t2
    Topic = {t1, t2}
    MaxTab = 3
    MaxPid = 5
    MaxDepth = 2
    MaxRoom = 3
    TextLen = {0, 1536, 4000}
    BodyLen = {12, 3000, 8192}
    MaxMessage = 3
SPECIFICATION PartsSpec
\* Every part ends.
CHECK_DEADLOCK FALSE
INVARIANTS WindowCap   FieldsKept OneIdentity NoneLeftBehind AsksAboutActive RightClaude NewestWithinCap
PROPERTY ImplementsLimiter
