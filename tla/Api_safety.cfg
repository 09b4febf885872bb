SPECIFICATION Spec
CONSTANTS
    r1 = r1
    r2 = r2
    a = a
    b = b
    x = x
    None = None
    Users = {u1}
    Tokens = {t1}
    Threshold = 2
    LockPeriod = 2
    TokenTTL = 1
    MaxClock = 2
    Requests = {r1, r2}
    Items = {a, b}
    Alarms = {x}
    Scope <- MCScope
    Clients = {c1}
    SubBuffer = 1
    HistMaxLen = 2
    MaxEvents = 5
SYMMETRY Symmetry
INVARIANTS EditsSurvive LockHandedBack ViewTrue LockoutBounds
PROPERTIES CommitsOwn
CHECK_DEADLOCK FALSE
