\* Two requests at once, of two clients, over three windows.
CONSTANTS
    None = None
    r1 = r1
    r2 = r2
    k1 = k1
    k2 = k2
    Req = {r1, r2}
    Client = {k1, k2}
    Limit = 2
    Window = 2
    Delay = 1
    MaxTime = 7
SPECIFICATION Spec
SYMMETRY Symmetry
\* The clock stops.
CHECK_DEADLOCK FALSE
INVARIANTS
    TwiceTheLimit
PROPERTIES
    RefusedLate
