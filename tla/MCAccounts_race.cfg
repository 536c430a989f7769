\* Requests of all kinds that overlap, and one crash.
CONSTANTS
    None = None
    p1 = p1
    p2 = p2
    n1 = n1
    n2 = n2
    r1 = r1
    r2 = r2
    r3 = r3
    Req = {r1, r2, r3}
    Name = {n1, n2}
    Password = {p1, p2}
    Inputs <- MCInputs
    OldNames = {n1}
    Ops = {"setup", "login", "logout", "change", "settings"}
    MaxInFlight = 3
    MaxCrashes = 1
SPECIFICATION Spec
SYMMETRY RequestSymmetry
\* Clients send finitely many requests, and then nothing happens.
CHECK_DEADLOCK FALSE
INVARIANTS
    OneAdmin
    Initialised
    SettingsSound
    SessionsCurrent
    IInv
