\* One scan beside two requests of any kind but two imports, one with a
\* failing call.
CONSTANTS
    None = None
    b1 = b1
    c1 = c1
    r1 = r1
    r2 = r2
    Seeded = {b1}
    Req = {r1, r2}
    Content = {b1, c1}
    Ops = {"upload", "delete", "restore", "delete_file", "update", "create", "import"}
    Overlap <- Everything
    MaxInFlight = 2
    FaultsPerReq = 1
    MaxCrashes = 0
SPECIFICATION ScanSpec
SYMMETRY ReqSymmetry
\* Clients send finitely many requests, and then nothing happens.
CHECK_DEADLOCK FALSE
INVARIANTS
    NoFalseAlarm
    NothingMissed
