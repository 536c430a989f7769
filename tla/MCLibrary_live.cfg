\* Every request is answered, whoever waits for SQLite's write lock.
CONSTANTS
    None = None
    b1 = b1
    c1 = c1
    r1 = r1
    r2 = r2
    Seeded = {b1}
    Req = {r1, r2}
    Content = {b1, c1}
    Ops = {"create", "upload", "delete", "restore", "delete_file", "update", "import"}
    Overlap <- Everything
    MaxInFlight = 2
    FaultsPerReq = 1
    MaxCrashes = 1
SPECIFICATION FairSpec
\* Clients send finitely many requests, and then nothing happens.
CHECK_DEADLOCK FALSE
PROPERTIES
    Answered
