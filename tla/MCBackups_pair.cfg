\* Two backups, one after the other or at once, beside uploads.
CONSTANTS
    None = None
    b1 = b1
    c1 = c1
    r1 = r1
    k1 = k1
    k2 = k2
    Seeded = {b1}
    Req = {r1}
    Content = {b1, c1}
    Ops = {"create", "upload"}
    Overlap <- Everything
    MaxInFlight = 1
    FaultsPerReq = 1
    MaxCrashes = 1
    Backup = {k1, k2}
    MaxClock = 3
    Retention = 1
    FaultsPerBackup = 1
SPECIFICATION BSpec
SYMMETRY Symmetry
\* Clients send finitely many requests, and then nothing happens.
CHECK_DEADLOCK FALSE
INVARIANTS
    Retained
    SnapshotArchived
