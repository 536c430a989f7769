\* Everything at once, one failing call per request, one crash.
CONSTANTS
    None = None
    b1 = b1
    c1 = c1
    r1 = r1
    r2 = r2
    r3 = r3
    Seeded = {b1}
    Req = {r1, r2, r3}
    Content = {b1, c1}
    Ops = {"create", "upload", "delete", "restore", "delete_file", "update", "import"}
    Overlap <- Everything
    MaxInFlight = 2
    FaultsPerReq = 1
    MaxCrashes = 1
SPECIFICATION Spec
SYMMETRY ReqSymmetry
\* Clients send finitely many requests, and then nothing happens.
CHECK_DEADLOCK FALSE
INVARIANTS
    UniqueContent
    FilesKept
    UploadKept
    IInv
