\* All operations: overlaps of those that can stand each other, and one failing
\* call in a request, which it takes back undisturbed.
CONSTANTS
    None = None
    b1 = b1
    c1 = c1
    r1 = r1
    r2 = r2
    r3 = r3
    r4 = r4
    Seeded = {b1}
    Req = {r1, r2, r3, r4}
    Content = {b1, c1}
    Ops = {"create", "upload", "delete", "restore", "delete_file", "update", "import"}
    Overlap <- Harmless
    MaxInFlight = 3
    FaultsPerReq = 1
    MaxCrashes = 0
SPECIFICATION CalmSpec
SYMMETRY ReqSymmetry
\* Clients send finitely many requests, and then nothing happens.
CHECK_DEADLOCK FALSE
INVARIANTS
    JobsTruthful
    Consistent
