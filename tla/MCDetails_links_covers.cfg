\* Three requests, two at once, one call that fails; of three no more than two
\* make a book, and two only beside authors and tags.
CONSTANTS
    None = None
    s = s
    r1 = r1
    r2 = r2
    r3 = r3
    n1 = n1
    n2 = n2
    jpg = jpg
    png = png
    Seeded = {s}
    Req = {r1, r2, r3}
    Name <- Names
    FirstName = n1
    Ext <- Extensions
    Imported <- Files
    Ops = {"create", "update", "add_file", "cover", "import", "create_term", "rename_term", "delete_term"}
    MaxInFlight = 2
    MaxFaults = 1
SPECIFICATION DetailsSpec
SYMMETRY ReqSymmetry
\* Clients send finitely many requests, and then nothing happens.
CHECK_DEADLOCK FALSE
INVARIANTS
    LinksResolve
    LinksOwned
    MetadataCurrent
    CoverThere
    CoverCurrent
    
