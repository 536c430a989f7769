\* Walks over three books in pages of one or two, from the first page, from one
\* beyond the end, and from the largest page number (an int of four bits).
CONSTANTS
    None = None
    b1 = b1
    b2 = b2
    b3 = b3
    Book = {b1, b2, b3}
    Page = {0, 1, 5, 7}
    Size = {0, 2, 3}
    DefaultSize = 1
    MaxSize = 2
    IntMax = 7
    MaxChanges = 3
    MaxSettings = 1
SPECIFICATION WalkSpec
SYMMETRY Symmetry
\* The walk ends.
CHECK_DEADLOCK FALSE
INVARIANTS
    TypeOK
    MissedAtMost
    RepeatedAtMost
    FailedForCause
    ListedBySecure
    Followable
