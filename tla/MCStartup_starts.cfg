\* Three starts that overlap, follow one another and are killed, and two power
\* failures, on a new database and on those of earlier releases.
CONSTANTS
    s1 = s1
    s2 = s2
    s3 = s3
    Old = Old
    None = None
    Start = {s1, s2, s3}
    MaxPowerLosses = 2
SPECIFICATION DSpec
SYMMETRY Symmetry
\* The server is started finitely often.
CHECK_DEADLOCK FALSE
INVARIANTS
    Recorded
    Ready
    OneGoesOn
    Agreement
    CreatedLasts
    NeverTorn
PROPERTIES
    PromiseKept
