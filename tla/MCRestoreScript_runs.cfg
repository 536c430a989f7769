\* Two runs, a command that fails, a kill and two signals.
CONSTANTS
    None = None
    Original = Original
    r1 = r1
    r2 = r2
    Run = {r1, r2}
    MaxFaults = 1
    MaxSignals = 2
    MaxKills = 1
SPECIFICATION Spec
SYMMETRY RunSymmetry
\* Nobody runs the script a third time.
CHECK_DEADLOCK FALSE
INVARIANTS
    Rollback
    NothingLost
    SwitchInv
