\* One run, one signal.
CONSTANTS
    None = None
    Original = Original
    r1 = r1
    r2 = r2
    Run = {r1}
    MaxFaults = 0
    MaxSignals = 1
    MaxKills = 0
SPECIFICATION Spec
SYMMETRY RunSymmetry
\* Nobody runs the script again.
CHECK_DEADLOCK FALSE
INVARIANTS
    AtomicSwitch
