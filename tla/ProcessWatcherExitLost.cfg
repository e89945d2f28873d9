SPECIFICATION Spec
CONSTANTS
    Pids = {p1}
    Ports = {a}
    Interesting = {a}
    Exes = {x, y}
    NoExe = NoExe
    None = None
    MaxChanges = 2
    HasUpdates = TRUE
    Faults = {}
    Racy = TRUE
    Cancels = FALSE
INVARIANT ExitDetectionPreserved
SYMMETRY HostSymmetry
