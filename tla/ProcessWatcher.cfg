SPECIFICATION Spec
CONSTANTS
    Pids = {p1}
    Ports = {a}
    Interesting = {a}
    Exes = {x, y}
    NoExe = NoExe
    None = None
    MaxChanges = 2
    HasUpdates = TRUE
    Faults = {"start", "exe", "ports", "ready", "list", "drop", "bind"}
    Racy = TRUE
    Cancels = TRUE
INVARIANT RescanSeesPorts
INVARIANT RetiresWhatItAnnounced
SYMMETRY HostSymmetry
CHECK_DEADLOCK FALSE
