SPECIFICATION FairSpec
CONSTANTS
    Pids = {p1}
    Ports = {a}
    Interesting = {a}
    Exes = {x, y}
    NoExe = NoExe
    None = None
    MaxChanges = 2
    HasUpdates = FALSE
    Faults = {}
    Racy = TRUE
    Cancels = FALSE
PROPERTY PortsReported
