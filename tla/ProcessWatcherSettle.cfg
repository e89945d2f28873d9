SPECIFICATION FairSpec
CONSTANTS
    Pids = {p1}
    Ports = {a}
    Interesting = {a}
    Exes = {x, y}
    NoExe = NoExe
    None = None
    MaxChanges = 2
    HasUpdates = TRUE
    Faults = {"list", "exe"}
    Racy = FALSE
    Cancels = FALSE
INVARIANT ExitDetectionPreserved
PROPERTY ViewConverges
PROPERTY RescanAnswered
 
