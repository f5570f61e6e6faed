SPECIFICATION Spec
CONSTANTS
    c1 = c1
    c2 = c2
    c3 = c3
    c4 = c4
    q1 = q1
    q2 = q2
    NoCli = NoCli
    NoPid = NoPid
    Cli = {c1, c2, c3, c4}
    Commands <- SameId
    Pid <- TwoPids
    Codes = {0}
    Resources = {c1}
    MayFail = {"map", "setup"}
    MaxCrashes = 0
CHECK_DEADLOCK FALSE
SYMMETRY Symmetry
INVARIANTS SetupBeforeAnswer PausedUntilStarted LeavesNoChild
