SPECIFICATION FairSpec
CONSTANTS
    p0 = p0
    p1 = p1
    p2 = p2
    p3 = p3
    Pids <- ThreePids
    InitPid = p0
    NoPid = NoPid
    Addr = {"lock", "t1", "t2"}
    NoAddr = NoAddr
    Tracing = FALSE
    Labels <- ProgressLabels
    Start = "m0"
    Code <- Progress
    Signals = {}
    MaxSignals = 0
    PipeCapacity = 1
    CloneMayFail = FALSE
INVARIANTS ScheduledSharesInit
PROPERTIES RunsInTurn PipesServed
