SPECIFICATION Spec
CONSTANTS
    p0 = p0
    p1 = p1
    p2 = p2
    p3 = p3
    Pids <- TwoPids
    InitPid = p0
    NoPid = NoPid
    Addr = {"t1", "lock"}
    NoAddr = NoAddr
    Tracing = FALSE
    Labels <- ProcessLabels
    Start = "m0"
    Code <- TimedWaits
    Signals = {}
    MaxSignals = 0
    PipeCapacity = 1
    CloneMayFail = FALSE
INVARIANTS NothingRemainsToWake
