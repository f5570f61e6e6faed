SPECIFICATION DSpec
CONSTANTS
    p0 = p0
    p1 = p1
    p2 = p2
    p3 = p3
    Pids <- TwoPids
    InitPid = p0
    NoPid = NoPid
    Addr = {"t1"}
    NoAddr = NoAddr
    Tracing = TRUE
    Labels <- ProcessLabels
    Start = "m0"
    Code <- ForkRandom
    Signals = {}
    MaxSignals = 0
    PipeCapacity = 1
    CloneMayFail = FALSE
INVARIANTS SameTrace
