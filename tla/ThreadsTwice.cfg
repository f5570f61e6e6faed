SPECIFICATION DFairSpec
CONSTANTS
    p0 = p0
    p1 = p1
    p2 = p2
    p3 = p3
    Pids <- FourPids
    InitPid = p0
    NoPid = NoPid
    Addr = {"lock", "t1", "t2", "t3"}
    NoAddr = NoAddr
    Tracing = TRUE
    Labels <- ThreadLabels
    Start = "m0"
    Code <- ThreadsC
    Signals = {}
    MaxSignals = 0
    PipeCapacity = 1
    CloneMayFail = FALSE
INVARIANTS TypeOK CompletesNormally SameTrace
PROPERTIES Finishes
