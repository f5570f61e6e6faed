SPECIFICATION Spec
CONSTANTS
    p0 = p0
    p1 = p1
    p2 = p2
    p3 = p3
    Pids <- ThreePids
    InitPid = p0
    NoPid = NoPid
    Addr = {"x"}
    NoAddr = NoAddr
    Tracing = FALSE
    Labels <- AnyLabels
    Start = "any"
    Code <- AnyThreads
    Signals = {}
    MaxSignals = 0
    PipeCapacity = 1
    CloneMayFail = TRUE
SYMMETRY Symmetry
CHECK_DEADLOCK FALSE
INVARIANTS SingleRunner RunQueueInv ParkedInv NoThreadLost InjectionPairsUp VtidsUnique NoPtraceError NoFutexStall DeadlockIsReal
PROPERTIES TakesTurns Fifo SwitchOnlyAtSyscall
