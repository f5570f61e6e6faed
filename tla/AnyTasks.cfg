SPECIFICATION Spec
CONSTANTS
    p0 = p0
    p1 = p1
    p2 = p2
    p3 = p3
    Pids <- ThreePids
    InitPid = p0
    NoPid = NoPid
    Addr = {"x"}
    NoAddr = NoAddr
    Tracing = FALSE
    Labels <- AnyLabels
    Start = "any"
    Code <- AnyTasks
    Signals = {"handled", "fatal", "stop", "kill"}
    MaxSignals = 1
    PipeCapacity = 1
    CloneMayFail = FALSE
SYMMETRY Symmetry
CHECK_DEADLOCK FALSE
INVARIANTS IInv
