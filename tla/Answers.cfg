SPECIFICATION FairSpec
CONSTANTS
    c1 = c1
    c2 = c2
    c3 = c3
    c4 = c4
    q1 = q1
    q2 = q2
    NoCli = NoCli
    NoPid = NoPid
    Cli = {c1, c2, c3, c4}
    Commands <- CreateStartQuery
    Pid <- OnePid
    Codes = {0}
    Resources = {c1}
    MayFail = {"config", "map", "setup", "cgroup"}
    MaxCrashes = 0
CHECK_DEADLOCK FALSE
PROPERTIES CreateAnswers RunningEnds OutputRecorded
