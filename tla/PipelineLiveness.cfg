SPECIFICATION FairSpec
CONSTANTS
    Submission = {s1, s2}
    Finalize = {f1}
    Worker = {w1, w2}
    Callback = {c1}
    Executable = {s1}
    Graded = {s1, s2}
    Outcome = {"ok", "timeout"}
    GraderResult = {"passed", "refused"}
    RunnerBody <- Reports
    MaxStalls = 1
    MaxFaults <- OneCrash
    None = None
INVARIANT TerminalRunIsStamped
PROPERTY JobSettles
 
PROPERTY GradePublished
CHECK_DEADLOCK FALSE
