SPECIFICATION Spec
CONSTANTS
    Submission = {s1}
    Finalize = {f1, f2}
    Worker = {w1, w2}
    Callback = {}
    Executable = {s1}
    Graded = {s1}
    Outcome = {"ok"}
    GraderResult = {"passed", "failed", "refused"}
    RunnerBody <- Reports
    MaxStalls = 1
    MaxFaults <- OneOfEach
    None = None
INVARIANT CompletedJobIsSettled
INVARIANT GradeHasFinishedRun
INVARIANT GradeHasExecutedRun
PROPERTY ImplementsWriteOnceVerdict
SYMMETRY Symmetry
CHECK_DEADLOCK FALSE
