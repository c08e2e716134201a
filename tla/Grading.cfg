SPECIFICATION GradingSpec
CONSTANTS
    None = None
    Absent = Absent
    NotFinite = NotFinite
    Task <- MCTask
    Answers <- MCAnswers
    Call = {c1, c2}
    MaxScore = 2
    RubricThreshold = 2
    StageThreshold <- MCThreshold
    Executable = TRUE
    NeedsEvidence = TRUE
    MaxFaults = 1
    Override = {o1, o2, o3}
    Points = {0, 1}
    MaxFailures = 1
INVARIANT AcceptedHasFullMarks
INVARIANT ReuseIsSafe
INVARIANT AcknowledgedIsRecorded
INVARIANT GradeIsExplained
PROPERTY BetterIsNoWorse
SYMMETRY Symmetry
CHECK_DEADLOCK FALSE
