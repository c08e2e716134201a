SPECIFICATION AllSpec
CONSTANTS
    Parts = {"bundles"}
    Request = {r1, r2}
    Kinds = {"enrol", "submit", "run", "mentor", "grade", "login", "export"}
    Overlap = FALSE
    MaxErasures = 2
    MaxLost = 1
    Submission = {s1}
    Finalize = {f1}
    Delete = {d1, d2}
    Ageing = TRUE
    MaxFaults <- SomeOfEach
    Job = {j1, j2}
    Worker = {w1}
    Branch = {b1, b2}
    NoBranch = NoBranch
    Cohort = {c1}
    NodeMinN = 3
    BranchMinN = 2
    AdminWindow <- Windows
    Window = 1
    MaxTime = 2
    MaxTraversals = 3
    MaxErased = 1
    MaxStalls = 1
    MaxErrors = 1
    None = None
INVARIANT PurgedMeansGone
INVARIANT AcceptedWasUploaded
PROPERTY BundleExpires
CHECK_DEADLOCK FALSE
