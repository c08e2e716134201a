SPECIFICATION FairSpec
CONSTANTS
    Flow = {f1}
    Poll = {p1, p2, p3}
    Decision = {d1, d2}
    User = {u1, u2}
    Fixture = u2
    Dev = TRUE
    MaxPolls = 2
    MaxReplays = 1
    MaxFaults = 1
    None = None
INVARIANT SessionsAreApproved
INVARIANT SingleMint
PROPERTY LoginEnds
CHECK_DEADLOCK FALSE
