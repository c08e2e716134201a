SPECIFICATION AllSpec
CONSTANTS
    s1 = s1
    s2 = s2
    Stage = {s1, s2}
    First <- FirstStage
    Here = Here
    Other = Other
    Stub = Stub
    Grantable <- Grants
    MaxClock = 1
    MaxRows = 2
    None = None
    t1 = t1
    look = look
    Process = {web, worker}
    Text = {t1, look}
    Lookalike = {look}
    Setting <- Settings
    KeyLen = 2
    MaxLines = 3
    Page = 1
    MaxWrites = 3
    MaxFaults = 1
INVARIANTS AccessIsRight ReadsAreHonest WhatIsShownIsWhole
PROPERTIES GrantsOnlyAdd FollowEnds
CHECK_DEADLOCK FALSE
