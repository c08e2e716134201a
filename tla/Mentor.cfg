SPECIFICATION Spec
CONSTANTS
    strict = strict
    loose = loose
    bad = bad
    secret = secret
    Turn = {t1, t2}
    User = {u1}
    Package = {p1, p2}
    Policy = {strict, loose, bad}
    Forbidden = {bad}
    Secret = {secret}
    Targets <- TheTargets
    UserLimit = 1
    PairLimit = 1
    Window = 3
    Second = 2
    CacheSize = 1
    Ttl = 2
    Attacks = 2
    MaxClock = 3
    MaxFaults = 1
    None = None
INVARIANT RateIsHonest
INVARIANT ContextIsCurrent
INVARIANT TranscriptIsSound
SYMMETRY Symmetry
CHECK_DEADLOCK FALSE
