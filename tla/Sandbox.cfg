SPECIFICATION FairSpec
CONSTANTS
    Request <- Requests
    MaxLocal = 1
    Cap = 2
    MaxWritten <- Writes
    MaxStalls = 1
INVARIANT RunsAreSound
INVARIANT LogIsScrubbed
PROPERTY RunEnds
CHECK_DEADLOCK FALSE
