SPECIFICATION Spec
CONSTANTS
    None = None
    Override = {o1, o2}
    Score = {0, 1}
    MaxFaults = 0
PROPERTY HistoryOnlyGrows
CHECK_DEADLOCK FALSE
