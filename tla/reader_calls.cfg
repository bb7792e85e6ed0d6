SPECIFICATION Spec
CONSTANTS
    A = A
    B = B
    NoTopic = NoTopic
    Topics <- TwoTopics
    Times <- ThreeTimes
    Filters <- SomeFilters
    Cases <- EveryCase
    MinTime = 0
    MaxTime = 4
    ScanMidway = FALSE
INVARIANTS TypeOK NoEarlierUnread ReadAheadBound
PROPERTIES Implements TurnsConsume CallReturns
