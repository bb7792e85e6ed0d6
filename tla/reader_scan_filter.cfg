SPECIFICATION Spec
CONSTANTS
    A = A
    B = B
    NoTopic = NoTopic
    Topics <- TwoTopics
    Times <- ThreeTimes
    Filters <- SomeFilters
    Cases <- PlainScans
    MinTime = 0
    MaxTime = 4
    ScanMidway = TRUE
PROPERTIES Implements
