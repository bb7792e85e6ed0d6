SPECIFICATION Spec
CONSTANTS
    A = A
    B = B
    NoTopic = NoTopic
    Topics <- TwoTopics
    Times <- ThreeTimes
    Filters <- SomeFilters
    Cases <- UnsteadyCases
    MinTime = 0
    MaxTime = 4
    ScanMidway = FALSE
PROPERTIES Implements
