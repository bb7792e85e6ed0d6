SPECIFICATION Spec
CONSTANTS
    A = A
    B = B
    Count = 3
    Topics <- TwoTopics
    Times <- TwoTimes
    Bags <- SmallBags
    Filters <- SomeFilters
    Faults = FALSE
    HastyFilters = FALSE
    HastyOrders = TRUE
PROPERTIES Implements
