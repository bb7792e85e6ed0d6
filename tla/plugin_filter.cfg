SPECIFICATION Spec
CONSTANTS
    A = A
    B = B
    Count = 3
    Topics <- TwoTopics
    Times <- TwoTimes
    Bags <- SmallBags
    Filters <- SomeFilters
    Faults = FALSE
    HastyFilters = TRUE
    HastyOrders = FALSE
PROPERTIES Implements
