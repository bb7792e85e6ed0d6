SPECIFICATION Spec
CONSTANTS
    A = A
    B = B
    Count = 3
    Topics <- TwoTopics
    Times <- TwoTimes
    Bags <- SmallBags
    Filters <- SomeFilters
    Faults = TRUE
    HastyFilters = FALSE
    HastyOrders = FALSE
INVARIANTS HeldIsDue
PROPERTIES Implements PlaysOut
