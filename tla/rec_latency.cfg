SPECIFICATION Spec
CONSTANTS
    Configs <- LatencyConfigs
    Kinds <- Reflectable
    Names = {n1, n2}
    Sizes = {1}
    Outcomes = {"ok"}
    Fates = {"sent", "unbuilt"}
    MaxTopics = 2
    MaxMessages = 4
    MaxTime = 5
SYMMETRY NameSymmetry
INVARIANTS TypeOK NamesToSlots RowAgeInv
PROPERTIES RowAgeBound
CHECK_DEADLOCK FALSE
