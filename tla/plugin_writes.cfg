SPECIFICATION PluginSpec
CONSTANTS
    Configs <- LimitConfigs
    Kinds <- Reflectable
    Names = {n1, n2}
    Sizes = {1, 2}
    Outcomes = {"ok", "unrecoverable"}
    Fates = {"sent", "unbuilt"}
    MaxTopics = 2
    MaxMessages = 3
    MaxTime = 1
    Messages <- TwoMessages
    CreateFaults = {FALSE, TRUE}
SYMMETRY NameSymmetry
INVARIANTS AcceptedOnce RecordedInOrder BufferBounds ConfirmedKept TotalsTrue
CHECK_DEADLOCK FALSE
