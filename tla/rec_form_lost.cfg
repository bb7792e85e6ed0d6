SPECIFICATION Spec
CONSTANTS
    Configs <- LensesOnly
    Kinds <- Matched
    Names = {n1}
    Sizes = {1}
    Outcomes = {"ok", "message", "unrecoverable"}
    Fates = {"sent"}
    MaxTopics = 1
    MaxMessages = 3
    MaxTime = 0
INVARIANTS RowHasAForm
CHECK_DEADLOCK FALSE
