SPECIFICATION Spec
CONSTANTS
    Configs <- DropConfigs
    Kinds <- EveryKind
    Names = {n1}
    Sizes = {1}
    Outcomes = {"ok", "message", "unrecoverable"}
    Fates = {"sent"}
    MaxTopics = 1
    MaxMessages = 3
    MaxTime = 0
INVARIANTS StoredAsAnnounced
CHECK_DEADLOCK FALSE
