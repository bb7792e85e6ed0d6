SPECIFICATION BagSpec
CONSTANTS
    Configs <- BagConfigs
    Kinds <- EveryKind
    Names = {n1}
    Sizes = {1}
    Outcomes = {"ok", "message", "unrecoverable"}
    Fates = {"sent", "unbuilt", "partial", "nothing"}
    MaxTopics = 1
    MaxMessages = 2
    MaxTime = 1
    ConnectTimeout = 1
    LiveQueue = 1
    BuildFaults = {FALSE, TRUE}
INVARIANTS StreamsTypeOK StoredAsAnnounced FirstMessagesKept DescribedFirst CloseTellsTheFile ClosedHoldsAll NeverHeldUp
PROPERTIES OpenReturns BagCloses
CHECK_DEADLOCK FALSE
