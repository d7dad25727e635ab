SPECIFICATION WriterFairSpec
CONSTANTS
    CompactionThreshold = 2
    MaxChunk = 3
    MaxSent = 7
INVARIANTS NoLostWakeup StorageBounded
PROPERTIES RefinesByteStream AllDelivered
CHECK_DEADLOCK FALSE
