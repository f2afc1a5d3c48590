SPECIFICATION ModelTurnSpec
CONSTANTS
    Repertoires <- MCRepertoires
    MaxMessages = 3
    MaxUses = 2
    Chains <- MCChains
    MaxPieces = 4
    MaxBlocks = 3
    BatchCalls <- MCBatchCalls
    Limit = 0
    MaxBatches = 2
    MaxSent = 2
    MaxStray = 1
INVARIANTS
    
    StreamFaithful
    EventsDelivered
PROPERTY QueuedEventsFlow
CHECK_DEADLOCK FALSE
