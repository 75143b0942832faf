SPECIFICATION Spec
CONSTANTS
    Types <- MCTypes
    Values <- MCValues
    Write <- MCWrite
    MaxNesting = 12
    Passes <- MCPasses
    Pass <- MCPass
    MaxCollectionSize = 2
    MaxTotalElements = 12
    MaxDamaged = 5
    Sizes <- MCSizes
    Ids = {1, 2, 99}
INVARIANTS
    ReadsWhatWasWritten
    ReturnsWellFormed
    ReservesWithinTotal
