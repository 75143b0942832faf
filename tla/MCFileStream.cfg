CONSTANTS
    ChunkSize = 2
    ABytes = 1
    HeaderSize = 2
    MaxFile = 5
    MaxTrail = 4
SPECIFICATION Spec
INVARIANTS
    BuffersFit
    FramingIsFixed
    ReturnsABeginning
    AcceptsOnlyWhole
    AcceptsIntact
CHECK_DEADLOCK FALSE
