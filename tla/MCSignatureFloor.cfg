CONSTANTS
    t1 = t1
    t2 = t2
    c1 = c1
    c2 = c2
    Threads <- MCThreads
    Conversations <- MCConversations
    EventVersions <- MCEventVersions
SYMMETRY Symmetric
SPECIFICATION Spec
INVARIANTS
    TypeOK
    SignsAboveSettled
    FloorCoversRecorded
    SignsWhatItAccepts
    OneFormatPerCall
