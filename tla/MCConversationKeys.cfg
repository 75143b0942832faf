CONSTANTS
    t1 = t1
    t2 = t2
    c1 = c1
    c2 = c2
    k1 = k1
    k2 = k2
    NoKey = NoKey
    Threads <- MCThreads
    Conversations <- MCConversations
    MaxVersion = 1
    Spellings <- MCSpellings
    NumberOf <- MCNumberOf
    Spelled <- MCSpelled
    Keys <- MCKeys
    Batches <- MCBatches
SYMMETRY Symmetric
SPECIFICATION Spec
INVARIANTS
    TypeOK
    OnlySignedKeys
    StaleOnlyInFlight
    DisabledLeavesNothing
PROPERTIES
    NothingRegresses
    KeepsPromise
