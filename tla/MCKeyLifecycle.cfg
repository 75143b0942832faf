CONSTANTS
    t1 = t1
    t2 = t2
    pair1 = pair1
    pair2 = pair2
    pair3 = pair3
    pin1 = pin1
    pin2 = pin2
    config1 = config1
    config2 = config2
    None = None
    Threads <- TwoThreads
    Pairs <- ThreePairs
    Pins <- TwoPins
    Configs <- TwoConfigs
SYMMETRY Symmetric
SPECIFICATION Spec
INVARIANTS
    TypeOK
    NeverMixesPairs
    VersionInTurn
PROPERTIES
    PinChangeNeedsOldPin
    StoredKeysSurviveInTurn
