SPECIFICATION MCSpec
CONSTANTS
    Users <- MCUsers
    PairUsers <- MCPairUsers
    Texts <- MCTexts
    Files <- MCFiles
    MaxVersion = 2
    MaxLog = 6
INVARIANTS
    SurfacesWhatWasAsked
    HonestRepliesAreValid
    PreviewsQuoteTruly
    KeysStayWithMembers
CHECK_DEADLOCK FALSE
