CONSTANTS
    t1 = t1
    t2 = t2
    ch1 = ch1
    ch2 = ch2
    u1 = u1
    NoUser = NoUser
    nobucket = nobucket
    bucket1 = bucket1
    Threads <- TwoThreads
    Chats <- TwoChats
    Users <- OneUser
    UrlOf <- OwnUrl
    MaxReads = 2
    MaxCells = 3
    MaxEpoch = 1
SYMMETRY Symmetric
SPECIFICATION MCSpec
INVARIANTS
    TypeOK
    JoinableReadIsPerformed
    WaitsAtItsUrl
    SharesLatestAnswer
    ReadsItsIdentitysUrl
PROPERTY FlagsNeverGoBack
