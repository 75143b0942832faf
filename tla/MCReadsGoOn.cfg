CONSTANTS
    t1 = t1
    t2 = t2
    ch1 = ch1
    ch2 = ch2
    u1 = u1
    NoUser = NoUser
    nobucket = nobucket
    bucket1 = bucket1
    Threads <- OneThread
    Chats <- TwoChats
    Users <- Nobody
    UrlOf <- SharedUrl
    MaxReads = 3
    MaxCells = 3
    MaxEpoch = 1
SPECIFICATION MCFairSpec
PROPERTIES
    ReadsStop
    ChatsHearTheServer
