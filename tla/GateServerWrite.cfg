SPECIFICATION FairSpec
CONSTANTS
    u1 = u1
    u2 = u2
    s1 = s1
    s2 = s2
    Users <- OneUser
    Sessions <- TwoSessions
    PoolSize = 1
    NoUser = NoUser
    NoSession = NoSession
PROPERTY QueuedMessageIsWritten
