SPECIFICATION Spec
CONSTANTS
    u1 = u1
    u2 = u2
    s1 = s1
    s2 = s2
    Users <- TwoUsers
    Sessions <- TwoSessions
    PoolSize = 1
    NoUser = NoUser
    NoSession = NoSession
INVARIANTS
    TypeOK
    ClientPlacedOnce
    NoClientLost
    RegisteredSessionIsOpen
    OnlineHasOpenSession
    OpenSessionIsFound
    OpenSessionsAreListed
PROPERTIES
    ImplementsPool
    OfflineOnlyAtAnEnd
