SPECIFICATION FairSpec
CONSTANTS
    u1 = u1
    u2 = u2
    r1 = r1
    r2 = r2
    Users <- TwoUsers
    Requests <- TwoRequests
    MaxRequests = 2
    Window = 1
    MaxPages = 3
    None = None
INVARIANTS
    TypeOK
    AtMostTwiceTheLimit
    ShownUserOwnsSession
    OnlyLoginPagesBelow
PROPERTY LoginButtonComesBack
