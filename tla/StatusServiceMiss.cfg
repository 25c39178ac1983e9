SPECIFICATION Spec
CONSTANTS
    c1 = c1
    c2 = c2
    u1 = u1
    u2 = u2
    u3 = u3
    Calls <- TwoCalls
    Users <- ThreeUsers
    Accounts <- TwoUsers
    Reporters <- Reporter
    Requesters <- Watcher
    FriendRequests <- BothWaysAndStranger
    Statuses <- TwoStatuses
    Tokens = {t1}
    None = None
    NoToken = NoToken
PROPERTY MissReadsDatabase
