SPECIFICATION FairSpec
CONSTANTS
    a1 = a1
    a2 = a2
    Addresses <- TwoAddresses
    MaxInstances = 3
    NoAddress = NoAddress
INVARIANTS
    TypeOK
    BalancerFollowsRegistry
PROPERTIES
    EveryRoundServesAll
    DeadServiceIsFound
