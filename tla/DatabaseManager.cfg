SPECIFICATION FairSpec
CONSTANTS
    a1 = a1
    a2 = a2
    a3 = a3
    Addresses <- ThreeAddresses
    Registered <- AllThree
    None = None
INVARIANTS
    TypeOK
    StatementsHaveConnection
    UnhealthyInstancesFailed
PROPERTY ConnectsOrGivesUp
