SPECIFICATION FairSpec
CONSTANTS
    a1 = a1
    a2 = a2
    a3 = a3
    Addresses <- OneAddress
    Registered <- OnlyOne
    None = None
PROPERTY DeadConnectionIsReplaced
