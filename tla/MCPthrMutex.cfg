SPECIFICATION ObjectsSpec
CONSTANTS
    t1 = t1
    t2 = t2
    l1 = l1
    l2 = l2
    l3 = l3
    o1 = o1
    o2 = o2
    b1 = b1
    b2 = b2
    b3 = b3
    Threads <- MCThreads
    Objects <- MCObjects
    Blocks <- MCBlocks
    Nobody = Nobody
    Null = Null
    TableSize = 2
    MaxDepth = 2
    LockUsers <- MCLockUsers
    NoUser = NoUser
    Addresses <- MCObjects
    Empty = Empty
    Slots = 2
    RwThreads <- MCThreads
    AttrObjects <- MCObjects
    AttrBlocks <- MCAttrBlocks
    NoBlock = NoBlock
SYMMETRY MCSymmetry
CHECK_DEADLOCK FALSE
INVARIANTS
    Exclusion
    HoldingIsReal
    NoWildPointer
    TableExact
    TableHeals
    RwLockLasts
    AttrKept
