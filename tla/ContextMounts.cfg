CONSTANTS
    l1 = l1
    l2 = l2
    l3 = l3
    alice = alice
    bob = bob
    default = default
    work = work
    None = None
    Loops <- TwoLoops
    Users <- MCUsers
    Vaults <- OneVault
    Declared <- MCAlice
    Drivable <- TwoLoops
    WithRepo <- OneLoop
    MaxRestarts = 1
    DieInClone = FALSE
SPECIFICATION FairSpec
CHECK_DEADLOCK FALSE
INVARIANT
    NoCollision
    
PROPERTY
    CallsEnd
