CONSTANTS
    c1 = c1
    c2 = c2
    todo = todo
    doing = doing
    archived = archived
    t1 = t1
    t2 = t2
    None = None
    Loop = Loop
    Calls <- TwoCalls
    Users <- TwoUsers
    Convs <- TwoConvs
    Columns <- TwoColumns
    Archived = archived
    Texts <- TwoTexts
    MaxCards = 2
    MaxOps = 3
    Hazards <- Nothing
    alice = alice
    bob = bob
    k1 = k1
    k2 = k2
    Absent = Absent
    Empty = Empty
    Torn = Torn
    MaxAccountOps = 5
    MaxTokenCalls = 6
    MaxMsgs = 2
    MaxFetches = 2
    SlowReads = FALSE
    MayTear = FALSE
SYMMETRY Symmetric
SPECIFICATION ServicesSpec
CHECK_DEADLOCK FALSE
INVARIANT
    
    
    AlwaysAnAdmin
    TokensKept
    NoStrangers
