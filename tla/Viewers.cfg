CONSTANTS
    s1 = s1
    s2 = s2
    p1 = p1
    p2 = p2
    None = None
    Sockets <- TwoSockets
    Writers <- OneSocket
    Prompts <- OnePrompt
    MaxRecords = 4
    MaxSends = 2
    MaxClears = 1
    ManyPrompts = FALSE
    PostMayFail = FALSE
SPECIFICATION Spec
CHECK_DEADLOCK FALSE
INVARIANT
    EveryMessageShownOnce
    
    
