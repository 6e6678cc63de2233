CONSTANTS
    c1 = c1
    c2 = c2
    c3 = c3
    w1 = w1
    k1 = k1
    b1 = b1
    b2 = b2
    x1 = x1
    None = None
    Posts <- TwoPosts
    Watchers <- OneWatcher
    Keys <- OneKey
    Bodies <- TwoBodies
    Choices <- OneChoice
    Fallible <- Direct
    MaxEvents = 6
    MayDisconnect = TRUE
SPECIFICATION FairSpec
CHECK_DEADLOCK FALSE
INVARIANT
    SentOnce
    AcknowledgedAnswerCounts

    
