\* Three messages, a websocket, every fault; symmetric in the messages.
CONSTANTS
    m1 = m1
    m2 = m2
    m3 = m3
    m4 = m4
    m5 = m5
    s1 = s1
    None = None
    Msgs <- MCMsgs3
    Sockets <- MCSockets
    SdkMayDie = TRUE
    StartMayFail = TRUE
SPECIFICATION Spec
CHECK_DEADLOCK FALSE
SYMMETRY Symmetry3
INVARIANTS
    TypeOK
    CurrentQueryIsConsumed
    MessagesAccountedFor
    NoOvertaking
    
PROPERTY ImplementsMailbox
