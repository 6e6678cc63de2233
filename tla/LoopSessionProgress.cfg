\* Three messages, no faults, fair scheduling.
CONSTANTS
    m1 = m1
    m2 = m2
    m3 = m3
    m4 = m4
    m5 = m5
    s1 = s1
    None = None
    Msgs <- MCMsgs3
    Sockets <- MCNoSockets
    SdkMayDie = FALSE
    StartMayFail = FALSE
SPECIFICATION FairSpec
CHECK_DEADLOCK FALSE
INVARIANTS
    QueueHasDrainer
    GeneratingMeansTurn
PROPERTY MessagesSettle
