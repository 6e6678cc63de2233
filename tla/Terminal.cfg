CONSTANTS
    s1 = s1
    s2 = s2
    s3 = s3
    p1 = p1
    p2 = p2
    p3 = p3
    None = None
    Sockets <- MCSockets3
    Procs <- MCProcs
SPECIFICATION TerminalFairSpec
CHECK_DEADLOCK FALSE
INVARIANTS TerminalTypeOK ViewersServed TerminalHoldsContainer
PROPERTY WaitersAnswered
