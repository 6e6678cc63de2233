CONSTANTS
    c1 = c1
    c2 = c2
    c3 = c3
    c4 = c4
    alice = alice
    bob = bob
    None = None
    Calls <- MCCalls4
    Users <- MCUsers
    Creator = alice
SPECIFICATION Spec
CHECK_DEADLOCK FALSE
SYMMETRY Symmetry4
INVARIANTS TypeOK PairsTogether NoUpdateLost OneDriverPerRequest NoteDeliveredOnce AutoNameYields
