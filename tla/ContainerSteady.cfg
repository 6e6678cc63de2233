CONSTANTS
    c1 = c1
    c2 = c2
    c3 = c3
    plain = plain
    custom = custom
    Calls <- MCCalls3
    Sources <- MCAll
    Configs <- MCOneConfig
    Bare = plain
    MayCrash = TRUE
SPECIFICATION Spec
INVARIANTS EnsuresSucceed
SYMMETRY Symmetry3
