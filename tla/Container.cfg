CONSTANTS
    c1 = c1
    c2 = c2
    c3 = c3
    plain = plain
    custom = custom
    Calls <- MCCalls3
    Sources <- MCHolders
    Configs <- MCConfigs
    Bare = plain
    MayCrash = FALSE
SPECIFICATION FairSpec
INVARIANTS TypeOK 
 
