CONSTANTS
    alice = alice
    e1 = e1
    e2 = e2
    e3 = e3
    todo = todo
    plan = plan
    c1 = c1
    c2 = c2
    c3 = c3
    Markers = Markers
    None = None
    Checkouts <- MCCheckouts
    Edits <- MCEdits
    Places <- MCPlaces
    PlaceOf <- MCPlaceOf
    Calls <- TwoCalls
    Exposed = FALSE
SPECIFICATION Spec
SYMMETRY Symmetry
CHECK_DEADLOCK FALSE
INVARIANT
    
    NothingConflictedPublished
    SaveLands
