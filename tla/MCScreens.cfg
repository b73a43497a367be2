SPECIFICATION FairSpec
CONSTANTS
    k1 = k1
    k2 = k2
    Keys = {k1, k2}
    All = All
    ReplayLimit = 1
    MaxEvents = 2
    MaxDrops = 1
    Kinds = {"focus", "board", "console"}
    MaxFlight = 2
    MaxMoves = 1
    MaxAsks = 2
    MaxFaults = 1
INVARIANTS
    EventsOnceInOrder
    QuietScreenFits
    PagesContinue
PROPERTY
    ScreenCatchesUp
CHECK_DEADLOCK FALSE
