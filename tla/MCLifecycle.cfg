SPECIFICATION FairSpec
CONSTANTS
    h1 = h1
    h2 = h2
    Handlers = {h1}
    SetupCommands = 2
    MaxCrashes = 2
INVARIANTS
    StatusMirrorsMachine
    NullMeansGone
    DoneMeansLanded
    NobodyWaitsAfterCrash

    
CHECK_DEADLOCK FALSE
