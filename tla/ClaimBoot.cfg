SPECIFICATION Spec
CONSTANTS
    h1 = h1
    h2 = h2
    Handlers = {h1}
    SetupCommands = 2
    MaxCrashes = 2
INVARIANT BootSucceeds
CHECK_DEADLOCK FALSE
