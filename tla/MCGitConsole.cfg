SPECIFICATION Spec
CONSTANTS
    h1 = h1
    t1 = t1
    Handlers = {h1}
    Tasks = {t1}
    MaxCommits = 2
    MaxTurns = 1
INVARIANTS
    CheckpointsReachable
    ProtectedStaysOut
    UndoStaysLocal
PROPERTIES
    HalfWorkStaysLocal
CHECK_DEADLOCK FALSE
