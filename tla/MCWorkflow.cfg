SPECIFICATION FocusSpec
CONSTANTS
    unit = unit
    manual = manual
    r1 = r1
    NoRun = NoRun
    MaxTasks = 2
    Commands <- MCCommands
    Checks <- MCChecks
    AllowWarn <- MCCommands
    Runs <- MCRuns
VIEW MCView
INVARIANTS
    DoneIsProven
    ReviewIsEvidenced
    ReviewedInOrder
    PlanningNotesFit
    UserIsNeverStranded
    NothingOfferedIsRefused
    StepperShowsOnePhase
PROPERTIES
    KeepsItsPromise
CHECK_DEADLOCK FALSE
