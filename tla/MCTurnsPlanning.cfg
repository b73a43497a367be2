SPECIFICATION PlanningFairSpec
CONSTANTS
    unit = unit
    manual = manual
    r1 = r1
    NoRun = NoRun
    NoJob = NoJob
    MaxTasks = 1
    MaxCancels = 1
    Jobs <- MCJobs
    Outcomes <- MCOutcomes
    Commands = {}
    Checks = {}
    AllowWarn = {}
    Runs <- MCRuns
    ThePlan <- MCOneTask
    LowEnergyChoices <- MCNoLowEnergy
VIEW MCTurnsView
ACTION_CONSTRAINT PlanningBounds
INVARIANTS
    OpenTurnHasOwner
PROPERTY
    BusyEnds
CHECK_DEADLOCK FALSE
