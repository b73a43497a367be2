SPECIFICATION WorkSpec
CONSTANTS
    unit = unit
    manual = manual
    r1 = r1
    NoRun = NoRun
    NoJob = NoJob
    MaxTasks = 2
    MaxCancels = 1
    Jobs <- MCJobs
    Outcomes <- MCOutcomes
    Commands <- MCCommands
    Checks <- MCChecks
    AllowWarn = {}
    Runs <- MCRuns
    ThePlan <- MCTwoTasks
    LowEnergyChoices = {TRUE, FALSE}
VIEW MCTurnsView
ACTION_CONSTRAINT ReviewBounds
PROPERTIES
    TurnsAdvanceTheirOwnState
    VerdictAwaitsItsRun
    WorkStartsUnproven
CHECK_DEADLOCK FALSE
