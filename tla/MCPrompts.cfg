SPECIFICATION MCPromptsSpec
CONSTANTS
    manual = manual
    r1 = r1
    NoRun = NoRun
    NoJob = NoJob
    Hand = Hand
    MaxTasks = 1
    Jobs <- MCJobs
    Outcomes = {"pass", "fail"}
    Commands = {}
    Checks = {manual}
    AllowWarn = {}
    Runs = {r1}
VIEW MCPromptsView
PROPERTIES
    AgentsAreBriefed
    PlansFollowTheChoice
CHECK_DEADLOCK FALSE
