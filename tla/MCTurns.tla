------------------------------ MODULE MCTurns ------------------------------
(* Small instances of Turns.  The planning half starts where an objective   *)
(* starts; the working half starts at the plan's approval, where planning   *)
(* left it.  The action constraints bound what the *user* does; the thread, *)
(* the agent, git and the timers are free.                                  *)
EXTENDS Turns

CONSTANTS
    unit, manual, r1,
    ThePlan,         \* the plan awaiting approval when the working half starts
    LowEnergyChoices \* where lowEnergy may start

MCCommands == {unit}
MCChecks == {manual}
MCRuns == {r1}
MCJobs == 1..2
MCOutcomes == {"pass", "fail"}
MCOneTask == <<{}>>
MCTwoTasks == <<{unit}, {}>>
MCNoLowEnergy == {FALSE}

(* No guard reads fx, the other members of turnEvents, or - without Low     *)
(* Energy Mode - the risk.                                                  *)
MCTurnsView ==
    <<state, resumeState, mode, lowEnergy, tasks, taskIndex, evidence, runId,
      IF lowEnergy THEN taskRisk ELSE "any", planApproved, taskApprovals, revise,
      turnEvents \cap {"clarification", "decision_needed", "plan", "failure"},
      serverVars>>

PlanningInit == TurnsInit /\ mode = "standard" /\ lowEnergy = FALSE

WorkInit ==
    /\ state = "awaitingPlanApproval"
    /\ resumeState = "awaitingPlanApproval"
    /\ mode = "standard"
    /\ lowEnergy \in LowEnergyChoices
    /\ tasks = ThePlan
    /\ taskIndex = 0
    /\ evidence = NoItems
    /\ runId = NoRun
    /\ taskRisk = "unknown"
    /\ planApproved = FALSE
    /\ taskApprovals = {}
    /\ revise = NoNote
    /\ turnEvents = {"plan"}
    /\ fx = <<>>
    /\ session = TRUE
    /\ ServerInit

PlanningSpec == PlanningInit /\ [][TurnsNext]_allVars
PlanningFairSpec == PlanningSpec /\ Fairness
WorkSpec == WorkInit /\ [][TurnsNext]_allVars
WorkFairSpec == WorkSpec /\ Fairness

(* The planning half: the user lets no work begin.  What only work reads -  *)
(* a failure event, a changed worktree - is left out.                       *)
PlanningBounds ==
    /\ state' \notin WorkStates
    /\ "failure" \notin turnEvents'
    /\ dirty' = dirty

(* The working half: the plan is approved as it is, the last task's review  *)
(* is not approved, Low Energy Mode stays as it is, and a turn is cancelled *)
(* by pausing.  The repair prompt is left to the planning and review runs,  *)
(* the failure event, which pauses as a failed turn does, to the latter.    *)
WorkBounds ==
    /\ state' \in {"executing", "verifying", "awaitingReview", "revising", "paused"}
    /\ tasks' = tasks
    /\ lowEnergy' = lowEnergy
    /\ cancels' > cancels => state' = "paused"
    /\ "repair" \notin {job'[j] : j \in Jobs}
    /\ "failure" \notin turnEvents'

(* Review after review up to the first pause, with the plan as it is.       *)
ReviewBounds == state # "paused" /\ tasks' = tasks
=============================================================================
