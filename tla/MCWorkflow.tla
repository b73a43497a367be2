----------------------------- MODULE MCWorkflow -----------------------------
(* A small instance of the workflow machine: one command whose warning is   *)
(* tolerated, one acceptance check, and plans of up to two tasks - enough   *)
(* for a task that is not the last, one that is, and an expectFailing       *)
(* declared by either.                                                      *)
EXTENDS Focus

CONSTANTS unit, manual, r1

MCCommands == {unit}
MCChecks == {manual}
MCRuns == {r1}

(* No guard reads `fx`, nor any other member of turnEvents than these four: *)
(* states that differ only there have the same future.                      *)
MCView == <<state, resumeState, mode, lowEnergy, tasks, taskIndex, evidence,
            runId, taskRisk, planApproved, taskApprovals, revise,
            turnEvents \cap {"clarification", "decision_needed", "plan", "failure"},
            focusVars>>
=============================================================================
