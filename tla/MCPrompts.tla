------------------------------ MODULE MCPrompts ------------------------------
(* One task, one acceptance check, two prompts of the machine and one typed *)
(* by hand under way together.                                              *)
EXTENDS Prompts

CONSTANTS manual, r1

MCJobs == 1..2

(* Low Energy Mode does not change what is told.                            *)
MCPromptsInit == PromptsInit /\ lowEnergy = FALSE
MCPromptsSpec == MCPromptsInit /\ [][PromptsNext]_allVars

(* No guard reads the other agent events, nor any effect but this one.      *)
MCPromptsView ==
    <<state, resumeState, mode, tasks, taskIndex, evidence, runId, planApproved,
      taskApprovals,
      turnEvents \cap {"clarification", "decision_needed", "plan", "failure"},
      \E i \in DOMAIN fx : fx[i] = Do("reconcileEvidence"),
      factVars, job, agentVars, hand, collecting>>
=============================================================================
