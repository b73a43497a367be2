------------------------------ MODULE Workflow ------------------------------
(***************************************************************************)
(* The objective's workflow machine, packages/core/src/machine/            *)
(* workflow-machine.ts: one action per event the machine accepts.  An      *)
(* action is one macrostep - XState runs raised events and `always`        *)
(* transitions before anything else can happen - so rollingBack and an     *)
(* auto-approved awaitingPlanApproval or awaitingReview are passed through *)
(* and never rested in.                                                    *)
(*                                                                         *)
(* `fx` is the list of named side effects the last macrostep requested, in *)
(* order.  The server binds them (workflow/effects.ts); the modules that   *)
(* compose this one interpret them in the same step.                       *)
(*                                                                         *)
(* Text the machine only carries (the goal, clarification answers, the     *)
(* pending decision's id, failure headlines) is left out.                  *)
(*                                                                         *)
(* A few definitions stand next to a faulty form of themselves, which no   *)
(* action uses: put in the other's place, it must make a run fail (the     *)
(* README lists them).                                                     *)
(***************************************************************************)
EXTENDS Evidence, Sequences

CONSTANTS
    MaxTasks,    \* bound on the length of a plan (the schema's is 12)
    Runs,        \* run ids the EvidenceCollector may return
    NoRun        \* verificationRunId = null

ASSUME WorkflowAssumption ==
    /\ MaxTasks \in Nat \ {0}
    /\ NoRun \notin Runs

VARIABLES
    state,          \* the machine's state value
    resumeState,    \* the name stamped by the last `enter`
    mode,           \* standard, fastfix or investigation; fixed at creation
    lowEnergy,      \* Low Energy Mode
    tasks,          \* the plan: for each task, the command ids in expectFailing
    taskIndex,      \* currentTaskIndex, counted from 0
    evidence,       \* the items of the last EVIDENCE_RESULT
    runId,          \* verificationRunId
    taskRisk,       \* "unknown" stands for null
    planApproved,   \* approvals contains 'plan'
    taskApprovals,  \* the i for which approvals contains `task:${i}`
    revise,         \* reviseInstruction: what it is about, and for which task
    turnEvents,     \* the types of agent event the open turn has produced
    fx              \* the effects of the last macrostep

vars == <<state, resumeState, mode, lowEnergy, tasks, taskIndex, evidence,
          runId, taskRisk, planApproved, taskApprovals, revise, turnEvents, fx>>

plan == <<tasks, taskIndex, planApproved, taskApprovals>>
proof == <<evidence, runId, taskRisk>>

PlanStates == {"idle", "exploring", "clarifying", "proposing",
               "awaitingDecision", "planning", "awaitingPlanApproval"}
WorkStates == {"executing", "verifying", "awaitingReview", "revising",
               "integrating"}
Terminal == {"done", "cancelled"}
States == PlanStates \cup WorkStates \cup {"paused"} \cup Terminal

ResumableButIntegrating ==
    {"exploring", "proposing", "planning"} \cup (WorkStates \ {"integrating"})

(* The states paused may return to; from any other one RESUME goes to idle. *)
Resumable == {"exploring", "proposing", "planning"} \cup WorkStates

Modes == {"standard", "fastfix", "investigation"}
AgentEvents == {"status", "decision_needed", "clarification", "plan",
                "task_result", "evidence", "failure"}
Plans == UNION {[1..n -> SUBSET Commands] : n \in 1..MaxTasks}

NoNote == [about |-> "none", task |-> 0]
Note(subject) == [about |-> subject, task |-> taskIndex]

KeepNote == UNCHANGED revise
ForgetNote == revise' = NoNote

Active == state \notin Terminal

(* tasks[currentTaskIndex] != null *)
HasTask == taskIndex < Len(tasks)
ExpectFailing == IF HasTask THEN tasks[taskIndex + 1] ELSE {}
HasMoreTasks == taskIndex < Len(tasks) - 1
HasChecks == Checks # {}

(* INTEGRATE carries no exemption: the evidence guard is strict here.       *)
MayIntegrateExempt == EvidenceComplete(evidence, ExpectFailing)
MayIntegrate == EvidenceComplete(evidence, {})

-----------------------------------------------------------------------------
(* Effects and entry actions.                                              *)

Do(effect) == [do |-> effect, phase |-> "none"]
SendPrompt(phase) == [do |-> "sendPrompt", phase |-> phase]
TaskPrompt == SendPrompt(IF mode = "investigation"
                         THEN "execute-task-investigation" ELSE "execute-task")

(* Enter a state that stamps its own name and requests `effects`.           *)
Enter(s, effects) ==
    /\ state' = s
    /\ resumeState' = s
    /\ fx' = effects

(* Enter a state that leaves the return address alone.                      *)
EnterSilently(s, effects) ==
    /\ state' = s
    /\ fx' = effects
    /\ UNCHANGED resumeState

(* A state that opens a turn forgets what the previous turn produced.       *)
OpenTurnUnstamped(s, effects) == EnterSilently(s, effects) /\ turnEvents' = {}
OpenTurn(s, effects) == Enter(s, effects) /\ turnEvents' = {}

EnterExploring == OpenTurn("exploring", <<SendPrompt("explore")>>)
EnterProposing == OpenTurn("proposing", <<SendPrompt("propose")>>)
EnterPlanning == OpenTurn("planning", <<SendPrompt("plan")>>)
EnterRevising == OpenTurn("revising", <<TaskPrompt>>)
EnterVerifying == OpenTurn("verifying", <<Do("runVerification")>>)

(* executing's entry: new work invalidates the previous verification.       *)
EnterExecuting(before) ==
    /\ OpenTurn("executing", before \o <<Do("checkpoint"), TaskPrompt>>)
    /\ evidence' = NoItems
    /\ runId' = NoRun
    /\ taskRisk' = "unknown"

(* APPROVE_PLAN's transition, sent by a click or raised.                    *)
ApprovePlanWith(newTasks, before) ==
    /\ planApproved' = TRUE
    /\ tasks' = newTasks
    /\ taskIndex' = 0
    /\ EnterExecuting(before \o <<Do("recordPlan")>>)
    /\ UNCHANGED taskApprovals

NoteTaskApprovalLate == taskApprovals' = taskApprovals \cup {taskIndex + 1}
NoteTaskApproval == taskApprovals' = taskApprovals \cup {taskIndex}

(* APPROVE_TASK's transition, sent by a click or raised; `items` is the     *)
(* evidence the machine holds by then.                                      *)
ApproveTaskWith(items, before) ==
    /\ NoteTaskApproval
    /\ \/ /\ HasMoreTasks
          /\ taskIndex' = taskIndex + 1
          /\ EnterExecuting(before \o <<Do("markTaskVerified")>>)
       \/ /\ ~HasMoreTasks
          /\ Enter("integrating", before)
          /\ evidence' = items
          /\ UNCHANGED <<taskIndex, runId, taskRisk, turnEvents>>
    /\ UNCHANGED <<planApproved, tasks>>

(* awaitingReview's entry: Low Energy Mode approves a low-risk task itself. *)
EnterAwaitingReview(items, before) ==
    \/ /\ lowEnergy /\ taskRisk = "low"
       /\ ApproveTaskWith(items, before \o <<Do("noteAutoApprovedTask")>>)
    \/ /\ ~(lowEnergy /\ taskRisk = "low")
       /\ Enter("awaitingReview", before)
       /\ evidence' = items
       /\ UNCHANGED <<plan, runId, taskRisk, turnEvents>>

(* rollingBack: its entry, then `always: 'executing'`.                      *)
RollBack ==
    /\ EnterExecuting(<<Do("rollbackToCheckpoint")>>)
    /\ UNCHANGED <<plan, revise, mode, lowEnergy>>

-----------------------------------------------------------------------------
(* User commands.  What the machine can take, of which clients are told     *)
(* before anything is sent, is the states that list the command and the     *)
(* guards there; PAUSE, CANCEL and SET_LOW_ENERGY are taken while Active.   *)

CanStart == state = "idle"
CanAnswer == state = "clarifying"
CanDecide == state = "awaitingDecision"
CanApprovePlan == state = "awaitingPlanApproval"
CanApproveTask == state = "awaitingReview"
CanRevise == state \in {"awaitingDecision", "awaitingPlanApproval",
                        "awaitingReview", "paused"}
CanRollBack == state = "awaitingReview" \/ (state = "paused" /\ HasTask)
CanResume == state = "paused"
CanIntegrate == state = "integrating"

Start ==
    /\ CanStart
    /\ EnterExploring
    /\ UNCHANGED <<mode, lowEnergy, plan, proof, revise>>

AnswerClarification ==
    /\ CanAnswer
    /\ EnterExploring
    /\ UNCHANGED <<mode, lowEnergy, plan, proof, revise>>

Decide ==
    /\ CanDecide
    /\ EnterPlanning
    /\ UNCHANGED <<mode, lowEnergy, plan, proof, revise>>

(* The command may carry an edited task list.                               *)
ApprovePlan ==
    /\ CanApprovePlan
    /\ \E edited \in Plans \cup {tasks} : ApprovePlanWith(edited, <<>>)
    /\ UNCHANGED <<mode, lowEnergy, revise>>

ApproveTask ==
    /\ CanApproveTask
    /\ ApproveTaskWith(evidence, <<>>)
    /\ UNCHANGED <<mode, lowEnergy, revise>>

Revise ==
    /\ CanRevise
    /\ \/ /\ state = "awaitingDecision"
          /\ EnterProposing
          /\ revise' = Note("proposal")
       \/ /\ state = "awaitingPlanApproval"
          /\ EnterPlanning
          /\ revise' = Note("plan")
       \/ /\ state \in {"awaitingReview", "paused"}
          /\ EnterRevising
          /\ revise' = Note("task")
    /\ UNCHANGED <<mode, lowEnergy, plan, proof>>

Rollback ==
    /\ CanRollBack
    /\ RollBack

Pause ==
    /\ Active
    /\ EnterSilently("paused", <<>>)
    /\ UNCHANGED <<mode, lowEnergy, plan, proof, revise, turnEvents>>

Resume ==
    /\ CanResume
    /\ \/ /\ resumeState = "exploring" /\ EnterExploring
          /\ UNCHANGED <<plan, proof>>
       \/ /\ resumeState = "proposing" /\ EnterProposing
          /\ UNCHANGED <<plan, proof>>
       \/ /\ resumeState = "planning" /\ EnterPlanning
          /\ UNCHANGED <<plan, proof>>
       \/ /\ resumeState = "executing" /\ EnterExecuting(<<>>)
          /\ UNCHANGED plan
       \/ /\ resumeState = "verifying" /\ EnterVerifying
          /\ UNCHANGED <<plan, proof>>
       \/ /\ resumeState = "revising" /\ EnterRevising
          /\ UNCHANGED <<plan, proof>>
       \/ /\ resumeState = "awaitingReview"
          /\ EnterAwaitingReview(evidence, <<>>)
       \/ /\ resumeState = "integrating" /\ Enter("integrating", <<>>)
          /\ UNCHANGED <<plan, proof, turnEvents>>
       \/ /\ resumeState \notin Resumable /\ Enter("idle", <<>>)
          /\ UNCHANGED <<plan, proof, turnEvents>>
    /\ UNCHANGED <<mode, lowEnergy, revise>>

Cancel ==
    /\ Active
    /\ EnterSilently("cancelled", <<>>)
    /\ UNCHANGED <<mode, lowEnergy, plan, proof, revise, turnEvents>>

SetLowEnergy ==
    /\ Active
    /\ lowEnergy' = ~lowEnergy
    /\ fx' = <<>>
    /\ UNCHANGED <<state, resumeState, mode, plan, proof, revise, turnEvents>>

Integrate ==
    /\ CanIntegrate
    /\ \/ /\ MayIntegrate
          /\ EnterSilently("done", <<Do("finishObjective")>>)
       \/ /\ ~MayIntegrate
          /\ EnterSilently("paused", <<>>)
    /\ UNCHANGED <<mode, lowEnergy, plan, proof, revise, turnEvents>>

-----------------------------------------------------------------------------
(* Agent events: noted wherever the state lists them, dropped elsewhere.   *)

Accepts(e) ==
    \/ e \in {"status", "failure"} /\ Active
    \/ e = "clarification" /\ state = "exploring"
    \/ e = "decision_needed" /\ state = "proposing"
    \/ e = "task_result" /\ state \in {"executing", "revising"}
    \/ e = "evidence" /\ state \in {"executing", "verifying", "revising"}

EffectsOf(e) ==
    CASE e = "decision_needed" -> <<Do("recordDecision")>>
      [] e = "evidence" -> <<Do("recordEvidence")>>
      [] OTHER -> <<>>

AgentEvent(e) ==
    /\ Accepts(e)
    /\ turnEvents' = turnEvents \cup {e}
    /\ fx' = EffectsOf(e)
    /\ UNCHANGED <<state, resumeState, mode, lowEnergy, plan, proof, revise>>

PlanEvent ==
    /\ state = "planning"
    /\ \E proposed \in Plans : tasks' = proposed
    /\ turnEvents' = turnEvents \cup {"plan"}
    /\ fx' = <<Do("recordPlan")>>
    /\ UNCHANGED <<state, resumeState, mode, lowEnergy, taskIndex,
                   planApproved, taskApprovals, proof, revise>>

-----------------------------------------------------------------------------
(* What the server reports: the end of a turn, the verification actor's     *)
(* outcome, and the reconciled evidence set.                                *)

ExploreAlwaysProposes ==
    /\ state = "exploring"
    /\ \/ /\ "clarification" \in turnEvents
          /\ Enter("clarifying", <<>>)
          /\ UNCHANGED turnEvents
       \/ /\ "clarification" \notin turnEvents
          /\ EnterProposing
    /\ UNCHANGED <<mode, lowEnergy, plan, proof, revise>>

ExploreFinished ==
    /\ state = "exploring"
    /\ \/ /\ "clarification" \in turnEvents
          /\ Enter("clarifying", <<>>)
          /\ UNCHANGED turnEvents
       \/ /\ "clarification" \notin turnEvents
          /\ IF mode = "fastfix" THEN EnterPlanning ELSE EnterProposing
    /\ UNCHANGED <<mode, lowEnergy, plan, proof, revise>>

ProposeFinished ==
    /\ state = "proposing"
    /\ \/ /\ "decision_needed" \in turnEvents
          /\ Enter("awaitingDecision", <<>>)
       \/ /\ "decision_needed" \notin turnEvents
          /\ EnterSilently("paused", <<>>)
    /\ ForgetNote
    /\ UNCHANGED <<mode, lowEnergy, plan, proof, turnEvents>>

(* A Fast Fix plan of at most one task approves itself on entry.            *)
PlanFinished ==
    /\ state = "planning"
    /\ \/ /\ "plan" \in turnEvents
          /\ mode = "fastfix" /\ Len(tasks) <= 1
          /\ ApprovePlanWith(tasks, <<Do("noteAutoApprovedPlan")>>)
       \/ /\ "plan" \in turnEvents
          /\ ~(mode = "fastfix" /\ Len(tasks) <= 1)
          /\ Enter("awaitingPlanApproval", <<>>)
          /\ UNCHANGED <<plan, proof, turnEvents>>
       \/ /\ "plan" \notin turnEvents
          /\ EnterSilently("paused", <<>>)
          /\ UNCHANGED <<plan, proof, turnEvents>>
    /\ ForgetNote
    /\ UNCHANGED <<mode, lowEnergy>>

ExecuteFinished ==
    /\ state = "executing"
    /\ \/ /\ "failure" \in turnEvents
          /\ EnterSilently("paused", <<>>)
          /\ UNCHANGED turnEvents
       \/ /\ "failure" \notin turnEvents
          /\ EnterVerifying
    /\ UNCHANGED <<mode, lowEnergy, plan, proof, revise>>

ReviseFinishedJudged ==
    /\ state = "revising"
    /\ OpenTurn("verifying", <<Do("runVerification"), Do("reconcileEvidence")>>)
    /\ ForgetNote
    /\ UNCHANGED <<mode, lowEnergy, plan, proof>>

ReviseFinished ==
    /\ state = "revising"
    /\ EnterVerifying
    /\ ForgetNote
    /\ UNCHANGED <<mode, lowEnergy, plan, proof>>

VerifyFinished ==
    /\ state = "verifying"
    /\ fx' = <<Do("reconcileEvidence")>>
    /\ UNCHANGED <<state, resumeState, mode, lowEnergy, plan, proof, revise,
                   turnEvents>>

TurnFinished ==
    \/ ExploreFinished \/ ProposeFinished \/ PlanFinished
    \/ ExecuteFinished \/ ReviseFinished \/ VerifyFinished

(* Accepted in every state that is not final, the waiting ones included.    *)
TurnFailed ==
    /\ Active
    /\ EnterSilently("paused", <<>>)
    /\ UNCHANGED <<mode, lowEnergy, plan, proof, revise, turnEvents>>

(* The agent is asked only about what no command can prove.                 *)
JudgedAtOnce == <<SendPrompt("verify"), Do("reconcileEvidence")>>
Judged == <<IF HasChecks THEN SendPrompt("verify") ELSE Do("reconcileEvidence")>>

VerificationDone(run, risk) ==
    /\ state = "verifying"
    /\ runId' = run
    /\ taskRisk' = risk
    /\ fx' = Judged
    /\ UNCHANGED <<state, resumeState, mode, lowEnergy, plan, evidence, revise,
                   turnEvents>>

VerificationFailed ==
    /\ state = "verifying"
    /\ EnterSilently("paused", <<>>)
    /\ UNCHANGED <<mode, lowEnergy, plan, proof, revise, turnEvents>>

EvidenceResult(items) ==
    \/ /\ state = "verifying"
       /\ EvidenceComplete(items, ExpectFailing)
       /\ EnterAwaitingReview(items, <<Do("noteToleratedFailures")>>)
       /\ UNCHANGED <<mode, lowEnergy, revise>>
    \/ /\ state = "verifying"
       /\ ~EvidenceComplete(items, ExpectFailing)
       /\ EnterSilently("paused", <<>>)
       /\ evidence' = items
       /\ UNCHANGED <<mode, lowEnergy, plan, runId, taskRisk, revise, turnEvents>>
    \/ /\ state = "integrating"
       /\ evidence' = items
       /\ fx' = <<>>
       /\ UNCHANGED <<state, resumeState, mode, lowEnergy, plan, runId,
                      taskRisk, revise, turnEvents>>

-----------------------------------------------------------------------------
Init ==
    /\ state = "idle"
    /\ resumeState = "idle"
    /\ mode \in Modes
    /\ lowEnergy \in BOOLEAN
    /\ tasks = <<>>
    /\ taskIndex = 0
    /\ evidence = NoItems
    /\ runId = NoRun
    /\ taskRisk = "unknown"
    /\ planApproved = FALSE
    /\ taskApprovals = {}
    /\ revise = NoNote
    /\ turnEvents = {}
    /\ fx = <<>>

UserCommand ==
    \/ Start \/ AnswerClarification \/ Decide \/ ApprovePlan \/ ApproveTask
    \/ Revise \/ Rollback \/ Pause \/ Resume \/ Cancel \/ SetLowEnergy
    \/ Integrate

Next ==
    \/ UserCommand
    \/ \E e \in AgentEvents : AgentEvent(e)
    \/ PlanEvent
    \/ TurnFinished
    \/ TurnFailed
    \/ \E run \in Runs, risk \in {"low", "high"} : VerificationDone(run, risk)
    \/ VerificationFailed
    \/ \E items \in Items : EvidenceResult(items)

Spec == Init /\ [][Next]_vars
-----------------------------------------------------------------------------
(* Properties.                                                             *)

Note_ == [about : {"none", "proposal", "plan", "task"}, task : 0..MaxTasks]

TypeOK ==
    /\ state \in States
    /\ resumeState \in PlanStates \cup WorkStates
    /\ mode \in Modes
    /\ lowEnergy \in BOOLEAN
    /\ tasks \in Plans \cup {<<>>}
    /\ taskIndex \in 0..(MaxTasks - 1)
    /\ evidence \in Items
    /\ runId \in Runs \cup {NoRun}
    /\ taskRisk \in {"unknown", "low", "high"}
    /\ planApproved \in BOOLEAN
    /\ taskApprovals \subseteq 0..(MaxTasks - 1)
    /\ revise \in Note_
    /\ turnEvents \subseteq AgentEvents

(* The evidence guard's locked semantics: an objective that is done holds a *)
(* set that is green without any task's expectFailing exemption, whatever   *)
(* was tolerated on the way and whatever arrived while it waited to be      *)
(* integrated.                                                              *)
DoneIsProven == state = "done" => EvidenceComplete(evidence, {})

(* A task offered for review - now, or after a RESUME - is backed by a set  *)
(* that is complete up to what that very task declared it would fail.       *)
ReviewIsEvidenced ==
    \/ state = "awaitingReview"
    \/ state = "paused" /\ resumeState = "awaitingReview"
    => EvidenceComplete(evidence, ExpectFailing)

(* Work on a task means that every earlier one was approved, and an         *)
(* objective that reached integration had every task of its plan approved,  *)
(* by hand or by the low-risk policy.                                       *)
ReviewedInOrder ==
    /\ \A i \in 0..(taskIndex - 1) : i \in taskApprovals
    /\ state \in {"integrating", "done"} =>
         \A i \in 0..(Len(tasks) - 1) : i \in taskApprovals

(* A revision note reaches only the prompt it was written for while there   *)
(* is no work yet: explore gets none, propose a note on the proposal, plan  *)
(* a note on the plan.                                                      *)
PlanningNotesFit ==
    /\ state \in {"idle", "exploring", "clarifying"} => revise = NoNote
    /\ state = "proposing" => revise.about \in {"none", "proposal"}
    /\ state = "planning" => revise.about \in {"none", "plan"}

(* Once work has begun the objective never falls back to planning, its plan *)
(* is never replaced under it, and its position only moves forward: a       *)
(* PAUSE, a failed turn, a REVISE or a ROLLBACK loses no approved task.     *)
WorkKeepsItsPlan ==
    [][(resumeState \in WorkStates) =>
         /\ resumeState' \in WorkStates
         /\ tasks' = tasks
         /\ taskApprovals \subseteq taskApprovals'
         /\ taskIndex' \in {taskIndex, taskIndex + 1}]_vars

(* Where the objective stands, for one who is told no more than that: a     *)
(* pause keeps the place of what it interrupted.                            *)
Stage ==
    IF state \in Terminal THEN state
    ELSE IF resumeState \in PlanStates THEN "planning" ELSE "working"

Promise == INSTANCE Objective
           WITH stage <- Stage, position <- taskIndex, approved <- taskApprovals

(* Whatever legal sequence of commands, pauses, failures, revisions and     *)
(* rollbacks it takes, the machine implements an objective that is planned, *)
(* then worked through in order on one plan and approved on proof alone,    *)
(* unseen only in Low Energy Mode, and that is done when all of it is.      *)
KeepsItsPromise == Promise!Spec
=============================================================================
